-------------------------- MODULE AnalyticsConsumer --------------------------
(***************************************************************************)
(* The analytics engine's main loop: AnalyticsConsumer.run() of            *)
(* analytics-engine/src/consumer.py with the PingWindowBuffer and the      *)
(* _DeviationResultTracker it owns, MetricsWriter.persist_window() of      *)
(* db/writer.py, and the part of Kafka (one partition, one group) and of   *)
(* MongoDB (the deviations collection) the loop relies on.                 *)
(*                                                                         *)
(* A ping is an offset of the log; what the schedule-deviation metric sees *)
(* of it is its natural key -- (vehicle, trip, stop sequence) of a stopped *)
(* vehicle at a scheduled stop, or NoKey for any other ping -- and its     *)
(* timestamp.  Event time (ts) and the wall clock (Tick) are independent:  *)
(* the loop uses the first for the window's contents and the second only   *)
(* for the window timer and the backoff.  Bunching is the other half of a  *)
(* window's output; here it only matters that there may be some to write   *)
(* and that the write may fail (BunchingTracker models what is in it).     *)
(***************************************************************************)
EXTENDS Integers, Sequences, FiniteSets

CONSTANTS
    Keys,           \* natural keys of arrivals: vehicle, trip, stop sequence
    NoKey,          \* a ping that is not a stopped vehicle at a known stop
    Scheduled,      \* [Keys -> Int]: scheduled arrival of each key
    MaxDeviation,   \* MAX_DEVIATION_SECONDS, the ghost-shift gate
    Overlap,        \* PingWindowBuffer.overlap_seconds
    Retention,      \* TRACKER_RETENTION_SECONDS
    Window,         \* window_seconds, in wall-clock ticks
    RetryBase,      \* retry_base_seconds, in wall-clock ticks
    RetryMax,       \* retry_max_seconds
    RetryJitter,    \* retry_jitter_seconds
    Kinds,          \* message kinds produced: "ping", "malformed", "poison"
    QuietCommitRaises, \* commit() with no new offset raises, see CommitRaises
    ComputeOutcomes,\* what the deviation computation may do, see Compute
    MaxTs,          \* bound: event timestamps are 0..MaxTs
    MaxLog,         \* bound: messages ever published
    MaxCrashes,     \* bound: process kills
    MaxOutages      \* bound: windows whose MongoDB write fails

ASSUME KeysAssumption == NoKey \notin Keys
ASSUME TimeAssumption ==
    /\ Overlap \in Nat /\ Retention \in Nat /\ MaxDeviation \in Nat
    /\ Scheduled \in [Keys -> Int]
    /\ Window \in Nat \ {0}
    /\ RetryBase \in Nat /\ RetryMax \in Nat /\ RetryJitter \in Nat
ASSUME BoundsAssumption ==
    /\ MaxTs \in Nat /\ MaxLog \in Nat /\ MaxCrashes \in Nat /\ MaxOutages \in Nat
ASSUME KindsAssumption ==
    /\ Kinds \subseteq {"ping", "malformed", "poison"}
    /\ ComputeOutcomes \subseteq {"ok", "failed_before_dedup", "failed_after_dedup"}
    /\ "ok" \in ComputeOutcomes
    /\ QuietCommitRaises \in BOOLEAN

VARIABLES
    log,         \* the topic: a sequence of messages, never shortened
    committed,   \* the group's committed position, or None
    pc,          \* where run() is
    position,    \* how many messages this consumer has been handed
    rows,        \* PingWindowBuffer._rows, as offsets
    seen,        \* _DeviationResultTracker._seen: natural key and actual_at
    batch,       \* the DataFrame being processed: what flush() returned
    bunching,    \* the window has bunching actions to write
    window,      \* WindowResult.new_deviations
    complete,    \* every write of this window so far reported success
    sinceFlush,  \* ticks since last_window_flush, saturating at Window
    backoffLeft, \* ticks until _backoff_until
    failures,    \* _consecutive_failures
    mongo,       \* the deviations collection: natural key and actual_at
    crashes,     \* process kills so far
    outages,     \* windows whose write failed so far
    handled,     \* history: offsets of batches whose writes were attempted
    dropped,     \* history: offsets discarded by a flush during backoff
    missed,      \* history: offsets a start at "latest" skipped
    lostKeys     \* history: keys whose result was computed and not confirmed

process == <<position, rows, seen, batch, bunching, window, complete,
             sinceFlush, backoffLeft, failures>>
history == <<handled, dropped, missed, lostKeys>>
vars == <<log, committed, pc, process, mongo, crashes, outages, history>>

-----------------------------------------------------------------------------
None == -1

Offsets == 1..Len(log)
IsPing(o) == log[o].kind = "ping"
Ts(o) == log[o].ts
Arrival(o) == [key |-> log[o].key, ts |-> log[o].ts]
Arrivals == [key : Keys, ts : 0..MaxTs]

\* Everything loaded into the process at once: crash, exit, or start.
Cleared ==
    /\ rows' = {} /\ seen' = {} /\ batch' = {}
    /\ bunching' = FALSE /\ window' = {} /\ complete' = TRUE
    /\ sinceFlush' = 0 /\ backoffLeft' = 0 /\ failures' = 0

\* The rows kept for the next window: those within Overlap of the newest.
CarryForward(S) == {o \in S : \A p \in S : Ts(o) >= Ts(p) - Overlap}

\* Mutant: the collapse keeps the last ping of every key.
FirstArrivals_Last(S) ==
    {Arrival(o) : o \in {q \in S : /\ log[q].key \in Keys
                                   /\ \A p \in S : log[p].key = log[q].key
                                                     => Ts(q) >= Ts(p)}}

\* collapse_to_first_arrival: the earliest ping of every key present in S.
FirstArrivals(S) ==
    {Arrival(o) : o \in {q \in S : /\ log[q].key \in Keys
                                   /\ \A p \in S : log[p].key = log[q].key
                                                     => Ts(q) <= Ts(p)}}

\* The results of a window that pass the 30-minute gate.
Gated(results) ==
    {r \in results : /\ r.ts - Scheduled[r.key] <= MaxDeviation
                     /\ Scheduled[r.key] - r.ts <= MaxDeviation}

\* filter_new: the results whose key the tracker has not seen ...
Fresh(results) == {r \in results : \A e \in seen : e.key # r.key}

\* Mutant: the tracker keeps a key only as long as the buffer keeps a row.
Purged_ByOverlap(entries, S) ==
    {e \in entries : \A p \in S : e.ts >= Ts(p) - Overlap}

\* ... after which entries older than the window's newest ping are purged.
Purged(entries, S) ==
    {e \in entries : \A p \in S : e.ts >= Ts(p) - Retention}

\* Deviations are upserted on their natural key.
Upsert(docs, results) ==
    {d \in docs : \A r \in results : r.key # d.key} \cup results

KeysOf(records) == {r.key : r \in records}

\* The delay _enter_backoff may draw after n consecutive failures.
Delays(n) ==
    LET capped == IF RetryMax <= RetryBase * 2^n THEN RetryMax ELSE RetryBase * 2^n
    IN  {d \in 0..(RetryMax + RetryJitter) :
            \E jitter \in 0..RetryJitter : d = capped + jitter}

Messages ==
    [kind : {"ping"}, key : Keys \cup {NoKey}, ts : 0..MaxTs]
        \cup [kind : {"malformed", "poison"}, key : {NoKey}, ts : {0}]

Init ==
    /\ log = <<>>
    /\ committed = None
    /\ pc = "down"
    /\ position = 0
    /\ rows = {} /\ seen = {} /\ batch = {}
    /\ bunching = FALSE /\ window = {} /\ complete = TRUE
    /\ sinceFlush = 0 /\ backoffLeft = 0 /\ failures = 0
    /\ mongo = {}
    /\ crashes = 0 /\ outages = 0
    /\ handled = {} /\ dropped = {} /\ missed = {} /\ lostKeys = {}
-----------------------------------------------------------------------------
(* The environment: the producer, the wall clock, process kills.           *)

\* The ingestion service publishes a message.  The log is one partition and
\* vehicle_id is the Kafka key, so the timestamps of one natural key never
\* step back; those of different vehicles interleave freely.
Publish ==
    /\ Len(log) < MaxLog
    /\ \E m \in Messages :
        /\ m.kind \in Kinds
        /\ m.key \in Keys => \A o \in Offsets : log[o].key = m.key => Ts(o) <= m.ts
        /\ log' = Append(log, m)
    /\ UNCHANGED <<committed, pc, process, mongo, crashes, outages, history>>

\* Time passes where the loop waits: in poll() and before the timer check.
Tick ==
    /\ pc \in {"poll", "check"}
    /\ sinceFlush < Window \/ backoffLeft > 0
    /\ sinceFlush' = IF sinceFlush < Window THEN sinceFlush + 1 ELSE Window
    /\ backoffLeft' = IF backoffLeft > 0 THEN backoffLeft - 1 ELSE 0
    /\ UNCHANGED <<log, committed, pc, position, rows, seen, batch, bunching,
                   window, complete, failures, mongo, crashes, outages, history>>

\* Mutant: the offset stored is the last one read, and Start resumes after it.
Start_OffByOne ==
    /\ pc = "down"
    /\ pc' = "poll"
    /\ position' = IF committed = None THEN Len(log) ELSE committed + 1
    /\ missed' = IF committed = None THEN missed \cup Offsets ELSE missed
    /\ Cleared
    /\ UNCHANGED <<log, committed, mongo, crashes, outages, handled, dropped, lostKeys>>

\* Mutant: every start seeks to the end of the log.
Start_AlwaysLatest ==
    /\ pc = "down"
    /\ pc' = "poll"
    /\ position' = Len(log)
    /\ missed' = IF committed = None THEN missed \cup Offsets ELSE missed
    /\ Cleared
    /\ UNCHANGED <<log, committed, mongo, crashes, outages, handled, dropped, lostKeys>>

\* Mutant: every start replays the log from its beginning.
Start_AlwaysEarliest ==
    /\ pc = "down"
    /\ pc' = "poll"
    /\ position' = 0
    /\ Cleared
    /\ UNCHANGED <<log, committed, mongo, crashes, outages, history>>

\* The container starts: run() subscribes and resumes at the committed
\* offset, or, with none, at the end of the log (auto.offset.reset=latest).
Start ==
    /\ pc = "down"
    /\ pc' = "poll"
    /\ position' = IF committed = None THEN Len(log) ELSE committed
    /\ missed' = IF committed = None THEN missed \cup Offsets ELSE missed
    /\ Cleared
    /\ UNCHANGED <<log, committed, mongo, crashes, outages, handled, dropped, lostKeys>>

\* The process dies: kill, OOM, or a KafkaException raised out of poll().
Crash ==
    /\ pc # "down"
    /\ crashes < MaxCrashes
    /\ crashes' = crashes + 1
    /\ pc' = "down"
    /\ position' = 0
    /\ Cleared
    /\ UNCHANGED <<log, committed, mongo, outages, history>>

-----------------------------------------------------------------------------
(* One iteration of run(): poll, then flush if the window has elapsed.     *)

\* Mutant: enable.auto.commit left on.
PollMessage_AutoCommit ==
    /\ pc = "poll"
    /\ position < Len(log)
    /\ position' = position + 1
    /\ committed' = position + 1
    /\ IF log[position + 1].kind = "malformed"
         THEN UNCHANGED <<pc, rows>>
         ELSE pc' = "check" /\ rows' = rows \cup {position + 1}
    /\ UNCHANGED <<log, seen, batch, bunching, window, complete,
                   sinceFlush, backoffLeft, failures, mongo, crashes, outages, history>>

\* poll() hands over the next message.  A malformed one is skipped with
\* `continue`, past the timer check; anything json.loads accepts is buffered.
PollMessage ==
    /\ pc = "poll"
    /\ position < Len(log)
    /\ position' = position + 1
    /\ IF log[position + 1].kind = "malformed"
         THEN UNCHANGED <<pc, rows>>
         ELSE pc' = "check" /\ rows' = rows \cup {position + 1}
    /\ UNCHANGED <<log, committed, seen, batch, bunching, window, complete,
                   sinceFlush, backoffLeft, failures, mongo, crashes, outages, history>>

\* poll() times out; the broker may be slow, so messages may be waiting.
PollNothing ==
    /\ pc = "poll"
    /\ pc' = "check"
    /\ UNCHANGED <<log, committed, process, mongo, crashes, outages, history>>

\* The window has not elapsed.
NotDue ==
    /\ pc = "check"
    /\ sinceFlush < Window
    /\ pc' = "poll"
    /\ UNCHANGED <<log, committed, process, mongo, crashes, outages, history>>

\* flush() raises on a row without a readable timestamp; nothing catches it,
\* run()'s finally closes the consumer and main() exits.
FlushRaises ==
    /\ pc = "check"
    /\ sinceFlush = Window
    /\ \E o \in rows : log[o].kind = "poison"
    /\ pc' = "down"
    /\ position' = 0
    /\ Cleared
    /\ UNCHANGED <<log, committed, mongo, crashes, outages, history>>

Flushable == \A o \in rows : log[o].kind # "poison"

\* An empty window: _process_window returns None, so neither commit nor backoff.
FlushEmpty ==
    /\ pc = "check"
    /\ sinceFlush = Window
    /\ rows = {}
    /\ pc' = "poll"
    /\ sinceFlush' = 0
    /\ UNCHANGED <<log, committed, position, rows, seen, batch, bunching, window,
                   complete, backoffLeft, failures, mongo, crashes, outages, history>>

\* Mutant: a flush that finds the backoff running starts it anew.
FlushInBackoff_Extends ==
    /\ pc = "check"
    /\ sinceFlush = Window
    /\ rows # {} /\ Flushable
    /\ backoffLeft > 0
    /\ rows' = CarryForward(rows)
    /\ dropped' = dropped \cup (rows \ CarryForward(rows))
    /\ sinceFlush' = 0
    /\ backoffLeft' = RetryMax
    /\ pc' = "poll"
    /\ UNCHANGED <<log, committed, position, seen, batch, bunching, window, complete,
                   failures, mongo, crashes, outages, handled, missed, lostKeys>>

\* In backoff the flushed frame is deleted; the buffer keeps its carry-forward.
FlushInBackoff ==
    /\ pc = "check"
    /\ sinceFlush = Window
    /\ rows # {} /\ Flushable
    /\ backoffLeft > 0
    /\ rows' = CarryForward(rows)
    /\ dropped' = dropped \cup (rows \ CarryForward(rows))
    /\ sinceFlush' = 0
    /\ pc' = "poll"
    /\ UNCHANGED <<log, committed, position, seen, batch, bunching, window, complete,
                   backoffLeft, failures, mongo, crashes, outages,
                   handled, missed, lostKeys>>

\* The two try blocks of _process_window.  Bunching fails to []; deviations
\* fail to [] either before the tracker was consulted or after it recorded
\* the results ("failed_after_dedup": enrichment raised).
Compute ==
    \E outcome \in ComputeOutcomes :
        LET results == Gated(FirstArrivals(rows))
            fresh   == Fresh(results)
        IN  /\ bunching' \in BOOLEAN
            /\ window' = IF outcome = "ok" THEN fresh ELSE {}
            /\ seen' = IF outcome = "failed_before_dedup"
                         THEN seen
                         ELSE Purged(seen \cup fresh, rows)
            /\ lostKeys' = IF outcome = "ok" THEN lostKeys
                                             ELSE lostKeys \cup KeysOf(results)

\* The window is due and no backoff holds: flush and compute.
Flush ==
    /\ pc = "check"
    /\ sinceFlush = Window
    /\ rows # {} /\ Flushable
    /\ backoffLeft = 0
    /\ batch' = rows
    /\ rows' = CarryForward(rows)
    /\ Compute
    /\ complete' = TRUE
    /\ pc' = "write_bunching"
    /\ UNCHANGED <<log, committed, position, sinceFlush, backoffLeft, failures,
                   mongo, crashes, outages, handled, dropped, missed>>

-----------------------------------------------------------------------------
(* persist_window: two bulk writes, each swallowing its PyMongoError, then *)
(* the verdict that decides between commit and backoff.                    *)

\* Mutant: a failed bunching write skips the deviations write.
WriteBunching_ShortCircuit ==
    /\ pc = "write_bunching"
    /\ \/ complete' = TRUE /\ pc' = "write_deviations"
       \/ /\ bunching /\ outages < MaxOutages
          /\ complete' = FALSE /\ pc' = "enter_backoff"
    /\ UNCHANGED <<log, committed, position, rows, seen, batch, bunching, window,
                   sinceFlush, backoffLeft, failures, mongo, crashes, outages, history>>

\* write_bunching_actions: nothing to write never touches MongoDB.
WriteBunching ==
    /\ pc = "write_bunching"
    /\ \/ complete' = TRUE
       \/ bunching /\ outages < MaxOutages /\ complete' = FALSE
    /\ pc' = "write_deviations"
    /\ UNCHANGED <<log, committed, position, rows, seen, batch, bunching, window,
                   sinceFlush, backoffLeft, failures, mongo, crashes, outages, history>>

\* write_deviation_results succeeds, or has nothing to write.
WriteDeviations ==
    /\ pc = "write_deviations"
    /\ mongo' = Upsert(mongo, window)
    /\ handled' = handled \cup batch
    /\ pc' = IF complete THEN "commit" ELSE "enter_backoff"
    /\ UNCHANGED <<log, committed, process, crashes, outages, dropped, missed, lostKeys>>

\* Mutant: a partial bulk write counts as success.
WriteDeviationsFails_Ignored ==
    /\ pc = "write_deviations"
    /\ window # {}
    /\ outages < MaxOutages
    /\ \E part \in SUBSET window : mongo' = Upsert(mongo, part)
    /\ handled' = handled \cup batch
    /\ lostKeys' = lostKeys \cup KeysOf(window)
    /\ pc' = "commit"
    /\ UNCHANGED <<log, committed, process, crashes, outages, dropped, missed>>

\* The unordered bulk write fails after storing any part of the results.
WriteDeviationsFails ==
    /\ pc = "write_deviations"
    /\ window # {}
    /\ outages < MaxOutages
    /\ \E part \in SUBSET window : mongo' = Upsert(mongo, part)
    /\ handled' = handled \cup batch
    /\ lostKeys' = lostKeys \cup KeysOf(window)
    /\ complete' = FALSE
    /\ pc' = "enter_backoff"
    /\ UNCHANGED <<log, committed, position, rows, seen, batch, bunching, window,
                   sinceFlush, backoffLeft, failures, crashes, outages, dropped, missed>>

\* The batch is finished with: its frame, results and verdict are discarded.
EndOfWindow ==
    /\ batch' = {} /\ window' = {} /\ bunching' = FALSE /\ complete' = TRUE
    /\ sinceFlush' = 0
    /\ pc' = "poll"

\* Every message handed over is already committed: the window held nothing but
\* carried-forward rows, because no message came since the last commit.
Quiet == position = committed

\* Mutant: the carried-forward rows are left uncommitted, to be read again.
Commit_BeforeCarryForward ==
    /\ pc = "commit"
    /\ committed' = position - Cardinality(rows)
    /\ failures' = 0 /\ backoffLeft' = 0
    /\ EndOfWindow
    /\ UNCHANGED <<log, position, rows, seen, mongo, crashes, outages, history>>

\* success: consumer.commit() commits the consumer's current position.
Commit ==
    /\ pc = "commit"
    /\ ~(Quiet /\ QuietCommitRaises)
    /\ committed' = position
    /\ failures' = 0 /\ backoffLeft' = 0
    /\ EndOfWindow
    /\ UNCHANGED <<log, position, rows, seen, mongo, crashes, outages, history>>

\* The synchronous commit of a quiet window: the Kafka client has no offset
\* newer than the committed one, reports _NO_OFFSET, and the KafkaException
\* leaves run().  A client that ignored it is QuietCommitRaises = FALSE.
CommitRaises ==
    /\ pc = "commit"
    /\ Quiet /\ QuietCommitRaises
    /\ pc' = "down"
    /\ position' = 0
    /\ Cleared
    /\ UNCHANGED <<log, committed, mongo, crashes, outages, history>>

\* failure: _enter_backoff; the position is neither committed nor rewound.
EnterBackoff ==
    /\ pc = "enter_backoff"
    /\ backoffLeft' \in Delays(failures)
    /\ failures' = failures + 1
    /\ outages' = outages + 1
    /\ EndOfWindow
    /\ UNCHANGED <<log, committed, position, rows, seen, mongo, crashes, history>>

-----------------------------------------------------------------------------
Poll == PollMessage \/ PollNothing
Check == NotDue \/ FlushRaises \/ FlushEmpty \/ FlushInBackoff \/ Flush
Persist == WriteBunching \/ WriteDeviations \/ WriteDeviationsFails
Settle == Commit \/ CommitRaises \/ EnterBackoff

Next == Publish \/ Tick \/ Start \/ Crash \/ Poll \/ Check \/ Persist \/ Settle

Spec == Init /\ [][Next]_vars

\* The loop keeps running, the container restarts (unless-stopped), time
\* passes, and a message that waits is eventually handed over.  Outages are
\* finite (MaxOutages), so no fairness is asked of MongoDB.
Fairness ==
    /\ WF_vars(Tick) /\ WF_vars(Start)
    /\ SF_vars(PollMessage) /\ WF_vars(Poll)
    /\ WF_vars(Check) /\ WF_vars(Persist) /\ WF_vars(Settle)

FairSpec == Spec /\ Fairness

-----------------------------------------------------------------------------
(* Properties.                                                             *)

Phases == {"down", "poll", "check", "write_bunching", "write_deviations",
           "commit", "enter_backoff"}
Writing == {"write_bunching", "write_deviations", "commit", "enter_backoff"}

(***************************************************************************)
(* Every variable has its type; offsets held by the process or recorded as *)
(* committed exist in the log.                                             *)
(***************************************************************************)
TypeOK ==
    /\ log \in Seq(Messages) /\ Len(log) <= MaxLog
    /\ committed \in {None} \cup 0..Len(log)
    /\ pc \in Phases
    /\ position \in 0..Len(log)
    /\ rows \subseteq Offsets /\ batch \subseteq Offsets
    /\ seen \subseteq Arrivals /\ window \subseteq Arrivals /\ mongo \subseteq Arrivals
    /\ bunching \in BOOLEAN /\ complete \in BOOLEAN
    /\ sinceFlush \in 0..Window
    /\ backoffLeft \in 0..(RetryMax + RetryJitter)
    /\ failures \in Nat /\ outages \in Nat /\ crashes \in Nat
    /\ handled \subseteq Offsets /\ dropped \subseteq Offsets /\ missed \subseteq Offsets
    /\ lostKeys \subseteq Keys

\* Offsets the consumer is done with, for better or worse.
Accounted == handled \cup dropped \cup missed

Committed(o) == committed # None /\ o <= committed

(***************************************************************************)
(* No ping is skipped in silence: below the committed offset every message *)
(* that json.loads accepted was in a window whose writes were attempted,   *)
(* was discarded by a flush in backoff, or was already in the topic when   *)
(* the group first started at "latest".  A crash, a restart or an empty    *)
(* window may not let the commit run ahead of that.                        *)
(***************************************************************************)
NoSilentSkip ==
    \A o \in Offsets : Committed(o) /\ log[o].kind # "malformed" => o \in Accounted

(***************************************************************************)
(* A message that makes flush() raise is never committed past: unless the  *)
(* group started beyond it, the consumer cannot get over a poison message, *)
(* and it also never reports one as processed or discarded.                *)
(***************************************************************************)
PoisonBlocks ==
    \A o \in Offsets : log[o].kind = "poison" =>
        /\ o \notin handled \cup dropped
        /\ Committed(o) => o \in missed

(***************************************************************************)
(* The tracker withholds a result only if its key is in MongoDB, is in the *)
(* window being written right now, or belongs to a window whose write (or  *)
(* enrichment) failed.  The last disjunct is the price of marking results  *)
(* as seen before they are stored (consumer.py:618).                       *)
(***************************************************************************)
SuppressionSound ==
    KeysOf(seen) \subseteq
        KeysOf(mongo) \cup lostKeys \cup (IF pc \in Writing THEN KeysOf(window) ELSE {})

(***************************************************************************)
(* The offset moves only for a window that is wholly stored: at the moment *)
(* of consumer.commit() every new deviation of the window is in MongoDB    *)
(* exactly as computed, and both bulk writes reported success.             *)
(***************************************************************************)
CommitAfterStore ==
    [][committed' # committed => complete /\ window \subseteq mongo]_vars

(***************************************************************************)
(* What the at-least-once design does deliver.  Every committed arrival    *)
(* has a document, unless a ping of its key fell outside the 30-minute     *)
(* gate, its key was in a window whose write failed, its ping was dropped  *)
(* in backoff, or it was published before the group first started.         *)
(***************************************************************************)
CommittedStored ==
    \A o \in Offsets :
        Committed(o) /\ log[o].key \in Keys /\ IsPing(o) =>
            \/ log[o].key \in KeysOf(mongo) \cup lostKeys
            \/ o \in dropped \cup missed
            \/ \E p \in Offsets : log[p].key = log[o].key /\ Gated({Arrival(p)}) = {}

(***************************************************************************)
(* guarantees.md section 1, as stated: the offset is committed only if the *)
(* database write was 100% successful, so a committed arrival within the   *)
(* gate has its document.                                                  *)
(***************************************************************************)
AtLeastOnce ==
    \A o \in Offsets :
        /\ Committed(o) /\ o \notin missed /\ IsPing(o) /\ log[o].key \in Keys
        /\ \A p \in Offsets : log[p].key = log[o].key => Gated({Arrival(p)}) # {}
        => log[o].key \in KeysOf(mongo)

(***************************************************************************)
(* Lag drains: without poison messages, every ping that the group did not  *)
(* miss at its first start is eventually below the committed offset, even  *)
(* through an outage and the backoff it causes.                            *)
(***************************************************************************)
LagDrains ==
    \A o \in 1..MaxLog :
        (o \in Offsets /\ IsPing(o)) ~> (Committed(o) \/ o \in missed)

(***************************************************************************)
(* The consumer recovers: once MongoDB stops failing, a later window       *)
(* succeeds and resets the consecutive-failure count.                      *)
(***************************************************************************)
Recovers == (failures > 0) ~> (failures = 0)

-----------------------------------------------------------------------------
(* The consumer implements LogConsumer: what it owes nothing for are the   *)
(* accounted offsets and the messages it skips as malformed.               *)

Log == INSTANCE LogConsumer WITH
    published <- Len(log),
    settled <- Accounted \cup {o \in Offsets : log[o].kind = "malformed"},
    acked <- IF committed = None THEN 0 ELSE committed

(***************************************************************************)
(* Every step of the loop is a step of LogConsumer: the committed offset   *)
(* only ever advances, and only over settled messages, whatever crashes,   *)
(* outages and backoffs happen in between.                                 *)
(***************************************************************************)
ImplementsLogConsumer == Log!Spec
=============================================================================
