----------------------------- MODULE HourlyStats -----------------------------
(***************************************************************************)
(* The hourly statistics of the analytics engine: HourlyAccumulator and    *)
(* PgWriter of db/pg_writer.py, and the buffer of unwritten rows that      *)
(* main() keeps between them (pending_pg_rows, flush_pending_pg_rows,      *)
(* pg_upsert, the finally block).                                          *)
(*                                                                         *)
(* A row of route_hourly_stats is the set of items it was computed from:   *)
(* every column (mean, p95, on-time share, vehicles, bunching events) is a *)
(* function of that set, so two rows with the same items are the same row. *)
(* The callback's own steps are in WindowCallback, which composes this     *)
(* module with the alerter.                                                *)
(***************************************************************************)
EXTENDS WallClock, Sequences, FiniteSets

CONSTANTS
    Routes,             \* the values of route_id, "unknown" among them
    Unknown,            \* the route of a result without route_id
    NoRoute,            \* route_id is None
    ConnectAttempts,    \* connect_pg_with_retry()'s attempts at startup
    MaxWindows,         \* bound: windows that carry results
    MaxOutages          \* bound: outages of PostgreSQL

ASSUME StatsAssumption ==
    /\ IsFiniteSet(Routes)
    /\ Unknown \in Routes /\ NoRoute \notin Routes
    /\ ConnectAttempts \in Nat \ {0}
    /\ MaxWindows \in Nat /\ MaxOutages \in Nat

VARIABLES
    step,               \* where the process is: Steps
    process,            \* how many times the engine was started
    windows,            \* how many windows carried results
    route_data,         \* HourlyAccumulator._route_data: the set of items
    currentHour,        \* HourlyAccumulator._current_hour, or NoHour
    handed,             \* rows maybe_flush() returned, not yet buffered
    pending,            \* main.pending_pg_rows
    waiting,            \* time.monotonic() < next_pg_retry_at
    conn,               \* PgWriter._conn is usable
    attempt,            \* the attempt of connect_pg_with_retry() at startup
    pgUp,               \* PostgreSQL accepts connections
    outages,            \* how often PostgreSQL went away
    table,              \* route_hourly_stats: the stored rows
    counted,            \* history: every item ever accumulated
    excused             \* history: items lost to a reason the code names

life == <<process, windows, attempt>>
accumulator == <<route_data, currentHour>>
buffer == <<handed, pending, waiting>>
server == <<conn, pgUp, outages>>
stored == <<table, counted, excused>>

statsVars == <<step, life, accumulator, buffer, server, stored>>

NoHour == -1

(***************************************************************************)
(* The steps of one process.  "idle" is run() between two windows; the     *)
(* names up to "clear" are the stations of on_window_result(); "stopping"  *)
(* to "last" those of the finally block; "down" is no process.             *)
(***************************************************************************)
CallbackSteps == {"observe", "report", "accumulate", "flush", "handover",
                  "upsert", "clear"}
ShutdownSteps == {"stopping", "forced", "forcedClear", "last", "lastClear", "exit"}
Steps == {"idle", "down", "connecting"} \cup CallbackSteps \cup ShutdownSteps

Running == step \in {"idle"} \cup CallbackSteps

Items == [route: Routes, kind: {"deviation", "bunching"},
          window: 1 .. MaxWindows, at: Hours, by: Nat]
Rows == [route: Routes, hour: Hours, items: SUBSET Items, by: Nat]

KeyOf(row) == <<row.route, row.hour>>

(***************************************************************************)
(* accumulate(): a deviation counts for its route or for "unknown", a      *)
(* bunching action only if it is "new".                                    *)
(***************************************************************************)
RouteOf(result) == IF result.route = NoRoute THEN Unknown ELSE result.route

ItemsOf(results) ==
    {[route |-> RouteOf(r),
      kind |-> IF r.kind = "deviation" THEN "deviation" ELSE "bunching",
      window |-> windows, at |-> HourOf(now), by |-> process] :
        r \in {x \in results : x.kind # "update"}}

(***************************************************************************)
(* _flush(hour): one row per route that has data, in the order of the      *)
(* dictionary; the order is not modelled, any one will do.                 *)
(***************************************************************************)
RowsFor(hour) ==
    LET routes == {i.route : i \in route_data} IN
    {[route |-> r, hour |-> hour, by |-> process,
      items |-> {i \in route_data : i.route = r}] : r \in routes}

AsSequence(rows) ==
    CHOOSE s \in [1 .. Cardinality(rows) -> rows] :
        \A x \in rows : \E n \in DOMAIN s : s[n] = x

Buffered == {pending[n] : n \in DOMAIN pending}

(***************************************************************************)
(* Two rows with one key in a single INSERT ... ON CONFLICT make the       *)
(* statement fail: "cannot affect row a second time".  execute_values      *)
(* sends pages of 100 rows; the buffer here is one page.                   *)
(***************************************************************************)
Poisoned ==
    \E m, n \in DOMAIN pending : m # n /\ KeyOf(pending[m]) = KeyOf(pending[n])

\* INSERT ... ON CONFLICT (route_id, hour) DO UPDATE over the whole buffer.
Merged == {row \in table : \A p \in Buffered : KeyOf(p) # KeyOf(row)}
            \cup Buffered

Replaced == {row \in table : \E p \in Buffered :
                KeyOf(p) = KeyOf(row) /\ p.items # row.items}

StatsTypeOK ==
    /\ step \in Steps
    /\ process \in Nat /\ attempt \in 1 .. ConnectAttempts
    /\ windows \in 0 .. MaxWindows
    /\ route_data \subseteq Items
    /\ currentHour \in Hours \cup {NoHour}
    /\ handed \subseteq Rows
    /\ pending \in Seq(Rows)
    /\ waiting \in BOOLEAN /\ conn \in BOOLEAN /\ pgUp \in BOOLEAN
    /\ outages \in Nat
    /\ table \subseteq Rows
    /\ counted \subseteq Items /\ excused \subseteq Items
    \* rows go from _flush() to the buffer within one callback or shutdown
    /\ handed # {} => step = "handover"
    \* a retry is only ever scheduled for rows that are still buffered
    /\ waiting => pending # <<>>
    \* one row per (route_id, hour): the primary key
    /\ \A x, y \in table : KeyOf(x) = KeyOf(y) => x = y

StatsInit ==
    /\ step = "down" /\ process = 0 /\ windows = 0 /\ attempt = 1
    /\ route_data = {} /\ currentHour = NoHour /\ handed = {}
    /\ pending = <<>> /\ waiting = FALSE /\ conn = FALSE
    /\ pgUp = TRUE /\ outages = 0
    /\ table = {} /\ counted = {} /\ excused = {}

-----------------------------------------------------------------------------
(***************************************************************************)
(* Startup: PgWriter.__init__().  connect_pg_with_retry() sleeps between   *)
(* its attempts and raises after the last one; main() does not catch that, *)
(* so the process exits and the container is started again.                *)
(***************************************************************************)
Connect ==
    /\ step = "connecting"
    /\ \/ /\ pgUp
          /\ conn' = TRUE
          /\ step' = "idle"
          /\ attempt' = 1
       \/ /\ ~pgUp
          /\ IF attempt = ConnectAttempts
             THEN step' = "down" /\ attempt' = 1
             ELSE step' = step /\ attempt' = attempt + 1
          /\ UNCHANGED conn
    /\ UNCHANGED <<accumulator, buffer, stored, process, windows, pgUp, outages>>

(***************************************************************************)
(* The callback's part: accumulate(), maybe_flush(), pg_upsert().          *)
(***************************************************************************)
Accumulate(results) ==
    /\ route_data' = route_data \cup ItemsOf(results)
    /\ counted' = counted \cup ItemsOf(results)
    /\ step' = "flush"
    /\ UNCHANGED <<life, buffer, server, currentHour, table, excused>>

\* The first window of a process only records the hour.
RecordHour ==
    /\ step = "flush"
    /\ currentHour = NoHour
    /\ currentHour' = HourOf(now)
    /\ step' = "handover"
    /\ UNCHANGED <<route_data, handed>>

SameHour ==
    /\ step = "flush"
    /\ currentHour = HourOf(now)
    /\ step' = "handover"
    /\ UNCHANGED <<currentHour, route_data, handed>>

\* Mutant: the accumulator is not cleared.
HourChanged_KeepsData ==
    /\ step = "flush"
    /\ currentHour # NoHour
    /\ currentHour # HourOf(now)
    /\ handed' = RowsFor(currentHour)
    /\ route_data' = route_data
    /\ currentHour' = HourOf(now)
    /\ step' = "handover"

\* Mutant: the new hour is not remembered, so every later window flushes again.
HourChanged_KeepsHour ==
    /\ step = "flush"
    /\ currentHour # NoHour
    /\ currentHour # HourOf(now)
    /\ handed' = RowsFor(currentHour)
    /\ route_data' = {}
    /\ currentHour' = currentHour
    /\ step' = "handover"

HourChanged ==
    /\ step = "flush"
    /\ currentHour # NoHour
    /\ currentHour # HourOf(now)
    /\ handed' = RowsFor(currentHour)
    /\ route_data' = {}
    /\ currentHour' = HourOf(now)
    /\ step' = "handover"

MaybeFlush ==
    /\ RecordHour \/ SameHour \/ HourChanged
    /\ UNCHANGED <<life, server, stored, pending, waiting>>

\* pg_upsert(): extend the buffer, then flush it whatever the timer says;
\* without new rows the buffer is only flushed when its retry is due.
Handover ==
    /\ step = "handover"
    /\ \/ /\ handed # {}
          /\ pending' = pending \o AsSequence(handed)
          /\ handed' = {}
          /\ step' = "upsert"
       \/ /\ handed = {}
          /\ step' = IF pending # <<>> /\ ~waiting THEN "upsert" ELSE "idle"
          /\ UNCHANGED <<handed, pending>>
    /\ UNCHANGED <<life, accumulator, server, stored, waiting>>

\* Mutant: the dead connection is kept.
Reconnect_Skipped == UNCHANGED conn

(***************************************************************************)
(* One attempt of flush_pending_pg_rows().  It succeeds; or the statement  *)
(* fails and nothing is stored; or the server goes away after the commit,  *)
(* so that the rows are stored and the attempt still counts as failed.  A  *)
(* failure sets the retry timer and tries to reconnect once.               *)
(***************************************************************************)
Reconnect == conn' = pgUp'

Stored ==
    /\ table' = Merged
    /\ excused' = excused \cup
        UNION {row.items : row \in {x \in Replaced : x.by # process \/ stepsBack > 0}}

AttemptSucceeds ==
    /\ conn /\ ~Poisoned
    /\ Stored
    /\ UNCHANGED <<waiting, conn, pgUp, outages>>

AttemptFails ==
    /\ ~conn \/ Poisoned
    /\ waiting' = TRUE
    /\ UNCHANGED <<table, excused, pgUp, outages>>
    /\ Reconnect

CommitUnacknowledged ==
    /\ conn /\ ~Poisoned
    /\ outages < MaxOutages
    /\ Stored
    /\ waiting' = TRUE
    /\ outages' = outages + 1
    /\ pgUp' \in BOOLEAN
    /\ Reconnect

Attempt(success, failure) ==
    /\ \/ AttemptSucceeds /\ step' = success
       \/ AttemptFails /\ step' = failure
       \/ CommitUnacknowledged /\ step' = failure
    /\ UNCHANGED <<life, accumulator, handed, pending, counted>>

Upsert == step = "upsert" /\ Attempt("clear", "idle")

\* pending_pg_rows.clear(); next_pg_retry_at = 0.0
ClearBuffer(next) ==
    /\ pending' = <<>>
    /\ waiting' = FALSE
    /\ step' = next
    /\ UNCHANGED <<life, accumulator, server, stored, handed>>

Clear == step = "clear" /\ ClearBuffer("idle")

\* PG_RETRY_INTERVAL_SECONDS have passed on the monotonic clock.
RetryDue ==
    /\ waiting
    /\ waiting' = FALSE
    /\ UNCHANGED <<step, life, accumulator, server, stored, handed, pending>>

-----------------------------------------------------------------------------
\* Mutant: the branches of the finally block the other way round, so a buffer
\* that is not empty keeps the partial hour from being flushed.
FlushRemaining_BufferFirst ==
    /\ step = "stopping"
    /\ LET rows == IF currentHour = NoHour \/ pending # <<>> THEN {}
                   ELSE RowsFor(currentHour) IN
        /\ pending' = pending \o AsSequence(rows)
        /\ route_data' = IF rows = {} THEN route_data ELSE {}
        /\ step' = IF pending' = <<>> THEN "last" ELSE "forced"
    /\ UNCHANGED <<life, server, stored, currentHour, handed, waiting>>

(***************************************************************************)
(* Shutdown: main()'s finally block.                                       *)
(***************************************************************************)
\* flush_remaining() and pg_upsert(), or a forced flush of what is buffered.
FlushRemaining ==
    /\ step = "stopping"
    /\ LET rows == IF currentHour = NoHour THEN {} ELSE RowsFor(currentHour) IN
        /\ pending' = pending \o AsSequence(rows)
        /\ route_data' = IF currentHour = NoHour THEN route_data ELSE {}
        /\ step' = IF pending' = <<>> THEN "last" ELSE "forced"
    /\ UNCHANGED <<life, server, stored, currentHour, handed, waiting>>

ForcedFlush == step = "forced" /\ Attempt("forcedClear", "last")

ForcedClear == step = "forcedClear" /\ ClearBuffer("last")

\* "The attempt above may have triggered a reconnect; try once more."
LastFlush ==
    /\ step = "last"
    /\ pending # <<>>
    /\ Attempt("lastClear", "exit")

LastClear == step = "lastClear" /\ ClearBuffer("exit")

NothingLeft ==
    /\ step = "last"
    /\ pending = <<>>
    /\ step' = "exit"
    /\ UNCHANGED <<life, accumulator, buffer, server, stored>>

\* What a process holds in memory goes with it.
Forget ==
    /\ route_data' = {} /\ currentHour' = NoHour /\ handed' = {}
    /\ pending' = <<>> /\ waiting' = FALSE /\ conn' = FALSE
    /\ step' = "down" /\ attempt' = 1

InBuffer == UNION {row.items : row \in Buffered}

InHand == UNION {row.items : row \in handed}

\* "Dropping %d PostgreSQL row(s) at shutdown", then the connection is closed.
\* Two things excuse rows the shutdown could not write: PostgreSQL has gone away,
\* or the clock was stepped back, which may have poisoned the buffer.
Exit ==
    /\ step = "exit"
    /\ Forget
    /\ excused' = excused \cup (IF outages > 0 \/ stepsBack > 0 THEN InBuffer ELSE {})
                    \cup (IF currentHour = NoHour THEN route_data ELSE {})
    /\ UNCHANGED <<process, windows, pgUp, outages, table, counted>>

Shutdown == \/ FlushRemaining \/ ForcedFlush \/ ForcedClear
            \/ LastFlush \/ LastClear \/ NothingLeft \/ Exit

(***************************************************************************)
(* SIGTERM becomes a KeyboardInterrupt wherever the process is; a fatal    *)
(* error of run() takes the same way through the finally block.  Rows      *)
(* already taken out of the accumulator and not yet buffered are lost.     *)
(***************************************************************************)
Interrupt ==
    /\ Running
    /\ step' = "stopping"
    /\ handed' = {}
    /\ excused' = excused \cup InHand
    /\ UNCHANGED <<life, accumulator, server, pending, waiting, table, counted>>

\* The process is killed: no finally block.
Kill ==
    /\ step # "down"
    /\ Forget
    /\ excused' = excused \cup InBuffer \cup InHand \cup route_data
    /\ UNCHANGED <<process, windows, pgUp, outages, table, counted>>

PgGoesDown ==
    /\ pgUp
    /\ outages < MaxOutages
    /\ outages' = outages + 1
    /\ pgUp' = FALSE
    /\ conn' = FALSE
    /\ UNCHANGED <<step, life, accumulator, buffer, stored>>

PgComesUp ==
    /\ ~pgUp
    /\ pgUp' = TRUE
    /\ UNCHANGED <<step, life, accumulator, buffer, stored, conn, outages>>

-----------------------------------------------------------------------------
(***************************************************************************)
(* Properties.                                                             *)
(***************************************************************************)
AllRows == table \cup Buffered \cup handed

\* Every item the accumulator ever took is in the hour being accumulated, in a
\* row on its way, or in a stored row, unless one of these took it:
\*   - the process was killed;
\*   - it was interrupted between _flush() and the buffer, which loses the rows
\*     handed over, or before its first maybe_flush() recorded an hour, without
\*     which flush_remaining() has nothing to flush;
\*   - its row was replaced by the row another process wrote for the same hour,
\*     or by a second row of its own process after the clock was stepped back;
\*   - the shutdown dropped the buffer, after PostgreSQL had gone away or, with
\*     PostgreSQL up, after the clock was stepped back and poisoned the buffer.
LossesExcused ==
    counted \ excused \subseteq route_data \cup UNION {row.items : row \in AllRows}

\* A process that is still running has lost nothing it counted itself, whatever
\* PostgreSQL does, as long as the clock was never stepped back.
OwnItemsKept == Running /\ stepsBack = 0 => \A i \in excused : i.by # process

NoItemLost == LossesExcused /\ OwnItemsKept

\* No item is counted twice: it is in one row only (main's buffer and the table
\* may hold the same row, never two different ones), and in none while it is
\* still being accumulated.
CountedOnce ==
    /\ \A x, y \in AllRows : x # y => x.items \cap y.items = {}
    /\ \A x \in AllRows : x.items \cap route_data = {}

\* Only a clock stepped back can put two rows of one (route, hour) into the
\* buffer, which no retry would get rid of.
PoisonNeedsClockBack == Poisoned => stepsBack > 0

\* Buffered rows are written, or the process ends, or the buffer is poisoned.
PendingDrains == pending # <<>> ~> (pending = <<>> \/ Poisoned)

=============================================================================
