---------------------------- MODULE BunchingTracker ----------------------------
(***************************************************************************)
(* Bunching events over overlapping windows: PingWindowBuffer and           *)
(* _BunchingEventTracker of consumer.py around the detection, and the       *)
(* bunching half of MetricsWriter.  Pings arrive as the vehicles send them; *)
(* a window is processed, written and committed in three steps, and the     *)
(* process may die between any two of them.                                 *)
(***************************************************************************)
EXTENDS BunchingDetection

CONSTANTS
    Reports,            \* [1 .. MaxTick -> the sets of pings that may arrive then];
                        \* a ping is [vehicle, trip, place, at]
    Window,             \* WINDOW_SECONDS, in ticks
    Phases,             \* bound: how far into a window the clock may start
    Overlap,            \* OVERLAP_SECONDS, in ticks
    Retention,          \* TRACKER_RETENTION_SECONDS, in ticks
    MaxTick,            \* bound: the clock stops here
    MaxFailures,        \* bound: writes that fail
    MaxCrashes          \* bound: how often the process dies

ASSUME TrackerAssumption ==
    /\ Window \in Nat \ {0} /\ Phases \subseteq 0 .. Window - 1
    /\ {Overlap, Retention, MaxTick, MaxFailures, MaxCrashes} \subseteq Nat
    /\ \A t \in 1 .. MaxTick : \A batch \in Reports[t] : \A p \in batch :
          /\ p.vehicle \in Vehicles /\ p.trip \in Trips
          /\ p.at \in 0 .. t /\ p.place \in Int \cup {NoPlace}
    /\ \A t \in 1 .. MaxTick : \A batch \in Reports[t] : IsFiniteSet(batch)

\* One vehicle's pings arrive in the order it sent them: vehicle_id is the Kafka key
\* (docs/guarantees.md:44).
VehiclesInOrder ==
    \A t, u \in 1 .. MaxTick : t < u =>
        \A b \in Reports[t], c \in Reports[u] : \A p \in b, q \in c :
            p.vehicle = q.vehicle => p.at <= q.at

\* All vehicles report in step: pings arrive in the order of their timestamps, and a
\* vehicle that repeats a timestamp repeats the ping.
PingsInStep ==
    \A t, u \in 1 .. MaxTick : t < u =>
        \A b \in Reports[t], c \in Reports[u] : \A p \in b, q \in c :
            p.at <= q.at /\ (p.vehicle = q.vehicle /\ p.at = q.at => p = q)

\* A vehicle has one report of an instant, which it may repeat: timestamp is that of the
\* report (bunching.py:142 keeps one of several in a bucket by it).
OneReportAtATime ==
    \A t, u \in 1 .. MaxTick : \A b \in Reports[t], c \in Reports[u] :
        t # u \/ b = c =>
            \A p \in b, q \in c : p.vehicle = q.vehicle /\ p.at = q.at => p = q

\* How the constants are chosen (bunching.py:39, consumer.py:108-114): two observations are an
\* event already, and an event is remembered for as long as the overlap can show it.
OverlapSuffices == MinConsecutive <= 2 /\ Overlap <= Retention

VARIABLES
    clock,              \* the time, in ticks
    sinceFlush,         \* ticks since last_window_flush
    rows,               \* PingWindowBuffer._rows
    uncommitted,        \* pings read since the last commit
    pc,                 \* "poll", "write" or "commit"
    tracked,            \* _BunchingEventTracker._last_seen
    actions,            \* WindowResult.bunching_actions
    docs,               \* the bunching_events collection
    backoff,            \* the last write failed: flushes may be discarded
    failures, crashes,  \* writes failed, processes died
    seen,               \* history: the pings of every window processed
    judged              \* history: the pair observations of every window

process == <<rows, uncommitted, tracked, actions, backoff>>
history == <<seen, judged>>
vars == <<clock, sinceFlush, pc, process, docs, failures, crashes, history>>

\* An action of reconcile(): the event, and whether it is "new" or an "update".
NewAction(event) == [action |-> "new", event |-> event]
UpdateAction(event) == [action |-> "update", event |-> event]

Init ==
    /\ clock = 0 /\ sinceFlush \in Phases
    /\ rows = {} /\ uncommitted = {} /\ tracked = {} /\ actions = {}
    /\ pc = "poll" /\ docs = {} /\ backoff = FALSE
    /\ failures = 0 /\ crashes = 0 /\ seen = {} /\ judged = {}

-----------------------------------------------------------------------------
(***************************************************************************)
(* Time passes, and the pings of a tick are read into the buffer.           *)
(***************************************************************************)
Tick ==
    /\ pc = "poll"
    /\ clock < MaxTick
    /\ sinceFlush < Window
    /\ clock' = clock + 1
    /\ sinceFlush' = sinceFlush + 1
    /\ \E batch \in Reports[clock + 1] :
        /\ rows' = rows \cup batch
        /\ uncommitted' = uncommitted \cup batch
    /\ UNCHANGED <<pc, tracked, actions, backoff, docs, failures, crashes, history>>

-----------------------------------------------------------------------------
(***************************************************************************)
(* One window.                                                             *)
(***************************************************************************)
ReferenceTime == Max({p.at : p \in rows})

\* Mutant: the overlap is counted from the oldest ping.
CarryForward_FromOldest ==
    {p \in rows : p.at <= Min({q.at : q \in rows}) + Overlap}

\* flush(): the rows no older than OVERLAP_SECONDS before the newest one.
CarryForward == {p \in rows : p.at >= ReferenceTime - Overlap}

PreviousOf(known, event) == {e \in known : e.key = event.key}

\* A new detection continues the tracked event if it starts at most one poll
\* interval after it ended -- which is also true of one that lies before it.
Continues(previous, event) == event.start <= previous.end + 1

\* Mutant: the minimum of the last window only.
Updated_LastMinimum(previous, event) ==
    [event EXCEPT !.start = IF previous.start <= event.start THEN previous.start ELSE event.start]

Updated(previous, event) ==
    [event EXCEPT !.start = Min({previous.start, event.start}),
                  !.nearest = Min({previous.nearest, event.nearest})]

\* One event of reconcile(): new, an update, or nothing to say.
Reconciled(state, event) ==
    LET previous == PreviousOf(state.tracked, event)
        replaced(e, action) ==
            [tracked |-> (state.tracked \ previous) \cup {e},
             actions |-> state.actions \cup {action}]
    IN  IF \A p \in previous : ~Continues(p, event)
        THEN replaced(event, NewAction(event))
        ELSE LET p == CHOOSE p \in previous : TRUE IN
             IF event.end > p.end
             THEN replaced(Updated(p, event), UpdateAction(Updated(p, event)))
             ELSE state

\* The events of one pair come in the order of their buckets; the order of the
\* pairs does not matter.
Latest(events) == CHOOSE e \in events : \A d \in events : d.start <= e.start

Reconcile(events) ==
    LET after[s \in SUBSET events] ==
            IF s = {} THEN [tracked |-> tracked, actions |-> {}]
            ELSE Reconciled(after[s \ {Latest(s)}], Latest(s))
    IN  after[events]

\* _purge_stale()
Recent(events) ==
    {e \in events : e.end * BucketTicks >= ReferenceTime - Retention}

Due == pc = "poll" /\ sinceFlush = Window

\* An empty window.
FlushEmpty ==
    /\ Due
    /\ rows = {}
    /\ sinceFlush' = 0
    /\ UNCHANGED <<clock, pc, process, docs, failures, crashes, history>>

\* _process_window(), without a failure of the computation.
Process ==
    /\ Due
    /\ rows # {}
    /\ sinceFlush' = 0
    /\ LET outcome == Reconcile(DetectEvents(rows)) IN
        /\ tracked' = Recent(outcome.tracked)
        /\ actions' = outcome.actions
    /\ rows' = CarryForward
    /\ seen' = seen \cup rows
    /\ judged' = judged \cup Pairs(rows)
    /\ pc' = "write"
    /\ UNCHANGED <<clock, uncommitted, backoff, docs, failures, crashes>>

\* A flush during the backoff: the rows are gone, apart from the overlap.
Discard ==
    /\ Due
    /\ backoff
    /\ rows # {}
    /\ sinceFlush' = 0
    /\ rows' = CarryForward
    /\ UNCHANGED <<clock, pc, uncommitted, tracked, actions, backoff, docs,
                   failures, crashes, history>>

DocKey(event) == <<event.key, event.start>>

\* build_bunching_operations(): both actions are the same upsert.
Upserted(events) ==
    {d \in docs : \A e \in events : DocKey(d) # DocKey(e)} \cup events

Write ==
    /\ pc = "write"
    /\ docs' = Upserted({a.event : a \in actions})
    /\ actions' = {}
    /\ pc' = "commit"
    /\ UNCHANGED <<clock, sinceFlush, rows, uncommitted, tracked, backoff, failures,
                   crashes, history>>

\* This bulk write raised, after any of its operations, or that of the deviations
\* did; the offset is neither committed nor rewound.
WriteFails ==
    /\ pc = "write"
    /\ failures < MaxFailures
    /\ \E done \in SUBSET {a.event : a \in actions} : docs' = Upserted(done)
    /\ actions' = {}
    /\ failures' = failures + 1
    /\ backoff' = TRUE
    /\ pc' = "poll"
    /\ UNCHANGED <<clock, sinceFlush, rows, uncommitted, tracked, crashes, history>>

\* The offsets of everything read so far.
Commit ==
    /\ pc = "commit"
    /\ uncommitted' = {}
    /\ backoff' = FALSE
    /\ pc' = "poll"
    /\ UNCHANGED <<clock, sinceFlush, rows, tracked, actions, docs, failures, crashes,
                   history>>

\* The process dies; the next one is handed the uncommitted rows again, and has
\* neither the overlap nor the tracker.
Crash ==
    /\ crashes < MaxCrashes
    /\ crashes' = crashes + 1
    /\ sinceFlush' = 0
    /\ rows' = uncommitted
    /\ tracked' = {} /\ actions' = {} /\ backoff' = FALSE
    /\ pc' = "poll"
    /\ UNCHANGED <<clock, uncommitted, docs, failures, history>>

Next ==
    \/ Tick
    \/ FlushEmpty \/ Process \/ Discard
    \/ Write \/ WriteFails \/ Commit
    \/ Crash

Spec == Init /\ [][Next]_vars

-----------------------------------------------------------------------------
(***************************************************************************)
(* Properties.                                                             *)
(***************************************************************************)
Undisturbed == failures = 0 /\ crashes = 0

\* Ranges, and the two maps (the tracker's by pair, the collection's by natural key)
\* as sets of values with at most one value per key.
TypeOK ==
    /\ clock \in 0 .. MaxTick /\ sinceFlush \in 0 .. Window
    /\ pc \in {"poll", "write", "commit"} /\ backoff \in BOOLEAN
    /\ failures \in 0 .. MaxFailures /\ crashes \in 0 .. MaxCrashes
    /\ \A e, d \in tracked : e.key = d.key => e = d
    /\ \A e, d \in docs : DocKey(e) = DocKey(d) => e = d
    /\ \A a \in actions : a.action \in {"new", "update"} /\ a.event.count >= MinConsecutive

\* x and y are two observations of one incident, on everything that was received, and
\* the overlap is long enough for one window to see both: of two neighbours it is with
\* OVERLAP_SECONDS, of two with a skipped bucket between them it need not be.
OneIncident(x, y) ==
    /\ x.key = y.key /\ x.bucket < y.bucket
    /\ Linked(BucketsOf(OfKey(Separated(Pairs(seen)), x.key)), x.bucket, y.bucket)
    /\ (y.bucket - x.bucket + 1) * BucketTicks <= Overlap + 1

\* What the overlap is for: two observations that make an event on all the pings are
\* in one document as soon as their window is written, wherever the windows are cut
\* (consumer.py's module docstring; a failed write or a restart loses incidents).
NoIncidentMissed ==
    pc = "commit" /\ Undisturbed =>
        \A x, y \in Close(Pairs(seen)) : OneIncident(x, y) =>
            \E d \in docs : d.key = x.key /\ d.start <= x.bucket /\ y.bucket <= d.end

\* What the windows saw of that pair in that bucket.  A bucket that the overlap cuts in
\* two is seen twice: the vehicles' first pings are gone when the next window judges it.
InWindows(x) == {y \in judged : y.key = x.key /\ y.bucket = x.bucket}

\* "Distinct incidents remain distinguishable" (docs/guarantees.md:34): no document spans
\* a bucket in which the pair was seen apart, on everything that was received -- unless
\* the window that had half of the bucket saw them close; then the tracker, which knows
\* no separations, extends the document across it.
NothingMergedAcross ==
    \A d \in docs : \A s \in Separated(Pairs(seen)) :
        s.key = d.key /\ (\A y \in InWindows(s) : y.distance > Threshold) =>
            ~(d.start <= s.bucket /\ s.bucket <= d.end)

\* "Preserving the absolute minimum min_distance_meters observed" (docs/guarantees.md:38),
\* over all the windows that contributed to a document and through every failure and
\* restart -- of the observations every window agreed on: what the second half of a bucket
\* brings is dropped when the event ends there (consumer.py:207).
MinimumKept ==
    \A d \in docs : \A x \in Close(Pairs(seen)) :
        x.key = d.key /\ d.start <= x.bucket /\ x.bucket <= d.end
            /\ (\A y \in InWindows(x) : y = x)
        => d.nearest <= x.distance

=============================================================================
