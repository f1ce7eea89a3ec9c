---------------------------- MODULE FirstProcess ----------------------------
(***************************************************************************)
(* AnalyticsConsumer with a watch on its first process: what the tracker   *)
(* remembers lives in memory (_DeviationResultTracker._seen), so from its  *)
(* second start on the engine has forgotten which arrivals it has seen.    *)
(***************************************************************************)
EXTENDS AnalyticsConsumer

VARIABLES
    firstProcess,   \* no process has ended yet
    overlooked      \* history: keys computed by a window that failed before its results
                    \* reached the tracker

watchedVars == <<vars, firstProcess, overlooked>>

WatchedInit == Init /\ firstProcess = TRUE /\ overlooked = {}

\* A window is flushed, and its computation fails before filter_new().
Overlooks ==
    /\ pc = "check" /\ pc' = "write_bunching"
    /\ seen' # Purged(seen \cup Fresh(Gated(FirstArrivals(rows))), rows)

WatchedNext ==
    /\ Next
    /\ firstProcess' = (firstProcess /\ ~(pc # "down" /\ pc' = "down"))
    /\ overlooked' =
            overlooked \cup IF Overlooks THEN KeysOf(Fresh(Gated(FirstArrivals(rows)))) ELSE {}

WatchedSpec == WatchedInit /\ [][WatchedNext]_watchedVars

FairWatchedSpec == WatchedSpec /\ Fairness

\* No ping of the key is so early that the gate takes it out of its window.
NeverTooEarly(key) ==
    \A o \in Offsets : log[o].key = key => Scheduled[key] - Ts(o) <= MaxDeviation

\* The dwell is over within the retention: no ping that comes before a ping of the key, or
\* is so close to it that the overlap presents it again, is newer than the key's first
\* arrival by more than the tracker remembers.
DwellIsRemembered(key) ==
    \A first, o, p \in Offsets :
        /\ log[first].key = key /\ log[o].key = key
        /\ p < o \/ Ts(p) <= Ts(o) + Overlap
        => Ts(p) <= Ts(first) + Retention

(***************************************************************************)
(* A dwelling vehicle's later pings never replace its arrival: the stored  *)
(* time of a key is the earliest among all pings of that key any window    *)
(* has processed.  Holds while one process runs, for every key whose dwell *)
(* is over within TRACKER_RETENTION_SECONDS on the clock of all vehicles'  *)
(* pings, that had no ping too early for the gate, and whose window did    *)
(* not fail before the tracker heard of it; a longer dwell is purged       *)
(* (consumer.py:268) and its arrival replaced.                             *)
(***************************************************************************)
StoredIsFirstArrival ==
    firstProcess =>
        \A d \in mongo, o \in handled :
            /\ log[o].key = d.key /\ d.key \notin overlooked
            /\ NeverTooEarly(d.key) /\ DwellIsRemembered(d.key)
            => d.ts <= Ts(o)

=============================================================================
