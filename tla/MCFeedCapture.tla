----------------------------- MODULE MCFeedCapture -----------------------------
(* Constants for the model-checking run of FeedCapture: vehicles 1 and 2   *)
(* move, the status of 2 is not always known, vehicle 3 stands at a stop   *)
(* for a while, vehicle 4 has no position.                                  *)
EXTENDS FeedCapture

CONSTANTS none

\* All report at every tick, but some are silent for a while.
Silent(from, to) == (0 .. MaxTime) \ (from .. to)
Always == 0 .. MaxTime

Script(one, two, three) ==
    [v \in Vehicles |-> CASE v = 1 -> one [] v = 2 -> two [] v = 3 -> three [] OTHER -> Always]

MCScripts ==
    {Script(Always, {t \in Always : t % 2 = 0}, Always),
     Script(Silent(2, 5), Silent(5, 8), Silent(1, 2)),
     Script(Silent(1, 3), Silent(8, 8), {0})}

MCPartitions == {{1}, Vehicles \ {1}}

MCEntity(v, t) ==
    [vehicle |-> v, timestamp |-> t,
     place |-> CASE v = 4 -> none [] v = 3 /\ t < 4 -> 0 [] OTHER -> 3 * t,
     status |-> CASE v = 3 /\ t < 4 -> "STOPPED_AT" [] v = 2 /\ t % 4 = 0 -> none
                 [] OTHER -> "IN_TRANSIT_TO",
     stop |-> IF v = 3 /\ t < 4 THEN "s" ELSE none,
     route |-> "r"]

\* The vehicles and the gate are what the theorem on the cadence is about.
ASSUME MCRegular == RegularFeed
===============================================================================
