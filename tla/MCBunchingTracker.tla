--------------------------- MODULE MCBunchingTracker ---------------------------
(* Constants for the model-checking run of BunchingTracker and the analysis of it. *)
EXTENDS BunchingAnalysis

CONSTANTS out, back, r1, none

MCTrips == {out, back}
MCRouteOf == [t \in MCTrips |-> r1]
MCDirectionOf == [t \in MCTrips |-> IF t = out THEN 0 ELSE 1]
MCTerminals == [t \in MCTrips |-> {3}]

On(trip, v, t, p) == [vehicle |-> v, trip |-> trip, place |-> p, at |-> t]
Ping(v, t, p) == On(out, v, t, p)

\* Vehicle 1 reports in every tick but the first: once from the terminal, and nearest to
\* vehicle 2 early in one bucket.
FirstVehicle(t) == IF t = 6 THEN 3 ELSE IF t = 3 THEN 0 ELSE 1

\* Vehicle 2 is silent or near, early in a bucket and late in it, or at the terminal.
\* Bound: from Settled on, it is near in every bucket.
Settled == 12

SecondVehicle(t) ==
    LET at(place) == {Ping(2, t, place)}
        early == t % BucketTicks = 0
        late == t \in {5, 11}
    IN  CASE t >= Settled -> {IF early THEN at(0) ELSE {}}
          [] t < Settled /\ (early \/ t = 2) -> {{}, at(0), at(3)}
          [] late -> {{}, at(0)}
          [] OTHER -> {{}}

\* The last reports: both vehicles go on in their direction, or both have turned round.
LastReports == 15

MCReports ==
    [t \in 1 .. MaxTick |->
        CASE t = 1 \/ t > LastReports -> {{}}
          [] t = LastReports -> {{On(trip, 1, t, 1), On(trip, 2, t, 0)} : trip \in MCTrips}
          [] OTHER -> {{Ping(1, t, FirstVehicle(t))} \cup more : more \in SecondVehicle(t)}]

ASSUME MCOrder == VehiclesInOrder /\ PingsInStep /\ OneReportAtATime /\ OverlapSuffices
=============================================================================
