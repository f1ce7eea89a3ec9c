-------------------------- MODULE MCScheduleMatching --------------------------
(* Constants for the model-checking runs of ScheduleMatching.  Day 3 is the *)
(* Sunday of the change of the clocks.                                      *)
EXTENDS MatchingAnalysis

CONSTANTS none, null

StopTime(trip, sequence, arrival, departure, stop) ==
    [trip |-> trip, sequence |-> sequence, arrival |-> arrival, departure |-> departure,
     stop |-> stop]

\* "day" runs at 08:00, "late" at 25:30 of its service day, "early" at 01:30; the first
\* stop of a trip has no arrival time, its last one no departure time.
StopTimes ==
    {StopTime("day", 1, null, 15, "x"), StopTime("day", 2, 16, 17, "y"),
     StopTime("late", 1, 51, null, "x"), StopTime("early", 1, 3, 3, "z")}

Trip(id, service, direction) ==
    [id |-> id, service |-> service, route |-> "r", direction |-> direction]

Trips == {Trip("day", "weekend", 0), Trip("late", "weekday", 1), Trip("early", "special", null)}

Calendar == [s \in {"weekday", "weekend", "special"} |->
                CASE s = "weekday" -> {1, 4, 5, 6} [] s = "weekend" -> {2, 3} [] OTHER -> {}]

Exception(service, day, type) == [service |-> service, day |-> day, type |-> type]

Bundle(version, direction, sequence, place) ==
    [complete |-> TRUE,
     trips |-> Trips \cup {Trip("other", "weekday", direction), Trip("extra", "weekend", 0)},
     stopTimes |-> StopTimes \cup {StopTime("extra", sequence, null, null, "x")},
     stops |-> {[id |-> "x", place |-> null], [id |-> "y", place |-> place]},
     routes |-> {[id |-> "r", name |-> "Route"]},
     calendar |-> Calendar,
     exceptions |-> <<Exception("special", 3, "added"), Exception("weekday", 5, "removed")>>,
     feedVersion |-> version, files |-> version]

\* A first bundle; one with an invalid direction_id, and an invalid stop_sequence that is
\* met first on the days the other trip is filtered out; one that moves a stop.
MCBundles == <<Bundle(1, 0, 1, "here"), Bundle(2, 7, -1, "there"), Bundle(3, 1, 1, "there")>>

\* Up to half an hour, an hour, and nearly half a day.
MCDelays == {-22, -2, -1, 0, 1, 2, 22}

\* The schedule and the delays are what the theorems on windows are about.
ASSUME MCFeed == PlausibleFeed /\ WellFormedFeed /\ FiniteFeed /\ ShortStops
===============================================================================
