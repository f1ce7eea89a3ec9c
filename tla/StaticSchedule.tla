---------------------------- MODULE StaticSchedule ----------------------------
(***************************************************************************)
(* gtfs_static/loader.py as operators: what load() builds from a bundle on *)
(* disk, for a service date.                                               *)
(*                                                                         *)
(* A bundle is a record: "complete" (the required files and columns), the  *)
(* rows of trips.txt, stop_times.txt, stops.txt and routes.txt as sets,    *)
(* calendar.txt as [services -> the days it names], calendar_dates.txt as  *)
(* a sequence of rows, either one NoFile if it is missing, and             *)
(* feed_info.txt's feed_version, or NoFile.                                *)
(***************************************************************************)
EXTENDS Integers, FiniteSets, Sequences, SequencesExt, FiniteSetsExt, Functions

CONSTANTS
    NoFile,             \* a file the bundle does not have
    Null,               \* an empty field, and Python's None
    MaxUnfiltered       \* MAX_UNFILTERED_STOP_TIMES

ASSUME LoaderAssumption == MaxUnfiltered \in Nat

-----------------------------------------------------------------------------
(***************************************************************************)
(* _build_active_service_ids().                                            *)
(***************************************************************************)
\* Mutant: today's services only.
TargetDates_TodayOnly(today) == {today}

\* The margin is for trips that run past midnight.
TargetDates(today) == {today - 1, today, today + 1}

ByPattern(bundle, today) ==
    IF bundle.calendar = NoFile THEN {}
    ELSE {s \in DOMAIN bundle.calendar : bundle.calendar[s] \cap TargetDates(today) # {}}

\* One row of calendar_dates.txt, against the union over the three days.
WithException(today, active, row) ==
    IF row.day \notin TargetDates(today) THEN active
    ELSE IF row.type = "added" THEN active \cup {row.service}
    ELSE active \ {row.service}

ExceptionRows(bundle) == IF bundle.exceptions = NoFile THEN <<>> ELSE bundle.exceptions

\* {} stands for None, "keep all trips": there is no calendar, or nothing is active.
ActiveServiceIds(bundle, today) ==
    FoldLeft(LAMBDA active, row : WithException(today, active, row),
             ByPattern(bundle, today), ExceptionRows(bundle))

\* What GTFS says runs on a day, for comparison.
RunsOn(bundle, service, d) ==
    LET rows == {r \in ToSet(ExceptionRows(bundle)) : r.service = service /\ r.day = d}
        named == IF bundle.calendar = NoFile \/ service \notin DOMAIN bundle.calendar THEN {}
                 ELSE bundle.calendar[service]
    IN  /\ d \in named \/ \E r \in rows : r.type = "added"
        /\ \A r \in rows : r.type # "removed"

-----------------------------------------------------------------------------
(***************************************************************************)
(* The lookups.  An entry that repeats a key overwrites the one before.    *)
(***************************************************************************)
Filtered(bundle, today) == ActiveServiceIds(bundle, today) # {}

KeptTrips(bundle, today) ==
    {t \in bundle.trips :
        Filtered(bundle, today) => t.service \in ActiveServiceIds(bundle, today)}

\* stop_times.txt is filtered by the trips that are kept, and not otherwise.
KeptStopTimes(bundle, today) ==
    {st \in bundle.stopTimes : Filtered(bundle, today) =>
        st.trip \in {t.id : t \in KeptTrips(bundle, today)}}

RowWith(rows, id) == CHOOSE r \in rows : r.id = id

\* _build_direction_lookup and _build_trip_route_lookup: rows without a value are left out.
DirectionLookup(trips) ==
    [t \in {r.id : r \in {x \in trips : x.direction # Null}} |-> RowWith(trips, t).direction]

TripRouteLookup(trips) ==
    [t \in {r.id : r \in {x \in trips : x.route # Null}} |-> RowWith(trips, t).route]

StopTimesLookup(stopTimes) ==
    [key \in {<<st.trip, st.sequence>> : st \in stopTimes} |->
        CHOOSE st \in stopTimes : <<st.trip, st.sequence>> = key]

StopsLookup(stops) == [s \in {r.id : r \in stops} |-> RowWith(stops, s).place]
RoutesLookup(routes) == [r \in {x.id : x \in routes} |-> RowWith(routes, r).name]

\* The place of a stop_time's stop; Null if it has none that is known.
PlaceOf(stops, st) ==
    IF st.stop \in {s.id : s \in stops} THEN RowWith(stops, st.stop).place ELSE Null

TripTerminalLookup(stopTimes, stops) ==
    [t \in {st.trip : st \in stopTimes} |->
        LET ofTrip == {st \in stopTimes : st.trip = t}
            sequences == {st.sequence : st \in ofTrip}
            placeAt(n) == PlaceOf(stops, CHOOSE st \in ofTrip : st.sequence = n)
        IN  <<placeAt(Min(sequences)), placeAt(Max(sequences))>>]

\* feed_version if there is one, else a fingerprint of the files.
ComputeVersion(bundle) ==
    IF bundle.feedVersion # NoFile THEN <<"feed_version", bundle.feedVersion>>
    ELSE <<"fingerprint", bundle.files>>

\* What load() makes of the files for a service date.
Snapshot(bundle, today) ==
    LET trips == KeptTrips(bundle, today)
        stopTimes == KeptStopTimes(bundle, today)
    IN  [directions |-> DirectionLookup(trips),
         stopTimes |-> StopTimesLookup(stopTimes),
         stops |-> StopsLookup(bundle.stops),
         terminals |-> TripTerminalLookup(stopTimes, bundle.stops),
         routes |-> RoutesLookup(bundle.routes),
         tripRoutes |-> TripRouteLookup(trips),
         version |-> ComputeVersion(bundle),
         date |-> today]

Attributes ==
    {"directions", "stopTimes", "stops", "terminals", "routes", "tripRoutes", "version", "date"}

-----------------------------------------------------------------------------
(***************************************************************************)
(* load(), statement by statement.  "build" fills a local variable,        *)
(* "assign" moves it to the attribute that is served.                      *)
(***************************************************************************)
\* Mutant: a lookup is served as soon as it is built.
LoadBody_InPlace ==
    <<<<"check", "files">>, <<"build", "date">>, <<"check", "size">>,
      <<"build", "directions">>, <<"assign", "directions">>,
      <<"build", "stopTimes">>, <<"assign", "stopTimes">>,
      <<"build", "stops">>, <<"assign", "stops">>,
      <<"build", "terminals">>, <<"assign", "terminals">>,
      <<"build", "routes">>, <<"assign", "routes">>,
      <<"build", "tripRoutes">>, <<"assign", "tripRoutes">>,
      <<"build", "version">>, <<"assign", "version">>, <<"assign", "date">>>>

LoadBody ==
    <<<<"check", "files">>, <<"build", "date">>, <<"check", "size">>,
      <<"build", "directions">>, <<"build", "stopTimes">>, <<"build", "stops">>,
      <<"build", "terminals">>, <<"build", "routes">>, <<"build", "tripRoutes">>,
      <<"build", "version">>,
      <<"assign", "directions">>, <<"assign", "stopTimes">>, <<"assign", "stops">>,
      <<"assign", "terminals">>, <<"assign", "routes">>, <<"assign", "tripRoutes">>,
      <<"assign", "version">>, <<"assign", "date">>>>

\* A file or a column is missing, the lookups would not fit in memory, or a value is out
\* of its range.
Raises(statement, bundle, today) ==
    \/ statement = <<"check", "files">> /\ ~bundle.complete
    \/ /\ statement = <<"check", "size">>
       /\ ~Filtered(bundle, today) /\ Cardinality(bundle.stopTimes) > MaxUnfiltered
    \/ /\ statement = <<"build", "directions">>
       /\ \E t \in KeptTrips(bundle, today) : t.direction \notin {0, 1, Null}
    \/ /\ statement = <<"build", "stopTimes">>
       /\ \E st \in KeptStopTimes(bundle, today) : st.sequence < 0

LoadRaises(bundle, today) ==
    \E i \in DOMAIN LoadBody : Raises(LoadBody[i], bundle, today)

===============================================================================
