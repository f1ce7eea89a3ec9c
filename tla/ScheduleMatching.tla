--------------------------- MODULE ScheduleMatching ---------------------------
(***************************************************************************)
(* Live pings against the schedule: the vehicles run what the bundle says, *)
(* in the agency's time and over a change of the clocks; the consumer      *)
(* keeps its lookups on the current service date, counts how each window   *)
(* matches, and computes and enriches the arrival deviations.              *)
(*                                                                         *)
(* A window here holds pings of one instant.  (Overlap, trackers, writing  *)
(* and the commit are in AnalyticsConsumer, the swap of a bundle in        *)
(* GtfsRefresh.)                                                           *)
(***************************************************************************)
EXTENDS ScheduleTime, StaticSchedule

CONSTANTS
    Bundles,            \* what the publisher may have put on disk, first the oldest
    Delays,             \* how late a vehicle may be at a stop, in ticks
    Gate,               \* MAX_DEVIATION_SECONDS, in ticks
    Begin, End,         \* bound: the instants there are
    MaxWindow           \* bound: pings in a window

ASSUME MatchingAssumption ==
    /\ Bundles \in Seq(ToSet(Bundles)) /\ Len(Bundles) > 0
    /\ Delays \subseteq Int
    /\ Gate \in Nat /\ Begin \in Int /\ End \in Int /\ MaxWindow \in Nat
    \* every instant has a date
    /\ Begin <= End
    /\ \A s \in Shifts : Midnight(s, FirstDay) <= Begin /\ End < Midnight(s, LastDay + 1)

VARIABLES
    shift,      \* how the clocks change on ShiftDay
    now,        \* the time
    disk,       \* the bundle on disk: a place in Bundles
    static,     \* GtfsStaticData
    loading,    \* load(): the place in LoadBody, 0 if it does not run, and its variables
    checkDue,   \* _maybe_refresh_gtfs_static() was not called since now changed
    window,     \* the pings of the last window
    matching,   \* its MatchingStats
    results     \* its new deviations

vars == <<shift, now, disk, static, loading, checkDue, window, matching, results>>

-----------------------------------------------------------------------------
(***************************************************************************)
(* What the vehicles report.                                               *)
(***************************************************************************)
\* The arrivals a bundle schedules, on each of its service days.
Scheduling(bundle) ==
    {x \in {st \in bundle.stopTimes : st.arrival # Null} \X (FirstDay + 1 .. LastDay - 1) :
        \E t \in bundle.trips : t.id = x[1].trip /\ RunsOn(bundle, t.service, x[2])}

Schedulings == [b \in DOMAIN Bundles |-> Scheduling(Bundles[b])]

\* The vehicles at a stop now, each with its service day and its delay.  (GTFS counts
\* from noon less 12 hours of the service day.)
AtStop ==
    {[trip |-> x[1][1].trip, sequence |-> x[1][1].sequence, stop |-> x[1][1].stop,
      day |-> x[1][2], delay |-> x[2]] :
        x \in {y \in Schedulings[disk] \X Delays :
                Noon(shift, y[1][2]) - 12 * Hour + y[1][1].arrival + y[2] = now}}

\* The stop's ping, the same one without its stop_id or its sequence number, and one of
\* a trip that was added in real time.
Pings ==
    AtStop
        \cup {[p EXCEPT !.stop = Null] : p \in AtStop}
        \cup {[p EXCEPT !.sequence = Null] : p \in AtStop}
        \cup {[p EXCEPT !.trip = "ADDED"] : p \in AtStop}

-----------------------------------------------------------------------------
(***************************************************************************)
(* compute_matching_stats() and the deviations of a window.                *)
(***************************************************************************)
MatchingStats(total, matched, missing, unmatched, dropped) ==
    [total |-> total, matched |-> matched, missing |-> missing, unmatched |-> unmatched,
     dropped |-> dropped]

Key(p) == <<p.trip, p.sequence>>
MissesField(p) == p.trip = Null \/ p.sequence = Null
Scheduled(p) == Key(p) \in DOMAIN static.stopTimes

\* Mutant: the pings are scoped to those with a stop before they are counted.
ComputeMatchingStats_Scoped(pings, dropped) ==
    LET scoped == {p \in pings : p.stop # Null}
        complete == {p \in scoped : ~MissesField(p)}
    IN  MatchingStats(Cardinality(scoped), Cardinality({p \in complete : Scheduled(p)}),
                      Cardinality(scoped \ complete),
                      Cardinality({p \in complete : ~Scheduled(p)}), dropped)

\* Over the whole window, before any scoping.
ComputeMatchingStats(pings, dropped) ==
    LET complete == {p \in pings : ~MissesField(p)}
    IN  MatchingStats(Cardinality(pings), Cardinality({p \in complete : Scheduled(p)}),
                      Cardinality(pings \ complete),
                      Cardinality({p \in complete : ~Scheduled(p)}), dropped)

\* scoped = pings[pings["stop_id"].notna()], and what groupby() keeps.
Arrivals(pings) ==
    {p \in pings : p.stop # Null /\ ~MissesField(p) /\ Scheduled(p)
                     /\ static.stopTimes[Key(p)].arrival # Null}

DeviationOf(p) ==
    now - ResolveScheduled(shift, now, static.stopTimes[Key(p)].arrival)

PassesGate(p) == Apart(DeviationOf(p), 0) <= Gate

\* _enrich_with_location(): the place of the scheduled stop, if it is known.
LocationOf(p) ==
    LET stop == static.stopTimes[Key(p)].stop
    IN  IF stop \in DOMAIN static.stops THEN static.stops[stop] ELSE Null

\* _enrich_with_route_name()
RouteIdOf(p) == IF p.trip \in DOMAIN static.tripRoutes THEN static.tripRoutes[p.trip] ELSE Null

RouteNameOf(p) ==
    IF RouteIdOf(p) \in DOMAIN static.routes THEN static.routes[RouteIdOf(p)] ELSE Null

Deviation(p) ==
    [ping |-> p, seconds |-> DeviationOf(p), location |-> LocationOf(p),
     route |-> RouteIdOf(p), name |-> RouteNameOf(p)]

-----------------------------------------------------------------------------
Today == DateOf(shift, now)

\* service_date_stale() and has_changed()
ServiceDateStale == static.date # Today
HasChanged == static.version # ComputeVersion(Bundles[disk])

Quiet == window' = {} /\ matching' = MatchingStats(0, 0, 0, 0, 0) /\ results' = {}

Unbuilt == [a \in Attributes |-> Null]
NotLoading == [at |-> 0, locals |-> Unbuilt]
Loading == loading.at # 0

Init ==
    /\ shift \in Shifts
    /\ now = Begin
    /\ disk = 1
    /\ ~LoadRaises(Bundles[1], DateOf(shift, now))
    /\ static = Snapshot(Bundles[1], DateOf(shift, now))
    /\ loading = NotLoading
    /\ checkDue = TRUE
    /\ window = {} /\ matching = MatchingStats(0, 0, 0, 0, 0) /\ results = {}

\* Time passes, in the middle of a load() too.
Tick ==
    /\ now < End
    /\ now' = now + 1
    /\ checkDue' = TRUE
    /\ Quiet
    /\ UNCHANGED <<shift, disk, static, loading>>

\* The publisher's next bundle is on disk.  (The thread that loads also downloads.)
Replace ==
    /\ ~Loading
    /\ disk < Len(Bundles)
    /\ disk' = disk + 1
    /\ Quiet
    /\ UNCHANGED <<shift, now, static, loading, checkDue>>

\* _maybe_refresh_gtfs_static(): the service date is compared in every iteration.
DateCheck ==
    /\ ~Loading /\ checkDue
    /\ checkDue' = FALSE
    /\ loading' = [loading EXCEPT !.at = IF ServiceDateStale THEN 1 ELSE 0]
    /\ Quiet
    /\ UNCHANGED <<shift, now, disk, static>>

\* The daily check: reload_if_changed().
DailyCheck ==
    /\ ~Loading /\ ~checkDue
    /\ HasChanged \/ ServiceDateStale
    /\ loading' = [loading EXCEPT !.at = 1]
    /\ Quiet
    /\ UNCHANGED <<shift, now, disk, static, checkDue>>

\* The statement that load() is at.
Statement == LoadBody[loading.at]
StatementRaises == Raises(Statement, Bundles[disk], loading.locals.date)

\* The callers log what load() raises, and keep the attributes as they are by then.
LoadFails ==
    /\ Loading /\ StatementRaises
    /\ loading' = NotLoading
    /\ Quiet
    /\ UNCHANGED <<shift, now, disk, static, checkDue>>

Built(attribute) ==
    IF attribute = "date" THEN Today
    ELSE Snapshot(Bundles[disk], loading.locals.date)[attribute]

LoadBuilds ==
    /\ Loading /\ ~StatementRaises
    /\ Statement[1] \in {"check", "build"}
    /\ loading' = [at |-> loading.at + 1,
                   locals |-> IF Statement[1] = "check" THEN loading.locals
                              ELSE [loading.locals EXCEPT ![Statement[2]] = Built(Statement[2])]]
    /\ Quiet
    /\ UNCHANGED <<shift, now, disk, static, checkDue>>

LoadAssigns ==
    /\ Loading /\ Statement[1] = "assign"
    /\ static' = [static EXCEPT ![Statement[2]] = loading.locals[Statement[2]]]
    /\ loading' = IF loading.at = Len(LoadBody) THEN NotLoading
                  ELSE [loading EXCEPT !.at = loading.at + 1]
    /\ Quiet
    /\ UNCHANGED <<shift, now, disk, checkDue>>

ProcessWindow(pings) ==
    /\ ~Loading /\ ~checkDue
    /\ window' = pings
    /\ LET arrivals == Arrivals(pings)
           passing == {p \in arrivals : PassesGate(p)}
       IN  /\ matching' = ComputeMatchingStats(pings, Cardinality(arrivals \ passing))
           /\ results' = {Deviation(p) : p \in passing}
    /\ UNCHANGED <<shift, now, disk, static, loading, checkDue>>

Next ==
    \/ Tick \/ Replace \/ DateCheck \/ DailyCheck
    \/ LoadFails \/ LoadBuilds \/ LoadAssigns
    \/ \E pings \in kSubset(1, Pings) \cup kSubset(MaxWindow, Pings) : ProcessWindow(pings)

Spec == Init /\ [][Next]_vars

-----------------------------------------------------------------------------
(***************************************************************************)
(* Properties.                                                             *)
(***************************************************************************)
\* The time, the clocks and the deviations are in range; the service date of the lookups
\* is never in the future.
TypeOK ==
    /\ shift \in Shifts /\ now \in Begin .. End /\ disk \in 1 .. Len(Bundles)
    /\ checkDue \in BOOLEAN /\ loading.at \in 0 .. Len(LoadBody)
    /\ static.date \in FirstDay .. Today
    /\ {r.ping : r \in results} \subseteq window
    /\ {r.seconds : r \in results} \subseteq -Gate .. Gate

\* How far an arrival may be from its schedule, and the schedule from its service day.
WithinReach(offset, delay) ==
    /\ 2 * delay < DayTicks - Hour /\ -(DayTicks - Hour) < 2 * delay
    /\ -(DayTicks - Hour) <= offset + delay /\ offset + delay < 2 * DayTicks - Hour

\* The feed the arithmetic is meant for (docstring of resolve_scheduled_datetime()): real
\* trips, arrivals that no bundle moves, and vehicles less than half a day off schedule.
PlausibleFeed ==
    /\ \A b \in DOMAIN Bundles : \A st \in Bundles[b].stopTimes :
        /\ st.trip # "ADDED"
        /\ st.arrival # Null =>
            /\ st.arrival \in Int
            /\ \A delay \in Delays : WithinReach(st.arrival, delay)
    /\ \A b, c \in DOMAIN Bundles : \A x \in Bundles[b].stopTimes, y \in Bundles[c].stopTimes :
        x.trip = y.trip /\ x.sequence = y.sequence => x.arrival = y.arrival

\* What GTFS requires of a feed, and what the publisher's versions are for: trips and
\* stop times under keys of their own, rows of calendar_dates.txt that add or remove, and
\* bundles that has_changed() tells apart.
WellFormedFeed ==
    /\ \A b \in DOMAIN Bundles :
        /\ \A st \in Bundles[b].stopTimes : st.trip # Null /\ st.sequence # Null
        /\ \A x, y \in Bundles[b].stopTimes :
            x.trip = y.trip /\ x.sequence = y.sequence => x = y
        /\ \A t, u \in Bundles[b].trips : t.id = u.id => t = u
        /\ ExceptionRows(Bundles[b]) \in Seq(ToSet(ExceptionRows(Bundles[b])))
        /\ \A r \in ToSet(ExceptionRows(Bundles[b])) : r.type \in {"added", "removed"}
    /\ \A b, c \in DOMAIN Bundles :
        ComputeVersion(Bundles[b]) = ComputeVersion(Bundles[c]) => b = c

\* Finite files, and finitely many delays: a window can be counted.
FiniteFeed ==
    IsFiniteSet(Delays) /\ \A b \in DOMAIN Bundles : IsFiniteSet(Bundles[b].stopTimes)

\* The Nov 1-2 incident: whatever the clocks did, a deviation is how late the vehicle
\* was for its own service day, and nothing else passes the gate.
DeviationIsTrue == \A r \in results : r.seconds = r.ping.delay

\* A service of the window is removed by an exception on one of the days around day d.
RemovedNear(service, d) ==
    \E r \in ToSet(ExceptionRows(Bundles[disk])) :
        r.service = service /\ r.type = "removed" /\ r.day \in d - 1 .. d + 1

ServiceOf(p) == RowWith(Bundles[disk].trips, p.trip).service

InTime(p) == p.trip # "ADDED" /\ p.sequence # Null /\ p.stop # Null /\ Apart(p.delay, 0) <= Gate

\* The lookups are on the bundle and on the date.
UpToDate == ~Loading /\ static.date = Today /\ ~HasChanged

\* Every on-time arrival of a window yields its deviation, on the days around a change of
\* the clocks and after midnight too, once the lookups are on the bundle and the date
\* (see ServicesOfTodayKnown for the exception).
OnTimeIsReported ==
    UpToDate =>
        \A p \in {q \in window : InTime(q) /\ ~RemovedNear(ServiceOf(q), Today)} :
            p \in {r.ping : r \in results}

\* Every ping of a window is counted once, whatever it lacks, and an arrival that the
\* gate dropped was a matched one.
EveryPingCounted ==
    /\ matching.total = Cardinality(window)
    /\ matching.matched + matching.missing + matching.unmatched = matching.total
    /\ matching.dropped + Cardinality(results) <= matching.matched

Snapshots == [x \in (DOMAIN Bundles) \X Days |-> Snapshot(Bundles[x[1]], x[2])]

\* At whatever statement load() raises, and if midnight passes meanwhile, it never leaves a
\* mixture: between loads all that is served comes from one bundle and one date.
LookupsOfOneBundle ==
    ~Loading => \E b \in 1 .. disk : static = Snapshots[<<b, static.date>>]

\* loader.py:267: the lookups hold the services that are active today.
ServicesOfTodayKnown ==
    UpToDate =>
        \A x \in Schedulings[disk] :
            x[2] = Today => <<x[1].trip, x[1].sequence>> \in DOMAIN static.stopTimes

===============================================================================
