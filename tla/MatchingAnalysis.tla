---------------------------- MODULE MatchingAnalysis ----------------------------
(***************************************************************************)
(* Notebooks 02 (stop matching) and 03 (schedule deviation) as operators   *)
(* on a window's pings and the files of a bundle, and what they have in    *)
(* common with the engine, which works on the lookups of a service date.   *)
(***************************************************************************)
EXTENDS ScheduleMatching

TripsOf(pings) == {p.trip : p \in pings} \ {Null}

-----------------------------------------------------------------------------
(***************************************************************************)
(* Notebook 02.                                                            *)
(***************************************************************************)
\* LEFT JOIN stops.txt: a ping with the place of its own stop_id.
WithStop(pings, bundle) ==
    {[ping |-> p, place |-> PlaceOf(bundle.stops, p)] : p \in pings}

\* The pings whose stop_id came with them.
DirectlyReported(pings) == {p \in pings : p.stop # Null}

\* Trips with pings that have no stop_id: can stop_times.txt say where they were?
NullStopTrips(pings) == TripsOf(pings \ DirectlyReported(pings))

Resolvable(pings, bundle) ==
    {t \in NullStopTrips(pings) : t \in {st.trip : st \in bundle.stopTimes}}

\* All the pings of those trips, with a stop_id or without.
Recoverable(pings, bundle) == {p \in pings : p.trip \in Resolvable(pings, bundle)}

-----------------------------------------------------------------------------
(***************************************************************************)
(* Notebook 03.                                                            *)
(***************************************************************************)
\* The stop_times of the sampled trips that are after 24:00:00.
MidnightCrossers(pings, bundle) ==
    {st \in bundle.stopTimes :
        /\ st.trip \in TripsOf(pings)
        /\ \/ st.arrival # Null /\ st.arrival >= DayTicks
           \/ st.departure # Null /\ st.departure >= DayTicks}

\* The lookup the final notebook hands to the engine's functions: no service filter.
SampleLookup(pings, bundle) ==
    StopTimesLookup({st \in bundle.stopTimes : st.trip \in TripsOf(pings)})

\* compute_departure_deviations(), which only the final notebook calls: the deviation of
\* a vehicle's last ping at a stop from the stop's departure.
DepartureDeviations(pings, lookup) ==
    {[ping |-> p,
      seconds |-> now - ResolveScheduled(shift, now, lookup[Key(p)].departure)] :
        p \in {q \in DirectlyReported(pings) :
                Key(q) \in DOMAIN lookup /\ lookup[Key(q)].departure # Null}}

\* The prototype prefers the arrival, and falls back to the departure.
ScheduledTime(st) == IF st.arrival # Null THEN st.arrival ELSE st.departure

\* query_join_static: JOIN stop_times.txt on trip and stop_sequence.
WithSchedule(pings, bundle) ==
    {x \in DirectlyReported(pings) \X bundle.stopTimes :
        Key(x[1]) = <<x[2].trip, x[2].sequence>> /\ ScheduledTime(x[2]) # Null}

PrototypeDeviation(st) == now - ResolveFromMidnight(shift, now, ScheduledTime(st))

\* The prototype's deviations of arrivals that are not extreme.
PrototypeArrivals(pings, bundle) ==
    {[ping |-> x[1], seconds |-> PrototypeDeviation(x[2])] :
        x \in {y \in WithSchedule(pings, bundle) :
                y[2].arrival # Null /\ Apart(PrototypeDeviation(y[2]), 0) <= Gate}}

-----------------------------------------------------------------------------
(***************************************************************************)
(* Notebook 04's audit of the directions.                                  *)
(***************************************************************************)
StopButNoDirection(pings, bundle) ==
    {p \in DirectlyReported(pings) : p.trip \notin DOMAIN DirectionLookup(bundle.trips)}

\* The decisive test: are their trips missing from trips.txt, or is the field empty?
MissingTrips(pings, bundle) ==
    TripsOf(StopButNoDirection(pings, bundle)) \ {t.id : t \in bundle.trips}

-----------------------------------------------------------------------------
\* A trip the filter of the lookups keeps.
Active(p) == \E t \in KeptTrips(Bundles[disk], Today) : t.id = p.trip

\* The night on which the prototype's "offset from midnight" is an hour off.
ClocksChange == shift # 0 /\ Today \in {ShiftDay - 1, ShiftDay}

\* Vehicles depart in the half-day of their arrival: what compute_departure_deviations()
\* takes for granted of the pings that become deviations.
ShortStops ==
    \A b \in DOMAIN Bundles : \A st \in Bundles[b].stopTimes :
        st.arrival # Null /\ st.departure # Null =>
            /\ st.departure \in Int
            /\ \A delay \in Delays : Apart(delay, 0) <= Gate =>
                    WithinReach(st.departure, delay + st.arrival - st.departure)

\* While the lookups are on the bundle and the date, the engine and the notebooks it was
\* validated against say the same of a window: the pings that match, those without a
\* direction, which arrivals happened after midnight of their service day; and the
\* deviations, except in the night the clocks change, which the prototype got wrong.
EngineAgreesWithNotebooks ==
    LET bundle == Bundles[disk]
        reported == {[ping |-> r.ping, seconds |-> r.seconds] : r \in results}
        lookup == SampleLookup(window, bundle)
    IN  UpToDate =>
        /\ matching.matched = Cardinality({p \in window :
                Active(p) /\ ~MissesField(p) /\ Key(p) \in DOMAIN lookup})
        /\ \A p \in Recoverable(window, bundle) \ DirectlyReported(window) :
                p \notin {r.ping : r \in results}
        /\ \A r \in results : [ping |-> r.ping, place |-> r.location] \in WithStop(window, bundle)
        /\ \A p \in {q \in DirectlyReported(window) : Active(q)} :
                /\ p \in StopButNoDirection(window, bundle) <=> p.trip \notin DOMAIN static.directions
                /\ p.trip \notin MissingTrips(window, bundle)
        /\ ~ClocksChange => reported = {x \in PrototypeArrivals(window, bundle) : Active(x.ping)}
        /\ \A r \in results : r.ping.day < Today /\ r.seconds <= 0 =>
                lookup[Key(r.ping)] \in MidnightCrossers(window, bundle)
        /\ \A r \in reported, x \in DepartureDeviations(window, lookup) :
                r.ping = x.ping => r.seconds - x.seconds =
                    lookup[Key(r.ping)].departure - lookup[Key(r.ping)].arrival

===============================================================================
