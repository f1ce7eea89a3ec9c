--------------------------- MODULE BunchingDetection ---------------------------
(***************************************************************************)
(* metrics/bunching.py as operators on a set of pings: find_close_pairs()  *)
(* and detect_bunching_events().                                           *)
(*                                                                         *)
(* Time is in ticks; a poll interval is a bucket of BucketTicks.  A place  *)
(* is a point on a line, so the distance of two pings is a number.         *)
(***************************************************************************)
EXTENDS Integers, FiniteSets, FiniteSetsExt

CONSTANTS
    Vehicles,           \* a set of numbers: vehicle_id and its order
    Trips,              \* the values of trip_id
    RouteOf,            \* [Trips -> routes]
    DirectionOf,        \* direction_lookup: [Trips -> directions], or
    NoDirection,        \* a trip that trips.txt does not know
    NoPlace,            \* lat or lon is missing
    Terminals,          \* trip_terminals: [Trips -> set of places]
    BucketTicks,        \* POLL_INTERVAL_SECONDS
    Threshold,          \* DISTANCE_THRESHOLD_METERS
    TerminalRadius,     \* TERMINAL_RADIUS_METERS
    MinConsecutive      \* MIN_CONSECUTIVE_OBSERVATIONS

ASSUME DetectionAssumption ==
    /\ Vehicles \subseteq Int /\ IsFiniteSet(Vehicles)
    /\ BucketTicks \in Nat \ {0} /\ MinConsecutive \in Nat \ {0}
    /\ Threshold \in Nat /\ TerminalRadius \in Nat

\* CONSECUTIVE_TOLERANCE_FACTOR, in buckets.
Tolerated == 2

Distance(x, y) == IF x <= y THEN y - x ELSE x - y

Bucket(t) == t \div BucketTicks

-----------------------------------------------------------------------------
(***************************************************************************)
(* find_close_pairs().                                                     *)
(***************************************************************************)
Usable(pings) ==
    {p \in pings : DirectionOf[p.trip] # NoDirection /\ p.place # NoPlace}

\* A vehicle counts once per bucket, with its first usable ping.
FirstInBucket(pings) ==
    {p \in pings : \A q \in pings :
        q.vehicle = p.vehicle /\ Bucket(q.at) = Bucket(p.at) => p.at <= q.at}

NearTerminal(p) ==
    \E t \in Terminals[p.trip] : Distance(p.place, t) <= TerminalRadius

Comparable(p, q) ==
    /\ p.vehicle < q.vehicle
    /\ Bucket(p.at) = Bucket(q.at)
    /\ RouteOf[p.trip] = RouteOf[q.trip]
    /\ DirectionOf[p.trip] = DirectionOf[q.trip]

PairObservation(p, q) ==
    [key |-> [route |-> RouteOf[p.trip], direction |-> DirectionOf[p.trip],
              a |-> p.vehicle, b |-> q.vehicle],
     bucket |-> Bucket(p.at),
     distance |-> Distance(p.place, q.place),
     staged |-> NearTerminal(p) /\ NearTerminal(q)]

Pairs(pings) ==
    LET seen == FirstInBucket(Usable(pings)) IN
    {PairObservation(pq[1], pq[2]) : pq \in {x \in seen \X seen : Comparable(x[1], x[2])}}

Close(pairs) == {x \in pairs : x.distance <= Threshold /\ ~x.staged}
Separated(pairs) == {x \in pairs : x.distance > Threshold}

KeysIn(pairs) == {x.key : x \in pairs}
OfKey(pairs, key) == {x \in pairs : x.key = key}
BucketsOf(pairs) == {x.bucket : x \in pairs}

-----------------------------------------------------------------------------
(***************************************************************************)
(* detect_bunching_events().                                               *)
(***************************************************************************)
\* Mutant: a separation between two observations is not looked at.
Linked_IgnoresSeparation(separated, x, y) == y - x <= Tolerated

\* Two observations of a pair belong to one run: neighbours, or with
\* one bucket between them in which the pair was not seen apart.
Linked(separated, x, y) ==
    \/ y - x = 1
    \/ y - x <= Tolerated /\ \A s \in separated : ~(x < s /\ s < y)

\* The loop over a pair's observations: one that no earlier one is linked to starts the
\* next run, which goes on to the start of the one after it.
RunStarts(buckets, separated) ==
    {x \in buckets : \A y \in buckets : y < x => ~Linked(separated, y, x)}

RunFrom(buckets, separated, x) ==
    {y \in buckets : x <= y /\ \A z \in RunStarts(buckets, separated) : ~(x < z /\ z <= y)}

Runs(buckets, separated) ==
    {RunFrom(buckets, separated, x) : x \in RunStarts(buckets, separated)}

Event(key, run, close) ==
    [key |-> key, start |-> Min(run), end |-> Max(run), count |-> Cardinality(run),
     nearest |-> Min({x.distance : x \in {y \in close : y.bucket \in run}})]

EventsOf(key, close, separated) ==
    {Event(key, run, close) :
        run \in {r \in Runs(BucketsOf(close), BucketsOf(separated)) :
                    Cardinality(r) >= MinConsecutive}}

DetectEvents(pings) ==
    LET pairs == Pairs(pings) IN
    UNION {EventsOf(key, OfKey(Close(pairs), key), OfKey(Separated(pairs), key)) :
            key \in KeysIn(Close(pairs))}

=============================================================================
