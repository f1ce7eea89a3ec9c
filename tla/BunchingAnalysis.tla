---------------------------- MODULE BunchingAnalysis ----------------------------
(***************************************************************************)
(* Notebook 04 (bunching), in its exploratory and its final version, as    *)
(* operators on the pings the engine has processed, and what they have in  *)
(* common with metrics/bunching.py, which was validated against them.      *)
(***************************************************************************)
EXTENDS BunchingTracker

CONSTANTS
    Thresholds,         \* distance_thresholds of the sweep
    Persistence         \* persistence_options of the sweep

-----------------------------------------------------------------------------
(***************************************************************************)
(* The pings with their direction, and the pairs.                          *)
(***************************************************************************)
\* LEFT JOIN trips.txt: a trip it does not know has no direction.
WithDirection(pings) ==
    {[ping |-> p, route |-> RouteOf[p.trip], direction |-> DirectionOf[p.trip]] : p \in pings}

\* dropna(subset=['direction_id', 'lat', 'lon'])
Complete(table) == {r \in table : r.direction # NoDirection /\ r.ping.place # NoPlace}

\* The exploratory self-join: any two pings at most a poll interval apart, so that a
\* pair of vehicles may have several rows in one bucket.
Joined(table) ==
    {[key |-> [route |-> x[1].route, direction |-> x[1].direction,
               a |-> x[1].ping.vehicle, b |-> x[2].ping.vehicle],
      bucket |-> Bucket(x[1].ping.at), at |-> <<x[1].ping.at, x[2].ping.at>>,
      distance |-> Distance(x[1].ping.place, x[2].ping.place)] :
        x \in {y \in table \X table :
            /\ y[1].route = y[2].route /\ y[1].direction = y[2].direction
            /\ y[1].ping.vehicle < y[2].ping.vehicle
            /\ Distance(y[1].ping.at, y[2].ping.at) <= BucketTicks}}

\* The rows of the join that find_close_pairs() keeps, which the final notebook uses.
Kept(pings) ==
    {r \in Joined(Complete(WithDirection(FirstInBucket(Usable(pings))))) :
        Bucket(r.at[2]) = r.bucket}

-----------------------------------------------------------------------------
(***************************************************************************)
(* Counting events, twice.                                                 *)
(***************************************************************************)
Before(r, s) ==
    \/ r.bucket < s.bucket
    \/ r.bucket = s.bucket /\ r.at[1] < s.at[1]
    \/ r.bucket = s.bucket /\ r.at[1] = s.at[1] /\ r.at[2] <= s.at[2]

\* "Islands and gaps": the rows of a pair are ranked, and a bucket less its rank is the
\* same number for all of a streak -- of buckets with one row each.
Islands(table) ==
    LET base(r) == r.bucket - Cardinality({s \in table : Before(s, r)})
    IN  {{s \in table : base(s) = base(r)} : r \in table}

\* pair_id: the two vehicles, whatever their route and direction.
PairId(r) == <<r.key.a, r.key.b>>
PairIds(table) == {PairId(r) : r \in table}
OfPair(table, id) == {r \in table : PairId(r) = id}

\* Mutant: the rows are grouped by route and direction as well.
CountInitial_ByKey(table, threshold, minimum) ==
    LET close == {r \in table : r.distance <= threshold} IN
    Cardinality({i \in UNION {Islands(OfKey(close, key)) : key \in KeysIn(close)} :
                    Cardinality(i) >= minimum})

\* count_bunching_events() of the exploratory notebook: a pair of vehicles that is close in
\* one direction and then in the other goes on in one streak.
CountInitial(table, threshold, minimum) ==
    LET close == {r \in table : r.distance <= threshold} IN
    Cardinality({i \in UNION {Islands(OfPair(close, id)) : id \in PairIds(close)} :
                    Cardinality(i) >= minimum})

\* detect_bunching_events() without separation information: any gap is a break.
RunsWithoutSeparation(buckets) ==
    Runs(buckets, {x + 1 : x \in buckets} \ buckets)

\* The runs of the pairs of vehicles, grouped as the exploratory notebook groups them.
CountByVehicles(pings, threshold, minimum) ==
    LET close == {x \in Pairs(pings) : x.distance <= threshold} IN
    Cardinality(UNION {{<<id, run>> :
        run \in {r \in RunsWithoutSeparation(BucketsOf(OfPair(close, id))) : Cardinality(r) >= minimum}} :
            id \in PairIds(close)})

\* count_bunching_events() of the final notebook, which calls the engine's functions,
\* without terminals.
CountBunchingEvents(pings, threshold, minimum) ==
    LET close == {x \in Pairs(pings) : x.distance <= threshold} IN
    Cardinality(UNION {{<<key, run>> :
        run \in {r \in RunsWithoutSeparation(BucketsOf(OfKey(close, key))) : Cardinality(r) >= minimum}} :
            key \in KeysIn(close)})

\* The sweep over every threshold and persistence, of either version.
SweepInitial(table) ==
    [x \in Thresholds \X Persistence |-> CountInitial(table, x[1], x[2])]

SweepByVehicles(pings) ==
    [x \in Thresholds \X Persistence |-> CountByVehicles(pings, x[1], x[2])]

Sweep(pings) ==
    [x \in Thresholds \X Persistence |-> CountBunchingEvents(pings, x[1], x[2])]

-----------------------------------------------------------------------------
(***************************************************************************)
(* Clusters: the connected components of the close pairs, by union-find.   *)
(***************************************************************************)
\* find(): up the chain of parents, halving the path on the way.
FindRoot(parent, x) ==
    LET up[n \in 0 .. Cardinality(DOMAIN parent)] ==
            IF n = 0 THEN x ELSE parent[up[n - 1]]
    IN  up[Cardinality(DOMAIN parent)]

WithVehicle(parent, x) ==
    [v \in DOMAIN parent \cup {x} |-> IF v \in DOMAIN parent THEN parent[v] ELSE v]

\* union(): the root of one becomes the parent of the other's.
UnionOf(parent, x, y) ==
    LET both == WithVehicle(WithVehicle(parent, x), y)
    IN  [both EXCEPT ![FindRoot(both, x)] = FindRoot(both, y)]

\* find_connected_components(): over the pairs of one bucket, in any order.
FindConnectedComponents(edges) ==
    LET parent == FoldSet(LAMBDA e, f : UnionOf(f, e[1], e[2]), <<>>, edges) IN
    {{w \in DOMAIN parent : FindRoot(parent, w) = FindRoot(parent, v)} :
        v \in DOMAIN parent}

\* The clusters of every route, direction and bucket, of pairs that may be at a terminal.
Clusters(pairs) ==
    UNION {{[route |-> g[1], direction |-> g[2], bucket |-> g[3], vehicles |-> c] :
        c \in FindConnectedComponents(
            {<<x.key.a, x.key.b>> : x \in {y \in pairs :
                <<y.key.route, y.key.direction, y.bucket>> = g}})} :
        g \in {<<x.key.route, x.key.direction, x.bucket>> : x \in pairs}}

-----------------------------------------------------------------------------
Reachable(edges, v) ==
    LET near(s) == s \cup {w \in Vehicles : \E u \in s : {<<u, w>>, <<w, u>>} \cap edges # {}}
        step[n \in 0 .. Cardinality(Vehicles)] == IF n = 0 THEN {v} ELSE near(step[n - 1])
    IN  step[Cardinality(Vehicles)]

\* No pair of vehicles was together on two routes or in two directions.
PairsKeepTheirPath(pings) ==
    \A x, y \in Pairs(pings) : PairId(x) = PairId(y) => x.key = y.key

\* The two notebooks and the engine on what has been processed: the engine's pairs are
\* rows of the exploratory join, one in each bucket; on those, ranking the rows of two
\* vehicles counts their runs, for every threshold and persistence, which are the
\* engine's and the final notebook's events if no pair changed its route or direction
\* (the engine begins a new event there, the exploratory notebook does not); the clusters
\* are the connected components of the pairs, here and for every set of pairs.
NotebooksAgree ==
    /\ pc = "write" /\ Undisturbed =>
        /\ Kept(seen) \subseteq Joined(Complete(WithDirection(seen)))
        /\ {<<x.key, x.bucket, x.distance>> : x \in Pairs(seen)}
                = {<<r.key, r.bucket, r.distance>> : r \in Kept(seen)}
        /\ SweepInitial(Kept(seen)) = SweepByVehicles(seen)
        /\ PairsKeepTheirPath(seen) => SweepByVehicles(seen) = Sweep(seen)
        /\ \A c \in Clusters({x \in Pairs(seen) : x.distance <= Threshold}) :
                Cardinality(c.vehicles) >= 2
    /\ clock = 0 =>
        \A edges \in SUBSET {e \in Vehicles \X Vehicles : e[1] < e[2]} :
            FindConnectedComponents(edges) =
                {Reachable(edges, v) : v \in UNION {{e[1], e[2]} : e \in edges}}

===============================================================================
