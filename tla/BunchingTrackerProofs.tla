------------------------- MODULE BunchingTrackerProofs -------------------------
(***************************************************************************)
(* Theorems of BunchingTracker: what its documents may span and must have  *)
(* seen, for every window, overlap and retention, through failed writes    *)
(* and restarts, as long as one vehicle's pings arrive in order; and that  *)
(* without failures no incident is missed, if all pings do.                *)
(*                                                                         *)
(* And of BunchingAnalysis: that the two notebooks and the engine find the *)
(* same pairs and count the same events, for every threshold, and that     *)
(* union-find returns the connected components.                            *)
(***************************************************************************)
EXTENDS BunchingAnalysis, FiniteSetTheorems, WellFoundedInduction, TLAPS

-----------------------------------------------------------------------------
(***************************************************************************)
(* Induction, as a statement about sets of naturals: what a fold over a    *)
(* finite set needs to be the function its recursion describes.            *)
(***************************************************************************)
\* A set of naturals has a least element.
LEMMA LeastNatural ==
    ASSUME NEW S \in SUBSET Nat, S # {}
    PROVE  \E x \in S : \A y \in S : x <= y
<1> DEFINE R == OpToRel(<, Nat)
<1>1. IsWellFoundedOn(R, Nat)
  BY NatLessThanWellFounded
<1>2. \A x, y \in Nat : <<y, x>> \in R <=> y < x
  BY DEF OpToRel
<1> HIDE DEF R
<1>3. PICK x \in S : \A y \in S : ~(<<y, x>> \in R)
  BY <1>1, WFMin
<1>4. \A y \in S : ~(y < x)
  BY <1>2, <1>3
<1>5. x \in Nat /\ \A y \in S : y \in Nat
  OBVIOUS
<1> QED BY <1>4, <1>5

\* A set of naturals that holds 0 and the successors of what it holds is all of them.
LEMMA SetInduction ==
    ASSUME NEW P \in SUBSET Nat, 0 \in P, \A n \in P : n + 1 \in P
    PROVE  P = Nat
<1>1. SUFFICES ASSUME Nat \ P # {} PROVE FALSE  OBVIOUS
<1>2. PICK n \in Nat \ P : \A m \in Nat \ P : n <= m  BY <1>1, LeastNatural
<1>3. n # 0 /\ n - 1 \in Nat /\ ~(n <= n - 1) /\ (n - 1) + 1 = n  BY <1>2
<1>4. n - 1 \in P  BY <1>2, <1>3
<1> QED  BY <1>2, <1>3, <1>4

\* A recursion over the subsets of D: pick takes an element out, step deals with it.
Picks(pick, D) == \A s \in (SUBSET D) \ {{}} : pick[s] \in s

Steps(step, D, V) == \A d \in D, v \in V : step[<<d, v>>] \in V

Solution(g, D, V, base, pick, step) ==
    /\ g \in [SUBSET D -> V]
    /\ \A s \in SUBSET D :
        g[s] = IF s = {} THEN base ELSE step[<<pick[s], g[s \ {pick[s]}]>>]

\* Over a finite set it has a solution.
LEMMA SetRecursion ==
    ASSUME NEW D, IsFiniteSet(D), NEW V, NEW base \in V,
           NEW pick, Picks(pick, D), NEW step, Steps(step, D, V)
    PROVE  \E g : Solution(g, D, V, base, pick, step)
<1> USE DEF Picks, Steps
<1> DEFINE Small(n) == {s \in SUBSET D : Cardinality(s) <= n}
           Solves(g, n) == /\ g \in [SUBSET D -> V]
                           /\ \A s \in Small(n) :
                                g[s] = IF s = {} THEN base ELSE step[<<pick[s], g[s \ {pick[s]}]>>]
           P == {n \in Nat : \E g : Solves(g, n)}
<1>1. \A s \in SUBSET D : IsFiniteSet(s) /\ Cardinality(s) \in Nat
  BY FS_Subset, FS_CardinalityType
<1>2. 0 \in P
  <2> DEFINE g == [s \in SUBSET D |-> base]
  <2>1. \A s \in Small(0) : s = {}  BY <1>1, FS_EmptySet
  <2>2. Solves(g, 0)  BY <2>1
  <2> HIDE DEF g, Solves
  <2>3. \E f : Solves(f, 0)  BY <2>2
  <2> QED  BY <2>3
<1>3. ASSUME NEW n \in P PROVE n + 1 \in P
  <2>1. n \in Nat /\ \E g : Solves(g, n)  BY <1>3
  <2>2. PICK g : Solves(g, n)  BY <2>1
  <2> DEFINE h == [s \in SUBSET D |->
                    IF s = {} THEN base ELSE step[<<pick[s], g[s \ {pick[s]}]>>]]
  <2>3. h \in [SUBSET D -> V]
    <3>1. \A s \in SUBSET D : s # {} => pick[s] \in D /\ g[s \ {pick[s]}] \in V  BY <2>2
    <3> HIDE DEF Solves
    <3> QED  BY <3>1
  <2>4. \A s \in Small(n) : h[s] = g[s]  BY <2>2
  <2>5. ASSUME NEW s \in Small(n + 1), s # {} PROVE s \ {pick[s]} \in Small(n)
    <3>1. pick[s] \in s /\ s \in SUBSET D  BY <2>5
    <3>2. Cardinality(s \ {pick[s]}) = Cardinality(s) - 1
      BY <1>1, <3>1, FS_RemoveElement
    <3> QED  BY <1>1, <2>1, <3>1, <3>2
  <2>6. \A s \in Small(n + 1) :
            h[s] = IF s = {} THEN base ELSE step[<<pick[s], h[s \ {pick[s]}]>>]
    <3> SUFFICES ASSUME NEW s \in Small(n + 1), s # {}
                 PROVE  h[s] = step[<<pick[s], h[s \ {pick[s]}]>>]
      OBVIOUS
    <3>1. h[s \ {pick[s]}] = g[s \ {pick[s]}]  BY <2>4, <2>5
    <3> QED  BY <3>1
  <2>7. Solves(h, n + 1)  BY <2>3, <2>6
  <2> HIDE DEF h, Solves
  <2>8. \E f : Solves(f, n + 1)  BY <2>7
  <2> QED  BY <2>1, <2>8
<1>4. Cardinality(D) \in P
  <2> HIDE DEF P
  <2>1. P \in SUBSET Nat  BY DEF P
  <2>2. P = Nat  BY <1>2, <1>3, <2>1, SetInduction
  <2> QED  BY <1>1, <2>2
<1>5. PICK g : Solves(g, Cardinality(D))  BY <1>4
<1>6. SUBSET D = Small(Cardinality(D))  BY FS_Subset
<1> QED  BY <1>5, <1>6 DEF Solution

\* What holds of nothing, and of a set if it holds of the set without the element picked,
\* holds of every part of a finite set.
LEMMA PickInduction ==
    ASSUME NEW D, IsFiniteSet(D), NEW pick, Picks(pick, D), NEW H \in SUBSET (SUBSET D),
           {} \in H, \A s \in (SUBSET D) \ {{}} : s \ {pick[s]} \in H => s \in H
    PROVE  \A s \in SUBSET D : s \in H
<1> DEFINE P == {n \in Nat : \A s \in SUBSET D : Cardinality(s) = n => s \in H}
<1>1. \A s \in SUBSET D : IsFiniteSet(s) /\ Cardinality(s) \in Nat
  BY FS_Subset, FS_CardinalityType
<1>2. 0 \in P
  <2>1. ASSUME NEW s \in SUBSET D, Cardinality(s) = 0 PROVE s \in H
    <3>1. s = {}  BY <1>1, <2>1, FS_EmptySet
    <3> QED  BY <3>1
  <2> QED  BY <2>1
<1>3. ASSUME NEW n \in P PROVE n + 1 \in P
  <2>0. SUFFICES ASSUME NEW s \in SUBSET D, Cardinality(s) = n + 1 PROVE s \in H
    OBVIOUS
  <2>1. n \in Nat /\ \A r \in SUBSET D : Cardinality(r) = n => r \in H  OBVIOUS
  <2>2. s # {}
    <3>1. n \in Nat /\ n + 1 # 0  BY <2>1
    <3>2. Cardinality({}) = 0  BY FS_EmptySet
    <3> QED  BY <2>0, <3>1, <3>2
  <2>3. pick[s] \in s  BY <2>2 DEF Picks
  <2>4. Cardinality(s \ {pick[s]}) = n
    <3>1. n \in Nat /\ IsFiniteSet(s)  BY <1>1, <2>1
    <3>2. Cardinality(s \ {pick[s]}) = Cardinality(s) - 1
      BY <2>3, <3>1, FS_RemoveElement
    <3> QED  BY <2>0, <3>1, <3>2
  <2>5. s \ {pick[s]} \in SUBSET D  OBVIOUS
  <2> QED  BY <2>1, <2>2, <2>4, <2>5
<1>4. P = Nat
  <2>1. P \in SUBSET Nat  OBVIOUS
  <2> HIDE DEF P
  <2> QED  BY <1>2, <1>3, <2>1, SetInduction
<1> QED  BY <1>1, <1>4

\* The image of a finite set is finite, and no larger.
LEMMA FiniteImage ==
    ASSUME NEW S, IsFiniteSet(S), NEW f, DOMAIN f = S
    PROVE  /\ IsFiniteSet({f[x] : x \in S})
           /\ Cardinality({f[x] : x \in S}) <= Cardinality(S)
<1> DEFINE T == {f[x] : x \in S}
           g == [x \in S |-> f[x]]
<1>1. g \in Surjection(S, T)  BY DEF Surjection
<1> HIDE DEF g, T
<1>2. IsFiniteSet(T) /\ Cardinality(T) <= Cardinality(S)  BY <1>1, FS_Surjection
<1> QED  BY <1>2 DEF T

-----------------------------------------------------------------------------
(***************************************************************************)
(* Buckets, minima and maxima.                                             *)
(***************************************************************************)
LEMMA BucketOrder ==
    ASSUME NEW x \in Nat, NEW y \in Nat
    PROVE  /\ Bucket(x) \in Nat
           /\ x <= y => Bucket(x) <= Bucket(y)
<1> DEFINE n == BucketTicks
<1>1. n \in Nat /\ n > 0  BY DetectionAssumption
<1>2. \A z \in Nat : z \div n \in Int /\ n * (z \div n) <= z /\ z < n * (z \div n) + n
  BY <1>1
<1>3. x \div n \in Nat /\ y \div n \in Nat  
  <2>1. ASSUME NEW z \in Nat, z \div n < 0 PROVE FALSE
    <3>1. z \div n \in Int /\ z < n * (z \div n) + n  BY <1>2
    <3>2. n * (z \div n) + n = n * ((z \div n) + 1)  BY <1>1, <3>1
    <3>3. n * ((z \div n) + 1) <= 0  BY <1>1, <2>1, <3>1
    <3> QED  BY <1>1, <3>1, <3>2, <3>3
  <2> QED  BY <1>2, <2>1
<1>4. ASSUME x <= y, y \div n < x \div n PROVE FALSE
  <2>1. (y \div n) + 1 <= x \div n  BY <1>2, <1>4
  <2>2. n * ((y \div n) + 1) <= n * (x \div n)  BY <1>1, <1>3, <2>1
  <2>3. n * ((y \div n) + 1) = n * (y \div n) + n  BY <1>1, <1>3
  <2> QED  BY <1>1, <1>2, <1>3, <1>4, <2>2, <2>3
<1> QED  BY <1>3, <1>4 DEF Bucket

\* The least and the greatest of a set of naturals up to n are in it.
LEMMA LeastAndGreatest ==
    ASSUME NEW n \in Nat, NEW S \in SUBSET (0 .. n), S # {}
    PROVE  /\ Min(S) \in S /\ \A x \in S : Min(S) <= x
           /\ Max(S) \in S /\ \A x \in S : x <= Max(S)
<1>1. \E x \in S : \A y \in S : x <= y
  <2>1. S \in SUBSET Nat  OBVIOUS
  <2> QED  BY <2>1, LeastNatural
<1>2. \E x \in S : \A y \in S : x >= y
  <2> DEFINE After == {n - i : i \in S}
  <2>1. After \in SUBSET Nat /\ After # {}
    <3>1. PICK i \in S : TRUE  OBVIOUS
    <3>2. n - i \in After  OBVIOUS
    <3>3. \A j \in S : n - j \in Nat  OBVIOUS
    <3> QED  BY <3>2, <3>3
  <2>2. PICK a \in After : \A b \in After : a <= b  BY <2>1, LeastNatural
  <2>3. PICK i \in S : a = n - i  BY <2>2
  <2>4. ASSUME NEW j \in S PROVE i >= j
    <3>1. n - j \in After  OBVIOUS
    <3>2. n - i <= n - j  BY <2>2, <2>3, <3>1
    <3> QED  BY <3>2
  <2> QED  BY <2>3, <2>4
<1>3. Min(S) \in S /\ \A y \in S : Min(S) <= y  BY <1>1 DEF Min
<1>4. Max(S) \in S /\ \A y \in S : Max(S) >= y  BY <1>2 DEF Max
<1> QED  BY <1>3, <1>4

\* The buckets a ping can be in.
Buckets == 0 .. Bucket(MaxTick)

LEMMA BucketsAreBounded ==
    /\ Bucket(MaxTick) \in Nat
    /\ \A b \in Buckets : b \in Nat
    /\ \A S \in SUBSET Buckets : IsFiniteSet(S)
<1>1. Bucket(MaxTick) \in Nat  BY BucketOrder, TrackerAssumption
<1>2. IsFiniteSet(Buckets)  BY <1>1, FS_Interval DEF Buckets
<1>3. \A b \in Buckets : b \in Nat  BY <1>1 DEF Buckets
<1>4. \A S \in SUBSET Buckets : IsFiniteSet(S)  BY <1>2, FS_Subset
<1> QED  BY <1>1, <1>3, <1>4

LEMMA FirstAndLast ==
    ASSUME NEW S \in SUBSET Buckets, S # {}
    PROVE  /\ Min(S) \in S /\ \A x \in S : Min(S) <= x
           /\ Max(S) \in S /\ \A x \in S : x <= Max(S)
  BY BucketsAreBounded, LeastAndGreatest DEF Buckets

-----------------------------------------------------------------------------
(***************************************************************************)
(* What a set of pings tells of one pair in one bucket.                    *)
(***************************************************************************)
IsPing(p) ==
    /\ p.vehicle \in Vehicles /\ p.trip \in Trips
    /\ p.at \in 0 .. MaxTick /\ p.place \in Int \cup {NoPlace}

\* S holds all that T has of the two vehicles of the pair in the bucket.
Covers(S, T, key, b) ==
    \A p \in T : p.vehicle \in {key.a, key.b} /\ Bucket(p.at) = b => p \in S

\* An observation of the pair in the bucket depends on nothing else.
LEMMA PairsAreLocal ==
    ASSUME NEW S, NEW T, NEW y \in Pairs(S),
           Covers(T, S, y.key, y.bucket), Covers(S, T, y.key, y.bucket)
    PROVE  y \in Pairs(T)
<1> DEFINE F(U) == FirstInBucket(Usable(U))
<1>1. PICK p \in F(S), q \in F(S) : Comparable(p, q) /\ y = PairObservation(p, q)
  BY DEF Pairs
<1>2. /\ y.key.a = p.vehicle /\ y.key.b = q.vehicle
      /\ y.bucket = Bucket(p.at) /\ y.bucket = Bucket(q.at)
  BY <1>1 DEF PairObservation, Comparable
<1>3. ASSUME NEW x \in F(S), x.vehicle \in {y.key.a, y.key.b}, Bucket(x.at) = y.bucket
      PROVE  x \in F(T)
  <2>1. x \in S /\ x \in Usable(S)  BY <1>3 DEF FirstInBucket, Usable
  <2>2. x \in Usable(T)  BY <1>3, <2>1 DEF Covers, Usable
  <2>3. ASSUME NEW z \in Usable(T), z.vehicle = x.vehicle, Bucket(z.at) = Bucket(x.at)
        PROVE  x.at <= z.at
    <3>1. z \in Usable(S)  BY <1>3, <2>3 DEF Covers, Usable
    <3> QED  BY <1>3, <2>3, <3>1 DEF FirstInBucket
  <2> QED  BY <2>2, <2>3 DEF FirstInBucket
<1>4. p \in F(T) /\ q \in F(T)  BY <1>1, <1>2, <1>3
<1> HIDE DEF F
<1>5. <<p, q>> \in {x \in F(T) \X F(T) : Comparable(x[1], x[2])}  BY <1>1, <1>4
<1> QED  BY <1>1, <1>5 DEF Pairs, F

\* An observation comes from a ping of either vehicle in the bucket.
LEMMA PairsComeFromPings ==
    ASSUME NEW S, \A p \in S : IsPing(p), NEW y \in Pairs(S)
    PROVE  /\ y.bucket \in Nat /\ y.bucket <= Bucket(MaxTick)
           /\ y.distance \in Nat /\ y.staged \in BOOLEAN
           /\ \E p \in Usable(S) : p.vehicle = y.key.a /\ Bucket(p.at) = y.bucket
           /\ \E p \in Usable(S) : p.vehicle = y.key.b /\ Bucket(p.at) = y.bucket
<1> DEFINE F == FirstInBucket(Usable(S))
<1>1. PICK p \in F, q \in F : Comparable(p, q) /\ y = PairObservation(p, q)
  BY DEF Pairs
<1>2. /\ p \in Usable(S) /\ q \in Usable(S)
      /\ p \in S /\ q \in S /\ p.place # NoPlace /\ q.place # NoPlace
  BY DEF FirstInBucket, Usable
<1>3. p.place \in Int /\ q.place \in Int /\ p.at \in Nat /\ p.at <= MaxTick
  BY <1>2, TrackerAssumption DEF IsPing
<1>4. /\ y.key.a = p.vehicle /\ y.key.b = q.vehicle
      /\ y.bucket = Bucket(p.at) /\ y.bucket = Bucket(q.at)
      /\ y.distance = Distance(p.place, q.place)
      /\ y.staged = (NearTerminal(p) /\ NearTerminal(q))
  BY <1>1 DEF PairObservation, Comparable
<1>5. y.distance \in Nat  BY <1>3, <1>4 DEF Distance
<1>6. y.bucket \in Nat /\ y.bucket <= Bucket(MaxTick)
  BY <1>3, <1>4, BucketOrder, TrackerAssumption
<1>7. y.staged \in BOOLEAN  BY <1>4 DEF NearTerminal
<1> QED  BY <1>2, <1>4, <1>5, <1>6, <1>7

-----------------------------------------------------------------------------
(***************************************************************************)
(* Runs.                                                                   *)
(***************************************************************************)
\* A run begins with its start and ends with its greatest observation.
LEMMA RunBounds ==
    ASSUME NEW buckets \in SUBSET Buckets, NEW separated,
           NEW x \in RunStarts(buckets, separated),
           NEW run, run = RunFrom(buckets, separated, x)
    PROVE  /\ x \in run /\ run \in SUBSET buckets
           /\ Min(run) = x /\ Max(run) \in run
           /\ \A y \in run : y \in Nat /\ x <= y /\ y <= Max(run)
<1>1. x \in buckets /\ x \in run /\ run \in SUBSET buckets
  <2>1. \A z \in buckets : z \in Nat  BY BucketsAreBounded
  <2> QED  BY <2>1 DEF RunStarts, RunFrom
<1>2. /\ Min(run) \in run /\ Max(run) \in run
      /\ \A y \in run : Min(run) <= y /\ y <= Max(run)
  <2>1. run \in SUBSET Buckets /\ run # {}  BY <1>1
  <2> QED  BY <2>1, FirstAndLast
<1>3. \A y \in buckets : y \in Nat  BY BucketsAreBounded
<1>4. \A y \in run : y \in Nat  BY <1>1, <1>3
<1>5. \A y \in run : x <= y  BY DEF RunFrom
<1>6. Min(run) = x
  <2>1. x <= Min(run) /\ Min(run) <= x  BY <1>1, <1>2, <1>5
  <2>2. x \in Nat /\ Min(run) \in Nat  BY <1>1, <1>2, <1>4
  <2> QED  BY <2>1, <2>2
<1> QED  BY <1>1, <1>2, <1>4, <1>5, <1>6

\* Of two runs one ends before the other begins.
LEMMA RunsAreApart ==
    ASSUME NEW buckets \in SUBSET Buckets, NEW separated,
           NEW r \in Runs(buckets, separated), NEW s \in Runs(buckets, separated), r # s
    PROVE  Max(r) < Min(s) \/ Max(s) < Min(r)
<1>1. PICK x \in RunStarts(buckets, separated) : r = RunFrom(buckets, separated, x)
  BY DEF Runs
<1>2. PICK y \in RunStarts(buckets, separated) : s = RunFrom(buckets, separated, y)
  BY DEF Runs
<1>3. Min(r) = x /\ Max(r) \in r /\ x \in r /\ \A z \in r : z \in Nat  BY <1>1, RunBounds
<1>4. Min(s) = y /\ Max(s) \in s /\ y \in s /\ \A z \in s : z \in Nat  BY <1>2, RunBounds
<1>5. ~(x < y /\ y <= Max(r))  BY <1>1, <1>3 DEF RunFrom
<1>6. ~(y < x /\ x <= Max(s))  BY <1>2, <1>4 DEF RunFrom
<1>7. x # y  BY <1>1, <1>2
<1>8. x \in Nat /\ y \in Nat /\ Max(r) \in Nat /\ Max(s) \in Nat  BY <1>3, <1>4
<1> HIDE <1>1, <1>2
<1> QED  BY <1>3, <1>4, <1>5, <1>6, <1>7, <1>8

\* Two linked observations are in one run.
LEMMA LinkedTogether ==
    ASSUME NEW buckets \in SUBSET Buckets, NEW separated,
           NEW x \in buckets, NEW y \in buckets, x < y, Linked(separated, x, y)
    PROVE  \E run \in Runs(buckets, separated) : x \in run /\ y \in run
<1> DEFINE Starts == {z \in RunStarts(buckets, separated) : z <= x}
<1>1. \A z \in buckets : z \in Nat  BY BucketsAreBounded
<1>2. RunStarts(buckets, separated) \subseteq buckets  BY DEF RunStarts
<1>3. Starts # {}
  <2>1. /\ Min(buckets) \in buckets
        /\ \A z \in buckets : Min(buckets) <= z
    BY FirstAndLast
  <2>2. \A z \in buckets : ~(z < Min(buckets))
    <3>1. ASSUME NEW z \in buckets, NEW m \in Nat, m <= z PROVE ~(z < m)  BY <1>1, <3>1
    <3> QED  BY <1>1, <2>1, <3>1
  <2>3. Min(buckets) \in RunStarts(buckets, separated)
    BY <2>1, <2>2 DEF RunStarts
  <2>4. Min(buckets) <= x  BY <2>1
  <2> QED  BY <2>3, <2>4
<1>4. Max(Starts) \in Starts /\ \A z \in Starts : z <= Max(Starts)
  <2>1. Starts \in SUBSET Buckets  BY <1>2
  <2> HIDE DEF Starts
  <2> QED  BY <1>3, <2>1, FirstAndLast
<1> DEFINE first == Max(Starts)
           run == RunFrom(buckets, separated, first)
<1>5. first \in RunStarts(buckets, separated) /\ first <= x /\ first \in Nat
  BY <1>1, <1>2, <1>4
<1>6. \A z \in RunStarts(buckets, separated) : ~(first < z /\ z <= x)
  <2>1. ASSUME NEW z \in RunStarts(buckets, separated), first < z, z <= x PROVE FALSE
    <3>1. z \in Starts  BY <2>1
    <3>2. z <= first  BY <1>4, <3>1
    <3>3. z \in Nat  BY <1>1, <1>2
    <3> HIDE DEF first
    <3> QED  BY <1>5, <2>1, <3>2, <3>3
  <2> QED  BY <2>1
<1> HIDE DEF first, Starts
<1>7. y \notin RunStarts(buckets, separated)  BY DEF RunStarts
<1>8. ASSUME NEW z \in RunStarts(buckets, separated), first < z, z <= y PROVE FALSE
  <2>1. z \in Nat /\ x \in Nat /\ y \in Nat  BY <1>1, <1>2
  <2>2. x < z /\ z < y  BY <1>6, <1>7, <1>8, <2>1
  <2>3. y - x <= 2  BY <2>1 DEF Linked, Tolerated
  <2>4. z - x = 1  BY <2>1, <2>2, <2>3
  <2>5. Linked(separated, x, z)  BY <2>4 DEF Linked
  <2> QED  BY <2>2, <2>5 DEF RunStarts
<1>9. x \in run /\ y \in run
  <2>1. first <= y  BY <1>1, <1>5
  <2> QED  BY <1>5, <1>6, <1>8, <2>1 DEF RunFrom
<1> QED  BY <1>5, <1>9 DEF Runs

\* Of two neighbours in a run, the second is linked to the first: a bucket in it that is
\* not an observation is a skipped one without a separation.
LEMMA RunsAreLinked ==
    ASSUME NEW buckets \in SUBSET Buckets, NEW separated,
           NEW run \in Runs(buckets, separated)
    PROVE  /\ run \in SUBSET buckets /\ run # {}
           /\ \A b \in Min(run) .. Max(run) : b \in run \/ b \notin buckets \cup separated
<1>1. PICK x \in RunStarts(buckets, separated) : run = RunFrom(buckets, separated, x)
  BY DEF Runs
<1>2. x \in buckets  BY DEF RunStarts
<1>3. /\ x \in run /\ run \in SUBSET buckets
      /\ Min(run) = x /\ Max(run) \in run
      /\ \A y \in run : x <= y /\ y <= Max(run)
  BY <1>1, RunBounds
<1>4. (\A y \in buckets : y \in Nat) /\ Max(run) \in Nat /\ x \in Nat
  BY <1>2, <1>3, BucketsAreBounded
<1>5. Min(run) = x  BY <1>3
<1> DEFINE m == Max(run)
<1>6. ASSUME NEW y \in buckets, x <= y, y <= m PROVE y \in run
  <2>1. \A z \in RunStarts(buckets, separated) : z \in buckets /\ ~(x < z /\ z <= m)
    BY <1>1, <1>3 DEF RunFrom, RunStarts
  <2>2. \A z \in RunStarts(buckets, separated) : ~(x < z /\ z <= y)
    BY <1>2, <1>3, <1>4, <1>6, <2>1
  <2> QED  BY <1>1, <1>6, <2>2 DEF RunFrom
<1>7. ASSUME NEW b \in x .. m, b \notin run PROVE b \notin buckets \cup separated
  <2>1. b \notin buckets /\ b \in Int  BY <1>2, <1>3, <1>4, <1>6, <1>7
  <2> DEFINE Later == {y \in run : b < y}
  <2>2. Later # {} /\ Later \in SUBSET Nat
    <3>1. b <= m /\ b # m /\ m \in run  BY <1>3, <1>7
    <3>2. m \in Later  BY <1>4, <2>1, <3>1
    <3> QED  BY <1>3, <1>4, <3>2
  <2>3. PICK y \in Later : \A z \in Later : y <= z  BY <2>2, LeastNatural
  <2>4. y \in buckets /\ y \in run /\ b < y /\ x < y /\ y <= m /\ x <= b /\ x # b
    BY <1>2, <1>3, <1>4, <1>7, <2>1
  <2>5. y \notin RunStarts(buckets, separated)
    BY <1>1, <1>2, <1>4, <2>4 DEF RunFrom
  <2>6. PICK z \in buckets : z < y /\ Linked(separated, z, y)
    BY <2>4, <2>5 DEF RunStarts
  <2>7. ~(b < z)
    <3> SUFFICES ASSUME b < z PROVE FALSE  OBVIOUS
    <3>1. z \in run  BY <1>2, <1>3, <1>4, <1>6, <2>1, <2>4, <2>6
    <3> QED  BY <1>4, <2>1, <2>3, <2>4, <2>6, <3>1
  <2>8. z < b /\ y - z # 1
    BY <1>4, <2>1, <2>4, <2>6, <2>7
  <2>9. \A s \in separated : ~(z < s /\ s < y)  BY <2>6, <2>8 DEF Linked
  <2> QED  BY <2>1, <2>4, <2>8, <2>9
<1> QED  BY <1>3, <1>5, <1>7

-----------------------------------------------------------------------------
(***************************************************************************)
(* Only finitely many events are found in a window.                        *)
(***************************************************************************)
LEMMA FinitePairs ==
    ASSUME NEW S, IsFiniteSet(S)
    PROVE  IsFiniteSet(Pairs(S))
<1> DEFINE F == FirstInBucket(Usable(S))
           X == {x \in F \X F : Comparable(x[1], x[2])}
           f == [x \in X |-> PairObservation(x[1], x[2])]
<1>1. IsFiniteSet(F)
  <2>1. F \subseteq S  BY DEF FirstInBucket, Usable
  <2> QED  BY <2>1, FS_Subset
<1>2. IsFiniteSet(X)  BY <1>1, FS_Product, FS_Subset
<1> HIDE DEF X
<1>3. IsFiniteSet({f[x] : x \in X})  BY <1>2, FiniteImage
<1>4. Pairs(S) = {f[x] : x \in X}  BY DEF Pairs, X
<1> QED  BY <1>3, <1>4

LEMMA FiniteEvents ==
    ASSUME NEW S, IsFiniteSet(S)
    PROVE  IsFiniteSet(DetectEvents(S))
<1> DEFINE C == Close(Pairs(S))
           D == Separated(Pairs(S))
           E(key) == EventsOf(key, OfKey(C, key), OfKey(D, key))
<1>1. IsFiniteSet(C)
  <2>1. C \subseteq Pairs(S)  BY DEF Close
  <2> QED  BY <2>1, FinitePairs, FS_Subset
<1>2. ASSUME NEW key PROVE IsFiniteSet(E(key))
  <2> DEFINE K == OfKey(C, key)
             B == BucketsOf(K)
             A == BucketsOf(OfKey(D, key))
             b == [x \in K |-> x.bucket]
             Starts == RunStarts(B, A)
             r == [x \in Starts |-> RunFrom(B, A, x)]
             Long == {run \in Runs(B, A) : Cardinality(run) >= MinConsecutive}
             e == [run \in Long |-> Event(key, run, K)]
  <2>1. IsFiniteSet(K)
    <3>1. K \subseteq C  BY DEF OfKey
    <3> QED  BY <1>1, <3>1, FS_Subset
  <2>2. IsFiniteSet(B)
    <3>1. B = {b[x] : x \in K}  BY DEF BucketsOf
    <3> HIDE DEF K, B
    <3>2. IsFiniteSet({b[x] : x \in K})  BY <2>1, FiniteImage
    <3> QED  BY <3>1, <3>2
  <2>3. IsFiniteSet(Starts)
    <3> HIDE DEF B, A
    <3>1. Starts \subseteq B  BY DEF RunStarts
    <3> QED  BY <2>2, <3>1, FS_Subset
  <2>4. IsFiniteSet(Runs(B, A))
    <3>1. Runs(B, A) = {r[x] : x \in Starts}  BY DEF Runs
    <3> HIDE DEF Starts, B, A
    <3>2. IsFiniteSet({r[x] : x \in Starts})  BY <2>3, FiniteImage
    <3> QED  BY <3>1, <3>2
  <2>5. IsFiniteSet(Long)
    <3> HIDE DEF B, A
    <3>1. Long \subseteq Runs(B, A)  OBVIOUS
    <3> QED  BY <2>4, <3>1, FS_Subset
  <2>6. E(key) = {e[run] : run \in Long}  BY DEF EventsOf
  <2> HIDE DEF Long, K
  <2>7. IsFiniteSet({e[run] : run \in Long})  BY <2>5, FiniteImage
  <2> QED  BY <2>6, <2>7
<1>3. IsFiniteSet(KeysIn(C))
  <2> DEFINE k == [x \in C |-> x.key]
  <2>1. KeysIn(C) = {k[x] : x \in C}  BY DEF KeysIn
  <2> HIDE DEF C
  <2>2. IsFiniteSet({k[x] : x \in C})  BY <1>1, FiniteImage
  <2> QED  BY <2>1, <2>2
<1> DEFINE g == [key \in KeysIn(C) |-> E(key)]
<1>4. DetectEvents(S) = UNION {g[key] : key \in KeysIn(C)}  BY DEF DetectEvents
<1>5. \A T \in {g[key] : key \in KeysIn(C)} : IsFiniteSet(T)
  <2> HIDE DEF E, C
  <2> QED  BY <1>2
<1>6. IsFiniteSet({g[key] : key \in KeysIn(C)})
  <2> HIDE DEF E, C
  <2> QED  BY <1>3, FiniteImage
<1> HIDE DEF g
<1> QED  BY <1>4, <1>5, <1>6, FS_UNION

-----------------------------------------------------------------------------
(***************************************************************************)
(* The invariant.                                                          *)
(***************************************************************************)
\* The pings the model still knows of.
Known == seen \cup uncommitted \cup rows

\* What is known has arrived, and the buffer and the uncommitted rows are, of each
\* vehicle, the last of it.
ArrivedInv ==
    /\ clock \in 0 .. MaxTick
    /\ IsFiniteSet(rows) /\ IsFiniteSet(uncommitted)
    /\ \A p \in Known : \E t \in 1 .. clock : \E batch \in Reports[t] : p \in batch

SuffixInv ==
    \A p, q \in Known : p.vehicle = q.vehicle =>
        /\ q \in rows /\ p \notin rows => p.at <= q.at
        /\ q \in uncommitted /\ p \notin uncommitted => p.at <= q.at

\* What a window judged it saw.
JudgedInv ==
    \A z \in judged :
        /\ z.bucket \in Nat /\ z.distance \in Nat /\ z.staged \in BOOLEAN
        /\ \E p \in Usable(seen) : p.vehicle = z.key.a /\ Bucket(p.at) = z.bucket
        /\ \E p \in Usable(seen) : p.vehicle = z.key.b /\ Bucket(p.at) = z.bucket

EventRecords ==
    [key : {z.key : z \in judged}, start : Buckets, end : Nat, count : Nat, nearest : Nat]

\* A window saw the pair in that bucket, not apart, and if it counts, no nearer.
SeenIn(e, b) ==
    \E z \in judged : /\ z.key = e.key /\ z.bucket = b
                      /\ z.distance <= Threshold
                      /\ ~z.staged => e.nearest <= z.distance

\* All that will ever be known of the pair in that bucket has been seen, and there is no
\* observation of it in that.
Unmet(key, b) ==
    /\ Covers(seen, Known, key, b)
    /\ \A y \in Pairs(seen) : ~(y.key = key /\ y.bucket = b)

Good(e) ==
    /\ e \in EventRecords
    /\ SeenIn(e, e.end)
    /\ \A b \in e.start .. e.end : SeenIn(e, b) \/ Unmet(e.key, b)

GoodEvents == {e \in EventRecords : Good(e)}

OnePerPair(events) == \A d, e \in events : d.key = e.key => d = e

\* Every event, tracked, on its way or stored, spans what its windows saw.
EventsInv ==
    /\ tracked \subseteq GoodEvents /\ OnePerPair(tracked)
    /\ \A a \in actions : Good(a.event)
    /\ \A e \in docs : Good(e)

BunchingInv == ArrivedInv /\ SuffixInv /\ JudgedInv /\ EventsInv

\* What is known are pings.
LEMMA KnownArePings ==
    ASSUME ArrivedInv, NEW p \in Known
    PROVE  IsPing(p) /\ p.at \in Nat
<1>1. PICK t \in 1 .. clock : \E batch \in Reports[t] : p \in batch  BY DEF ArrivedInv
<1> PICK batch \in Reports[t] : p \in batch  BY <1>1
<1>2. MaxTick \in Nat /\ t \in 1 .. MaxTick  BY TrackerAssumption DEF ArrivedInv
<1>3. p.at \in 0 .. t /\ t <= MaxTick /\ t \in Nat  BY <1>1, <1>2, TrackerAssumption
<1>4. p.at \in 0 .. MaxTick  BY <1>2, <1>3
<1> QED  BY <1>1, <1>2, <1>3, <1>4, TrackerAssumption DEF IsPing

\* Where a vehicle of the pair has a ping in the buffer, all that is known of it in the
\* later buckets is in the buffer.
LEMMA BufferCovers ==
    ASSUME ArrivedInv, SuffixInv, NEW key, NEW b \in Int,
           NEW p \in rows, p.vehicle = key.a, Bucket(p.at) < b,
           NEW q \in rows, q.vehicle = key.b, Bucket(q.at) < b
    PROVE  Covers(rows, Known, key, b)
<1> SUFFICES ASSUME NEW x \in Known, x.vehicle \in {key.a, key.b}, Bucket(x.at) = b,
                    x \notin rows
             PROVE  FALSE
  BY DEF Covers
<1>1. PICK y \in rows : y.vehicle = x.vehicle /\ Bucket(y.at) < b  OBVIOUS
<1>2. y \in Known  BY DEF Known
<1>3. x.at <= y.at  BY <1>1, <1>2 DEF SuffixInv
<1>4. x.at \in Nat /\ y.at \in Nat  BY <1>2, KnownArePings
<1>5. Bucket(x.at) <= Bucket(y.at) /\ Bucket(y.at) \in Nat  BY <1>3, <1>4, BucketOrder
<1> QED  BY <1>1, <1>5

\* An event of a window spans what that window saw.
LEMMA DetectedIsGood ==
    ASSUME ArrivedInv, SuffixInv,
           judged' = judged \cup Pairs(rows), seen' = seen \cup rows, Known' = Known,
           NEW e \in DetectEvents(rows)
    PROVE  Good(e)'
<1> DEFINE C == Close(Pairs(rows))
           D == Separated(Pairs(rows))
<1>1. PICK key \in KeysIn(C) : e \in EventsOf(key, OfKey(C, key), OfKey(D, key))
  BY DEF DetectEvents
<1> DEFINE K == OfKey(C, key)
           B == BucketsOf(K)
           A == BucketsOf(OfKey(D, key))
<1>2. PICK run \in Runs(B, A) : e = Event(key, run, K)  BY <1>1 DEF EventsOf
<1>3. \A p \in rows : IsPing(p) /\ p.at \in Nat  BY KnownArePings DEF Known
<1>4. \A y \in Pairs(rows) : /\ y.bucket \in Buckets /\ y.distance \in Nat /\ y.staged \in BOOLEAN
                             /\ \E p \in rows : p.vehicle = y.key.a /\ Bucket(p.at) = y.bucket
                             /\ \E p \in rows : p.vehicle = y.key.b /\ Bucket(p.at) = y.bucket
  <2>1. Bucket(MaxTick) \in Nat  BY BucketsAreBounded
  <2> QED  BY <1>3, <2>1, PairsComeFromPings DEF Usable, Buckets
<1>5. \A y \in K : y \in Pairs(rows) /\ y.key = key /\ y.distance <= Threshold /\ ~y.staged
  BY DEF OfKey, Close
<1>6. B \in SUBSET Buckets  BY <1>4, <1>5 DEF BucketsOf
<1>7. /\ run \in SUBSET B /\ run # {}
      /\ \A b \in Min(run) .. Max(run) : b \in run \/ b \notin B \cup A
  <2> HIDE DEF B, A
  <2> QED  BY <1>6, RunsAreLinked
<1>8. /\ Min(run) \in run /\ Max(run) \in run /\ Min(run) \in Buckets /\ Max(run) \in Nat
      /\ \A b \in run : b \in Nat /\ Min(run) <= b
  <2> HIDE DEF B
  <2>1. run \in SUBSET Buckets /\ run # {}  BY <1>6, <1>7
  <2>2. /\ Min(run) \in run /\ Max(run) \in run
        /\ \A b \in run : Min(run) <= b
    BY <2>1, FirstAndLast
  <2> QED  BY <2>1, <2>2, BucketsAreBounded
<1> DEFINE Near == {x.distance : x \in {y \in K : y.bucket \in run}}
<1>9. Min(Near) \in Nat /\ \A d \in Near : Min(Near) <= d
  <2>1. Near \in SUBSET Nat  BY <1>4, <1>5
  <2>2. Near # {}
    <3>1. PICK y \in K : y.bucket = Min(run)  BY <1>7, <1>8 DEF BucketsOf
    <3> QED  BY <1>8, <3>1
  <2>3. \E x \in Near : \A y \in Near : x <= y  BY <2>1, <2>2, LeastNatural
  <2> HIDE DEF Near
  <2> QED  BY <2>1, <2>3 DEF Min
<1>10. /\ e.key = key /\ e.start = Min(run) /\ e.end = Max(run)
       /\ e.count = Cardinality(run) /\ e.nearest = Min(Near)
       /\ e = [key |-> e.key, start |-> e.start, end |-> e.end, count |-> e.count,
               nearest |-> e.nearest]
  BY <1>2 DEF Event
<1>11. e \in EventRecords'
  <2>1. Cardinality(run) \in Nat
    <3> HIDE DEF B
    <3> QED  BY <1>6, <1>7, BucketsAreBounded, FS_CardinalityType
  <2>2. key \in {z.key : z \in judged'}
    <3>1. PICK y \in C : y.key = key  BY DEF KeysIn
    <3> QED  BY <3>1 DEF Close
  <2> HIDE DEF Near
  <2> QED  BY <1>8, <1>9, <1>10, <2>1, <2>2 DEF EventRecords
<1>12. ASSUME NEW b \in run PROVE SeenIn(e, b)'
  <2>1. PICK y \in K : y.bucket = b  BY <1>7 DEF BucketsOf
  <2>2. y \in judged' /\ y.key = e.key /\ y.distance <= Threshold  BY <1>5, <1>10, <2>1
  <2>3. e.nearest <= y.distance  BY <1>9, <1>10, <2>1
  <2> QED  BY <2>1, <2>2, <2>3 DEF SeenIn
<1>13. ASSUME NEW b \in e.start .. e.end, b \notin run
       PROVE  SeenIn(e, b)' \/ Unmet(e.key, b)'
  <2>1. b \notin B /\ b \notin A /\ b \in Int /\ Min(run) < b
    BY <1>7, <1>8, <1>10, <1>13
  <2>2. PICK y \in K : y.bucket = Min(run)  BY <1>7, <1>8 DEF BucketsOf
  <2>3. Covers(rows, Known, key, b)
    <3>1. y.key = key /\ y \in Pairs(rows)  BY <1>5
    <3>2. PICK p \in rows : p.vehicle = key.a /\ Bucket(p.at) = Min(run)  BY <1>4, <2>2, <3>1
    <3>3. PICK q \in rows : q.vehicle = key.b /\ Bucket(q.at) = Min(run)  BY <1>4, <2>2, <3>1
    <3> QED  BY <2>1, <3>2, <3>3, BufferCovers
  <2>4. CASE \E z \in Pairs(rows) : z.key = key /\ z.bucket = b
    <3>1. PICK z \in Pairs(rows) : z.key = key /\ z.bucket = b  BY <2>4
    <3>2. z \notin D  BY <2>1, <3>1 DEF BucketsOf, OfKey
    <3>3. z \notin C  BY <2>1, <3>1 DEF BucketsOf, OfKey
    <3>4. z.distance <= Threshold /\ z.staged
      BY <1>4, <3>1, <3>2, <3>3, DetectionAssumption DEF Separated, Close
    <3> QED  BY <1>10, <3>1, <3>4 DEF SeenIn
  <2>5. CASE ~\E z \in Pairs(rows) : z.key = key /\ z.bucket = b
    <3>1. Covers(seen, Known, key, b)'  BY <2>3 DEF Covers
    <3>2. ASSUME NEW y2 \in Pairs(seen'), y2.key = key, y2.bucket = b PROVE FALSE
      <4>1. Covers(rows, seen', key, b)  BY <2>3 DEF Covers, Known
      <4>2. Covers(seen', rows, key, b)  BY DEF Covers
      <4>3. y2 \in Pairs(rows)  BY <3>2, <4>1, <4>2, PairsAreLocal
      <4> QED  BY <2>5, <3>2, <4>3
    <3>3. Pairs(seen)' = Pairs(seen')  BY DEF Pairs, FirstInBucket, Usable
    <3> QED  BY <1>10, <3>1, <3>2, <3>3 DEF Unmet
  <2> QED  BY <2>4, <2>5
<1>14. SeenIn(e, e.end)'  BY <1>8, <1>10, <1>12
<1>15. \A b \in e.start .. e.end : SeenIn(e, b)' \/ Unmet(e.key, b)'  BY <1>12, <1>13
<1> QED  BY <1>11, <1>14, <1>15 DEF Good

-----------------------------------------------------------------------------
(***************************************************************************)
(* reconcile().                                                            *)
(***************************************************************************)
LEMMA LesserOfTwo ==
    ASSUME NEW x \in Nat, NEW y \in Nat
    PROVE  Min({x, y}) \in {x, y} /\ Min({x, y}) <= x /\ Min({x, y}) <= y
<1>1. \E z \in {x, y} : \A u \in {x, y} : z <= u
  <2>1. CASE x <= y  BY <2>1
  <2>2. CASE y <= x  BY <2>2
  <2> QED  BY <2>1, <2>2
<1> QED  BY <1>1 DEF Min

\* What continues an event spans what the two of them do.
LEMMA UpdatedIsGood ==
    ASSUME NEW p, NEW e, JudgedInv', Good(p)', Good(e)', p.key = e.key,
           Continues(p, e), e.end > p.end
    PROVE  Good(Updated(p, e))'
<1> DEFINE u == Updated(p, e)
<1>1. p \in EventRecords' /\ e \in EventRecords'  BY DEF Good
<1>2. /\ p.start \in Nat /\ e.start \in Nat /\ p.end \in Nat /\ e.end \in Nat
      /\ p.nearest \in Nat /\ e.nearest \in Nat
      /\ p.start \in Buckets /\ e.start \in Buckets
  BY <1>1, BucketsAreBounded DEF EventRecords
<1> DEFINE first == Min({p.start, e.start})
           least == Min({p.nearest, e.nearest})
<1>3. /\ first \in {p.start, e.start} /\ least \in {p.nearest, e.nearest}
      /\ first \in Buckets /\ least \in Nat
      /\ least <= p.nearest /\ least <= e.nearest
  <2>1. /\ first \in {p.start, e.start} /\ least \in {p.nearest, e.nearest}
        /\ least <= p.nearest /\ least <= e.nearest
    BY <1>2, LesserOfTwo
  <2> HIDE DEF first, least
  <2> QED  BY <1>1, <1>2, <2>1 DEF EventRecords
<1>4. u = [e EXCEPT !.start = first, !.nearest = least]  BY DEF Updated
<1>5. /\ u \in EventRecords'
      /\ u.key = e.key /\ u.end = e.end /\ u.start = first /\ u.nearest = least
  <2> HIDE DEF first, least, u
  <2> QED  BY <1>1, <1>3, <1>4 DEF EventRecords
<1> HIDE DEF first, least
<1>6. ASSUME NEW b, NEW x \in {p, e}, SeenIn(x, b)' PROVE SeenIn(u, b)'
  <2>1. PICK z \in judged' : /\ z.key = x.key /\ z.bucket = b
                             /\ z.distance <= Threshold
                             /\ ~z.staged => x.nearest <= z.distance
    BY <1>6 DEF SeenIn
  <2>2. z.distance \in Nat  BY <2>1 DEF JudgedInv
  <2>3. ~z.staged => u.nearest <= z.distance  BY <1>2, <1>3, <1>5, <1>6, <2>1, <2>2
  <2>4. z.key = u.key  BY <1>5, <1>6, <2>1
  <2> HIDE DEF u
  <2> QED  BY <2>1, <2>3, <2>4 DEF SeenIn
<1>7. SeenIn(u, u.end)'
  <2>1. SeenIn(e, e.end)'  BY DEF Good
  <2> QED  BY <1>5, <1>6, <2>1
<1>8. ASSUME NEW b \in u.start .. u.end PROVE SeenIn(u, b)' \/ Unmet(u.key, b)'
  <2>1. b \in p.start .. p.end \/ b \in e.start .. e.end
    BY <1>2, <1>3, <1>5, <1>8 DEF Continues
  <2>2. PICK x \in {p, e} : b \in x.start .. x.end  BY <2>1
  <2>3. SeenIn(x, b)' \/ Unmet(x.key, b)'  BY <2>2 DEF Good
  <2>4. x.key = u.key  BY <1>5
  <2> HIDE DEF u
  <2> QED  BY <1>6, <2>3, <2>4
<1>9. Good(u)'
  <2> HIDE DEF u
  <2> QED  BY <1>5, <1>7, <1>8 DEF Good
<1> QED  BY <1>9

\* What reconcile() has come to: good events, in the tracker one of a pair.
Outcomes ==
    [tracked : {s \in SUBSET GoodEvents : OnePerPair(s)},
     actions : SUBSET [action : {"new", "update"}, event : GoodEvents]]

\* One event.
LEMMA ReconciledIsGood ==
    ASSUME JudgedInv', NEW state \in Outcomes', NEW e \in GoodEvents'
    PROVE  Reconciled(state, e) \in Outcomes'
<1> DEFINE previous == PreviousOf(state.tracked, e)
           p == CHOOSE x \in previous : TRUE
           u == Updated(p, e)
           Replaced(d, action) ==
                [tracked |-> (state.tracked \ previous) \cup {d},
                 actions |-> state.actions \cup {action}]
<1>1. /\ state.tracked \in SUBSET GoodEvents' /\ OnePerPair(state.tracked)
      /\ state.actions \in SUBSET [action : {"new", "update"}, event : GoodEvents']
  BY DEF Outcomes
<1>2. ASSUME NEW d \in GoodEvents', d.key = e.key, NEW kind \in {"new", "update"}
      PROVE  Replaced(d, [action |-> kind, event |-> d]) \in Outcomes'
  <2>1. (state.tracked \ previous) \cup {d} \in SUBSET GoodEvents'  BY <1>1
  <2>2. OnePerPair((state.tracked \ previous) \cup {d})
    BY <1>1, <1>2 DEF OnePerPair, PreviousOf
  <2>3. [action |-> kind, event |-> d] \in [action : {"new", "update"}, event : GoodEvents']
    OBVIOUS
  <2> HIDE DEF previous
  <2> QED  BY <1>1, <2>1, <2>2, <2>3 DEF Outcomes
<1>3. CASE \A x \in previous : ~Continues(x, e)
  <2>1. Reconciled(state, e) = Replaced(e, [action |-> "new", event |-> e])
    BY <1>3 DEF Reconciled, NewAction
  <2> HIDE DEF Replaced
  <2> QED  BY <1>2, <2>1
<1>4. CASE ~(\A x \in previous : ~Continues(x, e))
  <2>1. p \in previous  BY <1>4
  <2>2. p \in state.tracked /\ p.key = e.key  BY <2>1 DEF PreviousOf
  <2>3. Continues(p, e)  BY <1>1, <1>4, <2>1, <2>2 DEF OnePerPair, PreviousOf
  <2>4. CASE e.end > p.end
    <3>1. Reconciled(state, e) = Replaced(u, [action |-> "update", event |-> u])
      BY <1>4, <2>4 DEF Reconciled, UpdateAction
    <3> HIDE DEF p
    <3>2. Good(u)'  BY <1>1, <2>2, <2>3, <2>4, UpdatedIsGood DEF GoodEvents
    <3>3. u.key = e.key  BY DEF Updated, GoodEvents, EventRecords
    <3>4. u \in GoodEvents'  BY <3>2 DEF GoodEvents, Good
    <3> HIDE DEF Replaced, u
    <3> QED  BY <1>2, <3>1, <3>3, <3>4
  <2>5. CASE ~(e.end > p.end)
    <3>1. Reconciled(state, e) = state  BY <1>4, <2>5 DEF Reconciled
    <3> QED  BY <3>1
  <2> QED  BY <2>4, <2>5
<1> QED  BY <1>3, <1>4

\* Of some events one starts last.
LEMMA LatestStartsLast ==
    ASSUME NEW s \in SUBSET GoodEvents', s # {}
    PROVE  \E e \in s : \A d \in s : d.start <= e.start
<1> DEFINE S == {d.start : d \in s}
<1>1. S \in SUBSET Buckets /\ S # {}  BY DEF GoodEvents, EventRecords
<1>2. Max(S) \in S /\ \A x \in S : x <= Max(S)
  <2> HIDE DEF S
  <2> QED  BY <1>1, FirstAndLast
<1>3. PICK e \in s : e.start = Max(S)  BY <1>2
<1>4. \A d \in s : d.start <= e.start  BY <1>2, <1>3
<1> QED  BY <1>4

LEMMA LatestIsOne ==
    ASSUME NEW s \in SUBSET GoodEvents', s # {}
    PROVE  Latest(s) \in s
  BY LatestStartsLast DEF Latest

\* What holds of no events, and of some if it holds of all of them but the latest, holds
\* of all.
LEMMA LatestInduction ==
    ASSUME NEW D \in SUBSET GoodEvents', IsFiniteSet(D), NEW H \in SUBSET (SUBSET D),
           {} \in H, \A s \in (SUBSET D) \ {{}} : s \ {Latest(s)} \in H => s \in H
    PROVE  \A s \in SUBSET D : s \in H
<1> DEFINE pick == [s \in (SUBSET D) \ {{}} |-> Latest(s)]
<1>1. \A s \in (SUBSET D) \ {{}} : pick[s] = Latest(s) /\ Latest(s) \in s
  BY LatestIsOne
<1> HIDE DEF pick
<1>2. Picks(pick, D)  BY <1>1 DEF Picks
<1>3. \A s \in (SUBSET D) \ {{}} : s \ {pick[s]} \in H => s \in H  BY <1>1
<1> QED  BY <1>2, <1>3, PickInduction

\* reconcile() takes the events one after the other: `after` is what it has come to.
LEMMA ReconcileUnfolds ==
    ASSUME JudgedInv', NEW D \in SUBSET GoodEvents', IsFiniteSet(D),
           [tracked |-> tracked, actions |-> {}] \in Outcomes'
    PROVE  \E after :
              /\ after[{}] = [tracked |-> tracked, actions |-> {}]
              /\ \A s \in (SUBSET D) \ {{}} :
                    after[s] = Reconciled(after[s \ {Latest(s)}], Latest(s))
              /\ \A s \in SUBSET D : after[s] \in Outcomes'
              /\ after[D] = Reconcile(D)
<1> DEFINE V == Outcomes'
           base == [tracked |-> tracked, actions |-> {}]
           pick == [s \in (SUBSET D) \ {{}} |-> Latest(s)]
           step == [x \in D \X V |-> Reconciled(x[2], x[1])]
           Solves(g) == g = [s \in SUBSET D |->
                IF s = {} THEN base ELSE Reconciled(g[s \ {Latest(s)}], Latest(s))]
           after == CHOOSE g : Solves(g)
<1>1. \A s \in (SUBSET D) \ {{}} : Latest(s) \in s  BY LatestIsOne
<1>2. Picks(pick, D)  BY <1>1 DEF Picks
<1>3. Steps(step, D, V)  BY ReconciledIsGood DEF Steps
<1>4. PICK g : Solution(g, D, V, base, pick, step)
  <2>1. base \in V  OBVIOUS
  <2> HIDE DEF V, base, step, pick
  <2> QED  BY <1>2, <1>3, <2>1, SetRecursion
<1>5. Solves(g)
  <2>1. ASSUME NEW s \in SUBSET D, s # {}
        PROVE  g[s] = Reconciled(g[s \ {Latest(s)}], Latest(s))
    <3>1. pick[s] = Latest(s) /\ Latest(s) \in D /\ g[s \ {Latest(s)}] \in V
      BY <1>1, <1>4, <2>1 DEF Solution
    <3> HIDE DEF V
    <3> QED  BY <1>4, <2>1, <3>1 DEF Solution
  <2>2. g[{}] = base  BY <1>4 DEF Solution
  <2>3. \A s \in SUBSET D : g[s] =
            IF s = {} THEN base ELSE Reconciled(g[s \ {Latest(s)}], Latest(s))
    BY <2>1, <2>2
  <2> HIDE DEF V, base
  <2>4. g = [s \in SUBSET D |-> g[s]]  BY <1>4 DEF Solution
  <2> QED  BY <2>3, <2>4
<1>6. Solves(after)
  <2> HIDE DEF Solves
  <2> QED  BY <1>5
<1>7. Reconcile(D) = after[D]  BY DEF Reconcile
<1>8. /\ after[{}] = base
      /\ \A s \in (SUBSET D) \ {{}} :
            after[s] = Reconciled(after[s \ {Latest(s)}], Latest(s))
  <2> HIDE DEF after, base
  <2> QED  BY <1>6
<1> HIDE DEF after, V
<1>9. \A s \in SUBSET D : after[s] \in V
  <2> DEFINE H == {s \in SUBSET D : after[s] \in V}
  <2>1. {} \in H  BY <1>8 DEF V
  <2>2. ASSUME NEW s \in (SUBSET D) \ {{}}, s \ {Latest(s)} \in H PROVE s \in H
    <3>1. after[s \ {Latest(s)}] \in V /\ Latest(s) \in GoodEvents'  BY <1>1, <2>2
    <3>2. Reconciled(after[s \ {Latest(s)}], Latest(s)) \in V
      BY <3>1, ReconciledIsGood DEF V
    <3> QED  BY <1>8, <3>2
  <2>3. H \in SUBSET (SUBSET D)  OBVIOUS
  <2> HIDE DEF H
  <2>4. \A s \in SUBSET D : s \in H  BY <2>1, <2>2, <2>3, LatestInduction
  <2> QED  BY <2>4 DEF H
<1> QED  BY <1>7, <1>8, <1>9 DEF V

\* All the events of a window.
LEMMA ReconcileIsGood ==
    ASSUME JudgedInv', NEW D \in SUBSET GoodEvents', IsFiniteSet(D),
           [tracked |-> tracked, actions |-> {}] \in Outcomes'
    PROVE  Reconcile(D) \in Outcomes'
<1>1. PICK after :
        /\ \A s \in SUBSET D : after[s] \in Outcomes'
        /\ after[D] = Reconcile(D)
  BY ReconcileUnfolds
<1> QED  BY <1>1

-----------------------------------------------------------------------------
(***************************************************************************)
(* The steps.                                                              *)
(***************************************************************************)
\* What was good stays good, as nothing is seen that was not known, and what arrives is
\* not older than what is known of the vehicle.
LEMMA GoodStays ==
    ASSUME BunchingInv, judged \subseteq judged', seen \subseteq seen', seen' \subseteq Known',
           \A p \in Known' : p \in Known \/
                /\ p \notin seen' /\ p.at \in Nat
                /\ \A q \in Known : p.vehicle = q.vehicle => q.at <= p.at,
           NEW e, Good(e)
    PROVE  Good(e)'
<1>1. e \in EventRecords'  BY DEF Good, EventRecords
<1>2. ASSUME NEW b, SeenIn(e, b) PROVE SeenIn(e, b)'  BY <1>2 DEF SeenIn
<1>3. SeenIn(e, e.end)'  BY <1>2 DEF Good
<1>4. ASSUME NEW b \in e.start .. e.end, b # e.end, Unmet(e.key, b) PROVE Unmet(e.key, b)'
  <2>1. e.end \in Nat /\ b \in Int /\ b < e.end  BY <1>1, <1>4 DEF EventRecords
  <2>2. PICK z \in judged : z.key = e.key /\ z.bucket = e.end  BY DEF Good, SeenIn
  <2>3. ASSUME NEW v \in {e.key.a, e.key.b}
        PROVE  \E q \in seen : q.vehicle = v /\ Bucket(q.at) = e.end
    BY <2>2, <2>3 DEF BunchingInv, JudgedInv, Usable
  <2>4. ASSUME NEW p \in Known', p.vehicle \in {e.key.a, e.key.b}, Bucket(p.at) = b
        PROVE  p \in Known
    <3> SUFFICES ASSUME p \notin Known PROVE FALSE  OBVIOUS
    <3>1. PICK q \in seen : q.vehicle = p.vehicle /\ Bucket(q.at) = e.end  BY <2>3, <2>4
    <3>2. q \in Known  BY DEF Known
    <3>3. q.at \in Nat /\ p.at \in Nat /\ q.at <= p.at
      BY <3>1, <3>2, KnownArePings DEF BunchingInv
    <3>4. Bucket(q.at) <= Bucket(p.at)  BY <3>3, BucketOrder
    <3> QED  BY <2>1, <2>4, <3>1, <3>4
  <2>5. Covers(seen, seen', e.key, b) /\ Covers(seen', seen, e.key, b)
    <3>1. Covers(seen, Known, e.key, b)  BY <1>4 DEF Unmet
    <3> QED  BY <2>4, <3>1 DEF Covers
  <2>6. Covers(seen, Known, e.key, b)'
    BY <1>4, <2>4 DEF Covers, Unmet
  <2>7. ASSUME NEW y \in Pairs(seen'), y.key = e.key, y.bucket = b PROVE FALSE
    <3>1. y \in Pairs(seen)  BY <2>5, <2>7, PairsAreLocal
    <3> QED  BY <1>4, <2>7, <3>1 DEF Unmet
  <2>8. Pairs(seen)' = Pairs(seen')  BY DEF Pairs, FirstInBucket, Usable
  <2> QED  BY <2>6, <2>7, <2>8 DEF Unmet
<1>5. \A b \in e.start .. e.end : SeenIn(e, b)' \/ Unmet(e.key, b)'
  <2> SUFFICES ASSUME NEW b \in e.start .. e.end PROVE SeenIn(e, b)' \/ Unmet(e.key, b)'
    OBVIOUS
  <2>1. SeenIn(e, b) \/ Unmet(e.key, b)  BY DEF Good
  <2> QED  BY <1>2, <1>3, <1>4, <2>1
<1> QED  BY <1>1, <1>3, <1>5 DEF Good

LEMMA BunchingInitially == Init => BunchingInv
<1> SUFFICES ASSUME Init PROVE BunchingInv  OBVIOUS
<1>1. ArrivedInv  BY FS_EmptySet, TrackerAssumption DEF Init, ArrivedInv, Known
<1>2. SuffixInv /\ JudgedInv /\ EventsInv
  BY DEF Init, SuffixInv, Known, JudgedInv, EventsInv, OnePerPair
<1> QED  BY <1>1, <1>2 DEF BunchingInv

\* A step that sees nothing new and brings no event but what is on its way.
LEMMA QuietStep ==
    ASSUME BunchingInv, UNCHANGED <<clock, seen, judged>>,
           rows' \subseteq Known, uncommitted' \subseteq Known,
           IsFiniteSet(rows'), IsFiniteSet(uncommitted'), SuffixInv',
           tracked' \subseteq tracked, actions' \subseteq actions,
           docs' \subseteq docs \cup {a.event : a \in actions}
    PROVE  BunchingInv'
<1>1. Known' \subseteq Known  BY DEF Known
<1>2. ArrivedInv'  BY <1>1 DEF BunchingInv, ArrivedInv
<1>3. JudgedInv'  BY DEF BunchingInv, JudgedInv, Usable
<1>4. ASSUME NEW e, Good(e) PROVE Good(e)'
  <2>1. seen' \subseteq Known'  BY DEF Known
  <2> QED  BY <1>1, <1>4, <2>1, GoodStays
<1>5. EventsInv'
  <2>1. GoodEvents \subseteq GoodEvents'  BY <1>4 DEF GoodEvents, Good
  <2>2. tracked' \subseteq GoodEvents' /\ OnePerPair(tracked)'
    BY <2>1 DEF BunchingInv, EventsInv, OnePerPair
  <2>3. \A a \in actions : Good(a.event)'  BY <1>4 DEF BunchingInv, EventsInv
  <2>4. \A e \in docs : Good(e)'  BY <1>4 DEF BunchingInv, EventsInv
  <2>5. (\A a \in actions : Good(a.event))'  BY <2>3
  <2>6. (\A e \in docs : Good(e))'  BY <2>3, <2>4
  <2> QED  BY <2>2, <2>5, <2>6 DEF EventsInv
<1> QED  BY <1>2, <1>3, <1>5 DEF BunchingInv

\* The pings of a tick are no older than what is known of their vehicles.
LEMMA TickStep ==
    ASSUME VehiclesInOrder, BunchingInv, Tick
    PROVE  BunchingInv'
<1>1. PICK batch \in Reports[clock + 1] :
            rows' = rows \cup batch /\ uncommitted' = uncommitted \cup batch
  BY DEF Tick
<1>2. /\ clock \in Nat /\ clock < MaxTick /\ clock' = clock + 1 /\ MaxTick \in Nat
      /\ UNCHANGED <<seen, judged, tracked, actions, docs>>
  BY TrackerAssumption DEF Tick, history, BunchingInv, ArrivedInv
<1>3. Known' = Known \cup batch  BY <1>1, <1>2 DEF Known
<1>4. clock + 1 \in 1 .. MaxTick /\ IsFiniteSet(batch)
  BY <1>1, <1>2, TrackerAssumption
<1>5. ArrivedInv'
  <2>1. IsFiniteSet(rows') /\ IsFiniteSet(uncommitted')
    BY <1>1, <1>4, FS_Union DEF BunchingInv, ArrivedInv
  <2>2. ASSUME NEW p \in Known'
        PROVE  \E t \in 1 .. clock' : \E b \in Reports[t] : p \in b
    <3>1. CASE p \in batch
      <4>1. clock + 1 \in 1 .. clock'  BY <1>2
      <4> QED  BY <1>1, <3>1, <4>1
    <3>2. CASE p \in Known
      <4>1. PICK t \in 1 .. clock : \E b \in Reports[t] : p \in b
        BY <3>2 DEF BunchingInv, ArrivedInv
      <4>2. t \in 1 .. clock'  BY <1>2
      <4> QED  BY <4>1, <4>2
    <3> QED  BY <1>3, <3>1, <3>2
  <2>3. clock' \in 0 .. MaxTick  BY <1>2
  <2> QED  BY <2>1, <2>2, <2>3 DEF ArrivedInv
<1>6. ASSUME NEW p \in batch, NEW q \in Known, q.vehicle = p.vehicle PROVE q.at <= p.at
  <2>1. PICK t \in 1 .. clock : \E b \in Reports[t] : q \in b
    BY DEF BunchingInv, ArrivedInv
  <2>2. t \in 1 .. MaxTick /\ t < clock + 1  BY <1>2
  <2> QED  BY <1>1, <1>4, <1>6, <2>1, <2>2 DEF VehiclesInOrder
<1>7. SuffixInv'
  <2> SUFFICES ASSUME NEW p \in Known', NEW q \in Known', p.vehicle = q.vehicle
               PROVE  /\ q \in rows' /\ p \notin rows' => p.at <= q.at
                      /\ q \in uncommitted' /\ p \notin uncommitted' => p.at <= q.at
    BY DEF SuffixInv
  <2>1. CASE p \in batch  BY <1>1, <2>1
  <2>2. CASE p \in Known /\ q \in batch  BY <1>6, <2>2
  <2>3. CASE p \in Known /\ q \in Known /\ q \notin batch
    BY <1>1, <2>3 DEF BunchingInv, SuffixInv
  <2> QED  BY <1>3, <2>1, <2>2, <2>3
<1>8. JudgedInv'  BY <1>2 DEF BunchingInv, JudgedInv, Usable
<1>9. ASSUME NEW e, Good(e) PROVE Good(e)'
  <2>1. seen' \subseteq Known'  BY DEF Known
  <2>2. ASSUME NEW p \in Known', p \notin Known
        PROVE  /\ p \notin seen' /\ p.at \in Nat
               /\ \A q \in Known : p.vehicle = q.vehicle => q.at <= p.at
    <3>1. p \in batch /\ p \notin seen'  BY <1>2, <1>3, <2>2 DEF Known
    <3>2. p.at \in Nat  BY <1>1, <1>2, <1>4, <3>1, TrackerAssumption
    <3> QED  BY <1>6, <3>1, <3>2
  <2> QED  BY <1>2, <1>9, <2>1, <2>2, GoodStays
<1>10. EventsInv'
  <2>1. GoodEvents \subseteq GoodEvents'  BY <1>9 DEF GoodEvents, Good
  <2>2. tracked' \subseteq GoodEvents' /\ OnePerPair(tracked)'
    BY <1>2, <2>1 DEF BunchingInv, EventsInv, OnePerPair
  <2>3. (\A a \in actions : Good(a.event))'  BY <1>2, <1>9 DEF BunchingInv, EventsInv
  <2>4. (\A e \in docs : Good(e))'  BY <1>2, <1>9 DEF BunchingInv, EventsInv
  <2> QED  BY <2>2, <2>3, <2>4 DEF EventsInv
<1> QED  BY <1>5, <1>7, <1>8, <1>10 DEF BunchingInv

\* The reference time is that of a ping in the buffer, and none is newer.
LEMMA Newest ==
    ASSUME BunchingInv, rows # {}
    PROVE  /\ ReferenceTime \in Nat
           /\ \E q \in rows : q.at = ReferenceTime
           /\ \A p \in rows : p.at <= ReferenceTime
<1> DEFINE S == {p.at : p \in rows}
<1>1. S \in SUBSET (0 .. MaxTick) /\ S # {}
  BY KnownArePings DEF Known, IsPing, BunchingInv
<1>2. MaxTick \in Nat  BY TrackerAssumption
<1>3. Max(S) \in S /\ \A y \in S : y <= Max(S)
  <2> HIDE DEF S
  <2> QED  BY <1>1, <1>2, LeastAndGreatest
<1>4. \A x \in S : x \in Nat
  <2> HIDE DEF S
  <2> QED  BY <1>1, <1>2
<1>5. Max(S) = ReferenceTime  BY DEF ReferenceTime
<1> QED  BY <1>3, <1>4, <1>5

\* What the overlap leaves in the buffer is the last of it.
LEMMA CarryForwardIsSuffix ==
    ASSUME BunchingInv, rows # {}, rows' = CarryForward,
           UNCHANGED uncommitted, Known' \subseteq Known
    PROVE  SuffixInv' /\ IsFiniteSet(rows') /\ rows' \subseteq rows
<1>1. rows' \subseteq rows  BY DEF CarryForward
<1>2. IsFiniteSet(rows')  BY <1>1, FS_Subset DEF BunchingInv, ArrivedInv
<1>3. ReferenceTime - Overlap \in Int  BY Newest, TrackerAssumption
<1>4. SuffixInv'
  <2> SUFFICES ASSUME NEW p \in Known', NEW q \in Known', p.vehicle = q.vehicle
               PROVE  /\ q \in rows' /\ p \notin rows' => p.at <= q.at
                      /\ q \in uncommitted' /\ p \notin uncommitted' => p.at <= q.at
    BY DEF SuffixInv
  <2>1. p \in Known /\ q \in Known  OBVIOUS
  <2>2. p.at \in Nat /\ q.at \in Nat  BY <2>1, KnownArePings DEF BunchingInv
  <2>3. q \in rows' /\ p \in rows /\ p \notin rows' => p.at <= q.at
    BY <1>3, <2>2 DEF CarryForward
  <2> QED  BY <1>1, <2>1, <2>3 DEF BunchingInv, SuffixInv
<1> QED  BY <1>1, <1>2, <1>4

\* What a window saw and found: what was good stays good, its events are good, and the
\* tracker's can be reconciled with them.
LEMMA WindowIsGood ==
    ASSUME BunchingInv, Process
    PROVE  /\ Known' = Known /\ SuffixInv' /\ IsFiniteSet(rows') /\ rows' \subseteq rows
           /\ JudgedInv'
           /\ \A e : Good(e) => Good(e)'
           /\ DetectEvents(rows) \in SUBSET GoodEvents' /\ IsFiniteSet(DetectEvents(rows))
           /\ [tracked |-> tracked, actions |-> {}] \in Outcomes'
           /\ Reconcile(DetectEvents(rows)) \in Outcomes'
<1> DEFINE D == DetectEvents(rows)
<1>1. /\ rows # {} /\ rows' = CarryForward
      /\ seen' = seen \cup rows /\ judged' = judged \cup Pairs(rows)
      /\ UNCHANGED uncommitted
  BY DEF Process
<1>2. rows' \subseteq rows  BY <1>1 DEF CarryForward
<1>3. Known' = Known  BY <1>1, <1>2 DEF Known
<1>4. SuffixInv' /\ IsFiniteSet(rows')  BY <1>1, <1>3, CarryForwardIsSuffix
<1>5. JudgedInv'
  <2>1. \A p \in rows : IsPing(p)  BY KnownArePings DEF Known, BunchingInv
  <2>2. ASSUME NEW z \in Pairs(rows)
        PROVE  /\ z.bucket \in Nat /\ z.distance \in Nat /\ z.staged \in BOOLEAN
               /\ \E p \in Usable(seen') : p.vehicle = z.key.a /\ Bucket(p.at) = z.bucket
               /\ \E p \in Usable(seen') : p.vehicle = z.key.b /\ Bucket(p.at) = z.bucket
    BY <1>1, <2>1, PairsComeFromPings DEF Usable
  <2>3. ASSUME NEW z \in judged
        PROVE  /\ z.bucket \in Nat /\ z.distance \in Nat /\ z.staged \in BOOLEAN
               /\ \E p \in Usable(seen') : p.vehicle = z.key.a /\ Bucket(p.at) = z.bucket
               /\ \E p \in Usable(seen') : p.vehicle = z.key.b /\ Bucket(p.at) = z.bucket
    BY <1>1 DEF BunchingInv, JudgedInv, Usable
  <2> QED  BY <1>1, <2>2, <2>3 DEF JudgedInv, Usable
<1>6. ASSUME NEW e, Good(e) PROVE Good(e)'
  <2>1. judged \subseteq judged' /\ seen \subseteq seen'  BY <1>1
  <2>2. seen' \subseteq Known'  BY DEF Known
  <2> QED  BY <1>3, <1>6, <2>1, <2>2, GoodStays
<1>7. D \in SUBSET GoodEvents' /\ IsFiniteSet(D)
  <2>1. IsFiniteSet(D)  BY FiniteEvents DEF BunchingInv, ArrivedInv
  <2>2. ASSUME NEW e \in D PROVE Good(e)'
    BY <1>1, <1>3, DetectedIsGood DEF BunchingInv
  <2> QED  BY <2>1, <2>2 DEF GoodEvents, Good
<1>8. [tracked |-> tracked, actions |-> {}] \in Outcomes'
  <2>1. GoodEvents \subseteq GoodEvents'  BY <1>6 DEF GoodEvents, Good
  <2>2. tracked \in SUBSET GoodEvents' /\ OnePerPair(tracked)
    BY <2>1 DEF BunchingInv, EventsInv
  <2> QED  BY <2>2 DEF Outcomes
<1>9. Reconcile(D) \in Outcomes'
  <2> HIDE DEF D
  <2> QED  BY <1>5, <1>7, <1>8, ReconcileIsGood
<1> QED  BY <1>2, <1>3, <1>4, <1>5, <1>6, <1>7, <1>8, <1>9

\* A window sees what is in the buffer, and adds what it finds there.
LEMMA ProcessStep ==
    ASSUME BunchingInv, Process
    PROVE  BunchingInv'
<1> DEFINE R == Reconcile(DetectEvents(rows))
<1>1. tracked' = Recent(R.tracked) /\ actions' = R.actions /\ UNCHANGED <<clock, uncommitted, docs>>
  BY DEF Process
<1>2. /\ Known' = Known /\ SuffixInv' /\ IsFiniteSet(rows') /\ JudgedInv'
      /\ \A e : Good(e) => Good(e)'
      /\ R \in Outcomes'
  BY WindowIsGood
<1> HIDE DEF R
<1>3. ArrivedInv'  BY <1>1, <1>2 DEF BunchingInv, ArrivedInv
<1>4. /\ R.tracked \in SUBSET GoodEvents' /\ OnePerPair(R.tracked)
      /\ R.actions \in SUBSET [action : {"new", "update"}, event : GoodEvents']
  BY <1>2 DEF Outcomes
<1>5. EventsInv'
  <2>1. tracked' \subseteq R.tracked /\ actions' = R.actions  BY <1>1 DEF Recent
  <2>2. tracked' \subseteq GoodEvents' /\ OnePerPair(tracked)'
    BY <1>4, <2>1 DEF OnePerPair
  <2>3. (\A a \in actions : Good(a.event))'  BY <1>4, <2>1 DEF GoodEvents
  <2>4. (\A e \in docs : Good(e))'  BY <1>1, <1>2 DEF BunchingInv, EventsInv
  <2> QED  BY <2>2, <2>3, <2>4 DEF EventsInv
<1> QED  BY <1>2, <1>3, <1>5 DEF BunchingInv

LEMMA BunchingStep ==
    ASSUME VehiclesInOrder, BunchingInv, [Next]_vars
    PROVE  BunchingInv'
<1>1. CASE Tick  BY <1>1, TickStep
<1>2. CASE Process  BY <1>2, ProcessStep
<1>3. CASE FlushEmpty \/ UNCHANGED vars
  <2>1. UNCHANGED <<clock, process, docs, history>>  BY <1>3 DEF FlushEmpty, vars
  <2> QED
    BY <2>1, QuietStep DEF process, history, Known, BunchingInv, ArrivedInv, SuffixInv
<1>4. CASE Discard
  <2>1. /\ rows # {} /\ rows' = CarryForward
        /\ UNCHANGED <<clock, uncommitted, tracked, actions, docs, seen, judged>>
    BY <1>4 DEF Discard, history
  <2>2. rows' \subseteq Known /\ Known' \subseteq Known  BY <2>1 DEF CarryForward, Known
  <2>3. SuffixInv' /\ IsFiniteSet(rows')  BY <2>1, <2>2, CarryForwardIsSuffix
  <2> QED
    BY <2>1, <2>2, <2>3, QuietStep DEF Known, BunchingInv, ArrivedInv
<1>5. CASE Write \/ WriteFails
  <2>1. PICK done \in SUBSET {a.event : a \in actions} : docs' = Upserted(done)
    BY <1>5 DEF Write, WriteFails
  <2>2. actions' = {} /\ UNCHANGED <<clock, rows, uncommitted, tracked, seen, judged>>
    BY <1>5 DEF Write, WriteFails, history
  <2>3. docs' \subseteq docs \cup {a.event : a \in actions}  BY <2>1 DEF Upserted
  <2> QED
    BY <2>2, <2>3, QuietStep DEF Known, BunchingInv, ArrivedInv, SuffixInv
<1>6. CASE Commit
  <2>1. uncommitted' = {} /\ UNCHANGED <<clock, rows, tracked, actions, docs, seen, judged>>
    BY <1>6 DEF Commit, history
  <2>2. SuffixInv'  BY <2>1 DEF BunchingInv, SuffixInv, Known
  <2> QED  BY <2>1, <2>2, QuietStep, FS_EmptySet DEF Known, BunchingInv, ArrivedInv
<1>7. CASE Crash
  <2>1. /\ rows' = uncommitted /\ tracked' = {} /\ actions' = {}
        /\ UNCHANGED <<clock, uncommitted, docs, seen, judged>>
    BY <1>7 DEF Crash, history
  <2>2. SuffixInv'  BY <2>1 DEF BunchingInv, SuffixInv, Known
  <2> QED  BY <2>1, <2>2, QuietStep DEF Known, BunchingInv, ArrivedInv
<1> QED  BY <1>1, <1>2, <1>3, <1>4, <1>5, <1>6, <1>7 DEF Next

-----------------------------------------------------------------------------
(***************************************************************************)
(* The events of one window.                                               *)
(***************************************************************************)
\* The buckets in which a set of pings shows a pair close, and apart.
CloseIn(S, key) == BucketsOf(OfKey(Close(Pairs(S)), key))
ApartIn(S, key) == BucketsOf(OfKey(Separated(Pairs(S)), key))

\* They are buckets that a ping can be in, and somebody was there.
LEMMA BucketsAreSeen ==
    ASSUME NEW S, \A p \in S : IsPing(p), NEW key
    PROVE  /\ CloseIn(S, key) \in SUBSET Buckets
           /\ \A b \in CloseIn(S, key) : \E p \in S : Bucket(p.at) = b
<1>1. Bucket(MaxTick) \in Nat  BY BucketsAreBounded
<1>2. ASSUME NEW y \in Pairs(S)
      PROVE  y.bucket \in Buckets /\ \E p \in S : Bucket(p.at) = y.bucket
  BY <1>1, PairsComeFromPings DEF Usable, Buckets
<1>3. \A y \in OfKey(Close(Pairs(S)), key) : y \in Pairs(S)  BY DEF OfKey, Close
<1> QED  BY <1>1, <1>2, <1>3 DEF CloseIn, BucketsOf

\* An event is a run, from its first observation to its last.
LEMMA EventsAreRuns ==
    ASSUME NEW S, \A p \in S : IsPing(p), NEW e \in DetectEvents(S)
    PROVE  /\ e.start \in Nat /\ e.end \in Nat /\ e.start <= e.end
           /\ \E p \in S : Bucket(p.at) = e.end
           /\ \E run \in Runs(CloseIn(S, e.key), ApartIn(S, e.key)) :
                /\ e = Event(e.key, run, OfKey(Close(Pairs(S)), e.key))
                /\ e.start = Min(run) /\ e.end = Max(run)
<1> DEFINE C == Close(Pairs(S))
           D == Separated(Pairs(S))
<1>1. PICK key \in KeysIn(C) : e \in EventsOf(key, OfKey(C, key), OfKey(D, key))
  BY DEF DetectEvents
<1>2. PICK run \in Runs(CloseIn(S, key), ApartIn(S, key)) : e = Event(key, run, OfKey(C, key))
  BY <1>1 DEF EventsOf, CloseIn, ApartIn
<1>3. e.key = key /\ e.start = Min(run) /\ e.end = Max(run)  BY <1>2 DEF Event
<1>4. PICK x \in RunStarts(CloseIn(S, key), ApartIn(S, key)) :
            run = RunFrom(CloseIn(S, key), ApartIn(S, key), x)
  BY DEF Runs
<1>5. /\ CloseIn(S, key) \in SUBSET Buckets
      /\ \A b \in CloseIn(S, key) : \E p \in S : Bucket(p.at) = b
  BY BucketsAreSeen
<1>6. /\ x \in run /\ Min(run) = x /\ Max(run) \in run
      /\ \A y \in run : y \in Nat /\ x <= y
  BY <1>4, <1>5, RunBounds
<1>7. run \subseteq CloseIn(S, key)  BY <1>4 DEF RunFrom
<1>8. \E p \in S : Bucket(p.at) = e.end  BY <1>3, <1>5, <1>6, <1>7
<1>9. e.start \in Nat /\ e.end \in Nat /\ e.start <= e.end  BY <1>3, <1>6
<1> QED  BY <1>2, <1>3, <1>8, <1>9

\* Of two events of a pair one ends before the other begins.
LEMMA EventsAreApart ==
    ASSUME NEW S, \A p \in S : IsPing(p),
           NEW d \in DetectEvents(S), NEW e \in DetectEvents(S), d.key = e.key, d # e
    PROVE  d.end < e.start \/ e.end < d.start
<1> DEFINE B == CloseIn(S, e.key)
           A == ApartIn(S, e.key)
           K == OfKey(Close(Pairs(S)), e.key)
<1>1. PICK r \in Runs(B, A) : d = Event(e.key, r, K) /\ d.start = Min(r) /\ d.end = Max(r)
  BY EventsAreRuns
<1>2. PICK s \in Runs(B, A) : e = Event(e.key, s, K) /\ e.start = Min(s) /\ e.end = Max(s)
  BY EventsAreRuns
<1>3. r # s  BY <1>1, <1>2
<1>4. B \in SUBSET Buckets  BY BucketsAreSeen
<1> HIDE DEF A, B, K
<1>5. Max(r) < Min(s) \/ Max(s) < Min(r)  BY <1>3, <1>4, RunsAreApart
<1> QED  BY <1>1, <1>2, <1>5

\* Two observations that are linked are in one event, if two are enough for one.
LEMMA FoundTogether ==
    ASSUME NEW S, \A p \in S : IsPing(p), MinConsecutive <= 2,
           NEW x \in Close(Pairs(S)), NEW y \in Close(Pairs(S)),
           x.key = y.key, x.bucket < y.bucket,
           Linked(ApartIn(S, x.key), x.bucket, y.bucket)
    PROVE  \E e \in DetectEvents(S) :
                e.key = x.key /\ e.start <= x.bucket /\ y.bucket <= e.end
<1> DEFINE key == x.key
           B == CloseIn(S, key)
           A == ApartIn(S, key)
           K == OfKey(Close(Pairs(S)), key)
<1>1. B \in SUBSET Buckets  BY BucketsAreSeen
<1>2. x.bucket \in B /\ y.bucket \in B  BY DEF CloseIn, BucketsOf, OfKey
<1>3. PICK run \in Runs(B, A) : x.bucket \in run /\ y.bucket \in run
  <2> HIDE DEF A, B
  <2>1. Linked(A, x.bucket, y.bucket)  BY DEF A
  <2> QED  BY <1>1, <1>2, <2>1, LinkedTogether
<1>4. run \in SUBSET B
  <2> HIDE DEF A, B
  <2> QED  BY DEF Runs, RunFrom
<1>5. /\ \A b \in run : b \in Nat /\ Min(run) <= b /\ b <= Max(run)
  <2> HIDE DEF A, B
  <2>1. run \in SUBSET Buckets /\ run # {}  BY <1>1, <1>3, <1>4
  <2>2. \A b \in run : Min(run) <= b /\ b <= Max(run)  BY <2>1, FirstAndLast
  <2> QED  BY <2>1, <2>2, BucketsAreBounded
<1>6. Cardinality(run) >= MinConsecutive
  <2> HIDE DEF A, B
  <2>1. IsFiniteSet(run)  BY <1>1, <1>4, BucketsAreBounded
  <2>2. {x.bucket, y.bucket} \subseteq run /\ x.bucket # y.bucket  BY <1>3, <1>5
  <2>3. Cardinality({x.bucket, y.bucket}) = 2
    <3>1. IsFiniteSet({x.bucket}) /\ Cardinality({x.bucket}) = 1  BY FS_Singleton
    <3>2. Cardinality({x.bucket} \cup {y.bucket}) = 1 + 1
      BY <2>2, <3>1, FS_AddElement
    <3>3. {x.bucket, y.bucket} = {x.bucket} \cup {y.bucket}  OBVIOUS
    <3> QED  BY <3>2, <3>3
  <2>4. Cardinality({x.bucket, y.bucket}) <= Cardinality(run)  BY <2>1, <2>2, FS_Subset
  <2>5. Cardinality(run) \in Nat  BY <2>1, FS_CardinalityType
  <2> QED  BY <2>3, <2>4, <2>5, DetectionAssumption
<1> DEFINE e == Event(key, run, K)
<1>7. e \in DetectEvents(S)
  <2>1. key \in KeysIn(Close(Pairs(S)))  BY DEF KeysIn
  <2>2. e \in EventsOf(key, K, OfKey(Separated(Pairs(S)), key))
    BY <1>3, <1>6 DEF EventsOf, CloseIn, ApartIn
  <2> HIDE DEF e
  <2> QED  BY <2>1, <2>2 DEF DetectEvents
<1>8. e.key = key /\ e.start = Min(run) /\ e.end = Max(run)  BY DEF Event
<1>9. e.start <= x.bucket /\ y.bucket <= e.end  BY <1>3, <1>5, <1>8
<1> QED  BY <1>7, <1>8, <1>9

-----------------------------------------------------------------------------
(***************************************************************************)
(* What reconcile() accounts for.                                          *)
(***************************************************************************)
\* An event either changes nothing, because one that ends no earlier is tracked, or it
\* makes an action that reaches at least as far, and replaces what ends before it.
LEMMA OneOutcome ==
    ASSUME JudgedInv', NEW state \in Outcomes', NEW e \in GoodEvents', e.start <= e.end
    PROVE  \/ /\ Reconciled(state, e) = state
              /\ \E p \in state.tracked : p.key = e.key /\ e.end <= p.end
           \/ \E a :
              /\ a.event \in GoodEvents' /\ a.event.key = e.key
              /\ a.event.start <= e.start /\ a.event.end = e.end
              /\ \A p \in state.tracked : p.key = e.key => p.end < e.end
              /\ Reconciled(state, e).actions = state.actions \cup {a}
              /\ Reconciled(state, e).tracked =
                    {p \in state.tracked : p.key # e.key} \cup {a.event}
<1> DEFINE previous == PreviousOf(state.tracked, e)
           p == CHOOSE x \in previous : TRUE
           u == Updated(p, e)
           Replaced(d, action) ==
                [tracked |-> (state.tracked \ previous) \cup {d},
                 actions |-> state.actions \cup {action}]
<1>1. /\ state.tracked \in SUBSET GoodEvents' /\ OnePerPair(state.tracked)
  BY DEF Outcomes
<1>2. \A x \in GoodEvents' : x.start \in Nat /\ x.end \in Nat /\ x.nearest \in Nat
  BY BucketsAreBounded DEF GoodEvents, EventRecords
<1>3. state.tracked \ previous = {x \in state.tracked : x.key # e.key}
  BY DEF PreviousOf
<1>4. \A x \in previous : x \in state.tracked /\ x.key = e.key  BY DEF PreviousOf
<1>5. \A x \in state.tracked : x.key = e.key => x \in previous  BY DEF PreviousOf
<1> HIDE DEF previous
<1>6. CASE \A x \in previous : ~Continues(x, e)
  <2> DEFINE a == [action |-> "new", event |-> e]
  <2>1. Reconciled(state, e) = Replaced(e, a)  BY <1>6 DEF Reconciled, NewAction, previous
  <2>2. Replaced(e, a).actions = state.actions \cup {a}  OBVIOUS
  <2>3. Replaced(e, a).tracked = {x \in state.tracked : x.key # e.key} \cup {a.event}
    BY <1>3
  <2>4. ASSUME NEW x \in state.tracked, x.key = e.key PROVE x.end < e.end
    <3>1. ~Continues(x, e)  BY <1>5, <1>6, <2>4
    <3>2. x.end \in Nat /\ e.start \in Nat /\ e.end \in Nat  BY <1>1, <1>2
    <3> QED  BY <3>1, <3>2 DEF Continues
  <2>5. a.event = e /\ e.start <= e.start  BY <1>2
  <2> HIDE DEF a, Replaced
  <2> QED  BY <2>1, <2>2, <2>3, <2>4, <2>5
<1>7. CASE ~(\A x \in previous : ~Continues(x, e))
  <2>1. p \in previous  BY <1>7
  <2>2. p \in state.tracked /\ p.key = e.key  BY <1>4, <2>1
  <2>3. \A x \in state.tracked : x.key = e.key => x = p  BY <1>1, <2>2 DEF OnePerPair
  <2>4. Continues(p, e)  BY <1>4, <1>7, <2>3
  <2>5. p.end \in Nat /\ e.end \in Nat  BY <1>1, <1>2, <2>2
  <2>6. CASE e.end > p.end
    <3> DEFINE a == [action |-> "update", event |-> u]
    <3>1. Reconciled(state, e) = Replaced(u, a)
      BY <1>7, <2>6 DEF Reconciled, UpdateAction, previous
    <3>2. u.key = e.key /\ u.end = e.end /\ u.start = Min({p.start, e.start})
      BY DEF Updated, GoodEvents, EventRecords
    <3>3. u.start <= e.start
      <4>1. p.start \in Nat /\ e.start \in Nat  BY <1>1, <1>2, <2>2
      <4> HIDE DEF p, u
      <4> QED  BY <3>2, <4>1, LesserOfTwo
    <3>4. u \in GoodEvents'
      <4> HIDE DEF p
      <4>1. Good(u)'  BY <1>1, <2>2, <2>4, <2>6, UpdatedIsGood DEF GoodEvents
      <4> QED  BY <4>1 DEF GoodEvents, Good
    <3> HIDE DEF p, u
    <3>5. \A x \in state.tracked : x.key = e.key => x.end < e.end
      BY <2>3, <2>5, <2>6
    <3>6. Replaced(u, a).actions = state.actions \cup {a}  OBVIOUS
    <3>7. Replaced(u, a).tracked = {x \in state.tracked : x.key # e.key} \cup {a.event}
      BY <1>3
    <3>8. a.event = u  OBVIOUS
    <3> HIDE DEF a, Replaced
    <3> QED  BY <3>1, <3>2, <3>3, <3>4, <3>5, <3>6, <3>7, <3>8
  <2>7. CASE ~(e.end > p.end)
    <3>1. Reconciled(state, e) = state  BY <1>7, <2>7 DEF Reconciled, previous
    <3> HIDE DEF p
    <3>2. e.end <= p.end  BY <2>5, <2>7
    <3> QED  BY <2>2, <3>1, <3>2
  <2> QED  BY <2>6, <2>7
<1> QED  BY <1>6, <1>7

\* A detection that ends later than what is tracked of the pair.
Fresh(e) == \A p \in tracked : p.key = e.key => p.end < e.end

\* What ends no later than something tracked, or than anything still in the buffer.
Overtaken(d) ==
    \/ \E p \in tracked : p.key = d.key /\ d.end <= p.end
    \/ \A q \in rows : d.end <= Bucket(q.at)

\* After the events of s: what is tracked ends where it did or where one of them does, and
\* no earlier than what was tracked or is on its way; an action reaches as far as any
\* document of the pair; and each fresh event is in an action.
Accounts(state, s) ==
    /\ \A p \in state.tracked : p \in tracked \/ \E e \in s : e.key = p.key /\ e.end = p.end
    /\ \A d \in tracked \cup {a.event : a \in state.actions} :
            \E p \in state.tracked : p.key = d.key /\ d.end <= p.end
    /\ \A a \in state.actions, d \in docs : d.key = a.event.key => d.end <= a.event.end
    /\ \A e \in s : Fresh(e) =>
            \E a \in state.actions :
                a.event.key = e.key /\ a.event.start <= e.start /\ e.end <= a.event.end

\* The events of a window, each of which ends where a ping of the buffer is.
OfWindow(D) ==
    /\ \A e \in D : e.start <= e.end /\ \E q \in rows : Bucket(q.at) = e.end
    /\ \A d, e \in D : d.key = e.key /\ d # e => d.end < e.start \/ e.end < d.start

\* One event more.
LEMMA ReconciledAccounts ==
    ASSUME JudgedInv', NEW state \in Outcomes', NEW D \in SUBSET GoodEvents', OfWindow(D),
           tracked \in SUBSET GoodEvents', docs \in SUBSET GoodEvents',
           \A d \in docs : Overtaken(d),
           NEW s \in SUBSET D, NEW e \in D, e \notin s, \A d \in s : d.start <= e.start,
           Accounts(state, s)
    PROVE  Accounts(Reconciled(state, e), s \cup {e})
<1> DEFINE after == Reconciled(state, e)
<1>1. /\ state.tracked \in SUBSET GoodEvents'
      /\ \A a \in state.actions : a.event \in GoodEvents'
  BY DEF Outcomes
<1>2. \A x \in GoodEvents' : x.start \in Nat /\ x.end \in Nat
  BY BucketsAreBounded DEF GoodEvents, EventRecords
<1>3. e.start <= e.end /\ e.start \in Nat /\ e.end \in Nat  BY <1>2 DEF OfWindow
<1>4. CASE after = state /\ \E p \in state.tracked : p.key = e.key /\ e.end <= p.end
  <2>1. PICK p \in state.tracked : p.key = e.key /\ e.end <= p.end  BY <1>4
  <2>2. ~Fresh(e)
    <3>1. CASE p \in tracked
      <4>1. p.end \in Nat  BY <1>2, <3>1
      <4> QED  BY <1>3, <2>1, <3>1, <4>1 DEF Fresh
    <3>2. CASE \E d \in s : d.key = p.key /\ d.end = p.end
      <4>1. PICK d \in s : d.key = p.key /\ d.end = p.end  BY <3>2
      <4>2. d.end < e.start \/ e.end < d.start  BY <2>1, <4>1 DEF OfWindow
      <4>3. d.start \in Nat /\ d.end \in Nat /\ d.start <= e.start  BY <1>2
      <4>4. FALSE  BY <1>3, <2>1, <4>1, <4>2, <4>3
      <4> QED  BY <4>4
    <3> QED  BY <3>1, <3>2 DEF Accounts
  <2> QED  BY <1>4, <2>2 DEF Accounts
<1>5. CASE \E a :
              /\ a.event \in GoodEvents' /\ a.event.key = e.key
              /\ a.event.start <= e.start /\ a.event.end = e.end
              /\ \A p \in state.tracked : p.key = e.key => p.end < e.end
              /\ after.actions = state.actions \cup {a}
              /\ after.tracked = {p \in state.tracked : p.key # e.key} \cup {a.event}
  <2>1. PICK a :
              /\ a.event \in GoodEvents' /\ a.event.key = e.key
              /\ a.event.start <= e.start /\ a.event.end = e.end
              /\ \A p \in state.tracked : p.key = e.key => p.end < e.end
              /\ after.actions = state.actions \cup {a}
              /\ after.tracked = {p \in state.tracked : p.key # e.key} \cup {a.event}
    BY <1>5
  <2> HIDE DEF after
  <2>2. \A p \in after.tracked :
            p \in tracked \/ \E d \in s \cup {e} : d.key = p.key /\ d.end = p.end
    BY <2>1 DEF Accounts
  <2>3. ASSUME NEW d \in tracked \cup {b.event : b \in state.actions}
        PROVE  \E p \in after.tracked : p.key = d.key /\ d.end <= p.end
    <3>1. PICK p \in state.tracked : p.key = d.key /\ d.end <= p.end  BY DEF Accounts
    <3>2. d.end \in Nat /\ p.end \in Nat  BY <1>1, <1>2
    <3>3. CASE p.key # e.key  BY <2>1, <3>1, <3>3
    <3>4. CASE p.key = e.key
      <4>1. p.end < e.end  BY <2>1, <3>4
      <4>2. d.end <= a.event.end  BY <1>3, <2>1, <3>1, <3>2, <4>1
      <4> QED  BY <2>1, <3>1, <3>4, <4>2
    <3> QED  BY <3>3, <3>4
  <2>4. \A d \in tracked \cup {b.event : b \in after.actions} :
            \E p \in after.tracked : p.key = d.key /\ d.end <= p.end
    <3>1. \E p \in after.tracked : p.key = a.event.key /\ a.event.end <= p.end
      BY <1>3, <2>1
    <3> QED  BY <2>1, <2>3, <3>1
  <2>5. ASSUME NEW d \in docs, d.key = e.key PROVE d.end <= e.end
    <3>1. d.end \in Nat  BY <1>2
    <3>2. CASE \E p \in tracked : p.key = d.key /\ d.end <= p.end
      <4>1. PICK p \in tracked : p.key = d.key /\ d.end <= p.end  BY <3>2
      <4>2. PICK q \in state.tracked : q.key = p.key /\ p.end <= q.end  BY DEF Accounts
      <4>3. q.end < e.end  BY <2>1, <2>5, <4>1, <4>2
      <4>4. p.end \in Nat /\ q.end \in Nat  BY <1>1, <1>2
      <4> QED  BY <1>3, <3>1, <4>1, <4>2, <4>3, <4>4
    <3>3. CASE \A q \in rows : d.end <= Bucket(q.at)
      <4>1. \E q \in rows : Bucket(q.at) = e.end  BY DEF OfWindow
      <4> QED  BY <3>3, <4>1
    <3> QED  BY <3>2, <3>3 DEF Overtaken
  <2>6. \A b \in after.actions, d \in docs : d.key = b.event.key => d.end <= b.event.end
    BY <2>1, <2>5 DEF Accounts
  <2>7. \A d \in s \cup {e} : Fresh(d) =>
            \E b \in after.actions :
                b.event.key = d.key /\ b.event.start <= d.start /\ d.end <= b.event.end
    <3>1. ASSUME NEW d \in s, Fresh(d)
          PROVE  \E b \in after.actions :
                    b.event.key = d.key /\ b.event.start <= d.start /\ d.end <= b.event.end
      BY <2>1, <3>1 DEF Accounts
    <3>2. \E b \in after.actions :
                b.event.key = e.key /\ b.event.start <= e.start /\ e.end <= b.event.end
      BY <1>3, <2>1
    <3> QED  BY <3>1, <3>2
  <2>8. Accounts(after, s \cup {e})  BY <2>2, <2>4, <2>6, <2>7 DEF Accounts
  <2> QED  BY <2>8 DEF after
<1> QED  BY <1>3, <1>4, <1>5, OneOutcome

\* All of them.
LEMMA ReconcileAccounts ==
    ASSUME JudgedInv', NEW D \in SUBSET GoodEvents', IsFiniteSet(D), OfWindow(D),
           [tracked |-> tracked, actions |-> {}] \in Outcomes', docs \in SUBSET GoodEvents',
           \A d \in docs : Overtaken(d)
    PROVE  Accounts(Reconcile(D), D)
<1>1. PICK after :
        /\ after[{}] = [tracked |-> tracked, actions |-> {}]
        /\ \A s \in (SUBSET D) \ {{}} :
              after[s] = Reconciled(after[s \ {Latest(s)}], Latest(s))
        /\ \A s \in SUBSET D : after[s] \in Outcomes'
        /\ after[D] = Reconcile(D)
  BY ReconcileUnfolds
<1>2. tracked \in SUBSET GoodEvents'  BY DEF Outcomes
<1>3. \A x \in GoodEvents' : x.start \in Nat /\ x.end \in Nat
  BY BucketsAreBounded DEF GoodEvents, EventRecords
<1> DEFINE H == {s \in SUBSET D : Accounts(after[s], s)}
<1>4. {} \in H
  <2>1. after[{}].tracked = tracked /\ after[{}].actions = {}  BY <1>1
  <2>2. \A d \in tracked : d.key = d.key /\ d.end <= d.end  BY <1>2, <1>3
  <2>3. Accounts(after[{}], {})  BY <2>1, <2>2 DEF Accounts
  <2> QED  BY <2>3
<1>5. ASSUME NEW s \in (SUBSET D) \ {{}}, s \ {Latest(s)} \in H PROVE s \in H
  <2> DEFINE e == Latest(s)
             r == s \ {e}
  <2>1. e \in s /\ \A d \in s : d.start <= e.start
    <3>1. \E x \in s : \A d \in s : d.start <= x.start  BY LatestStartsLast
    <3> QED  BY <3>1 DEF Latest
  <2>2. r \in SUBSET D /\ e \in D /\ e \notin r /\ s = r \cup {e}  BY <2>1
  <2>3. Accounts(after[r], r)  BY <1>5
  <2>4. after[r] \in Outcomes' /\ after[s] = Reconciled(after[r], e)  BY <1>1, <2>2
  <2>5. \A d \in r : d.start <= e.start  BY <2>1
  <2> HIDE DEF e, r
  <2>6. Accounts(Reconciled(after[r], e), r \cup {e})
    BY <1>2, <2>2, <2>3, <2>4, <2>5, ReconciledAccounts
  <2>7. Accounts(after[s], s)  BY <2>2, <2>4, <2>6
  <2> QED  BY <2>7
<1>6. H \in SUBSET (SUBSET D)  OBVIOUS
<1> HIDE DEF H
<1>7. D \in H  BY <1>4, <1>5, <1>6, LatestInduction
<1> QED  BY <1>1, <1>7 DEF H

-----------------------------------------------------------------------------
(***************************************************************************)
(* What the windows cover between them, as long as nothing fails.          *)
(***************************************************************************)
OnItsWay == {a.event : a \in actions}

\* Events are written before the next window, and faults are counted.
PhaseInv ==
    /\ pc # "write" => actions = {}
    /\ failures \in Nat /\ crashes \in Nat

\* What no window has seen yet is newer than all that one has; what has been seen and is
\* not in the buffer any more is older than the overlap.
NewerThanSeen ==
    \A p \in rows \ seen, q \in seen : q.at <= p.at /\ (p.vehicle = q.vehicle => q.at < p.at)

DroppedAreOld == \A p \in seen \ rows : \E q \in seen : p.at < q.at - Overlap

\* No action ends before a document it may replace.
ActionsReachFurther == \A d \in docs, a \in actions : d.key = a.event.key => d.end <= a.event.end

\* OneIncident, on any set of pings; and an event that both observations are in.
Incident(S, x, y) ==
    /\ x.key = y.key /\ x.bucket < y.bucket
    /\ Linked(ApartIn(S, x.key), x.bucket, y.bucket)
    /\ (y.bucket - x.bucket + 1) * BucketTicks <= Overlap + 1

Reaches(d, x, y) == d.key = x.key /\ d.start <= x.bucket /\ y.bucket <= d.end

AllReached(S, events) ==
    \A x, y \in Close(Pairs(S)) : Incident(S, x, y) => \E d \in events : Reaches(d, x, y)

UndisturbedInv ==
    /\ ~backoff /\ NewerThanSeen /\ DroppedAreOld
    /\ \A d \in docs \cup OnItsWay : Overtaken(d)
    /\ ActionsReachFurther
    /\ AllReached(seen, docs \cup OnItsWay)

IncidentInv == PhaseInv /\ (Undisturbed => UndisturbedInv)

-----------------------------------------------------------------------------
\* An instant is between the edges of its bucket.
LEMMA BucketEdges ==
    ASSUME NEW x \in Nat
    PROVE  /\ Bucket(x) \in Nat
           /\ Bucket(x) * BucketTicks <= x /\ x < (Bucket(x) + 1) * BucketTicks
<1> DEFINE n == BucketTicks
           b == x \div n
<1>1. n \in Nat /\ n > 0  BY DetectionAssumption
<1>2. b \in Int /\ n * b <= x /\ x < n * b + n  BY <1>1
<1>3. Bucket(x) \in Nat /\ Bucket(x) = b  BY BucketOrder DEF Bucket
<1> HIDE DEF b
<1>4. (b + 1) * n = n * b + n /\ b * n = n * b  BY <1>1, <1>2
<1> QED  BY <1>2, <1>3, <1>4

LEMMA TicksOfBuckets ==
    ASSUME NEW b \in Int, NEW c \in Int
    PROVE  /\ b * BucketTicks \in Int
           /\ b <= c => b * BucketTicks <= c * BucketTicks
           /\ (c - b) * BucketTicks = c * BucketTicks - b * BucketTicks
<1> DEFINE n == BucketTicks
<1>1. n \in Nat  BY DetectionAssumption
<1>2. b * n \in Int /\ c * n \in Int /\ (c - b) * n = c * n - b * n  BY <1>1
<1>3. ASSUME b <= c PROVE b * n <= c * n
  <2>1. c - b \in Nat  BY <1>3
  <2>2. (c - b) * n \in Nat  BY <1>1, <2>1
  <2> QED  BY <1>2, <2>2
<1> QED  BY <1>2, <1>3

\* An observation that only the new pings show has one of them in its bucket.
LEMMA NewPairsHaveNewPings ==
    ASSUME NEW y \in Pairs(seen \cup rows), y \notin Pairs(seen)
    PROVE  \E r \in rows \ seen : r.vehicle \in {y.key.a, y.key.b} /\ Bucket(r.at) = y.bucket
<1> SUFFICES ASSUME \A r \in rows \ seen :
                        ~(r.vehicle \in {y.key.a, y.key.b} /\ Bucket(r.at) = y.bucket)
             PROVE  FALSE
  OBVIOUS
<1>1. Covers(seen, seen \cup rows, y.key, y.bucket)  BY DEF Covers
<1>2. Covers(seen \cup rows, seen, y.key, y.bucket)  BY DEF Covers
<1> QED  BY <1>1, <1>2, PairsAreLocal

\* What is known are pings, and so are its parts.
LEMMA PartsArePings ==
    ASSUME BunchingInv
    PROVE  /\ \A p \in seen \cup rows : IsPing(p) /\ p.at \in Nat
           /\ \A p \in seen : IsPing(p)
           /\ \A p \in rows : IsPing(p)
  BY KnownArePings DEF Known, BunchingInv

\* A new ping is in no earlier bucket than an observation that was seen.
LEMMA NewPingsAreInLastBucket ==
    ASSUME BunchingInv, NewerThanSeen, NEW r \in rows \ seen, NEW u \in seen
    PROVE  Bucket(u.at) <= Bucket(r.at) /\ Bucket(u.at) \in Nat /\ Bucket(r.at) \in Nat
<1>1. r.at \in Nat /\ u.at \in Nat  BY PartsArePings
<1>2. u.at <= r.at  BY DEF NewerThanSeen
<1> QED  BY <1>1, <1>2, BucketOrder

\* Of two observations, the later of which was seen, the earlier was seen, and the new
\* pings do not change what was seen between them.
LEMMA SeenIncidents ==
    ASSUME BunchingInv, NewerThanSeen,
           NEW x \in Close(Pairs(seen \cup rows)), NEW y \in Close(Pairs(seen \cup rows)),
           Incident(seen \cup rows, x, y), y \in Pairs(seen)
    PROVE  x \in Close(Pairs(seen)) /\ y \in Close(Pairs(seen)) /\ Incident(seen, x, y)
<1> DEFINE S == seen \cup rows
<1>1. PICK u \in seen : Bucket(u.at) = y.bucket
  BY PartsArePings, PairsComeFromPings DEF Usable
<1>2. \A r \in rows \ seen : y.bucket <= Bucket(r.at) /\ Bucket(r.at) \in Nat /\ y.bucket \in Nat
  BY <1>1, NewPingsAreInLastBucket
<1>3. x \in Pairs(S) /\ y \in Pairs(S)  BY DEF Close
<1>4. x.bucket \in Nat /\ y.bucket \in Nat /\ x.bucket < y.bucket
  BY <1>3, PartsArePings, PairsComeFromPings DEF Incident
<1>5. x \in Pairs(seen)
  <2> SUFFICES ASSUME x \notin Pairs(seen) PROVE FALSE  OBVIOUS
  <2>1. PICK r \in rows \ seen : Bucket(r.at) = x.bucket  BY <1>3, NewPairsHaveNewPings
  <2> QED  BY <1>2, <1>4, <2>1
<1>6. ASSUME NEW b \in ApartIn(seen, x.key), x.bucket < b, b < y.bucket
      PROVE  b \in ApartIn(S, x.key)
  <2>1. PICK z \in Separated(Pairs(seen)) : z.key = x.key /\ z.bucket = b
    BY DEF ApartIn, BucketsOf, OfKey
  <2>2. z \in Pairs(seen) /\ z.distance > Threshold  BY DEF Separated
  <2>3. b \in Nat  BY <2>1, <2>2, PartsArePings, PairsComeFromPings
  <2>4. Covers(seen, S, z.key, z.bucket)
    <3> SUFFICES ASSUME NEW r \in rows \ seen, Bucket(r.at) = b PROVE FALSE
      BY <2>1 DEF Covers
    <3> QED  BY <1>2, <1>4, <1>6, <2>3
  <2>5. Covers(S, seen, z.key, z.bucket)  BY DEF Covers
  <2>6. z \in Pairs(S)  BY <2>2, <2>4, <2>5, PairsAreLocal
  <2> QED  BY <2>1, <2>2, <2>6 DEF ApartIn, BucketsOf, OfKey, Separated
<1>7. Incident(seen, x, y)
  BY <1>6 DEF Incident, Linked
<1> QED  BY <1>5, <1>7 DEF Close

\* With a new ping in the later bucket of an incident, the buffer holds all there is from
\* its earlier bucket on.
LEMMA BufferHoldsIncident ==
    ASSUME BunchingInv, NewerThanSeen, DroppedAreOld,
           NEW r \in rows \ seen, NEW b \in Nat, NEW c \in Nat, b <= c,
           (Bucket(r.at) - b + 1) * BucketTicks <= Overlap + 1, NEW key
    PROVE  Covers(rows, seen \cup rows, key, c)
<1> SUFFICES ASSUME NEW p \in seen \ rows, Bucket(p.at) = c PROVE FALSE
  BY DEF Covers
<1>1. PICK q \in seen : p.at < q.at - Overlap  BY DEF DroppedAreOld
<1>2. q.at <= r.at  BY DEF NewerThanSeen
<1>3. p.at \in Nat /\ q.at \in Nat /\ r.at \in Nat  BY PartsArePings
<1> DEFINE d == Bucket(r.at)
           n == BucketTicks
<1>4. d \in Nat /\ r.at < (d + 1) * n  BY <1>3, BucketEdges
<1>5. c * n <= p.at  BY <1>3, BucketEdges
<1>6. b * n \in Int /\ c * n \in Int /\ b * n <= c * n  BY TicksOfBuckets
<1>7. (d + 1) * n \in Int /\ ((d + 1) - b) * n = (d + 1) * n - b * n
  <2>1. d + 1 \in Int /\ b \in Int  BY <1>4
  <2> HIDE DEF d
  <2> QED  BY <2>1, TicksOfBuckets
<1>8. (d + 1) - b = d - b + 1  BY <1>4
<1>9. (d + 1) * n - b * n <= Overlap + 1  BY <1>7, <1>8
<1>10. Overlap \in Nat  BY TrackerAssumption
<1> HIDE DEF d, n
<1> QED  BY <1>1, <1>2, <1>3, <1>4, <1>5, <1>6, <1>7, <1>9, <1>10

\* An observation was seen if both its vehicles had been seen in its bucket: their first
\* pings are not among the new ones.
LEMMA FirstPingsWereSeen ==
    ASSUME BunchingInv, NewerThanSeen, NEW y \in Pairs(seen \cup rows),
           NEW u \in Usable(seen), u.vehicle = y.key.a, Bucket(u.at) = y.bucket,
           NEW v \in Usable(seen), v.vehicle = y.key.b, Bucket(v.at) = y.bucket
    PROVE  y \in Pairs(seen)
<1> DEFINE F(S) == FirstInBucket(Usable(S))
           S == seen \cup rows
<1>1. PICK p \in F(S), q \in F(S) : Comparable(p, q) /\ y = PairObservation(p, q)
  BY DEF Pairs
<1>2. /\ y.key.a = p.vehicle /\ y.key.b = q.vehicle
      /\ y.bucket = Bucket(p.at) /\ y.bucket = Bucket(q.at)
  BY <1>1 DEF PairObservation, Comparable
<1>3. ASSUME NEW x \in F(S), NEW w \in Usable(seen),
             w.vehicle = x.vehicle, Bucket(w.at) = Bucket(x.at)
      PROVE  x \in F(seen)
  <2>1. x \in Usable(S) /\ x \in S /\ w \in seen /\ w \in Usable(S)  BY DEF FirstInBucket, Usable
  <2>2. x.at <= w.at  BY <1>3, <2>1 DEF FirstInBucket
  <2>3. x \in seen
    <3> SUFFICES ASSUME x \notin seen PROVE FALSE  OBVIOUS
    <3>1. w.at < x.at  BY <1>3, <2>1 DEF NewerThanSeen
    <3>2. w.at \in Nat /\ x.at \in Nat  BY <2>1, PartsArePings
    <3> QED  BY <2>2, <3>1, <3>2
  <2>4. x \in Usable(seen)  BY <2>1, <2>3 DEF Usable
  <2>5. Usable(seen) \subseteq Usable(S)  BY DEF Usable
  <2> QED  BY <2>4, <2>5 DEF FirstInBucket
<1>4. p \in F(seen) /\ q \in F(seen)  BY <1>1, <1>2, <1>3
<1> HIDE DEF F
<1>5. <<p, q>> \in {x \in F(seen) \X F(seen) : Comparable(x[1], x[2])}  BY <1>1, <1>4
<1> QED  BY <1>1, <1>5 DEF Pairs, F

\* An incident that the new pings complete is in a fresh event of the window.
LEMMA NewIncidents ==
    ASSUME OverlapSuffices, BunchingInv, NewerThanSeen, DroppedAreOld,
           NEW x \in Close(Pairs(seen \cup rows)), NEW y \in Close(Pairs(seen \cup rows)),
           Incident(seen \cup rows, x, y), y \notin Pairs(seen)
    PROVE  \E e \in DetectEvents(rows) : Fresh(e) /\ Reaches(e, x, y)
<1> DEFINE S == seen \cup rows
<1>1. x \in Pairs(S) /\ y \in Pairs(S)  BY DEF Close
<1>2. x.bucket \in Nat /\ y.bucket \in Nat /\ x.bucket < y.bucket /\ x.key = y.key
  BY <1>1, PartsArePings, PairsComeFromPings DEF Incident
<1>3. PICK r \in rows \ seen : Bucket(r.at) = y.bucket  BY <1>1, NewPairsHaveNewPings
<1>4. ASSUME NEW c \in Nat, x.bucket <= c
      PROVE  Covers(rows, S, x.key, c) /\ Covers(S, rows, x.key, c)
  <2>1. Covers(rows, S, x.key, c)
    BY <1>2, <1>3, <1>4, BufferHoldsIncident DEF Incident
  <2> QED  BY <2>1 DEF Covers
<1>5. x \in Pairs(rows)  BY <1>1, <1>2, <1>4, PairsAreLocal
<1>6. y \in Pairs(rows)
  <2>1. x.bucket <= y.bucket  BY <1>2
  <2> QED  BY <1>1, <1>2, <1>4, <2>1, PairsAreLocal
<1>7. ASSUME NEW b \in ApartIn(rows, x.key), x.bucket < b
      PROVE  b \in ApartIn(S, x.key)
  <2>1. PICK z \in Separated(Pairs(rows)) : z.key = x.key /\ z.bucket = b
    BY DEF ApartIn, BucketsOf, OfKey
  <2>2. z \in Pairs(rows) /\ z.distance > Threshold  BY DEF Separated
  <2>3. b \in Nat  BY <2>1, <2>2, PartsArePings, PairsComeFromPings
  <2>4. x.bucket <= b  BY <1>2, <1>7, <2>3
  <2>5. Covers(rows, S, z.key, z.bucket) /\ Covers(S, rows, z.key, z.bucket)
    BY <1>4, <2>1, <2>3, <2>4
  <2>6. z \in Pairs(S)  BY <2>2, <2>5, PairsAreLocal
  <2> QED  BY <2>1, <2>2, <2>6 DEF ApartIn, BucketsOf, OfKey, Separated
<1>8. Linked(ApartIn(rows, x.key), x.bucket, y.bucket)
  BY <1>7 DEF Incident, Linked
<1>9. x \in Close(Pairs(rows)) /\ y \in Close(Pairs(rows))  BY <1>5, <1>6 DEF Close
<1>10. PICK e \in DetectEvents(rows) : e.key = x.key /\ e.start <= x.bucket /\ y.bucket <= e.end
  <2>1. MinConsecutive <= 2  BY DEF OverlapSuffices
  <2> QED  BY <1>2, <1>8, <1>9, <2>1, PartsArePings, FoundTogether
<1>11. ASSUME NEW p \in tracked, p.key = e.key PROVE p.end < e.end
  <2>1. Good(p) /\ p.end \in Nat  BY DEF BunchingInv, EventsInv, GoodEvents, EventRecords
  <2>2. e.end \in Nat  BY PartsArePings, EventsAreRuns
  <2> SUFFICES ASSUME e.end <= p.end PROVE FALSE  BY <2>1, <2>2
  <2>3. PICK z \in judged : z.key = p.key /\ z.bucket = p.end  BY <2>1 DEF Good, SeenIn
  <2>4. PICK u \in Usable(seen) : u.vehicle = z.key.a /\ Bucket(u.at) = z.bucket
    BY DEF BunchingInv, JudgedInv
  <2>5. PICK v \in Usable(seen) : v.vehicle = z.key.b /\ Bucket(v.at) = z.bucket
    BY DEF BunchingInv, JudgedInv
  <2>6. Bucket(u.at) <= y.bucket
    <3>1. u \in seen  BY DEF Usable
    <3> QED  BY <1>3, <3>1, NewPingsAreInLastBucket
  <2>7. p.end = y.bucket  BY <1>2, <1>10, <2>1, <2>2, <2>3, <2>4, <2>6
  <2>8. z.key = y.key /\ z.bucket = y.bucket  BY <1>2, <1>10, <1>11, <2>3, <2>7
  <2>9. y \in Pairs(seen)  BY <1>1, <2>4, <2>5, <2>8, FirstPingsWereSeen
  <2> QED  BY <2>9
<1> QED  BY <1>10, <1>11 DEF Fresh, Reaches

-----------------------------------------------------------------------------
(***************************************************************************)
(* The steps, as long as nothing fails.                                    *)
(***************************************************************************)
\* What is said of the pings seen is said of them after the step.
LEMMA ReachedLater ==
    ASSUME AllReached(seen', docs' \cup {a.event : a \in actions'})
    PROVE  AllReached(seen, docs \cup OnItsWay)'
  BY DEF AllReached, Reaches, Incident, Linked, ApartIn, BucketsOf, OfKey, Separated, Close,
         Pairs, FirstInBucket, Usable, OnItsWay

\* An event ends in the bucket of a ping that was seen, and spans numbers.
LEMMA EventsEndAtSeenPings ==
    ASSUME BunchingInv, NEW d \in docs \cup OnItsWay
    PROVE  /\ d.start \in Nat /\ d.end \in Nat
           /\ \E u \in seen : Bucket(u.at) = d.end
<1>1. Good(d)  BY DEF BunchingInv, EventsInv, OnItsWay
<1>2. d.start \in Nat /\ d.end \in Nat
  BY <1>1, BucketsAreBounded DEF Good, EventRecords, Buckets
<1>3. PICK z \in judged : z.key = d.key /\ z.bucket = d.end  BY <1>1 DEF Good, SeenIn
<1>4. \E u \in Usable(seen) : Bucket(u.at) = d.end  BY <1>3 DEF BunchingInv, JudgedInv
<1> QED  BY <1>2, <1>4 DEF Usable

LEMMA IncidentsInitially == Init => IncidentInv
<1> SUFFICES ASSUME Init PROVE IncidentInv  OBVIOUS
<1>1. Pairs(seen) = {}  BY DEF Init, Pairs, FirstInBucket, Usable
<1>2. AllReached(seen, docs \cup OnItsWay)  BY <1>1 DEF AllReached, Close
<1> QED
  BY <1>2 DEF Init, IncidentInv, PhaseInv, UndisturbedInv, NewerThanSeen, DroppedAreOld,
              OnItsWay, ActionsReachFurther

\* A step that touches neither the buffer nor the events.
LEMMA IdleStep ==
    ASSUME IncidentInv, UNCHANGED <<rows, tracked, actions, docs, failures, crashes, seen>>,
           backoff' = backoff \/ backoff' = FALSE, pc' = pc \/ pc # "write"
    PROVE  IncidentInv'
<1>1. PhaseInv'  BY DEF IncidentInv, PhaseInv
<1>2. ASSUME Undisturbed' PROVE UndisturbedInv'
  <2>1. UndisturbedInv  BY <1>2 DEF IncidentInv, Undisturbed
  <2>2. AllReached(seen, docs \cup OnItsWay)'
    BY <2>1, ReachedLater DEF UndisturbedInv, OnItsWay
  <2>3. ~backoff' /\ NewerThanSeen' /\ DroppedAreOld' /\ ActionsReachFurther'
    BY <2>1 DEF UndisturbedInv, NewerThanSeen, DroppedAreOld, ActionsReachFurther
  <2>4. (\A d \in docs \cup OnItsWay : Overtaken(d))'
    BY <2>1 DEF UndisturbedInv, Overtaken, OnItsWay
  <2> QED  BY <2>2, <2>3, <2>4 DEF UndisturbedInv
<1> QED  BY <1>1, <1>2 DEF IncidentInv

\* The pings of a tick are no older than what is known.
LEMMA TickKeepsIncidents ==
    ASSUME PingsInStep, BunchingInv, IncidentInv, Tick
    PROVE  IncidentInv'
<1>1. PICK batch \in Reports[clock + 1] : rows' = rows \cup batch
  BY DEF Tick
<1>2. /\ clock \in Nat /\ clock < MaxTick /\ MaxTick \in Nat /\ pc' = pc
      /\ UNCHANGED <<tracked, actions, docs, backoff, failures, crashes, seen>>
  BY TrackerAssumption DEF Tick, history, BunchingInv, ArrivedInv
<1>3. ASSUME NEW p \in batch, NEW q \in Known
      PROVE  /\ q.at <= p.at /\ (p.vehicle = q.vehicle /\ p.at = q.at => p = q)
             /\ p.at \in Nat /\ q.at \in Nat
  <2>1. PICK t \in 1 .. clock : \E b \in Reports[t] : q \in b
    BY DEF BunchingInv, ArrivedInv
  <2>2. t \in 1 .. MaxTick /\ clock + 1 \in 1 .. MaxTick /\ t < clock + 1  BY <1>2
  <2>3. q.at <= p.at /\ (p.vehicle = q.vehicle /\ p.at = q.at => p = q)
    BY <1>1, <2>1, <2>2 DEF PingsInStep
  <2>4. p.at \in Nat
    <3>1. p.at \in 0 .. clock + 1  BY <1>1, <2>2, TrackerAssumption
    <3> QED  BY <1>2, <3>1
  <2>5. q.at \in Nat  BY KnownArePings DEF BunchingInv
  <2> QED  BY <2>3, <2>4, <2>5
<1>4. PhaseInv'  BY <1>2 DEF IncidentInv, PhaseInv
<1>5. ASSUME Undisturbed' PROVE UndisturbedInv'
  <2>1. UndisturbedInv  BY <1>2, <1>5 DEF IncidentInv, Undisturbed
  <2>2. NewerThanSeen'
    <3> SUFFICES ASSUME NEW p \in rows' \ seen, NEW q \in seen
                 PROVE  q.at <= p.at /\ (p.vehicle = q.vehicle => q.at < p.at)
      BY <1>2 DEF NewerThanSeen
    <3>1. CASE p \in rows  BY <2>1, <3>1 DEF UndisturbedInv, NewerThanSeen
    <3>2. CASE p \in batch
      <4>1. q \in Known  BY DEF Known
      <4> QED  BY <1>3, <3>2, <4>1
    <3> QED  BY <1>1, <3>1, <3>2
  <2>3. ASSUME NEW d \in docs \cup OnItsWay PROVE Overtaken(d)'
    <3>1. CASE \E p \in tracked : p.key = d.key /\ d.end <= p.end
      BY <1>2, <3>1 DEF Overtaken
    <3>2. CASE \A q \in rows : d.end <= Bucket(q.at)
      <4>1. PICK u \in seen : Bucket(u.at) = d.end  BY EventsEndAtSeenPings
      <4>2. ASSUME NEW q \in batch PROVE d.end <= Bucket(q.at)
        <5>1. u \in Known  BY DEF Known
        <5> QED  BY <1>3, <4>1, <4>2, <5>1, BucketOrder
      <4> QED  BY <1>1, <3>2, <4>2 DEF Overtaken
    <3> QED  BY <2>1, <3>1, <3>2 DEF UndisturbedInv, Overtaken
  <2>4. (\A d \in docs \cup OnItsWay : Overtaken(d))'  BY <1>2, <2>3 DEF OnItsWay
  <2>5. AllReached(seen, docs \cup OnItsWay)'
    BY <1>2, <2>1, ReachedLater DEF UndisturbedInv, OnItsWay
  <2>6. ~backoff' /\ DroppedAreOld' /\ ActionsReachFurther'
    BY <1>1, <1>2, <2>1 DEF UndisturbedInv, DroppedAreOld, ActionsReachFurther
  <2> QED  BY <2>2, <2>4, <2>5, <2>6 DEF UndisturbedInv
<1> QED  BY <1>4, <1>5 DEF IncidentInv

\* A window's events replace a document only by one that reaches as far.
LEMMA WriteKeepsIncidents ==
    ASSUME BunchingInv, IncidentInv, Write
    PROVE  IncidentInv'
<1>1. /\ docs' = Upserted(OnItsWay) /\ actions' = {}
      /\ UNCHANGED <<rows, tracked, backoff, failures, crashes, seen>>
  BY DEF Write, OnItsWay, history
<1>2. docs' \subseteq docs \cup OnItsWay  BY <1>1 DEF Upserted
<1>3. PhaseInv'  BY <1>1 DEF IncidentInv, PhaseInv
<1>4. ASSUME Undisturbed' PROVE UndisturbedInv'
  <2>1. UndisturbedInv  BY <1>1, <1>4 DEF IncidentInv, Undisturbed
  <2>2. ASSUME NEW x, NEW y, x.bucket \in Nat, y.bucket \in Nat,
               NEW d \in docs \cup OnItsWay, Reaches(d, x, y)
        PROVE  \E e \in docs' : Reaches(e, x, y)
    <3>1. CASE d \in docs'  BY <2>2, <3>1
    <3>2. CASE d \notin docs'
      <4>1. PICK a \in actions : DocKey(a.event) = DocKey(d)
        BY <1>1, <3>2 DEF Upserted, OnItsWay
      <4>2. d \in docs  BY <1>1, <3>2 DEF Upserted
      <4>3. a.event.key = d.key /\ a.event.start = d.start  BY <4>1 DEF DocKey
      <4>4. d.end <= a.event.end
        BY <2>1, <4>2, <4>3 DEF UndisturbedInv, ActionsReachFurther
      <4>5. a.event \in OnItsWay /\ a.event \in docs'  BY <1>1 DEF OnItsWay, Upserted
      <4>6. a.event.end \in Nat /\ d.end \in Nat  BY <4>5, EventsEndAtSeenPings
      <4>7. Reaches(a.event, x, y)  BY <2>2, <4>3, <4>4, <4>6 DEF Reaches
      <4> QED  BY <4>5, <4>7
    <3> QED  BY <3>1, <3>2
  <2>3. AllReached(seen, docs')
    <3> SUFFICES ASSUME NEW x \in Close(Pairs(seen)), NEW y \in Close(Pairs(seen)),
                        Incident(seen, x, y)
                 PROVE  \E e \in docs' : Reaches(e, x, y)
      BY DEF AllReached
    <3>1. x \in Pairs(seen) /\ y \in Pairs(seen)  BY DEF Close
    <3>2. x.bucket \in Nat /\ y.bucket \in Nat  BY <3>1, PartsArePings, PairsComeFromPings
    <3>3. PICK d \in docs \cup OnItsWay : Reaches(d, x, y)
      BY <2>1 DEF UndisturbedInv, AllReached
    <3> QED  BY <2>2, <3>2, <3>3
  <2>4. AllReached(seen, docs \cup OnItsWay)'
    <3>1. docs' \cup {a.event : a \in actions'} = docs'  BY <1>1
    <3> QED  BY <1>1, <2>3, <3>1, ReachedLater
  <2>5. ~backoff' /\ NewerThanSeen' /\ DroppedAreOld' /\ ActionsReachFurther'
    BY <1>1, <2>1 DEF UndisturbedInv, NewerThanSeen, DroppedAreOld, ActionsReachFurther
  <2>6. (\A d \in docs \cup OnItsWay : Overtaken(d))'
    BY <1>1, <1>2, <2>1 DEF UndisturbedInv, Overtaken, OnItsWay
  <2> QED  BY <2>4, <2>5, <2>6 DEF UndisturbedInv
<1> QED  BY <1>3, <1>4 DEF IncidentInv

\* What the tracker purges ended before everything that is left in the buffer.
LEMMA PurgedIsBehind ==
    ASSUME OverlapSuffices, BunchingInv, rows # {}, NEW p, p.end \in Nat,
           p.end * BucketTicks < ReferenceTime - Retention, NEW q \in CarryForward
    PROVE  p.end <= Bucket(q.at)
<1> DEFINE c == Bucket(q.at)
<1>1. q \in rows /\ q.at >= ReferenceTime - Overlap  BY DEF CarryForward
<1>2. q.at \in Nat /\ ReferenceTime \in Nat  BY <1>1, PartsArePings, Newest
<1>3. Overlap \in Nat /\ Retention \in Nat /\ Overlap <= Retention
  BY TrackerAssumption DEF OverlapSuffices
<1>4. c \in Nat /\ q.at < (c + 1) * BucketTicks  BY <1>2, BucketEdges
<1> HIDE DEF c
<1>5. p.end \in Int /\ c + 1 \in Int  BY <1>4
<1>6. /\ p.end * BucketTicks \in Int /\ (c + 1) * BucketTicks \in Int
      /\ c + 1 <= p.end => (c + 1) * BucketTicks <= p.end * BucketTicks
  BY <1>5, TicksOfBuckets
<1>7. ~(c + 1 <= p.end)  BY <1>1, <1>2, <1>3, <1>4, <1>6
<1>8. p.end <= c  BY <1>4, <1>7
<1> QED  BY <1>8 DEF c

\* A window accounts for what was stored and tracked, and for the incidents its new pings
\* complete.
LEMMA ProcessKeepsIncidents ==
    ASSUME OverlapSuffices, BunchingInv, IncidentInv, Process
    PROVE  IncidentInv'
<1> DEFINE D == DetectEvents(rows)
           R == Reconcile(D)
           N == {a.event : a \in R.actions}
<1>1. /\ pc = "poll" /\ pc' = "write" /\ rows # {} /\ rows' = CarryForward
      /\ tracked' = Recent(R.tracked) /\ actions' = R.actions /\ seen' = seen \cup rows
      /\ UNCHANGED <<docs, backoff, failures, crashes>>
  BY DEF Process, Due
<1>2. /\ rows' \subseteq rows /\ JudgedInv' /\ \A e : Good(e) => Good(e)'
      /\ D \in SUBSET GoodEvents' /\ IsFiniteSet(D)
      /\ [tracked |-> tracked, actions |-> {}] \in Outcomes' /\ R \in Outcomes'
  BY WindowIsGood
<1>3. PhaseInv'  BY <1>1 DEF IncidentInv, PhaseInv
<1>4. ASSUME Undisturbed' PROVE UndisturbedInv'
  <2>1. UndisturbedInv /\ OnItsWay = {}
    BY <1>1, <1>4 DEF IncidentInv, Undisturbed, PhaseInv, OnItsWay
  <2>2. OfWindow(D)
    <3>1. \A e \in D : e.start <= e.end /\ \E q \in rows : Bucket(q.at) = e.end
      BY PartsArePings, EventsAreRuns
    <3>2. \A d, e \in D : d.key = e.key /\ d # e => d.end < e.start \/ e.end < d.start
      BY PartsArePings, EventsAreApart
    <3> HIDE DEF D
    <3> QED  BY <3>1, <3>2 DEF OfWindow
  <2>3. docs \in SUBSET GoodEvents'
    BY <1>1, <1>2 DEF BunchingInv, EventsInv, GoodEvents, Good
  <2>4. Accounts(R, D)
    <3>1. \A d \in docs : Overtaken(d)  BY <2>1 DEF UndisturbedInv
    <3> HIDE DEF D
    <3> QED  BY <1>2, <2>2, <2>3, <3>1, ReconcileAccounts
  <2>5. \A p \in R.tracked \cup N \cup D : p.start \in Nat /\ p.end \in Nat
    <3>1. \A x \in GoodEvents' : x.start \in Nat /\ x.end \in Nat
      BY BucketsAreBounded DEF GoodEvents, EventRecords, Buckets
    <3>2. /\ R.tracked \in SUBSET GoodEvents'
          /\ R.actions \in SUBSET [action : {"new", "update"}, event : GoodEvents']
      BY <1>2 DEF Outcomes
    <3> HIDE DEF R, D
    <3> QED  BY <1>2, <3>1, <3>2
  <2>6. NewerThanSeen'  BY <1>1, <1>2 DEF NewerThanSeen
  <2>7. DroppedAreOld'
    <3> SUFFICES ASSUME NEW p \in seen \cup rows, p \notin CarryForward
                 PROVE  \E q \in seen \cup rows : p.at < q.at - Overlap
      BY <1>1 DEF DroppedAreOld
    <3>1. CASE p \in rows
      <4>1. PICK q \in rows : q.at = ReferenceTime  BY <1>1, Newest
      <4>2. ~(p.at >= ReferenceTime - Overlap)  BY <3>1 DEF CarryForward
      <4>3. p.at \in Nat /\ ReferenceTime \in Nat /\ Overlap \in Nat
        BY <1>1, <3>1, PartsArePings, Newest, TrackerAssumption
      <4>4. p.at < q.at - Overlap  BY <4>1, <4>2, <4>3
      <4> QED  BY <4>4
    <3>2. CASE p \in seen \ rows  BY <2>1, <3>2 DEF UndisturbedInv, DroppedAreOld
    <3> QED  BY <3>1, <3>2
  <2>8. ASSUME NEW d, d.end \in Nat, NEW p \in R.tracked, p.key = d.key, d.end <= p.end
        PROVE  Overtaken(d)'
    <3>1. CASE p \in tracked'  BY <2>8, <3>1 DEF Overtaken
    <3>2. CASE p \notin tracked'
      <4>1. ~(p.end * BucketTicks >= ReferenceTime - Retention)
        BY <1>1, <2>8, <3>2 DEF Recent
      <4>2. p.end \in Nat  BY <2>5, <2>8
      <4>3. p.end * BucketTicks < ReferenceTime - Retention
        <5>1. p.end \in Int  BY <4>2
        <5>2. p.end * BucketTicks \in Int  BY <5>1, TicksOfBuckets
        <5>3. ReferenceTime \in Nat /\ Retention \in Nat  BY <1>1, Newest, TrackerAssumption
        <5> QED  BY <4>1, <5>2, <5>3
      <4>4. ASSUME NEW q \in rows' PROVE d.end <= Bucket(q.at)
        <5>1. p.end <= Bucket(q.at)  BY <1>1, <4>2, <4>3, <4>4, PurgedIsBehind
        <5>2. Bucket(q.at) \in Nat  BY <1>2, <4>4, PartsArePings, BucketEdges
        <5> QED  BY <2>8, <4>2, <5>1, <5>2
      <4> QED  BY <4>4 DEF Overtaken
    <3> QED  BY <3>1, <3>2
  <2>9. ASSUME NEW d \in docs \cup N PROVE Overtaken(d)'
    <3>1. d.end \in Nat
      <4>1. CASE d \in docs  BY <4>1, EventsEndAtSeenPings
      <4> QED  BY <2>5, <2>9, <4>1
    <3>2. CASE d \in N \/ \E p \in tracked : p.key = d.key /\ d.end <= p.end
      <4>1. PICK e \in tracked \cup N : e.key = d.key /\ d.end <= e.end /\ e.end \in Nat
        <5>1. CASE d \in N  BY <3>1, <5>1
        <5>2. CASE \E p \in tracked : p.key = d.key /\ d.end <= p.end
          <6>1. \A p \in tracked : p.end \in Nat
            BY DEF BunchingInv, EventsInv, GoodEvents, EventRecords
          <6> QED  BY <5>2, <6>1
        <5> QED  BY <3>2, <5>1, <5>2
      <4>2. PICK p \in R.tracked : p.key = e.key /\ e.end <= p.end  BY <2>4 DEF Accounts
      <4>3. p.end \in Nat  BY <2>5
      <4>4. p.key = d.key /\ d.end <= p.end  BY <3>1, <4>1, <4>2, <4>3
      <4> QED  BY <2>8, <3>1, <4>4
    <3>3. CASE \A q \in rows : d.end <= Bucket(q.at)  BY <1>2, <3>3 DEF Overtaken
    <3>4. d \in docs => Overtaken(d)  BY <2>1 DEF UndisturbedInv
    <3> QED  BY <2>9, <3>2, <3>3, <3>4 DEF Overtaken
  <2>10. (\A d \in docs \cup OnItsWay : Overtaken(d))'  BY <1>1, <2>9 DEF OnItsWay
  <2>11. ActionsReachFurther'  BY <1>1, <2>4 DEF ActionsReachFurther, Accounts
  <2>12. AllReached(seen', docs \cup N)
    <3> SUFFICES ASSUME NEW x \in Close(Pairs(seen \cup rows)),
                        NEW y \in Close(Pairs(seen \cup rows)),
                        Incident(seen \cup rows, x, y)
                 PROVE  \E d \in docs \cup N : Reaches(d, x, y)
      BY <1>1 DEF AllReached
    <3>1. NewerThanSeen /\ DroppedAreOld /\ AllReached(seen, docs)
      BY <2>1 DEF UndisturbedInv
    <3>2. CASE y \in Pairs(seen)
      <4>1. x \in Close(Pairs(seen)) /\ y \in Close(Pairs(seen)) /\ Incident(seen, x, y)
        BY <3>1, <3>2, SeenIncidents
      <4> QED  BY <3>1, <4>1 DEF AllReached
    <3>3. CASE y \notin Pairs(seen)
      <4>1. PICK e \in D : Fresh(e) /\ Reaches(e, x, y)  BY <3>1, <3>3, NewIncidents
      <4>2. PICK a \in R.actions :
                a.event.key = e.key /\ a.event.start <= e.start /\ e.end <= a.event.end
        <5> HIDE DEF D, R
        <5> QED  BY <2>4, <4>1 DEF Accounts
      <4>3. a.event \in N  OBVIOUS
      <4>4. x.bucket \in Nat /\ y.bucket \in Nat
        <5>1. x \in Pairs(seen \cup rows) /\ y \in Pairs(seen \cup rows)  BY DEF Close
        <5> QED  BY <5>1, PartsArePings, PairsComeFromPings
      <4>5. /\ e.start \in Nat /\ e.end \in Nat
            /\ a.event.start \in Nat /\ a.event.end \in Nat
        <5> HIDE DEF D, N
        <5> QED  BY <2>5, <4>1, <4>3
      <4> HIDE DEF D, R, N
      <4>6. Reaches(a.event, x, y)  BY <4>1, <4>2, <4>4, <4>5 DEF Reaches
      <4> QED  BY <4>3, <4>6
    <3> QED  BY <3>2, <3>3
  <2>13. AllReached(seen, docs \cup OnItsWay)'
    <3>1. docs' \cup {a.event : a \in actions'} = docs \cup N  BY <1>1
    <3> HIDE DEF N
    <3> QED  BY <2>12, <3>1, ReachedLater
  <2>14. ~backoff'  BY <1>1, <2>1 DEF UndisturbedInv
  <2> QED  BY <2>6, <2>7, <2>10, <2>11, <2>13, <2>14 DEF UndisturbedInv
<1> QED  BY <1>3, <1>4 DEF IncidentInv

LEMMA IncidentStep ==
    ASSUME PingsInStep, OverlapSuffices, BunchingInv, IncidentInv, [Next]_vars
    PROVE  IncidentInv'
<1>1. CASE Tick  BY <1>1, TickKeepsIncidents
<1>2. CASE Process  BY <1>2, ProcessKeepsIncidents
<1>3. CASE FlushEmpty \/ Commit \/ UNCHANGED vars
  <2>1. /\ UNCHANGED <<rows, tracked, actions, docs, failures, crashes, seen>>
        /\ backoff' = backoff \/ backoff' = FALSE
        /\ pc' = pc \/ pc # "write"
    BY <1>3 DEF FlushEmpty, Commit, vars, process, history
  <2> QED  BY <2>1, IdleStep
<1>4. CASE Write  BY <1>4, WriteKeepsIncidents
<1>5. CASE Discard
  <2>1. backoff /\ UNCHANGED <<pc, actions, failures, crashes>>  BY <1>5 DEF Discard
  <2>2. ~Undisturbed  BY <2>1 DEF IncidentInv, UndisturbedInv
  <2> QED  BY <2>1, <2>2 DEF IncidentInv, PhaseInv, Undisturbed
<1>6. CASE WriteFails
  <2>1. actions' = {} /\ failures' = failures + 1 /\ UNCHANGED crashes
    BY <1>6 DEF WriteFails
  <2> QED  BY <2>1 DEF IncidentInv, PhaseInv, Undisturbed
<1>7. CASE Crash
  <2>1. actions' = {} /\ crashes' = crashes + 1 /\ UNCHANGED failures
    BY <1>7 DEF Crash
  <2> QED  BY <2>1 DEF IncidentInv, PhaseInv, Undisturbed
<1> QED  BY <1>1, <1>2, <1>3, <1>4, <1>5, <1>6, <1>7 DEF Next

-----------------------------------------------------------------------------
(***************************************************************************)
(* Union-find: its chains of parents.                                      *)
(***************************************************************************)
\* The points that a step, taken again and again from x, comes to: n times.
Iterated(g, step, x, n) == g[0] = x /\ \A k \in 1 .. n : g[k] = step[g[k - 1]]

LEMMA Iteration ==
    ASSUME NEW V, NEW x \in V, NEW step \in [V -> V], NEW n \in Nat
    PROVE  \E g \in [0 .. n -> V] : Iterated(g, step, x, n)
<1> USE DEF Iterated
<1> DEFINE Iterates(g, m) == g \in [0 .. m -> V] /\ Iterated(g, step, x, m)
           P == {m \in Nat : \E g : Iterates(g, m)}
<1>1. 0 \in P
  <2>1. Iterates([k \in 0 .. 0 |-> x], 0)  OBVIOUS
  <2> HIDE DEF Iterates
  <2>2. \E g : Iterates(g, 0)  BY <2>1
  <2> QED  BY <2>2
<1>2. ASSUME NEW m \in P PROVE m + 1 \in P
  <2>1. m \in Nat /\ \E g : Iterates(g, m)  OBVIOUS
  <2>2. PICK g : Iterates(g, m)  BY <2>1
  <2> DEFINE h == [k \in 0 .. m + 1 |-> IF k = m + 1 THEN step[g[m]] ELSE g[k]]
  <2>3. g[m] \in V /\ step[g[m]] \in V  BY <2>1, <2>2
  <2>4. h \in [0 .. m + 1 -> V]  BY <2>1, <2>2, <2>3
  <2>5. \A k \in 0 .. m : h[k] = g[k]  BY <2>1
  <2>6. h[m + 1] = step[g[m]]  BY <2>1
  <2> HIDE DEF h
  <2>7. \A k \in 1 .. m + 1 : h[k] = step[h[k - 1]]
    <3> TAKE k \in 1 .. m + 1
    <3>1. CASE k = m + 1
      <4>1. k - 1 = m /\ m \in 0 .. m  BY <2>1, <3>1
      <4> QED  BY <2>5, <2>6, <3>1, <4>1
    <3>2. CASE k # m + 1
      <4>1. k \in 1 .. m /\ k \in 0 .. m /\ k - 1 \in 0 .. m  BY <2>1, <3>2
      <4> QED  BY <2>2, <2>5, <4>1
    <3> QED  BY <3>1, <3>2
  <2>8. h[0] = x  BY <2>1, <2>2, <2>5
  <2>9. Iterates(h, m + 1)  BY <2>4, <2>7, <2>8
  <2> HIDE DEF Iterates
  <2> QED  BY <2>1, <2>9
<1>3. P = Nat
  <2>1. P \in SUBSET Nat  OBVIOUS
  <2> HIDE DEF P
  <2> QED  BY <1>1, <1>2, <2>1, SetInduction
<1>4. \E g : Iterates(g, n)  BY <1>3
<1> QED  BY <1>4

\* The dictionary of parents, of any vehicles.
Parents == UNION {[X -> X] : X \in SUBSET Vehicles}

\* It is a forest: a vehicle that is not its own parent is ranked above it.
Ranked(f, rank) ==
    /\ rank \in [DOMAIN f -> Nat]
    /\ \A v \in DOMAIN f : f[v] = v \/ rank[f[v]] < rank[v]

Forest(f) == f \in Parents /\ \E rank : Ranked(f, rank)

LEMMA ParentsAreVehicles ==
    ASSUME NEW f \in Parents
    PROVE  /\ DOMAIN f \in SUBSET Vehicles /\ f \in [DOMAIN f -> DOMAIN f]
           /\ IsFiniteSet(DOMAIN f) /\ Cardinality(DOMAIN f) \in Nat
<1>1. PICK X \in SUBSET Vehicles : f \in [X -> X]  BY DEF Parents
<1>2. DOMAIN f = X  BY <1>1
<1>3. IsFiniteSet(X)  BY DetectionAssumption, FS_Subset
<1> QED  BY <1>1, <1>2, <1>3, FS_CardinalityType

LEMMA VehiclesAreParents ==
    ASSUME NEW X \in SUBSET Vehicles, NEW f \in [X -> X]
    PROVE  f \in Parents
BY DEF Parents

\* find() follows the chain of parents as many times as there are vehicles.
LEMMA RootEndsChain ==
    ASSUME NEW f \in Parents, NEW x \in DOMAIN f
    PROVE  \E up \in [0 .. Cardinality(DOMAIN f) -> DOMAIN f] :
              /\ up[0] = x
              /\ \A k \in 1 .. Cardinality(DOMAIN f) : up[k] = f[up[k - 1]]
              /\ FindRoot(f, x) = up[Cardinality(DOMAIN f)]
<1> DEFINE n == Cardinality(DOMAIN f)
           Solves(g) == g = [k \in 0 .. n |-> IF k = 0 THEN x ELSE f[g[k - 1]]]
           up == CHOOSE g : Solves(g)
<1>1. f \in [DOMAIN f -> DOMAIN f] /\ n \in Nat  BY ParentsAreVehicles
<1>2. PICK g \in [0 .. n -> DOMAIN f] : g[0] = x /\ \A k \in 1 .. n : g[k] = f[g[k - 1]]
  <2> HIDE DEF n
  <2>1. \E g \in [0 .. n -> DOMAIN f] : Iterated(g, f, x, n)  BY <1>1, Iteration
  <2> QED  BY <2>1 DEF Iterated
<1> HIDE DEF n
<1>3. Solves(g)
  <2>1. \A k \in 0 .. n : g[k] = IF k = 0 THEN x ELSE f[g[k - 1]]  BY <1>1, <1>2
  <2>2. g = [k \in 0 .. n |-> g[k]]  BY <1>2
  <2> QED  BY <2>1, <2>2
<1>4. Solves(up)
  <2> HIDE DEF Solves
  <2> QED  BY <1>3
<1>5. FindRoot(f, x) = up[n]  BY DEF FindRoot, n
<1> HIDE DEF up
<1>6. up[0] = x /\ \A k \in 1 .. n : up[k] = f[up[k - 1]]
  <2>1. up[0] = x  BY <1>1, <1>4
  <2>2. ASSUME NEW k \in 1 .. n PROVE up[k] = f[up[k - 1]]
    <3>1. k \in 0 .. n /\ k # 0  BY <1>1
    <3> QED  BY <1>4, <3>1
  <2> QED  BY <2>1, <2>2
<1>7. \A k \in 0 .. n : up[k] = g[k]
  <2> DEFINE P == {k \in Nat : k \in 0 .. n => up[k] = g[k]}
  <2>1. 0 \in P  BY <1>1, <1>2, <1>6
  <2>2. ASSUME NEW k \in P PROVE k + 1 \in P
    <3> SUFFICES ASSUME k + 1 \in 0 .. n PROVE up[k + 1] = g[k + 1]  OBVIOUS
    <3>1. k \in 0 .. n /\ k + 1 \in 1 .. n /\ (k + 1) - 1 = k  BY <1>1
    <3> QED  BY <1>2, <1>6, <2>2, <3>1
  <2>3. P \in SUBSET Nat  OBVIOUS
  <2> HIDE DEF P
  <2>4. P = Nat  BY <2>1, <2>2, <2>3, SetInduction
  <2> QED  BY <1>1, <2>4 DEF P
<1>8. up = g
  <2>1. up = [k \in 0 .. n |-> up[k]]  BY <1>4
  <2>2. g = [k \in 0 .. n |-> g[k]]  BY <1>2
  <2> QED  BY <1>7, <2>1, <2>2
<1> QED  BY <1>2, <1>5, <1>8 DEF n

\* In a forest the chain ends at a root.
LEMMA RootIsRoot ==
    ASSUME NEW f, Forest(f), NEW x \in DOMAIN f
    PROVE  FindRoot(f, x) \in DOMAIN f /\ f[FindRoot(f, x)] = FindRoot(f, x)
<1> DEFINE D == DOMAIN f
           n == Cardinality(D)
<1>1. /\ f \in Parents /\ f \in [D -> D] /\ D \in SUBSET Vehicles
      /\ IsFiniteSet(D) /\ n \in Nat
  BY ParentsAreVehicles DEF Forest
<1>2. PICK rank : Ranked(f, rank)  BY DEF Forest
<1>3. PICK up \in [0 .. n -> D] :
            /\ up[0] = x /\ \A k \in 1 .. n : up[k] = f[up[k - 1]]
            /\ FindRoot(f, x) = up[n]
  BY <1>1, RootEndsChain
<1> DEFINE Lower(v) == {w \in D : rank[w] < rank[v]}
           Depth(v) == Cardinality(Lower(v))
<1>4. \A v \in D : IsFiniteSet(Lower(v)) /\ Depth(v) \in Nat
  BY <1>1, FS_Subset, FS_CardinalityType
<1>5. ASSUME NEW v \in D PROVE Depth(v) < n
  <2>1. v \notin Lower(v)  BY <1>2 DEF Ranked
  <2>2. Lower(v) \subseteq D /\ Lower(v) # D  BY <2>1
  <2> HIDE DEF Lower
  <2>3. Depth(v) <= n /\ (Depth(v) = n => Lower(v) = D)  BY <1>1, <2>2, FS_Subset
  <2> QED  BY <1>1, <1>4, <2>2, <2>3
<1>6. ASSUME NEW v \in D, f[v] # v PROVE Depth(f[v]) < Depth(v)
  <2>1. f[v] \in D /\ rank[f[v]] < rank[v] /\ \A w \in D : rank[w] \in Nat
    BY <1>1, <1>2, <1>6 DEF Ranked
  <2>2. f[v] \in Lower(v) /\ f[v] \notin Lower(f[v])  BY <2>1
  <2>3. Lower(f[v]) \subseteq Lower(v)  BY <2>1
  <2> HIDE DEF Lower
  <2>4. /\ Depth(f[v]) <= Depth(v)
        /\ Depth(f[v]) = Depth(v) => Lower(f[v]) = Lower(v)
    BY <1>4, <2>3, FS_Subset
  <2> QED  BY <1>4, <2>1, <2>2, <2>4
<1> HIDE DEF Depth, n, D
<1>7. \A k \in 0 .. n : f[up[k]] = up[k] \/ Depth(up[k]) + k < n
  <2> DEFINE P == {k \in Nat : k \in 0 .. n => f[up[k]] = up[k] \/ Depth(up[k]) + k < n}
  <2>1. 0 \in P
    <3>1. Depth(x) < n /\ Depth(x) \in Nat  BY <1>4, <1>5 DEF D
    <3> QED  BY <1>3, <3>1
  <2>2. ASSUME NEW k \in P PROVE k + 1 \in P
    <3> SUFFICES ASSUME k + 1 \in 0 .. n, f[up[k + 1]] # up[k + 1]
                 PROVE  Depth(up[k + 1]) + (k + 1) < n
      OBVIOUS
    <3>1. k \in Nat /\ k \in 0 .. n /\ k + 1 \in 1 .. n /\ (k + 1) - 1 = k  BY <1>1
    <3>2. up[k + 1] = f[up[k]] /\ up[k] \in D  BY <1>3, <3>1
    <3>3. f[up[k]] # up[k]  BY <3>2
    <3>4. Depth(up[k]) + k < n  BY <2>2, <3>1, <3>3
    <3>5. /\ Depth(up[k + 1]) < Depth(up[k])
          /\ Depth(up[k + 1]) \in Nat /\ Depth(up[k]) \in Nat
      BY <1>1, <1>4, <1>6, <3>2, <3>3
    <3> QED  BY <1>1, <3>1, <3>4, <3>5
  <2>3. P \in SUBSET Nat  OBVIOUS
  <2> HIDE DEF P
  <2>4. P = Nat  BY <2>1, <2>2, <2>3, SetInduction
  <2> QED  BY <1>1, <2>4 DEF P
<1>8. n \in 0 .. n /\ up[n] \in D  BY <1>1, <1>3
<1>9. Depth(up[n]) \in Nat  BY <1>4, <1>8
<1>10. ~(Depth(up[n]) + n < n)  BY <1>1, <1>9
<1> QED  BY <1>3, <1>7, <1>8, <1>10 DEF D

\* It is the only function that is constant along the chains and the identity on the roots.
LEMMA RootIsUnique ==
    ASSUME NEW f, Forest(f), NEW g,
           \A v \in DOMAIN f : (f[v] = v => g[v] = v) /\ g[f[v]] = g[v],
           NEW x \in DOMAIN f
    PROVE  FindRoot(f, x) = g[x]
<1> DEFINE D == DOMAIN f
           n == Cardinality(D)
<1>1. f \in Parents /\ f \in [D -> D] /\ n \in Nat
  BY ParentsAreVehicles DEF Forest
<1>2. PICK up \in [0 .. n -> D] :
            /\ up[0] = x /\ \A k \in 1 .. n : up[k] = f[up[k - 1]]
            /\ FindRoot(f, x) = up[n]
  BY <1>1, RootEndsChain
<1> HIDE DEF n
<1>3. \A k \in 0 .. n : g[up[k]] = g[x]
  <2> DEFINE P == {k \in Nat : k \in 0 .. n => g[up[k]] = g[x]}
  <2>1. 0 \in P  BY <1>2
  <2>2. ASSUME NEW k \in P PROVE k + 1 \in P
    <3> SUFFICES ASSUME k + 1 \in 0 .. n PROVE g[up[k + 1]] = g[x]  OBVIOUS
    <3>1. k \in 0 .. n /\ k + 1 \in 1 .. n /\ (k + 1) - 1 = k  BY <1>1
    <3>2. up[k + 1] = f[up[k]] /\ up[k] \in D  BY <1>2, <3>1
    <3> QED  BY <2>2, <3>1, <3>2
  <2>3. P \in SUBSET Nat  OBVIOUS
  <2> HIDE DEF P
  <2>4. P = Nat  BY <2>1, <2>2, <2>3, SetInduction
  <2> QED  BY <1>1, <2>4 DEF P
<1>4. n \in 0 .. n /\ up[n] \in D  BY <1>1, <1>2
<1>5. f[up[n]] = up[n]  BY <1>2, RootIsRoot
<1> QED  BY <1>2, <1>3, <1>4, <1>5

LEMMA RootFollowsParent ==
    ASSUME NEW f, Forest(f), NEW x \in DOMAIN f
    PROVE  /\ f[x] \in DOMAIN f /\ FindRoot(f, f[x]) = FindRoot(f, x)
           /\ f[x] = x => FindRoot(f, x) = x
<1> DEFINE D == DOMAIN f
           n == Cardinality(D)
<1>1. f \in Parents /\ f \in [D -> D] /\ n \in Nat /\ f[x] \in D
  BY ParentsAreVehicles DEF Forest
<1>2. PICK up \in [0 .. n -> D] :
            /\ up[0] = x /\ \A k \in 1 .. n : up[k] = f[up[k - 1]]
            /\ FindRoot(f, x) = up[n]
  BY <1>1, RootEndsChain
<1>3. PICK next \in [0 .. n -> D] :
            /\ next[0] = f[x] /\ \A k \in 1 .. n : next[k] = f[next[k - 1]]
            /\ FindRoot(f, f[x]) = next[n]
  BY <1>1, RootEndsChain
<1> HIDE DEF n
<1>4. \A k \in 0 .. n : next[k] = f[up[k]] /\ (f[x] = x => up[k] = x)
  <2> DEFINE P == {k \in Nat : k \in 0 .. n => next[k] = f[up[k]] /\ (f[x] = x => up[k] = x)}
  <2>1. 0 \in P  BY <1>2, <1>3
  <2>2. ASSUME NEW k \in P PROVE k + 1 \in P
    <3> SUFFICES ASSUME k + 1 \in 0 .. n
                 PROVE  next[k + 1] = f[up[k + 1]] /\ (f[x] = x => up[k + 1] = x)
      OBVIOUS
    <3>1. k \in 0 .. n /\ k + 1 \in 1 .. n /\ (k + 1) - 1 = k  BY <1>1
    <3>2. up[k + 1] = f[up[k]] /\ next[k + 1] = f[next[k]]  BY <1>2, <1>3, <3>1
    <3> QED  BY <2>2, <3>1, <3>2
  <2>3. P \in SUBSET Nat  OBVIOUS
  <2> HIDE DEF P
  <2>4. P = Nat  BY <2>1, <2>2, <2>3, SetInduction
  <2> QED  BY <1>1, <2>4 DEF P
<1>5. n \in 0 .. n  BY <1>1
<1>6. f[up[n]] = up[n]  BY <1>2, RootIsRoot
<1> QED  BY <1>1, <1>2, <1>3, <1>4, <1>5, <1>6

\* A vehicle that joins is a root.
LEMMA WithVehicleIsForest ==
    ASSUME NEW f, Forest(f), NEW x \in Vehicles
    PROVE  /\ Forest(WithVehicle(f, x)) /\ DOMAIN WithVehicle(f, x) = DOMAIN f \cup {x}
           /\ \A v \in DOMAIN f \cup {x} :
                FindRoot(WithVehicle(f, x), v) = IF v \in DOMAIN f THEN FindRoot(f, v) ELSE v
<1> DEFINE D == DOMAIN f
           E == D \cup {x}
           h == WithVehicle(f, x)
<1>1. f \in Parents /\ f \in [D -> D] /\ D \in SUBSET Vehicles
  BY ParentsAreVehicles DEF Forest
<1>2. h = [v \in E |-> IF v \in D THEN f[v] ELSE v]  BY DEF WithVehicle
<1> HIDE DEF h
<1>3. h \in [E -> E] /\ E \in SUBSET Vehicles  BY <1>1, <1>2
<1>4. h \in Parents  BY <1>3, VehiclesAreParents
<1>5. PICK rank : Ranked(f, rank)  BY DEF Forest
<1>6. Ranked(h, [v \in E |-> IF v \in D THEN rank[v] ELSE 0])
  BY <1>1, <1>2, <1>5 DEF Ranked
<1>7. Forest(h)  BY <1>4, <1>6 DEF Forest
<1> DEFINE g == [v \in E |-> IF v \in D THEN FindRoot(f, v) ELSE v]
<1>8. \A v \in DOMAIN h : (h[v] = v => g[v] = v) /\ g[h[v]] = g[v]
  <2> TAKE v \in DOMAIN h
  <2>1. CASE v \in D
    <3>1. h[v] = f[v] /\ f[v] \in D  BY <1>1, <1>2, <2>1
    <3>2. FindRoot(f, f[v]) = FindRoot(f, v) /\ (f[v] = v => FindRoot(f, v) = v)
      BY <2>1, RootFollowsParent
    <3> QED  BY <2>1, <3>1, <3>2
  <2>2. CASE v \notin D  BY <1>2, <2>2
  <2> QED  BY <2>1, <2>2
<1>9. \A v \in E : FindRoot(h, v) = g[v]
  <2> HIDE DEF g
  <2>1. DOMAIN h = E  BY <1>2
  <2> QED  BY <1>7, <1>8, <2>1, RootIsUnique
<1> QED  BY <1>2, <1>7, <1>9 DEF h

\* Hanging a root under another one moves the vehicles under the first to the second.
LEMMA UnionIsForest ==
    ASSUME NEW f, Forest(f), NEW x \in DOMAIN f, NEW y \in DOMAIN f,
           NEW h \in [DOMAIN f -> DOMAIN f], h[FindRoot(f, x)] = FindRoot(f, y),
           \A v \in DOMAIN f : v # FindRoot(f, x) => h[v] = f[v]
    PROVE  /\ Forest(h) /\ DOMAIN h = DOMAIN f
           /\ \A v \in DOMAIN f :
                FindRoot(h, v) = IF FindRoot(f, v) = FindRoot(f, x)
                                 THEN FindRoot(f, y) ELSE FindRoot(f, v)
<1> DEFINE D == DOMAIN f
           a == FindRoot(f, x)
           b == FindRoot(f, y)
           g == [v \in D |-> IF FindRoot(f, v) = a THEN b ELSE FindRoot(f, v)]
<1>1. f \in Parents /\ f \in [D -> D] /\ D \in SUBSET Vehicles
  BY ParentsAreVehicles DEF Forest
<1>2. /\ a \in D /\ b \in D /\ f[a] = a /\ f[b] = b
      /\ FindRoot(f, a) = a /\ FindRoot(f, b) = b
  BY RootIsRoot, RootFollowsParent
<1>3. \A v \in D : /\ f[v] \in D /\ FindRoot(f, f[v]) = FindRoot(f, v)
                   /\ f[v] = v => FindRoot(f, v) = v
  BY RootFollowsParent
<1> HIDE DEF a, b
<1>4. h \in [D -> D] /\ h[a] = b /\ \A v \in D \ {a} : h[v] = f[v]
  BY <1>1, <1>2 DEF a, b
<1>5. PICK rank : Ranked(f, rank)  BY DEF Forest
<1> DEFINE above == [v \in D |-> IF FindRoot(f, v) = a THEN rank[v] + rank[b] + 1 ELSE rank[v]]
<1>6. CASE a = b
  <2>1. h = f  BY <1>1, <1>2, <1>4, <1>6
  <2> QED  BY <1>6, <2>1 DEF a, b
<1>7. CASE a # b
  <2>1. Ranked(h, above)
    <3>1. \A v \in D : rank[v] \in Nat  BY <1>5 DEF Ranked
    <3>2. above \in [D -> Nat]  BY <1>2, <3>1
    <3>3. ASSUME NEW v \in D PROVE h[v] = v \/ above[h[v]] < above[v]
      <4>1. CASE v = a
        <5>1. h[v] = b /\ above[b] = rank[b] /\ above[v] = rank[a] + rank[b] + 1
          BY <1>2, <1>4, <1>7, <4>1
        <5> QED  BY <1>2, <3>1, <5>1
      <4>2. CASE v # a
        <5>1. h[v] = f[v] /\ f[v] \in D /\ FindRoot(f, f[v]) = FindRoot(f, v)
          BY <1>3, <1>4, <4>2
        <5>2. f[v] = v \/ rank[f[v]] < rank[v]  BY <1>5 DEF Ranked
        <5>3. rank[f[v]] < rank[v] => above[f[v]] < above[v]
          BY <1>2, <3>1, <5>1
        <5> QED  BY <5>1, <5>2, <5>3
      <4> QED  BY <4>1, <4>2
    <3> HIDE DEF above
    <3> QED  BY <1>4, <3>2, <3>3 DEF Ranked
  <2>2. Forest(h)
    <3>1. h \in Parents  BY <1>1, <1>4, VehiclesAreParents
    <3> QED  BY <2>1, <3>1 DEF Forest
  <2>3. \A v \in DOMAIN h : (h[v] = v => g[v] = v) /\ g[h[v]] = g[v]
    <3> SUFFICES ASSUME NEW v \in D PROVE (h[v] = v => g[v] = v) /\ g[h[v]] = g[v]
      BY <1>4
    <3>1. CASE v = a  BY <1>2, <1>4, <1>7, <3>1
    <3>2. CASE v # a  BY <1>3, <1>4, <3>2
    <3> QED  BY <3>1, <3>2
  <2>4. \A v \in D : FindRoot(h, v) = g[v]
    <3> HIDE DEF g
    <3> TAKE v \in D
    <3>1. v \in DOMAIN h  BY <1>4
    <3> QED  BY <2>2, <2>3, <3>1, RootIsUnique
  <2> QED  BY <1>4, <2>2, <2>4 DEF a, b
<1> QED  BY <1>6, <1>7

-----------------------------------------------------------------------------
(***************************************************************************)
(* Union-find: what its classes are.                                       *)
(***************************************************************************)
Endpoints(edges) == UNION {{e[1], e[2]} : e \in edges}

\* No edge leads out of C, or into it.
ClosedUnder(edges, C) == \A e \in edges : e[1] \in C <=> e[2] \in C

\* The forest f has the vehicles of the edges, the ends of an edge under one root, and under
\* one root no vehicles that some closed set tells apart.
Connects(edges, f) ==
    /\ Forest(f) /\ DOMAIN f = Endpoints(edges)
    /\ \A e \in edges : FindRoot(f, e[1]) = FindRoot(f, e[2])
    /\ \A u, v \in DOMAIN f : FindRoot(f, u) = FindRoot(f, v) =>
        \A C \in SUBSET Vehicles : ClosedUnder(edges, C) /\ u \in C => v \in C

LEMMA NothingIsConnected == Connects({}, <<>>)
<1>1. DOMAIN <<>> = {}  OBVIOUS
<1>2. <<>> \in [{} -> {}]  OBVIOUS
<1>3. <<>> \in Parents  BY <1>2, VehiclesAreParents
<1>4. Ranked(<<>>, <<>>)  BY <1>1 DEF Ranked
<1>5. Forest(<<>>)  BY <1>3, <1>4 DEF Forest
<1>6. Endpoints({}) = {}  BY DEF Endpoints
<1> QED  BY <1>1, <1>5, <1>6 DEF Connects

LEMMA UnionConnects ==
    ASSUME NEW edges, NEW f, Connects(edges, f), NEW e \in Vehicles \X Vehicles
    PROVE  Connects(edges \cup {e}, UnionOf(f, e[1], e[2]))
<1> DEFINE x == e[1]
           y == e[2]
           one == WithVehicle(f, x)
           both == WithVehicle(one, y)
           D == DOMAIN both
           h == UnionOf(f, x, y)
           more == edges \cup {e}
<1>1. x \in Vehicles /\ y \in Vehicles /\ e = <<x, y>>  OBVIOUS
<1>2. Forest(f) /\ DOMAIN f = Endpoints(edges)  BY DEF Connects
<1>3. /\ Forest(one) /\ DOMAIN one = DOMAIN f \cup {x}
      /\ \A v \in DOMAIN f \cup {x} :
            FindRoot(one, v) = IF v \in DOMAIN f THEN FindRoot(f, v) ELSE v
  BY <1>1, <1>2, WithVehicleIsForest
<1>4. /\ Forest(both) /\ D = DOMAIN one \cup {y}
      /\ \A v \in DOMAIN one \cup {y} :
            FindRoot(both, v) = IF v \in DOMAIN one THEN FindRoot(one, v) ELSE v
  <2> HIDE DEF one
  <2> QED  BY <1>1, <1>3, WithVehicleIsForest
<1>5. h = [both EXCEPT ![FindRoot(both, x)] = FindRoot(both, y)]  BY DEF UnionOf
<1> HIDE DEF one, both, h, x, y
<1>6. x \in D /\ y \in D  BY <1>3, <1>4
<1>7. FindRoot(both, x) \in D /\ FindRoot(both, y) \in D  BY <1>4, <1>6, RootIsRoot
<1>8. /\ h \in [D -> D] /\ h[FindRoot(both, x)] = FindRoot(both, y)
      /\ \A v \in D : v # FindRoot(both, x) => h[v] = both[v]
  <2>1. both \in [D -> D]  BY <1>4, ParentsAreVehicles DEF Forest
  <2> QED  BY <1>5, <1>7, <2>1
<1>9. /\ Forest(h) /\ DOMAIN h = D
      /\ \A v \in D : FindRoot(h, v) = IF FindRoot(both, v) = FindRoot(both, x)
                                       THEN FindRoot(both, y) ELSE FindRoot(both, v)
  BY <1>4, <1>6, <1>8, UnionIsForest
<1>10. D = Endpoints(more)
  <2>1. Endpoints(more) = Endpoints(edges) \cup {x, y}  BY DEF Endpoints, x, y
  <2> QED  BY <1>2, <1>3, <1>4, <2>1
<1>11. \A v \in D : FindRoot(both, v) = IF v \in DOMAIN f THEN FindRoot(f, v) ELSE v
  BY <1>3, <1>4
<1>12. \A v \in DOMAIN f : FindRoot(f, v) \in DOMAIN f  BY <1>2, RootIsRoot
<1>13. DOMAIN f \subseteq D  BY <1>3, <1>4
<1>14. \A d \in more : FindRoot(h, d[1]) = FindRoot(h, d[2])
  <2>1. FindRoot(h, x) = FindRoot(both, y) /\ FindRoot(h, y) = FindRoot(both, y)
    BY <1>6, <1>9
  <2>2. ASSUME NEW d \in edges PROVE FindRoot(h, d[1]) = FindRoot(h, d[2])
    <3>1. d[1] \in DOMAIN f /\ d[2] \in DOMAIN f  BY <1>2 DEF Endpoints
    <3>2. FindRoot(f, d[1]) = FindRoot(f, d[2])  BY DEF Connects
    <3>3. FindRoot(both, d[1]) = FindRoot(both, d[2])  BY <1>11, <1>13, <3>1, <3>2
    <3> QED  BY <1>9, <1>13, <3>1, <3>3
  <2> QED  BY <2>1, <2>2 DEF x, y
<1>15. ASSUME NEW u \in D, NEW v \in D, FindRoot(both, u) = FindRoot(both, v),
              NEW C \in SUBSET Vehicles, ClosedUnder(edges, C), u \in C
       PROVE  v \in C
  <2>1. CASE u \in DOMAIN f /\ v \in DOMAIN f
    <3>1. FindRoot(f, u) = FindRoot(f, v)  BY <1>11, <1>15, <2>1
    <3> QED  BY <1>15, <2>1, <3>1 DEF Connects
  <2>2. CASE u \notin DOMAIN f \/ v \notin DOMAIN f
    <3>1. u = v  BY <1>11, <1>12, <1>15, <2>2
    <3> QED  BY <1>15, <3>1
  <2> QED  BY <2>1, <2>2
<1>16. ASSUME NEW u \in D, NEW v \in D, FindRoot(h, u) = FindRoot(h, v),
              NEW C \in SUBSET Vehicles, ClosedUnder(more, C), u \in C
       PROVE  v \in C
  <2>1. ClosedUnder(edges, C) /\ (x \in C <=> y \in C)
    BY <1>16 DEF ClosedUnder, x, y
  <2>2. CASE FindRoot(both, u) = FindRoot(both, v)  BY <1>15, <1>16, <2>1, <2>2
  <2>3. CASE FindRoot(both, u) = FindRoot(both, x) /\ FindRoot(both, v) = FindRoot(both, y)
    <3>1. x \in C  BY <1>6, <1>15, <1>16, <2>1, <2>3
    <3> QED  BY <1>6, <1>15, <2>1, <2>3, <3>1
  <2>4. CASE FindRoot(both, v) = FindRoot(both, x) /\ FindRoot(both, u) = FindRoot(both, y)
    <3>1. y \in C  BY <1>6, <1>15, <1>16, <2>1, <2>4
    <3> QED  BY <1>6, <1>15, <2>1, <2>4, <3>1
  <2> QED  BY <1>9, <1>16, <2>2, <2>3, <2>4
<1> QED  BY <1>9, <1>10, <1>14, <1>16 DEF Connects, h, x, y

LEMMA UnionStaysParents ==
    ASSUME NEW f \in Parents, NEW x \in Vehicles, NEW y \in Vehicles
    PROVE  UnionOf(f, x, y) \in Parents
<1> DEFINE both == WithVehicle(WithVehicle(f, x), y)
           D == DOMAIN f \cup {x, y}
<1>1. f \in [DOMAIN f -> DOMAIN f] /\ DOMAIN f \in SUBSET Vehicles  BY ParentsAreVehicles
<1>2. both \in [D -> D] /\ D \in SUBSET Vehicles  BY <1>1 DEF WithVehicle
<1>3. UnionOf(f, x, y) = [both EXCEPT ![FindRoot(both, x)] = FindRoot(both, y)]
  BY DEF UnionOf
<1>4. x \in DOMAIN both /\ y \in DOMAIN both  BY <1>2
<1> HIDE DEF both, D
<1>5. both \in Parents /\ DOMAIN both = D  BY <1>2, VehiclesAreParents
<1>6. FindRoot(both, x) \in D /\ FindRoot(both, y) \in D
  <2>1. ASSUME NEW z \in DOMAIN both PROVE FindRoot(both, z) \in D
    <3>1. PICK up \in [0 .. Cardinality(DOMAIN both) -> DOMAIN both] :
                FindRoot(both, z) = up[Cardinality(DOMAIN both)]
      BY <1>5, RootEndsChain
    <3>2. Cardinality(DOMAIN both) \in Nat  BY <1>5, ParentsAreVehicles
    <3> QED  BY <1>5, <3>1, <3>2
  <2> QED  BY <1>4, <2>1
<1>7. UnionOf(f, x, y) \in [D -> D]  BY <1>2, <1>3, <1>6
<1> QED  BY <1>2, <1>7, VehiclesAreParents

\* find_connected_components() before its last step.
ParentsOf(edges) == FoldSet(LAMBDA e, f : UnionOf(f, e[1], e[2]), <<>>, edges)

LEMMA EdgesAreConnected ==
    ASSUME NEW edges \in SUBSET (Vehicles \X Vehicles)
    PROVE  Connects(edges, ParentsOf(edges))
<1> DEFINE Pick(s) == CHOOSE x \in s : TRUE
           pick == [s \in (SUBSET edges) \ {{}} |-> Pick(s)]
           step == [z \in edges \X Parents |-> UnionOf(z[2], z[1][1], z[1][2])]
           Solves(g) == g = [s \in SUBSET edges |->
                IF s = {} THEN <<>>
                ELSE UnionOf(g[s \ {Pick(s)}], Pick(s)[1], Pick(s)[2])]
           iter == CHOOSE g : Solves(g)
<1>1. IsFiniteSet(edges)
  <2>1. IsFiniteSet(Vehicles \X Vehicles)  BY DetectionAssumption, FS_Product
  <2> QED  BY <2>1, FS_Subset
<1>2. \A s \in (SUBSET edges) \ {{}} : Pick(s) \in s  OBVIOUS
<1>3. Picks(pick, edges)  BY <1>2 DEF Picks
<1>4. Steps(step, edges, Parents)
  <2>1. \A d \in edges : d[1] \in Vehicles /\ d[2] \in Vehicles  OBVIOUS
  <2>2. \A d \in edges, f \in Parents : UnionOf(f, d[1], d[2]) \in Parents
    BY <2>1, UnionStaysParents
  <2> QED  BY <2>2 DEF Steps
<1>5. <<>> \in Parents  BY NothingIsConnected DEF Connects, Forest
<1>6. PICK g : Solution(g, edges, Parents, <<>>, pick, step)
  <2> HIDE DEF pick, step
  <2> QED  BY <1>1, <1>3, <1>4, <1>5, SetRecursion
<1>7. Solves(g)
  <2>1. ASSUME NEW s \in SUBSET edges, s # {}
        PROVE  g[s] = UnionOf(g[s \ {Pick(s)}], Pick(s)[1], Pick(s)[2])
    <3>1. pick[s] = Pick(s) /\ Pick(s) \in edges /\ g[s \ {Pick(s)}] \in Parents
      BY <1>2, <1>6, <2>1 DEF Solution
    <3>2. g[s] = step[<<Pick(s), g[s \ {Pick(s)}]>>]  BY <1>6, <2>1, <3>1 DEF Solution
    <3> HIDE DEF Pick
    <3> QED  BY <3>1, <3>2
  <2>2. g[{}] = <<>>  BY <1>6 DEF Solution
  <2>3. \A s \in SUBSET edges : g[s] =
            IF s = {} THEN <<>> ELSE UnionOf(g[s \ {Pick(s)}], Pick(s)[1], Pick(s)[2])
    BY <2>1, <2>2
  <2> HIDE DEF Pick
  <2>4. g = [s \in SUBSET edges |-> g[s]]  BY <1>6 DEF Solution
  <2> QED  BY <2>3, <2>4
<1>8. Solves(iter)
  <2> HIDE DEF Solves
  <2> QED  BY <1>7
<1>9. ParentsOf(edges) = iter[edges]
  BY DEF ParentsOf, FoldSet, MapThenFoldSet
<1> HIDE DEF iter
<1>10. /\ iter[{}] = <<>>
       /\ \A s \in (SUBSET edges) \ {{}} :
            iter[s] = UnionOf(iter[s \ {Pick(s)}], Pick(s)[1], Pick(s)[2])
  <2> HIDE DEF Pick
  <2> QED  BY <1>8
<1> DEFINE H == {s \in SUBSET edges : Connects(s, iter[s])}
<1>11. {} \in H  BY <1>10, NothingIsConnected
<1>12. ASSUME NEW s \in (SUBSET edges) \ {{}}, s \ {pick[s]} \in H PROVE s \in H
  <2>1. pick[s] = Pick(s) /\ Pick(s) \in s  BY <1>2
  <2>2. iter[s] = UnionOf(iter[s \ {Pick(s)}], Pick(s)[1], Pick(s)[2])  BY <1>10
  <2>3. Connects(s \ {Pick(s)}, iter[s \ {Pick(s)}])  BY <1>12, <2>1
  <2>4. (s \ {Pick(s)}) \cup {Pick(s)} = s /\ Pick(s) \in Vehicles \X Vehicles  BY <2>1
  <2> DEFINE e == Pick(s)
             r == s \ {e}
  <2> HIDE DEF Pick, H, pick, e, r
  <2>5. Connects(r \cup {e}, UnionOf(iter[r], e[1], e[2]))
    BY <2>3, <2>4, UnionConnects DEF e, r
  <2>6. Connects(s, iter[s])  BY <2>2, <2>4, <2>5 DEF e, r
  <2> QED  BY <2>6 DEF H
<1>13. \A s \in SUBSET edges : s \in H
  <2>1. H \in SUBSET (SUBSET edges)  OBVIOUS
  <2> HIDE DEF H, pick
  <2> QED  BY <1>1, <1>3, <1>11, <1>12, <2>1, PickInduction
<1> QED  BY <1>9, <1>13

-----------------------------------------------------------------------------
(***************************************************************************)
(* Reachability: the least closed set.                                     *)
(***************************************************************************)
\* What is next to a set of vehicles, and the set.
Near(edges, s) ==
    s \cup {w \in Vehicles : \E u \in s : {<<u, w>>, <<w, u>>} \cap edges # {}}

LEMMA NearIsClosed ==
    ASSUME NEW edges \in SUBSET (Vehicles \X Vehicles), NEW s \in SUBSET Vehicles
    PROVE  /\ s \subseteq Near(edges, s) /\ Near(edges, s) \in SUBSET Vehicles
           /\ Near(edges, s) = s => ClosedUnder(edges, s)
           /\ \A C \in SUBSET Vehicles :
                ClosedUnder(edges, C) /\ s \subseteq C => Near(edges, s) \subseteq C
<1>1. s \subseteq Near(edges, s) /\ Near(edges, s) \in SUBSET Vehicles  BY DEF Near
<1>2. ASSUME Near(edges, s) = s PROVE ClosedUnder(edges, s)
  <2> SUFFICES ASSUME NEW e \in edges PROVE e[1] \in s <=> e[2] \in s
    BY DEF ClosedUnder
  <2>1. e[1] \in Vehicles /\ e[2] \in Vehicles /\ e = <<e[1], e[2]>>  OBVIOUS
  <2>2. ASSUME e[1] \in s PROVE e[2] \in s
    <3>1. <<e[1], e[2]>> \in {<<e[1], e[2]>>, <<e[2], e[1]>>} \cap edges  BY <2>1
    <3>2. e[2] \in Near(edges, s)  BY <2>1, <2>2, <3>1 DEF Near
    <3> QED  BY <1>2, <3>2
  <2>3. ASSUME e[2] \in s PROVE e[1] \in s
    <3>1. <<e[1], e[2]>> \in {<<e[2], e[1]>>, <<e[1], e[2]>>} \cap edges  BY <2>1
    <3>2. e[1] \in Near(edges, s)  BY <2>1, <2>3, <3>1 DEF Near
    <3> QED  BY <1>2, <3>2
  <2> QED  BY <2>2, <2>3
<1>3. ASSUME NEW C \in SUBSET Vehicles, ClosedUnder(edges, C), s \subseteq C,
             NEW w \in Near(edges, s)
      PROVE  w \in C
  <2>1. CASE w \in s  BY <1>3, <2>1
  <2>2. CASE w \notin s
    <3>1. PICK u \in s : {<<u, w>>, <<w, u>>} \cap edges # {}  BY <2>2 DEF Near
    <3>2. PICK e \in edges : e = <<u, w>> \/ e = <<w, u>>  BY <3>1
    <3>3. e[1] \in C <=> e[2] \in C  BY <1>3 DEF ClosedUnder
    <3> QED  BY <1>3, <3>2, <3>3
  <2> QED  BY <2>1, <2>2
<1> QED  BY <1>1, <1>2, <1>3

\* As many steps as there are vehicles reach the least closed set.
LEMMA ReachableIsLeast ==
    ASSUME NEW edges \in SUBSET (Vehicles \X Vehicles), NEW v \in Vehicles
    PROVE  /\ v \in Reachable(edges, v) /\ Reachable(edges, v) \in SUBSET Vehicles
           /\ ClosedUnder(edges, Reachable(edges, v))
           /\ \A C \in SUBSET Vehicles :
                ClosedUnder(edges, C) /\ v \in C => Reachable(edges, v) \subseteq C
<1> DEFINE n == Cardinality(Vehicles)
           near(s) == s \cup {w \in Vehicles : \E u \in s : {<<u, w>>, <<w, u>>} \cap edges # {}}
           Solves(g) == g = [k \in 0 .. n |-> IF k = 0 THEN {v} ELSE near(g[k - 1])]
           reach == CHOOSE g : Solves(g)
           move == [s \in SUBSET Vehicles |-> Near(edges, s)]
<1>1. IsFiniteSet(Vehicles) /\ n \in Nat  BY DetectionAssumption, FS_CardinalityType
<1>2. move \in [SUBSET Vehicles -> SUBSET Vehicles]  BY NearIsClosed
<1>3. PICK g \in [0 .. n -> SUBSET Vehicles] :
            g[0] = {v} /\ \A k \in 1 .. n : g[k] = move[g[k - 1]]
  <2> DEFINE Sets == SUBSET Vehicles
  <2>1. {v} \in Sets /\ move \in [Sets -> Sets]  BY <1>2
  <2> HIDE DEF n, move, Sets
  <2>2. \E g \in [0 .. n -> Sets] : Iterated(g, move, {v}, n)  BY <1>1, <2>1, Iteration
  <2> QED  BY <2>2 DEF Iterated, Sets
<1> HIDE DEF n
<1>4. ASSUME NEW k \in 1 .. n
      PROVE  /\ k - 1 \in 0 .. n /\ g[k - 1] \in SUBSET Vehicles
             /\ g[k] = Near(edges, g[k - 1])
  <2>1. k - 1 \in 0 .. n  BY <1>1
  <2>2. g[k - 1] \in SUBSET Vehicles  BY <1>3, <2>1
  <2>3. g[k] = move[g[k - 1]]  BY <1>3
  <2> QED  BY <2>1, <2>2, <2>3
<1> HIDE DEF move
<1>5. Solves(g)
  <2>1. \A k \in 1 .. n : g[k] = near(g[k - 1])  BY <1>4 DEF Near
  <2>2. \A k \in 0 .. n : g[k] = IF k = 0 THEN {v} ELSE near(g[k - 1])
    BY <1>1, <1>3, <2>1
  <2> HIDE DEF near
  <2>3. g = [k \in 0 .. n |-> g[k]]  BY <1>3
  <2> QED  BY <2>2, <2>3
<1>6. Solves(reach)
  <2> HIDE DEF Solves
  <2> QED  BY <1>5
<1>7. Reachable(edges, v) = reach[n]  BY DEF Reachable, n
<1> HIDE DEF reach
<1>8. reach = g
  <2>1. \A k \in 0 .. n : reach[k] = IF k = 0 THEN {v} ELSE near(reach[k - 1])
    <3> HIDE DEF near
    <3> QED  BY <1>6
  <2>2. \A k \in 0 .. n : g[k] = IF k = 0 THEN {v} ELSE near(g[k - 1])
    <3> HIDE DEF near
    <3> QED  BY <1>5
  <2> HIDE DEF near
  <2> DEFINE P == {k \in Nat : k \in 0 .. n => reach[k] = g[k]}
  <2>3. 0 \in P  BY <1>1, <2>1, <2>2
  <2>4. ASSUME NEW k \in P PROVE k + 1 \in P
    <3> SUFFICES ASSUME k + 1 \in 0 .. n PROVE reach[k + 1] = g[k + 1]  OBVIOUS
    <3>1. k \in 0 .. n /\ k + 1 # 0 /\ (k + 1) - 1 = k  BY <1>1
    <3>2. reach[k] = g[k]  BY <2>4, <3>1
    <3>3. reach[k + 1] = near(reach[k]) /\ g[k + 1] = near(g[k])  BY <2>1, <2>2, <3>1
    <3> QED  BY <3>2, <3>3
  <2>5. P \in SUBSET Nat  OBVIOUS
  <2> HIDE DEF P
  <2>6. P = Nat  BY <2>3, <2>4, <2>5, SetInduction
  <2>7. \A k \in 0 .. n : reach[k] = g[k]  BY <1>1, <2>6 DEF P
  <2>8. reach = [k \in 0 .. n |-> reach[k]]  BY <1>6
  <2>9. g = [k \in 0 .. n |-> g[k]]  BY <1>3
  <2> QED  BY <2>7, <2>8, <2>9
<1> HIDE DEF Solves, near
<1> DEFINE In(k) == /\ v \in g[k]
                    /\ \A C \in SUBSET Vehicles :
                        ClosedUnder(edges, C) /\ v \in C => g[k] \subseteq C
           Grows(k) == Near(edges, g[k]) = g[k] \/ k < Cardinality(g[k])
<1>9. \A k \in 0 .. n : IsFiniteSet(g[k]) /\ Cardinality(g[k]) \in Nat /\ g[k] \in SUBSET Vehicles
  <2>1. \A k \in 0 .. n : g[k] \in SUBSET Vehicles  BY <1>3
  <2> QED  BY <1>1, <2>1, FS_Subset, FS_CardinalityType
<1>10. \A k \in 0 .. n : In(k) /\ Grows(k)
  <2> DEFINE P == {k \in Nat : k \in 0 .. n => In(k) /\ Grows(k)}
  <2>1. 0 \in P
    <3>1. In(0)  BY <1>3
    <3>2. Cardinality(g[0]) = 1  BY <1>3, FS_Singleton
    <3> QED  BY <3>1, <3>2
  <2>2. ASSUME NEW k \in P PROVE k + 1 \in P
    <3> SUFFICES ASSUME k + 1 \in 0 .. n PROVE In(k + 1) /\ Grows(k + 1)  OBVIOUS
    <3>1. k \in Nat /\ k \in 0 .. n /\ k + 1 \in 1 .. n /\ (k + 1) - 1 = k  BY <1>1
    <3>2. g[k + 1] = Near(edges, g[k]) /\ In(k) /\ Grows(k)
      <4>1. In(k) /\ Grows(k)  BY <2>2, <3>1
      <4> HIDE DEF In, Grows
      <4>2. g[k + 1] = Near(edges, g[(k + 1) - 1])  BY <1>4, <3>1
      <4> QED  BY <3>1, <4>1, <4>2
    <3>3. g[k] \subseteq g[k + 1] /\ g[k] \in SUBSET Vehicles
      BY <1>9, <3>1, <3>2, NearIsClosed
    <3>4. In(k + 1)
      <4>1. \A C \in SUBSET Vehicles : ClosedUnder(edges, C) /\ v \in C => g[k + 1] \subseteq C
        BY <3>2, <3>3, NearIsClosed
      <4> QED  BY <3>2, <3>3, <4>1
    <3>5. CASE g[k + 1] = g[k]  BY <3>2, <3>4, <3>5
    <3>6. CASE g[k + 1] # g[k]
      <4>1. /\ IsFiniteSet(g[k + 1])
            /\ Cardinality(g[k]) \in Nat /\ Cardinality(g[k + 1]) \in Nat
        BY <1>9, <3>1
      <4>2. /\ Cardinality(g[k]) <= Cardinality(g[k + 1])
            /\ Cardinality(g[k]) # Cardinality(g[k + 1])
        BY <3>3, <3>6, <4>1, FS_Subset
      <4>3. k < Cardinality(g[k])  BY <3>2, <3>6
      <4>4. k + 1 < Cardinality(g[k + 1])  BY <3>1, <4>1, <4>2, <4>3
      <4> QED  BY <3>4, <4>4
    <3> QED  BY <3>5, <3>6
  <2>3. P \in SUBSET Nat  OBVIOUS
  <2> HIDE DEF P
  <2>4. P = Nat  BY <2>1, <2>2, <2>3, SetInduction
  <2> QED  BY <1>1, <2>4 DEF P
<1>11. n \in 0 .. n  BY <1>1
<1>12. Cardinality(g[n]) <= n  BY <1>1, <1>9, <1>11, FS_Subset DEF n
<1>13. Near(edges, g[n]) = g[n]  BY <1>1, <1>9, <1>10, <1>11, <1>12
<1>14. ClosedUnder(edges, g[n])  BY <1>9, <1>11, <1>13, NearIsClosed
<1> QED  BY <1>7, <1>8, <1>9, <1>10, <1>11, <1>14

\* find_connected_components() returns the connected components.
LEMMA ComponentsAreFound ==
    ASSUME NEW edges \in SUBSET (Vehicles \X Vehicles)
    PROVE  FindConnectedComponents(edges) = {Reachable(edges, v) : v \in Endpoints(edges)}
<1> DEFINE f == ParentsOf(edges)
           Class(v) == {w \in DOMAIN f : FindRoot(f, w) = FindRoot(f, v)}
<1>1. Connects(edges, f)  BY EdgesAreConnected
<1>2. FindConnectedComponents(edges) = {Class(v) : v \in DOMAIN f}
  BY DEF FindConnectedComponents, ParentsOf
<1> HIDE DEF f
<1>3. DOMAIN f = Endpoints(edges) /\ DOMAIN f \in SUBSET Vehicles
  BY <1>1, ParentsAreVehicles DEF Connects, Forest
<1>4. ASSUME NEW v \in DOMAIN f PROVE Class(v) = Reachable(edges, v)
  <2>1. v \in Vehicles  BY <1>3
  <2>2. /\ v \in Reachable(edges, v) /\ Reachable(edges, v) \in SUBSET Vehicles
        /\ ClosedUnder(edges, Reachable(edges, v))
        /\ \A C \in SUBSET Vehicles :
                ClosedUnder(edges, C) /\ v \in C => Reachable(edges, v) \subseteq C
    BY <2>1, ReachableIsLeast
  <2>3. Class(v) \subseteq Reachable(edges, v)  BY <1>1, <2>2 DEF Connects
  <2>4. ClosedUnder(edges, Class(v))
    <3> SUFFICES ASSUME NEW e \in edges PROVE e[1] \in Class(v) <=> e[2] \in Class(v)
      BY DEF ClosedUnder
    <3>1. e[1] \in DOMAIN f /\ e[2] \in DOMAIN f  BY <1>3 DEF Endpoints
    <3>2. FindRoot(f, e[1]) = FindRoot(f, e[2])  BY <1>1 DEF Connects
    <3> QED  BY <3>1, <3>2
  <2>5. Class(v) \in SUBSET Vehicles /\ v \in Class(v)  BY <1>3
  <2> HIDE DEF Class
  <2> QED  BY <2>2, <2>3, <2>4, <2>5
<1> HIDE DEF Class
<1> QED  BY <1>2, <1>3, <1>4

-----------------------------------------------------------------------------
(***************************************************************************)
(* The rows of the join that are kept are the engine's pairs.              *)
(***************************************************************************)
\* What the final notebook and the engine look at.
Firsts(S) == FirstInBucket(Usable(S))

Tagged(p) == [ping |-> p, route |-> RouteOf[p.trip], direction |-> DirectionOf[p.trip]]

JoinRow(p, q) ==
    [key |-> [route |-> RouteOf[p.trip], direction |-> DirectionOf[p.trip],
              a |-> p.vehicle, b |-> q.vehicle],
     bucket |-> Bucket(p.at), at |-> <<p.at, q.at>>, distance |-> Distance(p.place, q.place)]

\* Two pings of one bucket are at most a poll interval apart.
LEMMA BucketIsShort ==
    ASSUME NEW x \in Nat, NEW y \in Nat, Bucket(x) = Bucket(y)
    PROVE  Distance(x, y) <= BucketTicks
<1> DEFINE b == Bucket(x)
           low == b * BucketTicks
<1>1. /\ b \in Nat /\ low <= x /\ low <= y
      /\ x < (b + 1) * BucketTicks /\ y < (b + 1) * BucketTicks
  BY BucketEdges
<1>2. BucketTicks \in Nat  BY DetectionAssumption
<1> HIDE DEF b
<1>3. low \in Int /\ (b + 1) * BucketTicks = low + BucketTicks  BY <1>1, <1>2
<1> HIDE DEF low
<1> QED  BY <1>1, <1>2, <1>3 DEF Distance

LEMMA JoinGrows ==
    ASSUME NEW S, NEW T \in SUBSET S
    PROVE  Joined(T) \subseteq Joined(S)
BY DEF Joined

LEMMA FirstsAreComplete ==
    ASSUME NEW S
    PROVE  /\ Complete(WithDirection(Firsts(S))) = {Tagged(p) : p \in Firsts(S)}
           /\ {Tagged(p) : p \in Firsts(S)} \subseteq Complete(WithDirection(S))
<1>1. \A p \in Firsts(S) : /\ p \in S /\ Tagged(p).ping = p
                           /\ Tagged(p).direction # NoDirection /\ p.place # NoPlace
  BY DEF Firsts, FirstInBucket, Usable, Tagged
<1>2. \A T : WithDirection(T) = {Tagged(p) : p \in T}  BY DEF WithDirection, Tagged
<1>3. Complete(WithDirection(Firsts(S))) = {Tagged(p) : p \in Firsts(S)}
  BY <1>1, <1>2 DEF Complete
<1>4. ASSUME NEW p \in Firsts(S) PROVE Tagged(p) \in Complete(WithDirection(S))
  BY <1>1, <1>2 DEF Complete
<1> QED  BY <1>3, <1>4

LEMMA KeptAreComparable ==
    ASSUME NEW S, \A p \in S : IsPing(p)
    PROVE  /\ Kept(S) \subseteq Joined(Complete(WithDirection(S)))
           /\ \A r \in Kept(S) : \E p, q \in Firsts(S) : Comparable(p, q) /\ r = JoinRow(p, q)
           /\ \A p, q \in Firsts(S) : Comparable(p, q) => JoinRow(p, q) \in Kept(S)
<1> DEFINE F == Firsts(S)
           T == {Tagged(p) : p \in F}
<1>1. Kept(S) = {r \in Joined(T) : Bucket(r.at[2]) = r.bucket}
  BY FirstsAreComplete DEF Kept, Firsts
<1>2. Joined(T) \subseteq Joined(Complete(WithDirection(S)))
  BY FirstsAreComplete, JoinGrows
<1>3. \A p \in F : p.at \in Nat
  <2>1. \A p \in F : p \in S  BY DEF Firsts, FirstInBucket, Usable
  <2> QED  BY <2>1, TrackerAssumption DEF IsPing
<1>4. ASSUME NEW r \in Kept(S)
      PROVE  \E p, q \in F : Comparable(p, q) /\ r = JoinRow(p, q)
  <2>1. r \in Joined(T) /\ Bucket(r.at[2]) = r.bucket  BY <1>1
  <2>2. PICK x \in T \X T :
            /\ x[1].route = x[2].route /\ x[1].direction = x[2].direction
            /\ x[1].ping.vehicle < x[2].ping.vehicle
            /\ r = [key |-> [route |-> x[1].route, direction |-> x[1].direction,
                             a |-> x[1].ping.vehicle, b |-> x[2].ping.vehicle],
                    bucket |-> Bucket(x[1].ping.at), at |-> <<x[1].ping.at, x[2].ping.at>>,
                    distance |-> Distance(x[1].ping.place, x[2].ping.place)]
    BY <2>1 DEF Joined
  <2>3. PICK p \in F, q \in F : x[1] = Tagged(p) /\ x[2] = Tagged(q)  OBVIOUS
  <2>4. r = JoinRow(p, q)  BY <2>2, <2>3 DEF JoinRow, Tagged
  <2>5. Comparable(p, q)
    <3>1. r.at[2] = q.at /\ r.bucket = Bucket(p.at)  BY <2>4 DEF JoinRow
    <3> QED  BY <2>1, <2>2, <2>3, <3>1 DEF Comparable, Tagged
  <2> QED  BY <2>4, <2>5
<1>5. ASSUME NEW p \in F, NEW q \in F, Comparable(p, q)
      PROVE  JoinRow(p, q) \in Kept(S)
  <2> DEFINE x == <<Tagged(p), Tagged(q)>>
  <2>1. x \in T \X T /\ x[1].ping = p /\ x[2].ping = q  BY DEF Tagged
  <2>2. Distance(p.at, q.at) <= BucketTicks
    BY <1>3, <1>5, BucketIsShort DEF Comparable
  <2>3. x \in {y \in T \X T :
            /\ y[1].route = y[2].route /\ y[1].direction = y[2].direction
            /\ y[1].ping.vehicle < y[2].ping.vehicle
            /\ Distance(y[1].ping.at, y[2].ping.at) <= BucketTicks}
    <3>1. x[1].route = x[2].route /\ x[1].direction = x[2].direction
      BY <1>5 DEF Comparable, Tagged
    <3>2. p.vehicle < q.vehicle  BY <1>5 DEF Comparable
    <3> HIDE DEF x, T
    <3> QED  BY <2>1, <2>2, <3>1, <3>2
  <2>4. JoinRow(p, q) =
            [key |-> [route |-> x[1].route, direction |-> x[1].direction,
                      a |-> x[1].ping.vehicle, b |-> x[2].ping.vehicle],
             bucket |-> Bucket(x[1].ping.at), at |-> <<x[1].ping.at, x[2].ping.at>>,
             distance |-> Distance(x[1].ping.place, x[2].ping.place)]
    BY DEF JoinRow, Tagged
  <2> HIDE DEF x, T
  <2>5. JoinRow(p, q) \in Joined(T)  BY <2>3, <2>4 DEF Joined
  <2>6. Bucket(JoinRow(p, q).at[2]) = JoinRow(p, q).bucket
    BY <1>5 DEF JoinRow, Comparable
  <2> QED  BY <1>1, <2>5, <2>6
<1> QED  BY <1>1, <1>2, <1>4, <1>5

\* Pairs, in the same words.
LEMMA PairsAreComparable ==
    ASSUME NEW S
    PROVE  /\ \A x \in Pairs(S) :
                \E p, q \in Firsts(S) : Comparable(p, q) /\ x = PairObservation(p, q)
           /\ \A p, q \in Firsts(S) : Comparable(p, q) => PairObservation(p, q) \in Pairs(S)
<1> DEFINE F == Firsts(S)
<1>1. Pairs(S) = {PairObservation(x[1], x[2]) : x \in {y \in F \X F : Comparable(y[1], y[2])}}
  BY DEF Pairs, Firsts
<1>2. ASSUME NEW p \in F, NEW q \in F, Comparable(p, q)
      PROVE  PairObservation(p, q) \in Pairs(S)
  <2>1. <<p, q>> \in {y \in F \X F : Comparable(y[1], y[2])}  BY <1>2
  <2> HIDE DEF F
  <2> QED  BY <1>1, <2>1
<1> QED  BY <1>1, <1>2

\* The engine's pairs are the rows that are kept.
LEMMA KeptArePairs ==
    ASSUME NEW S, \A p \in S : IsPing(p)
    PROVE  {<<x.key, x.bucket, x.distance>> : x \in Pairs(S)}
                = {<<r.key, r.bucket, r.distance>> : r \in Kept(S)}
<1>1. ASSUME NEW x \in Pairs(S)
      PROVE  \E r \in Kept(S) : r.key = x.key /\ r.bucket = x.bucket /\ r.distance = x.distance
  <2>1. PICK p \in Firsts(S), q \in Firsts(S) : Comparable(p, q) /\ x = PairObservation(p, q)
    BY PairsAreComparable
  <2>2. JoinRow(p, q) \in Kept(S)  BY <2>1, KeptAreComparable
  <2> QED  BY <2>1, <2>2 DEF JoinRow, PairObservation
<1>2. ASSUME NEW r \in Kept(S)
      PROVE  \E x \in Pairs(S) : r.key = x.key /\ r.bucket = x.bucket /\ r.distance = x.distance
  <2>1. PICK p \in Firsts(S), q \in Firsts(S) : Comparable(p, q) /\ r = JoinRow(p, q)
    BY KeptAreComparable
  <2>2. PairObservation(p, q) \in Pairs(S)  BY <2>1, PairsAreComparable
  <2> QED  BY <2>1, <2>2 DEF JoinRow, PairObservation
<1> DEFINE triple(x) == <<x.key, x.bucket, x.distance>>
<1>3. \A x \in Pairs(S) : triple(x) \in {triple(r) : r \in Kept(S)}  BY <1>1
<1>4. \A r \in Kept(S) : triple(r) \in {triple(x) : x \in Pairs(S)}  BY <1>2
<1> QED  BY <1>3, <1>4

\* Of two vehicles there is one row in a bucket, if no vehicle reports twice at an instant.
OneReportEach(S) == \A p, q \in S : p.vehicle = q.vehicle /\ p.at = q.at => p = q

OneRowPerBucket(table) == \A r, s \in table : PairId(r) = PairId(s) /\ r.bucket = s.bucket => r = s

IsRow(r) ==
    r.bucket \in Buckets /\ r.distance \in Nat /\ r.at[1] \in Nat /\ r.at[2] \in Nat

LEMMA KeptAreRows ==
    ASSUME NEW S, \A p \in S : IsPing(p), OneReportEach(S), IsFiniteSet(S)
    PROVE  OneRowPerBucket(Kept(S)) /\ IsFiniteSet(Kept(S)) /\ \A r \in Kept(S) : IsRow(r)
<1> DEFINE F == Firsts(S)
<1>1. \A p \in F : p \in S /\ p.at \in Nat /\ p.at <= MaxTick /\ p.place \in Int
  <2>1. \A p \in F : p \in S /\ p.place # NoPlace  BY DEF Firsts, FirstInBucket, Usable
  <2> QED  BY <2>1, TrackerAssumption DEF IsPing
<1>2. ASSUME NEW p \in F, NEW q \in F, p.vehicle = q.vehicle, Bucket(p.at) = Bucket(q.at)
      PROVE  p = q
  <2>1. p.at <= q.at /\ q.at <= p.at  BY <1>2 DEF Firsts, FirstInBucket
  <2>2. p.at = q.at  BY <1>1, <2>1
  <2> QED  BY <1>1, <1>2, <2>2 DEF OneReportEach
<1>3. ASSUME NEW r \in Kept(S), NEW s \in Kept(S), PairId(r) = PairId(s), r.bucket = s.bucket
      PROVE  r = s
  <2>1. PICK p \in F, q \in F : Comparable(p, q) /\ r = JoinRow(p, q)
    BY KeptAreComparable
  <2>2. PICK x \in F, y \in F : Comparable(x, y) /\ s = JoinRow(x, y)
    BY KeptAreComparable
  <2>3. p.vehicle = x.vehicle /\ q.vehicle = y.vehicle /\ Bucket(p.at) = Bucket(x.at)
    BY <1>3, <2>1, <2>2 DEF JoinRow, PairId
  <2>4. Bucket(q.at) = Bucket(y.at)  BY <2>1, <2>2, <2>3 DEF Comparable
  <2> QED  BY <1>2, <2>1, <2>2, <2>3, <2>4
<1>4. ASSUME NEW r \in Kept(S) PROVE IsRow(r)
  <2>1. PICK p \in F, q \in F : Comparable(p, q) /\ r = JoinRow(p, q)
    BY KeptAreComparable
  <2>2. Bucket(p.at) \in Nat /\ Bucket(p.at) <= Bucket(MaxTick) /\ Bucket(MaxTick) \in Nat
    BY <1>1, BucketOrder, TrackerAssumption
  <2>3. r.distance \in Nat  BY <1>1, <2>1 DEF JoinRow, Distance
  <2> QED  BY <1>1, <2>1, <2>2, <2>3 DEF JoinRow, IsRow, Buckets
<1>5. IsFiniteSet(Kept(S))
  <2> DEFINE X == F \X F
             f == [x \in X |-> JoinRow(x[1], x[2])]
  <2>1. IsFiniteSet(X)
    <3>1. F \subseteq S  BY <1>1
    <3> QED  BY <3>1, FS_Subset, FS_Product
  <2>2. Kept(S) \subseteq {f[x] : x \in X}
    <3> SUFFICES ASSUME NEW r \in Kept(S) PROVE r \in {f[x] : x \in X}  OBVIOUS
    <3>1. PICK p \in F, q \in F : r = JoinRow(p, q)  BY KeptAreComparable
    <3>2. <<p, q>> \in X /\ f[<<p, q>>] = r  BY <3>1
    <3> QED  BY <3>2
  <2> HIDE DEF X
  <2>3. IsFiniteSet({f[x] : x \in X})  BY <2>1, FiniteImage
  <2> QED  BY <2>2, <2>3, FS_Subset
<1> QED  BY <1>3, <1>4, <1>5 DEF OneRowPerBucket

-----------------------------------------------------------------------------
(***************************************************************************)
(* Islands and runs, as sets of buckets.                                   *)
(***************************************************************************)
\* How many buckets up to b there are, and what a streak has in common.
RankIn(B, b) == Cardinality({c \in B : c <= b})
BaseIn(B, b) == b - RankIn(B, b)
IslandIn(B, b) == {c \in B : BaseIn(B, c) = BaseIn(B, b)}

\* What detect_bunching_events() takes for a separation if it is told of none.
Breaks(B) == {x + 1 : x \in B} \ B

LEMMA RankIsNumber ==
    ASSUME NEW B \in SUBSET Buckets, NEW b
    PROVE  RankIn(B, b) \in Nat /\ IsFiniteSet({c \in B : c <= b})
<1>1. IsFiniteSet({c \in B : c <= b})
  <2>1. {c \in B : c <= b} \in SUBSET Buckets  OBVIOUS
  <2> QED  BY <2>1, BucketsAreBounded
<1> QED  BY <1>1, FS_CardinalityType DEF RankIn

\* The base of two buckets is the same if none is missing between them.
LEMMA BaseOfStreak ==
    ASSUME NEW B \in SUBSET Buckets, NEW b \in B, NEW c \in B, b <= c
    PROVE  BaseIn(B, b) = BaseIn(B, c) <=> b + 1 .. c \subseteq B
<1> DEFINE low == {z \in B : z <= b}
           high == {z \in B : b < z /\ z <= c}
           all == {z \in B : z <= c}
<1>1. \A z \in B : z \in Nat  BY BucketsAreBounded
<1>2. /\ b \in Nat /\ c \in Nat
      /\ IsFiniteSet(b + 1 .. c) /\ Cardinality(b + 1 .. c) = c - b
  <2>1. b \in Nat /\ c \in Nat /\ b + 1 \in Int  BY <1>1
  <2>2. IsFiniteSet(b + 1 .. c)  BY <2>1, FS_Interval
  <2>3. Cardinality(b + 1 .. c) = IF b + 1 > c THEN 0 ELSE c - (b + 1) + 1
    BY <2>1, FS_Interval
  <2> QED  BY <2>1, <2>2, <2>3
<1>3. high \subseteq b + 1 .. c
  <2> SUFFICES ASSUME NEW z \in B, b < z, z <= c PROVE z \in b + 1 .. c  OBVIOUS
  <2>1. z \in Nat  BY <1>1
  <2> QED  BY <1>2, <2>1
<1>4. /\ IsFiniteSet(high) /\ Cardinality(high) <= c - b
      /\ Cardinality(high) = c - b => high = b + 1 .. c
  <2> HIDE DEF high
  <2> QED  BY <1>2, <1>3, FS_Subset
<1>5. RankIn(B, c) = RankIn(B, b) + Cardinality(high)
  <2>1. all = low \cup high /\ low \cap high = {}
    <3>1. ASSUME NEW z \in B PROVE (z <= c <=> z <= b \/ (b < z /\ z <= c)) /\ ~(z <= b /\ b < z)
      <4>1. z \in Nat  BY <1>1
      <4> QED  BY <1>2, <4>1
    <3> QED  BY <3>1
  <2>2. IsFiniteSet(low)  BY RankIsNumber
  <2> HIDE DEF low, high
  <2>3. Cardinality(low \cup high)
            = Cardinality(low) + Cardinality(high) - Cardinality(low \cap high)
    BY <1>4, <2>2, FS_Union
  <2>4. Cardinality(low \cap high) = 0  BY <2>1, FS_EmptySet
  <2>5. Cardinality(low) \in Nat /\ Cardinality(high) \in Nat
    BY <1>4, <2>2, FS_CardinalityType
  <2>6. RankIn(B, c) = Cardinality(all) /\ RankIn(B, b) = Cardinality(low)
    BY DEF RankIn, low
  <2> HIDE DEF all
  <2> QED  BY <2>1, <2>3, <2>4, <2>5, <2>6
<1>6. b + 1 .. c \subseteq B => high = b + 1 .. c  BY <1>1, <1>2, <1>3
<1>7. high = b + 1 .. c => b + 1 .. c \subseteq B  OBVIOUS
<1>8. Cardinality(high) \in Nat /\ RankIn(B, b) \in Nat /\ RankIn(B, c) \in Nat
  BY <1>4, RankIsNumber, FS_CardinalityType
<1> HIDE DEF high
<1>9. BaseIn(B, b) = BaseIn(B, c) <=> Cardinality(high) = c - b
  BY <1>2, <1>5, <1>8 DEF BaseIn
<1> QED  BY <1>2, <1>4, <1>6, <1>7, <1>9

\* A run starts where the bucket before is missing.
LEMMA StartsAfterBreak ==
    ASSUME NEW B \in SUBSET Buckets, NEW x
    PROVE  x \in RunStarts(B, Breaks(B)) <=> x \in B /\ x - 1 \notin B
<1>1. \A z \in B : z \in Nat  BY BucketsAreBounded
<1>2. ASSUME x \in RunStarts(B, Breaks(B)) PROVE x \in B /\ x - 1 \notin B
  <2>1. x \in B /\ x \in Nat  BY <1>1, <1>2 DEF RunStarts
  <2>2. ASSUME x - 1 \in B PROVE FALSE
    <3>1. x - 1 < x /\ x - (x - 1) = 1  BY <2>1
    <3>2. Linked(Breaks(B), x - 1, x)  BY <3>1 DEF Linked
    <3> QED  BY <1>2, <2>2, <3>1, <3>2 DEF RunStarts
  <2> QED  BY <2>1, <2>2
<1>3. ASSUME x \in B, x - 1 \notin B PROVE x \in RunStarts(B, Breaks(B))
  <2> SUFFICES ASSUME NEW y \in B, y < x, Linked(Breaks(B), y, x) PROVE FALSE
    BY <1>3 DEF RunStarts
  <2>1. x \in Nat /\ y \in Nat  BY <1>1, <1>3
  <2>2. y # x - 1  BY <1>3
  <2>3. x - y # 1  BY <2>1, <2>2
  <2>4. x - y <= 2 /\ \A s \in Breaks(B) : ~(y < s /\ s < x)
    BY <2>3 DEF Linked, Tolerated
  <2>5. y + 1 = x - 1  BY <2>1, <2>3, <2>4
  <2>6. y + 1 \in Breaks(B)  BY <1>3, <2>5 DEF Breaks
  <2> QED  BY <2>1, <2>4, <2>5, <2>6
<1> QED  BY <1>2, <1>3

\* A run goes on as far as no bucket is missing.
LEMMA RunIsStreak ==
    ASSUME NEW B \in SUBSET Buckets, NEW x \in RunStarts(B, Breaks(B)), NEW y \in B, x <= y
    PROVE  y \in RunFrom(B, Breaks(B), x) <=> x + 1 .. y \subseteq B
<1>1. \A z \in B : z \in Nat  BY BucketsAreBounded
<1>2. x \in B /\ x \in Nat /\ y \in Nat  BY <1>1, StartsAfterBreak
<1>3. ASSUME x + 1 .. y \subseteq B, NEW z \in RunStarts(B, Breaks(B)), x < z, z <= y
      PROVE  FALSE
  <2>1. z \in Nat /\ z - 1 \notin B  BY <1>1, StartsAfterBreak
  <2>2. z - 1 = x \/ z - 1 \in x + 1 .. y  BY <1>2, <1>3, <2>1
  <2> QED  BY <1>2, <1>3, <2>1, <2>2
<1>4. ASSUME NEW m \in x + 1 .. y, m \notin B
      PROVE  \E z \in RunStarts(B, Breaks(B)) : x < z /\ z <= y
  <2> DEFINE Later == {z \in B : m < z}
  <2>1. m \in Int /\ x < m /\ m < y  BY <1>2, <1>4
  <2>2. y \in Later /\ Later \in SUBSET Nat  BY <1>1, <2>1
  <2>3. PICK z \in Later : \A w \in Later : z <= w  BY <2>2, LeastNatural
  <2>4. z \in B /\ z \in Nat /\ m < z /\ z <= y  BY <2>2, <2>3
  <2>5. z - 1 \notin B
    <3> SUFFICES ASSUME z - 1 \in B PROVE FALSE  OBVIOUS
    <3>1. z - 1 # m  BY <1>4
    <3>2. z - 1 \in Later  BY <2>1, <2>4, <3>1
    <3>3. z <= z - 1  BY <2>3, <3>2
    <3> QED  BY <2>4, <3>3
  <2>6. z \in RunStarts(B, Breaks(B))  BY <2>4, <2>5, StartsAfterBreak
  <2> QED  BY <1>2, <2>1, <2>4, <2>6
<1>5. y \in RunFrom(B, Breaks(B), x)
        <=> \A z \in RunStarts(B, Breaks(B)) : ~(x < z /\ z <= y)
  BY DEF RunFrom
<1> QED  BY <1>3, <1>4, <1>5

\* A run is the island of each of its buckets.
LEMMA RunsAreIslands ==
    ASSUME NEW B \in SUBSET Buckets, NEW run \in RunsWithoutSeparation(B)
    PROVE  run # {} /\ run \subseteq B /\ \A b \in run : run = IslandIn(B, b)
<1>1. RunsWithoutSeparation(B) = Runs(B, Breaks(B))  BY DEF RunsWithoutSeparation, Breaks
<1>2. PICK x \in RunStarts(B, Breaks(B)) : run = RunFrom(B, Breaks(B), x)
  BY <1>1 DEF Runs
<1>3. \A z \in B : z \in Nat  BY BucketsAreBounded
<1>4. x \in B /\ x \in Nat /\ x - 1 \notin B  BY <1>3, StartsAfterBreak
<1>5. run \subseteq B /\ \A y \in run : x <= y  BY <1>2 DEF RunFrom
<1>6. ASSUME NEW y \in B PROVE y \in run <=> BaseIn(B, y) = BaseIn(B, x)
  <2>1. CASE x <= y
    <3>1. y \in run <=> x + 1 .. y \subseteq B  BY <1>2, <2>1, RunIsStreak
    <3>2. BaseIn(B, x) = BaseIn(B, y) <=> x + 1 .. y \subseteq B
      BY <1>4, <2>1, BaseOfStreak
    <3> QED  BY <3>1, <3>2
  <2>2. CASE ~(x <= y)
    <3>1. y \notin run  BY <1>5, <2>2
    <3>2. y <= x /\ y \in Nat /\ y < x  BY <1>3, <1>4, <2>2
    <3>3. BaseIn(B, y) = BaseIn(B, x) <=> y + 1 .. x \subseteq B
      BY <1>4, <3>2, BaseOfStreak
    <3>4. ASSUME y + 1 .. x \subseteq B PROVE FALSE
      <4>1. x - 1 = y \/ x - 1 \in y + 1 .. x  BY <1>4, <3>2
      <4> QED  BY <1>4, <3>4, <4>1
    <3> QED  BY <3>1, <3>3, <3>4
  <2> QED  BY <2>1, <2>2
<1>7. x \in run  BY <1>4, <1>6
<1>8. ASSUME NEW b \in run PROVE run = IslandIn(B, b)
  <2>1. BaseIn(B, b) = BaseIn(B, x)  BY <1>5, <1>6
  <2> QED  BY <1>5, <1>6, <2>1 DEF IslandIn
<1> QED  BY <1>5, <1>7, <1>8

\* And each island is a run.
LEMMA IslandsAreRuns ==
    ASSUME NEW B \in SUBSET Buckets, NEW b \in B
    PROVE  IslandIn(B, b) \in RunsWithoutSeparation(B)
<1> DEFINE Before_b == {x \in B : x <= b /\ x + 1 .. b \subseteq B}
<1>1. \A z \in B : z \in Nat  BY BucketsAreBounded
<1>2. b \in Nat  BY <1>1
<1>3. b \in Before_b  BY <1>2
<1>4. Before_b \in SUBSET Nat  BY <1>1
<1>5. PICK x \in Before_b : \A y \in Before_b : x <= y  BY <1>3, <1>4, LeastNatural
<1>6. x \in B /\ x \in Nat /\ x <= b /\ x + 1 .. b \subseteq B  BY <1>4, <1>5
<1>7. x - 1 \notin B
  <2> SUFFICES ASSUME x - 1 \in B PROVE FALSE  OBVIOUS
  <2>1. x - 1 <= b /\ (x - 1) + 1 = x /\ \A z \in x .. b : z = x \/ z \in x + 1 .. b
    BY <1>2, <1>6
  <2>2. (x - 1) + 1 .. b \subseteq B  BY <1>6, <2>1
  <2>3. x - 1 \in Before_b  BY <2>1, <2>2
  <2>4. x <= x - 1  BY <1>5, <2>3
  <2> QED  BY <1>6, <2>4
<1> HIDE DEF Before_b
<1>8. x \in RunStarts(B, Breaks(B))  BY <1>6, <1>7, StartsAfterBreak
<1> DEFINE run == RunFrom(B, Breaks(B), x)
<1>9. b \in run  BY <1>6, <1>8, RunIsStreak
<1>10. run \in RunsWithoutSeparation(B)
  BY <1>8 DEF RunsWithoutSeparation, Breaks, Runs
<1> HIDE DEF run
<1>11. run = IslandIn(B, b)  BY <1>9, <1>10, RunsAreIslands
<1> QED  BY <1>10, <1>11

-----------------------------------------------------------------------------
(***************************************************************************)
(* Counting events, twice.                                                 *)
(***************************************************************************)
\* The rows of one pair, at most one in a bucket.
RowsOfPair(T) ==
    IsFiniteSet(T) /\ (\A r \in T : IsRow(r)) /\ \A r, s \in T : r.bucket = s.bucket => r = s

LEMMA RowsAreBuckets ==
    ASSUME NEW T, RowsOfPair(T), NEW U \in SUBSET T
    PROVE  Cardinality(U) = Cardinality(BucketsOf(U)) /\ BucketsOf(U) \in SUBSET Buckets
<1> DEFINE f == [r \in U |-> r.bucket]
<1>1. f \in Bijection(U, BucketsOf(U))
  BY DEF RowsOfPair, BucketsOf, Bijection, Injection, Surjection, IsInjective
<1>2. IsFiniteSet(U)  BY FS_Subset DEF RowsOfPair
<1>3. ExistsBijection(U, BucketsOf(U))  BY <1>1 DEF ExistsBijection
<1>4. BucketsOf(U) \in SUBSET Buckets  BY DEF RowsOfPair, IsRow, BucketsOf
<1> QED  BY <1>2, <1>3, <1>4, FS_Bijection

\* An island of rows is an island of buckets.
LEMMA IslandsOfRows ==
    ASSUME NEW T, RowsOfPair(T)
    PROVE  Islands(T) = {{s \in T : s.bucket \in IslandIn(BucketsOf(T), r.bucket)} : r \in T}
<1> DEFINE B == BucketsOf(T)
           base(r) == r.bucket - Cardinality({s \in T : Before(s, r)})
<1>1. ASSUME NEW r \in T PROVE base(r) = BaseIn(B, r.bucket)
  <2> DEFINE U == {s \in T : Before(s, r)}
  <2>1. \A s \in T : /\ s.bucket \in Nat
                     /\ s.at[1] \in Nat /\ s.at[2] \in Nat
                     /\ s.bucket = r.bucket => s = r
    BY BucketsAreBounded DEF RowsOfPair, IsRow
  <2>2. \A s \in T : Before(s, r) <=> s.bucket <= r.bucket  BY <2>1 DEF Before
  <2>3. BucketsOf(U) = {c \in B : c <= r.bucket}  BY <2>2 DEF BucketsOf
  <2>4. Cardinality(U) = Cardinality(BucketsOf(U))  BY RowsAreBuckets
  <2> HIDE DEF U, B
  <2>5. Cardinality(U) = RankIn(B, r.bucket)  BY <2>3, <2>4 DEF RankIn
  <2> QED  BY <2>5 DEF BaseIn, U
<1>2. Islands(T) = {{s \in T : base(s) = base(r)} : r \in T}  BY DEF Islands
<1> HIDE DEF base
<1>3. ASSUME NEW r \in T
      PROVE  {s \in T : base(s) = base(r)} = {s \in T : s.bucket \in IslandIn(B, r.bucket)}
  <2>1. \A s \in T : s.bucket \in B  BY DEF BucketsOf
  <2> HIDE DEF B
  <2> QED  BY <1>1, <2>1 DEF IslandIn
<1> HIDE DEF B
<1>4. Islands(T) = {{s \in T : s.bucket \in IslandIn(B, r.bucket)} : r \in T}
  BY <1>2, <1>3
<1> QED  BY <1>4 DEF B

\* Ranking the rows that are kept, and linking the pairs into runs, count the same events.
LEMMA CountsAgree ==
    ASSUME NEW S, \A p \in S : IsPing(p), OneReportEach(S), IsFiniteSet(S),
           NEW threshold, NEW minimum
    PROVE  CountInitial(Kept(S), threshold, minimum)
                = CountByVehicles(S, threshold, minimum)
<1> DEFINE C == {r \in Kept(S) : r.distance <= threshold}
           D == {x \in Pairs(S) : x.distance <= threshold}
           B(id) == BucketsOf(OfPair(C, id))
           X == UNION {{<<id, run>> : run \in {r \in RunsWithoutSeparation(B(id)) :
                                                    Cardinality(r) >= minimum}} : id \in PairIds(C)}
           Y == {i \in UNION {Islands(OfPair(C, id)) : id \in PairIds(C)} :
                    Cardinality(i) >= minimum}
<1>1. CountInitial(Kept(S), threshold, minimum) = Cardinality(Y)  BY DEF CountInitial
<1>2. /\ PairIds(D) = PairIds(C)
      /\ \A id : BucketsOf(OfPair(D, id)) = B(id)
  <2>1. {<<x.key, x.bucket, x.distance>> : x \in Pairs(S)}
            = {<<r.key, r.bucket, r.distance>> : r \in Kept(S)}
    BY KeptArePairs
  <2>2. ASSUME NEW x \in Pairs(S)
        PROVE  \E r \in Kept(S) :
                  r.key = x.key /\ r.bucket = x.bucket /\ r.distance = x.distance
    <3>1. <<x.key, x.bucket, x.distance>>
                \in {<<r.key, r.bucket, r.distance>> : r \in Kept(S)}
      BY <2>1
    <3> QED  BY <3>1
  <2>3. ASSUME NEW r \in Kept(S)
        PROVE  \E x \in Pairs(S) :
                  r.key = x.key /\ r.bucket = x.bucket /\ r.distance = x.distance
    <3>1. <<r.key, r.bucket, r.distance>>
                \in {<<x.key, x.bucket, x.distance>> : x \in Pairs(S)}
      BY <2>1
    <3> QED  BY <3>1
  <2>4. \A x \in D : \E r \in C : r.key = x.key /\ r.bucket = x.bucket  BY <2>2
  <2>5. \A r \in C : \E x \in D : r.key = x.key /\ r.bucket = x.bucket  BY <2>3
  <2> HIDE DEF C, D
  <2>6. PairIds(D) = PairIds(C)  BY <2>4, <2>5 DEF PairIds, PairId
  <2>7. ASSUME NEW id PROVE BucketsOf(OfPair(D, id)) = B(id)
    BY <2>4, <2>5 DEF BucketsOf, OfPair, PairId
  <2> QED  BY <2>6, <2>7
<1>3. CountByVehicles(S, threshold, minimum) = Cardinality(X)
  <2> DEFINE Z(id, b) == {<<id, run>> : run \in {r \in RunsWithoutSeparation(b) :
                                                    Cardinality(r) >= minimum}}
             BD(id) == BucketsOf(OfPair(D, id))
  <2>1. CountByVehicles(S, threshold, minimum)
            = Cardinality(UNION {Z(id, BD(id)) : id \in PairIds(D)})
    BY DEF CountByVehicles
  <2>2. X = UNION {Z(id, B(id)) : id \in PairIds(C)}  OBVIOUS
  <2>3. \A id : BD(id) = B(id)  BY <1>2
  <2> HIDE DEF Z, BD, B, X, C, D
  <2>4. {Z(id, BD(id)) : id \in PairIds(D)} = {Z(id, B(id)) : id \in PairIds(C)}
    BY <1>2, <2>3
  <2> QED  BY <2>1, <2>2, <2>4
<1>4. ASSUME NEW id PROVE RowsOfPair(OfPair(C, id))
  BY KeptAreRows, FS_Subset DEF RowsOfPair, OfPair, OneRowPerBucket
<1>5. IsFiniteSet(C)
  <2>1. C \subseteq Kept(S)  OBVIOUS
  <2> QED  BY <2>1, KeptAreRows, FS_Subset
<1> HIDE DEF C, D
<1> DEFINE Rows(id, run) == {r \in OfPair(C, id) : r.bucket \in run}
<1>6. ASSUME NEW id \in PairIds(C), NEW run \in RunsWithoutSeparation(B(id))
      PROVE  /\ Rows(id, run) \in Islands(OfPair(C, id))
             /\ Rows(id, run) # {} /\ BucketsOf(Rows(id, run)) = run
             /\ Cardinality(Rows(id, run)) = Cardinality(run)
  <2> DEFINE T == OfPair(C, id)
             R == Rows(id, run)
  <2>1. RowsOfPair(T)  BY <1>4
  <2>2. BucketsOf(T) \in SUBSET Buckets  BY <2>1, RowsAreBuckets
  <2>3. run # {} /\ run \subseteq BucketsOf(T)
        /\ \A b \in run : run = IslandIn(BucketsOf(T), b)
    BY <2>2, RunsAreIslands
  <2>4. \A b \in BucketsOf(T) : \E r \in T : r.bucket = b  BY DEF BucketsOf
  <2>5. \A r \in T : r.bucket \in BucketsOf(T)  BY DEF BucketsOf
  <2> HIDE DEF T
  <2>6. R = {r \in T : r.bucket \in run}  BY DEF T
  <2> HIDE DEF R
  <2>7. PICK r \in T : r.bucket \in run  BY <2>3, <2>4
  <2>8. R = {s \in T : s.bucket \in IslandIn(BucketsOf(T), r.bucket)}
    BY <2>3, <2>6, <2>7
  <2>9. R \in Islands(T)  BY <2>1, <2>7, <2>8, IslandsOfRows
  <2>10. BucketsOf(R) = run  BY <2>3, <2>4, <2>6 DEF BucketsOf
  <2>11. R \in SUBSET T  BY <2>6
  <2>12. Cardinality(R) = Cardinality(run)  BY <2>1, <2>10, <2>11, RowsAreBuckets
  <2> QED  BY <2>6, <2>7, <2>9, <2>10, <2>12 DEF R, T
<1>7. ASSUME NEW id \in PairIds(C), NEW island \in Islands(OfPair(C, id))
      PROVE  \E run \in RunsWithoutSeparation(B(id)) : island = Rows(id, run)
  <2> DEFINE T == OfPair(C, id)
  <2>1. RowsOfPair(T)  BY <1>4
  <2>2. PICK r \in T : island = {s \in T : s.bucket \in IslandIn(BucketsOf(T), r.bucket)}
    BY <2>1, IslandsOfRows
  <2>3. BucketsOf(T) \in SUBSET Buckets /\ r.bucket \in BucketsOf(T)
    BY <2>1, RowsAreBuckets DEF BucketsOf
  <2>4. IslandIn(BucketsOf(T), r.bucket) \in RunsWithoutSeparation(BucketsOf(T))
    BY <2>3, IslandsAreRuns
  <2> QED  BY <2>2, <2>4
<1> DEFINE f == [x \in X |-> Rows(x[1], x[2])]
<1>8. \A x \in X : /\ x = <<x[1], x[2]>> /\ x[1] \in PairIds(C)
                   /\ x[2] \in RunsWithoutSeparation(B(x[1])) /\ Cardinality(x[2]) >= minimum
  <2> HIDE DEF B
  <2> QED  OBVIOUS
<1>9. \A id \in PairIds(C) : \A run \in RunsWithoutSeparation(B(id)) :
            Cardinality(run) >= minimum => <<id, run>> \in X
  <2> HIDE DEF B
  <2> QED  OBVIOUS
<1>10. \A i : i \in Y <=> /\ \E id \in PairIds(C) : i \in Islands(OfPair(C, id))
                          /\ Cardinality(i) >= minimum
  OBVIOUS
<1>11. IsFiniteSet(Y)
  <2>1. Y \in SUBSET (SUBSET C)
    <3> SUFFICES ASSUME NEW i \in Y PROVE i \subseteq C  OBVIOUS
    <3>1. PICK id \in PairIds(C) : i \in Islands(OfPair(C, id))  OBVIOUS
    <3> QED  BY <3>1 DEF Islands, OfPair
  <2>2. IsFiniteSet(SUBSET C)  BY <1>5, FS_SUBSET
  <2> QED  BY <2>1, <2>2, FS_Subset
<1> HIDE DEF X, Y, B
<1>12. ASSUME NEW x \in X PROVE f[x] \in Y
  <2>1. Cardinality(Rows(x[1], x[2])) >= minimum
        /\ Rows(x[1], x[2]) \in Islands(OfPair(C, x[1]))
    BY <1>6, <1>8
  <2> HIDE DEF Rows
  <2> QED  BY <1>8, <1>10, <2>1
<1>13. ASSUME NEW x \in X, NEW y \in X, f[x] = f[y] PROVE x = y
  <2>1. /\ Rows(x[1], x[2]) # {} /\ BucketsOf(Rows(x[1], x[2])) = x[2]
        /\ BucketsOf(Rows(y[1], y[2])) = y[2]
    BY <1>6, <1>8
  <2>2. Rows(x[1], x[2]) = Rows(y[1], y[2])  BY <1>13
  <2>3. x[2] = y[2]
    <3> HIDE DEF Rows
    <3> QED  BY <2>1, <2>2
  <2>4. PICK r : r \in Rows(x[1], x[2]) /\ r \in Rows(y[1], y[2])
    <3> HIDE DEF Rows
    <3> QED  BY <2>1, <2>2
  <2>5. x[1] = y[1]  BY <2>4 DEF OfPair
  <2> QED  BY <1>8, <2>3, <2>5
<1>14. ASSUME NEW i \in Y PROVE \E x \in X : f[x] = i
  <2>1. PICK id \in PairIds(C) : i \in Islands(OfPair(C, id)) /\ Cardinality(i) >= minimum
    BY <1>10
  <2>2. PICK run \in RunsWithoutSeparation(B(id)) : i = Rows(id, run)  BY <1>7, <2>1
  <2>3. Cardinality(run) >= minimum  BY <1>6, <2>1, <2>2
  <2>4. <<id, run>> \in X  BY <1>9, <2>3
  <2>5. f[<<id, run>>] = i
    <3> HIDE DEF Rows
    <3> QED  BY <2>2, <2>4
  <2> QED  BY <2>4, <2>5
<1>15. f \in Injection(X, Y) /\ f \in Surjection(X, Y)
  <2>1. f \in [X -> Y]  BY <1>12
  <2> HIDE DEF f
  <2> QED  BY <1>13, <1>14, <2>1 DEF Injection, Surjection, IsInjective
<1>16. Cardinality(X) = Cardinality(Y)
  <2> HIDE DEF f
  <2> QED  BY <1>11, <1>15, FS_Injection
<1> QED  BY <1>1, <1>3, <1>16

\* If no pair changes its path, these are the runs of every route, direction and pair.
LEMMA PathsArePairs ==
    ASSUME NEW S, PairsKeepTheirPath(S), NEW threshold, NEW minimum,
           \A p \in S : IsPing(p), OneReportEach(S), IsFiniteSet(S)
    PROVE  CountByVehicles(S, threshold, minimum) = CountBunchingEvents(S, threshold, minimum)
<1> DEFINE D == {x \in Pairs(S) : x.distance <= threshold}
           B(key) == BucketsOf(OfKey(D, key))
           C(id) == BucketsOf(OfPair(D, id))
           X == UNION {{<<key, run>> : run \in {r \in RunsWithoutSeparation(B(key)) :
                                                    Cardinality(r) >= minimum}} : key \in KeysIn(D)}
           Y == UNION {{<<id, run>> : run \in {r \in RunsWithoutSeparation(C(id)) :
                                                    Cardinality(r) >= minimum}} : id \in PairIds(D)}
           Id(key) == <<key.a, key.b>>
<1>1. /\ CountBunchingEvents(S, threshold, minimum) = Cardinality(X)
      /\ CountByVehicles(S, threshold, minimum) = Cardinality(Y)
  BY DEF CountBunchingEvents, CountByVehicles
<1>2. \A x, y \in D : Id(x.key) = Id(y.key) => x.key = y.key
  BY DEF PairsKeepTheirPath, PairId
<1> HIDE DEF D
<1>3. ASSUME NEW key \in KeysIn(D) PROVE C(Id(key)) = B(key) /\ Id(key) \in PairIds(D)
  <2>1. PICK x \in D : x.key = key  BY DEF KeysIn
  <2>2. OfPair(D, Id(key)) = OfKey(D, key)  BY <1>2, <2>1 DEF OfPair, OfKey, PairId
  <2> QED  BY <2>1, <2>2 DEF PairIds, PairId
<1>4. ASSUME NEW id \in PairIds(D) PROVE \E key \in KeysIn(D) : Id(key) = id
  BY DEF PairIds, PairId, KeysIn
<1>5. ASSUME NEW j \in KeysIn(D), NEW k \in KeysIn(D), Id(j) = Id(k) PROVE j = k
  <2>1. PICK x \in D, y \in D : x.key = j /\ y.key = k  BY DEF KeysIn
  <2> QED  BY <1>2, <1>5, <2>1
<1> HIDE DEF B, C
<1>6. \A key, run : <<key, run>> \in X <=>
          key \in KeysIn(D) /\ run \in RunsWithoutSeparation(B(key)) /\ Cardinality(run) >= minimum
  OBVIOUS
<1>7. \A id, run : <<id, run>> \in Y <=>
          id \in PairIds(D) /\ run \in RunsWithoutSeparation(C(id)) /\ Cardinality(run) >= minimum
  OBVIOUS
<1>8. \A x \in X : x = <<x[1], x[2]>>  OBVIOUS
<1>9. \A y \in Y : y = <<y[1], y[2]>>  OBVIOUS
<1> HIDE DEF X, Y, Id
<1> DEFINE f == [x \in X |-> <<Id(x[1]), x[2]>>]
<1>10. ASSUME NEW x \in X PROVE f[x] \in Y /\ x[1] \in KeysIn(D)
  <2>1. x[1] \in KeysIn(D) /\ x[2] \in RunsWithoutSeparation(B(x[1]))
        /\ Cardinality(x[2]) >= minimum
    BY <1>6, <1>8
  <2>2. <<Id(x[1]), x[2]>> \in Y  BY <1>3, <1>7, <2>1
  <2> QED  BY <2>1, <2>2
<1>11. ASSUME NEW x \in X, NEW y \in X, f[x] = f[y] PROVE x = y
  <2>1. Id(x[1]) = Id(y[1]) /\ x[2] = y[2]  BY <1>11
  <2> QED  BY <1>5, <1>8, <1>10, <2>1
<1>12. ASSUME NEW y \in Y PROVE \E x \in X : f[x] = y
  <2>1. y[1] \in PairIds(D) /\ y[2] \in RunsWithoutSeparation(C(y[1]))
        /\ Cardinality(y[2]) >= minimum
    BY <1>7, <1>9
  <2>2. PICK key \in KeysIn(D) : Id(key) = y[1]  BY <1>4, <2>1
  <2>3. <<key, y[2]>> \in X  BY <1>3, <1>6, <2>1, <2>2
  <2>4. f[<<key, y[2]>>] = y  BY <1>9, <2>2, <2>3
  <2> QED  BY <2>3, <2>4
<1>13. f \in Injection(X, Y) /\ f \in Surjection(X, Y)
  <2>1. f \in [X -> Y]  BY <1>10
  <2> HIDE DEF f
  <2> QED  BY <1>11, <1>12, <2>1 DEF Injection, Surjection, IsInjective
<1>14. Cardinality(X) = Cardinality(Y)
  <2>1. ExistsBijection(X, Y)
    <3> HIDE DEF f
    <3> QED  BY <1>13 DEF ExistsBijection, Bijection
  <2>2. IsFiniteSet(X)
    <3> DEFINE Z == KeysIn(D) \X SUBSET Buckets
    <3>1. IsFiniteSet(D)
      <4>1. D \in SUBSET Pairs(S)  BY DEF D
      <4> QED  BY <4>1, FinitePairs, FS_Subset
    <3>2. IsFiniteSet(KeysIn(D))
      <4> DEFINE g == [x \in D |-> x.key]
      <4>1. g \in Surjection(D, KeysIn(D))  BY DEF KeysIn, Surjection
      <4> HIDE DEF g
      <4> QED  BY <3>1, <4>1, FS_Surjection
    <3>3. IsFiniteSet(Z)  BY <3>2, BucketsAreBounded, FS_SUBSET, FS_Product
    <3>4. \A x \in X : x[2] \in SUBSET Buckets
      <4> SUFFICES ASSUME NEW x \in X PROVE x[2] \in SUBSET Buckets  OBVIOUS
      <4>1. x[2] \in RunsWithoutSeparation(B(x[1]))  BY <1>6, <1>8
      <4>2. B(x[1]) \in SUBSET Buckets
        <5>1. \A d \in D : d.bucket \in Buckets
          <6>1. \A d \in D : d \in Pairs(S)  BY DEF D
          <6> QED  BY <6>1, PairsComeFromPings DEF Buckets
        <5> QED  BY <5>1 DEF B, BucketsOf, OfKey
      <4> QED  BY <4>1, <4>2, RunsAreIslands
    <3>5. \A x \in X : x[1] \in KeysIn(D) /\ x[2] \in SUBSET Buckets  BY <1>6, <1>8, <3>4
    <3>6. X \subseteq Z
      <4> SUFFICES ASSUME NEW x \in X PROVE x \in Z  OBVIOUS
      <4>1. <<x[1], x[2]>> \in Z  BY <3>5
      <4> HIDE DEF Z
      <4> QED  BY <1>8, <4>1
    <3> QED  BY <3>3, <3>6, FS_Subset
  <2> QED  BY <2>1, <2>2, FS_Bijection
<1> QED  BY <1>1, <1>14

-----------------------------------------------------------------------------
(***************************************************************************)
(* Clusters have two vehicles or more.                                     *)
(***************************************************************************)
LEMMA ClustersAreShared ==
    ASSUME NEW edges \in SUBSET {e \in Vehicles \X Vehicles : e[1] < e[2]},
           NEW c \in FindConnectedComponents(edges)
    PROVE  Cardinality(c) >= 2
<1>1. edges \in SUBSET (Vehicles \X Vehicles)  OBVIOUS
<1>2. PICK v \in Endpoints(edges) : c = Reachable(edges, v)  BY <1>1, ComponentsAreFound
<1>3. PICK e \in edges : v \in {e[1], e[2]}  BY DEF Endpoints
<1>4. e[1] \in Vehicles /\ e[2] \in Vehicles /\ e[1] < e[2] /\ v \in Vehicles
  BY <1>3
<1>5. /\ v \in c /\ c \in SUBSET Vehicles /\ ClosedUnder(edges, c)
  BY <1>1, <1>2, <1>4, ReachableIsLeast
<1>6. e[1] \in c /\ e[2] \in c  BY <1>3, <1>5 DEF ClosedUnder
<1>7. IsFiniteSet(c)  BY <1>5, DetectionAssumption, FS_Subset
<1>8. e[1] # e[2]
  <2>1. e[1] \in Int /\ e[2] \in Int  BY <1>4, DetectionAssumption
  <2> QED  BY <1>4, <2>1
<1>9. Cardinality({e[1], e[2]}) = 2
  <2>1. Cardinality({e[1]} \cup {e[2]}) = Cardinality({e[1]}) + 1
    BY <1>8, FS_Singleton, FS_AddElement
  <2>2. Cardinality({e[1]}) = 1  BY FS_Singleton
  <2>3. {e[1]} \cup {e[2]} = {e[1], e[2]}  OBVIOUS
  <2> QED  BY <2>1, <2>2, <2>3
<1>10. {e[1], e[2]} \subseteq c  BY <1>6
<1> QED  BY <1>7, <1>9, <1>10, FS_Subset, FS_CardinalityType

-----------------------------------------------------------------------------
(***************************************************************************)
(* What was seen, and judged, is a table.                                  *)
(***************************************************************************)
\* What is known has arrived, with one report of a vehicle at an instant.
TableInv ==
    /\ clock \in 0 .. MaxTick
    /\ IsFiniteSet(Known)
    /\ \A p \in Known : \E t \in 1 .. clock : \E batch \in Reports[t] : p \in batch
    /\ OneReportEach(Known)

LEMMA TableArePings ==
    ASSUME TableInv, NEW p \in Known
    PROVE  IsPing(p)
<1>1. PICK t \in 1 .. clock : \E batch \in Reports[t] : p \in batch  BY DEF TableInv
<1> PICK batch \in Reports[t] : p \in batch  BY <1>1
<1>2. MaxTick \in Nat /\ t \in 1 .. MaxTick  BY TrackerAssumption DEF TableInv
<1>3. p.at \in 0 .. t /\ t <= MaxTick /\ t \in Nat  BY <1>1, <1>2, TrackerAssumption
<1>4. p.at \in 0 .. MaxTick  BY <1>2, <1>3
<1> QED  BY <1>1, <1>2, <1>3, <1>4, TrackerAssumption DEF IsPing

LEMMA TableInitially == Init => TableInv
<1> SUFFICES ASSUME Init PROVE TableInv  OBVIOUS
<1>1. Known = {} /\ clock = 0  BY DEF Init, Known
<1> QED  BY <1>1, FS_EmptySet, TrackerAssumption DEF TableInv, OneReportEach

LEMMA TableStep ==
    ASSUME OneReportAtATime, TableInv, [Next]_vars
    PROVE  TableInv'
<1>1. CASE Tick
  <2>1. PICK batch \in Reports[clock + 1] :
            rows' = rows \cup batch /\ uncommitted' = uncommitted \cup batch
    BY <1>1 DEF Tick
  <2>2. /\ clock \in Nat /\ clock < MaxTick /\ clock' = clock + 1 /\ MaxTick \in Nat
        /\ seen' = seen
    BY <1>1, TrackerAssumption DEF Tick, history, TableInv
  <2>3. Known' = Known \cup batch  BY <2>1, <2>2 DEF Known
  <2>4. clock + 1 \in 1 .. MaxTick /\ IsFiniteSet(batch)  BY <2>1, <2>2, TrackerAssumption
  <2>5. IsFiniteSet(Known')  BY <2>3, <2>4, FS_Union DEF TableInv
  <2>6. ASSUME NEW p \in Known'
        PROVE  \E t \in 1 .. clock' : \E b \in Reports[t] : p \in b
    <3>1. CASE p \in batch
      <4>1. clock + 1 \in 1 .. clock'  BY <2>2
      <4> QED  BY <2>1, <3>1, <4>1
    <3>2. CASE p \in Known
      <4>1. PICK t \in 1 .. clock : \E b \in Reports[t] : p \in b  BY <3>2 DEF TableInv
      <4>2. t \in 1 .. clock'  BY <2>2
      <4> QED  BY <4>1, <4>2
    <3> QED  BY <2>3, <3>1, <3>2
  <2>7. ASSUME NEW p \in batch, NEW q \in Known, p.vehicle = q.vehicle, p.at = q.at
        PROVE  p = q
    <3>1. PICK t \in 1 .. clock : \E b \in Reports[t] : q \in b  BY DEF TableInv
    <3>2. t \in 1 .. MaxTick /\ t # clock + 1  BY <2>2
    <3> QED  BY <2>4, <2>7, <3>1, <3>2 DEF OneReportAtATime
  <2>8. ASSUME NEW p \in batch, NEW q \in batch, p.vehicle = q.vehicle, p.at = q.at
        PROVE  p = q
    BY <2>4, <2>8 DEF OneReportAtATime
  <2>9. OneReportEach(Known')
    BY <2>3, <2>7, <2>8 DEF OneReportEach, TableInv
  <2>10. clock' \in 0 .. MaxTick  BY <2>2
  <2> QED  BY <2>2, <2>5, <2>6, <2>9, <2>10 DEF TableInv, OneReportEach
<1>2. ASSUME UNCHANGED clock, Known' \subseteq Known PROVE TableInv'
  <2>1. IsFiniteSet(Known')  BY <1>2, FS_Subset DEF TableInv
  <2> QED  BY <1>2, <2>1 DEF TableInv, OneReportEach
<1>3. CASE Process
  <2>1. /\ UNCHANGED <<clock, uncommitted>> /\ rows' = CarryForward
        /\ seen' = seen \cup rows
    BY <1>3 DEF Process
  <2>2. Known' \subseteq Known  BY <2>1 DEF Known, CarryForward
  <2> QED  BY <1>2, <2>1, <2>2
<1>4. CASE FlushEmpty \/ Write \/ WriteFails \/ Commit \/ Crash \/ Discard \/ UNCHANGED vars
  <2>1. UNCHANGED <<clock, seen>>
    BY <1>4 DEF FlushEmpty, Write, WriteFails, Commit, Crash, Discard, vars, history
  <2>2. /\ rows' \subseteq rows \cup uncommitted
        /\ uncommitted' \subseteq uncommitted
    BY <1>4 DEF FlushEmpty, Write, WriteFails, Commit, Crash, Discard, vars, process, CarryForward
  <2>3. Known' \subseteq Known  BY <2>1, <2>2 DEF Known
  <2> QED  BY <1>2, <2>1, <2>3
<1> QED  BY <1>1, <1>3, <1>4 DEF Next

-----------------------------------------------------------------------------
(***************************************************************************)
(* The theorems.                                                           *)
(***************************************************************************)
\* No document spans a bucket in which the pair was seen apart, as long as each vehicle's
\* pings arrive in order.
THEOREM IncidentsStayDistinct ==
    ASSUME VehiclesInOrder
    PROVE  Spec => []NothingMergedAcross
<1>1. BunchingInv => NothingMergedAcross
  <2> SUFFICES ASSUME BunchingInv, NEW d \in docs, NEW s \in Separated(Pairs(seen)),
                      s.key = d.key, \A y \in InWindows(s) : y.distance > Threshold,
                      d.start <= s.bucket, s.bucket <= d.end
               PROVE  FALSE
    BY DEF NothingMergedAcross
  <2>1. Good(d) /\ d \in EventRecords  BY DEF BunchingInv, EventsInv, Good
  <2>2. s \in Pairs(seen)  BY DEF Separated
  <2>3. s.bucket \in Nat
    <3>1. \A p \in seen : IsPing(p)  BY KnownArePings DEF Known, BunchingInv
    <3> QED  BY <2>2, <3>1, PairsComeFromPings
  <2>4. s.bucket \in d.start .. d.end  BY <2>1, <2>3 DEF EventRecords
  <2>5. CASE SeenIn(d, s.bucket)
    <3>1. PICK z \in judged : z.key = s.key /\ z.bucket = s.bucket /\ z.distance <= Threshold
      BY <2>5 DEF SeenIn
    <3>2. z.distance \in Nat  BY DEF BunchingInv, JudgedInv
    <3> QED  BY <3>1, <3>2, DetectionAssumption DEF InWindows
  <2>6. CASE Unmet(d.key, s.bucket)  BY <2>2, <2>6 DEF Unmet
  <2> QED  BY <2>1, <2>4, <2>5, <2>6 DEF Good
<1> QED  BY BunchingInitially, BunchingStep, <1>1, PTL DEF Spec

\* A document keeps the nearest of the observations it spans, through failed writes and
\* restarts, as long as each vehicle's pings arrive in order.
THEOREM NearestIsKept ==
    ASSUME VehiclesInOrder
    PROVE  Spec => []MinimumKept
<1>1. BunchingInv => MinimumKept
  <2> SUFFICES ASSUME BunchingInv, NEW d \in docs, NEW x \in Close(Pairs(seen)),
                      x.key = d.key, d.start <= x.bucket, x.bucket <= d.end,
                      \A y \in InWindows(x) : y = x
               PROVE  d.nearest <= x.distance
    BY DEF MinimumKept
  <2>1. Good(d) /\ d \in EventRecords  BY DEF BunchingInv, EventsInv, Good
  <2>2. x \in Pairs(seen) /\ ~x.staged  BY DEF Close
  <2>3. x.bucket \in Nat
    <3>1. \A p \in seen : IsPing(p)  BY KnownArePings DEF Known, BunchingInv
    <3> QED  BY <2>2, <3>1, PairsComeFromPings
  <2>4. x.bucket \in d.start .. d.end  BY <2>1, <2>3 DEF EventRecords
  <2>5. CASE SeenIn(d, x.bucket)
    <3>1. PICK z \in judged : /\ z.key = x.key /\ z.bucket = x.bucket
                              /\ ~z.staged => d.nearest <= z.distance
      BY <2>5 DEF SeenIn
    <3>2. z = x  BY <3>1 DEF InWindows
    <3> QED  BY <2>2, <3>1, <3>2
  <2>6. CASE Unmet(d.key, x.bucket)  BY <2>2, <2>6 DEF Unmet
  <2> QED  BY <2>1, <2>4, <2>5, <2>6 DEF Good
<1> QED  BY BunchingInitially, BunchingStep, <1>1, PTL DEF Spec

\* As long as nothing fails and the vehicles report in step, no incident that an overlap
\* can show is cut apart: when a window has been written, any two observations of one are
\* in one document.
THEOREM NoIncidentIsMissed ==
    ASSUME PingsInStep, OverlapSuffices
    PROVE  Spec => []NoIncidentMissed
<1> DEFINE Inv == BunchingInv /\ IncidentInv
<1>1. VehiclesInOrder
  <2> SUFFICES ASSUME NEW t \in 1 .. MaxTick, NEW u \in 1 .. MaxTick, t < u,
                      NEW b \in Reports[t], NEW c \in Reports[u], NEW p \in b, NEW q \in c
               PROVE  p.at <= q.at
    BY DEF VehiclesInOrder
  <2> QED  BY DEF PingsInStep
<1>2. Init => Inv  BY BunchingInitially, IncidentsInitially
<1>3. Inv /\ [Next]_vars => Inv'  BY <1>1, BunchingStep, IncidentStep
<1>4. Inv => NoIncidentMissed
  <2> SUFFICES ASSUME Inv, pc = "commit", Undisturbed,
                      NEW x \in Close(Pairs(seen)), NEW y \in Close(Pairs(seen)),
                      OneIncident(x, y)
               PROVE  \E d \in docs : Reaches(d, x, y)
    BY DEF NoIncidentMissed, Reaches
  <2>1. OnItsWay = {}  BY DEF IncidentInv, PhaseInv, OnItsWay
  <2>2. AllReached(seen, docs)  BY <2>1 DEF IncidentInv, UndisturbedInv
  <2>3. Incident(seen, x, y)  BY DEF OneIncident, Incident, ApartIn
  <2> QED  BY <2>2, <2>3 DEF AllReached
<1> QED  BY <1>2, <1>3, <1>4, PTL DEF Spec

\* What the two notebooks and the engine have in common, for every threshold and
\* persistence, whatever was processed, as long as no vehicle reports twice at an instant.
THEOREM NotebooksCountTheSame ==
    ASSUME OneReportAtATime
    PROVE  Spec => []NotebooksAgree
<1>1. TableInv => NotebooksAgree
  <2> SUFFICES ASSUME TableInv PROVE NotebooksAgree  OBVIOUS
  <2>1. (\A p \in seen : IsPing(p)) /\ OneReportEach(seen) /\ IsFiniteSet(seen)
    <3>1. seen \subseteq Known  BY DEF Known
    <3>2. IsFiniteSet(seen)  BY <3>1, FS_Subset DEF TableInv
    <3> QED  BY <3>1, <3>2, TableArePings DEF TableInv, OneReportEach
  <2>2. Kept(seen) \subseteq Joined(Complete(WithDirection(seen)))
    BY <2>1, KeptAreComparable
  <2>3. {<<x.key, x.bucket, x.distance>> : x \in Pairs(seen)}
            = {<<r.key, r.bucket, r.distance>> : r \in Kept(seen)}
    BY <2>1, KeptArePairs
  <2>4. SweepInitial(Kept(seen)) = SweepByVehicles(seen)
    <3>1. \A d \in Thresholds, p \in Persistence : CountInitial(Kept(seen), d, p) = CountByVehicles(seen, d, p)
      BY <2>1, CountsAgree
    <3> DEFINE F(x) == CountInitial(Kept(seen), x[1], x[2])
               G(x) == CountByVehicles(seen, x[1], x[2])
    <3>2. SweepInitial(Kept(seen)) = [x \in Thresholds \X Persistence |-> F(x)]
      BY DEF SweepInitial
    <3>3. SweepByVehicles(seen) = [x \in Thresholds \X Persistence |-> G(x)]  BY DEF SweepByVehicles
    <3>4. \A x \in Thresholds \X Persistence : F(x) = G(x)  BY <3>1
    <3> HIDE DEF F, G
    <3> QED  BY <3>2, <3>3, <3>4
  <2>7. ASSUME PairsKeepTheirPath(seen) PROVE SweepByVehicles(seen) = Sweep(seen)
    <3>1. \A d \in Thresholds, p \in Persistence : CountByVehicles(seen, d, p) = CountBunchingEvents(seen, d, p)
      BY <2>1, <2>7, PathsArePairs
    <3> DEFINE F(x) == CountByVehicles(seen, x[1], x[2])
               G(x) == CountBunchingEvents(seen, x[1], x[2])
    <3>2. SweepByVehicles(seen) = [x \in Thresholds \X Persistence |-> F(x)]
      BY DEF SweepByVehicles
    <3>3. Sweep(seen) = [x \in Thresholds \X Persistence |-> G(x)]  BY DEF Sweep
    <3>4. \A x \in Thresholds \X Persistence : F(x) = G(x)  BY <3>1
    <3> HIDE DEF F, G
    <3> QED  BY <3>2, <3>3, <3>4
  <2> DEFINE D == {x \in Pairs(seen) : x.distance <= Threshold}
  <2>5. ASSUME NEW c \in Clusters(D) PROVE Cardinality(c.vehicles) >= 2
    <3>1. PICK edges \in SUBSET {e \in Vehicles \X Vehicles : e[1] < e[2]} :
                \E k \in FindConnectedComponents(edges) : c.vehicles = k
      <4> DEFINE Edges(g) == {<<x.key.a, x.key.b>> : x \in {y \in D :
                                <<y.key.route, y.key.direction, y.bucket>> = g}}
      <4>1. PICK g : \E k \in FindConnectedComponents(Edges(g)) : c.vehicles = k
        <5> DEFINE Row(g, k) == [route |-> g[1], direction |-> g[2], bucket |-> g[3],
                                 vehicles |-> k]
                   G == {<<x.key.route, x.key.direction, x.bucket>> : x \in D}
        <5>1. Clusters(D)
                = UNION {{Row(g, k) : k \in FindConnectedComponents(Edges(g))} : g \in G}
          BY DEF Clusters
        <5>2. \A g, k : Row(g, k).vehicles = k  OBVIOUS
        <5> HIDE DEF Row, G, Edges
        <5>3. PICK g \in G : c \in {Row(g, k) : k \in FindConnectedComponents(Edges(g))}
          BY <5>1
        <5>4. PICK k \in FindConnectedComponents(Edges(g)) : c = Row(g, k)  BY <5>3
        <5> QED  BY <5>2, <5>4
      <4>2. \A x \in D :
                x.key.a \in Vehicles /\ x.key.b \in Vehicles /\ x.key.a < x.key.b
        <5> SUFFICES ASSUME NEW x \in Pairs(seen)
                     PROVE  x.key.a \in Vehicles /\ x.key.b \in Vehicles /\ x.key.a < x.key.b
          OBVIOUS
        <5>1. PICK p \in Firsts(seen), q \in Firsts(seen) :
                    Comparable(p, q) /\ x = PairObservation(p, q)
          BY PairsAreComparable
        <5>2. p.vehicle \in Vehicles /\ q.vehicle \in Vehicles
          BY <2>1 DEF Firsts, FirstInBucket, Usable, IsPing
        <5> QED  BY <5>1, <5>2 DEF PairObservation, Comparable
      <4>3. Edges(g) \in SUBSET {e \in Vehicles \X Vehicles : e[1] < e[2]}  BY <4>2
      <4> HIDE DEF Edges
      <4> QED  BY <4>1, <4>3
    <3>2. PICK k \in FindConnectedComponents(edges) : c.vehicles = k  BY <3>1
    <3> QED  BY <3>2, ClustersAreShared
  <2>6. ASSUME NEW edges \in SUBSET {e \in Vehicles \X Vehicles : e[1] < e[2]}
        PROVE  FindConnectedComponents(edges) =
                    {Reachable(edges, v) : v \in UNION {{e[1], e[2]} : e \in edges}}
    <3>1. edges \in SUBSET (Vehicles \X Vehicles)  OBVIOUS
    <3> QED  BY <3>1, ComponentsAreFound DEF Endpoints
  <2> QED  BY <2>2, <2>3, <2>4, <2>5, <2>6, <2>7 DEF NotebooksAgree
<1> QED  BY TableInitially, TableStep, <1>1, PTL DEF Spec

=============================================================================
