------------------------ MODULE ScheduleMatchingProofs ------------------------
(***************************************************************************)
(* Theorems of ScheduleMatching and MatchingAnalysis, for every schedule,  *)
(* every day of a change of the clocks and every gate.                     *)
(***************************************************************************)
EXTENDS MatchingAnalysis, FiniteSetTheorems, WellFoundedInduction, TLAPS

-----------------------------------------------------------------------------
(***************************************************************************)
(* Induction, as a statement about sets of naturals: what a fold over a    *)
(* finite set needs to be the function its recursion describes.            *)
(***************************************************************************)
\* A set of naturals has a least element.
LEMMA LeastNatural ==
    ASSUME NEW S \in SUBSET Nat, S # {}
    PROVE  \E x \in S : \A y \in S : x <= y
<1> DEFINE R == OpToRel(<, Nat)
<1>1. IsWellFoundedOn(R, Nat)
  BY NatLessThanWellFounded
<1>2. \A x, y \in Nat : <<y, x>> \in R <=> y < x
  BY DEF OpToRel
<1> HIDE DEF R
<1>3. PICK x \in S : \A y \in S : ~(<<y, x>> \in R)
  BY <1>1, WFMin
<1>4. \A y \in S : ~(y < x)
  BY <1>2, <1>3
<1>5. x \in Nat /\ \A y \in S : y \in Nat
  OBVIOUS
<1> QED BY <1>4, <1>5

\* A set of naturals that holds 0 and the successors of what it holds is all of them.
LEMMA SetInduction ==
    ASSUME NEW P \in SUBSET Nat, 0 \in P, \A n \in P : n + 1 \in P
    PROVE  P = Nat
<1>1. SUFFICES ASSUME Nat \ P # {} PROVE FALSE  OBVIOUS
<1>2. PICK n \in Nat \ P : \A m \in Nat \ P : n <= m  BY <1>1, LeastNatural
<1>3. n # 0 /\ n - 1 \in Nat /\ ~(n <= n - 1) /\ (n - 1) + 1 = n  BY <1>2
<1>4. n - 1 \in P  BY <1>2, <1>3
<1> QED  BY <1>2, <1>3, <1>4

\* A recursion over the subsets of D: pick takes an element out, step deals with it.
Picks(pick, D) == \A s \in (SUBSET D) \ {{}} : pick[s] \in s

Steps(step, D, V) == \A d \in D, v \in V : step[<<d, v>>] \in V

Solution(g, D, V, base, pick, step) ==
    /\ g \in [SUBSET D -> V]
    /\ \A s \in SUBSET D :
        g[s] = IF s = {} THEN base ELSE step[<<pick[s], g[s \ {pick[s]}]>>]

\* Over a finite set it has a solution.
LEMMA SetRecursion ==
    ASSUME NEW D, IsFiniteSet(D), NEW V, NEW base \in V,
           NEW pick, Picks(pick, D), NEW step, Steps(step, D, V)
    PROVE  \E g : Solution(g, D, V, base, pick, step)
<1> USE DEF Picks, Steps
<1> DEFINE Small(n) == {s \in SUBSET D : Cardinality(s) <= n}
           Solves(g, n) == /\ g \in [SUBSET D -> V]
                           /\ \A s \in Small(n) :
                                g[s] = IF s = {} THEN base ELSE step[<<pick[s], g[s \ {pick[s]}]>>]
           P == {n \in Nat : \E g : Solves(g, n)}
<1>1. \A s \in SUBSET D : IsFiniteSet(s) /\ Cardinality(s) \in Nat
  BY FS_Subset, FS_CardinalityType
<1>2. 0 \in P
  <2> DEFINE g == [s \in SUBSET D |-> base]
  <2>1. \A s \in Small(0) : s = {}  BY <1>1, FS_EmptySet
  <2>2. Solves(g, 0)  BY <2>1
  <2> HIDE DEF g, Solves
  <2>3. \E f : Solves(f, 0)  BY <2>2
  <2> QED  BY <2>3
<1>3. ASSUME NEW n \in P PROVE n + 1 \in P
  <2>1. n \in Nat /\ \E g : Solves(g, n)  BY <1>3
  <2>2. PICK g : Solves(g, n)  BY <2>1
  <2> DEFINE h == [s \in SUBSET D |->
                    IF s = {} THEN base ELSE step[<<pick[s], g[s \ {pick[s]}]>>]]
  <2>3. h \in [SUBSET D -> V]
    <3>1. \A s \in SUBSET D : s # {} => pick[s] \in D /\ g[s \ {pick[s]}] \in V  BY <2>2
    <3> HIDE DEF Solves
    <3> QED  BY <3>1
  <2>4. \A s \in Small(n) : h[s] = g[s]  BY <2>2
  <2>5. ASSUME NEW s \in Small(n + 1), s # {} PROVE s \ {pick[s]} \in Small(n)
    <3>1. pick[s] \in s /\ s \in SUBSET D  BY <2>5
    <3>2. Cardinality(s \ {pick[s]}) = Cardinality(s) - 1
      BY <1>1, <3>1, FS_RemoveElement
    <3> QED  BY <1>1, <2>1, <3>1, <3>2
  <2>6. \A s \in Small(n + 1) :
            h[s] = IF s = {} THEN base ELSE step[<<pick[s], h[s \ {pick[s]}]>>]
    <3> SUFFICES ASSUME NEW s \in Small(n + 1), s # {}
                 PROVE  h[s] = step[<<pick[s], h[s \ {pick[s]}]>>]
      OBVIOUS
    <3>1. h[s \ {pick[s]}] = g[s \ {pick[s]}]  BY <2>4, <2>5
    <3> QED  BY <3>1
  <2>7. Solves(h, n + 1)  BY <2>3, <2>6
  <2> HIDE DEF h, Solves
  <2>8. \E f : Solves(f, n + 1)  BY <2>7
  <2> QED  BY <2>1, <2>8
<1>4. Cardinality(D) \in P
  <2> HIDE DEF P
  <2>1. P \in SUBSET Nat  BY DEF P
  <2>2. P = Nat  BY <1>2, <1>3, <2>1, SetInduction
  <2> QED  BY <1>1, <2>2
<1>5. PICK g : Solves(g, Cardinality(D))  BY <1>4
<1>6. SUBSET D = Small(Cardinality(D))  BY FS_Subset
<1> QED  BY <1>5, <1>6 DEF Solution

\* The image of a finite set is finite, and no larger.
LEMMA FiniteImage ==
    ASSUME NEW S, IsFiniteSet(S), NEW f, DOMAIN f = S
    PROVE  /\ IsFiniteSet({f[x] : x \in S})
           /\ Cardinality({f[x] : x \in S}) <= Cardinality(S)
<1> DEFINE T == {f[x] : x \in S}
           g == [x \in S |-> f[x]]
<1>1. g \in Surjection(S, T)  BY DEF Surjection
<1> HIDE DEF g, T
<1>2. IsFiniteSet(T) /\ Cardinality(T) <= Cardinality(S)  BY <1>1, FS_Surjection
<1> QED  BY <1>2 DEF T

\* Of two parts of a finite set, what one has more than the other.
LEMMA PartsAddUp ==
    ASSUME NEW S, IsFiniteSet(S), NEW T \in SUBSET S
    PROVE  /\ Cardinality(S) \in Nat /\ Cardinality(T) \in Nat /\ Cardinality(S \ T) \in Nat
           /\ Cardinality(T) + Cardinality(S \ T) = Cardinality(S)
<1>1. IsFiniteSet(T) /\ IsFiniteSet(S \ T)  BY FS_Subset, FS_Difference
<1>2. S \cap T = T  OBVIOUS
<1>3. Cardinality(S \ T) = Cardinality(S) - Cardinality(T)  BY <1>2, FS_Difference
<1> QED  BY <1>1, <1>3, FS_CardinalityType

USE DEF Hour, DayTicks, Shifts

-----------------------------------------------------------------------------
(***************************************************************************)
(* Dates and service days.                                                 *)
(***************************************************************************)
\* An instant has one date: the day it is between the midnights of.
LEMMA DateIsUnique ==
    ASSUME NEW s \in Shifts, NEW t \in Int, NEW d \in Days,
           Midnight(s, d) <= t, t < Midnight(s, d + 1)
    PROVE  DateOf(s, t) = d
<1>1. d \in Int /\ \A e \in Days : e \in Int  BY DaysAssumption DEF Days
<1>2. ASSUME NEW e \in Days, Midnight(s, e) <= t, t < Midnight(s, e + 1)
      PROVE  e = d
  <2>1. e \in Int /\ d \in Int  BY <1>1
  <2>2. CASE e < d  BY <2>1, <2>2, <1>2, DaysAssumption DEF Midnight
  <2>3. CASE d < e  BY <2>1, <2>3, <1>2, DaysAssumption DEF Midnight
  <2> QED  BY <2>1, <2>2, <2>3
<1> QED  BY <1>2 DEF DateOf

\* Of several candidates the nearest is the one that is strictly nearer than the others.
LEMMA NearestIsNearest ==
    ASSUME NEW t \in Int, NEW C \in SUBSET Int, NEW c \in C,
           \A e \in C : e # c => Apart(c, t) < Apart(e, t)
    PROVE  Nearest(t, C) = c
<1>1. \A e \in C : Apart(e, t) \in Int  BY DEF Apart
<1>2. ASSUME NEW x \in C,
             \A e \in C : \/ Apart(x, t) < Apart(e, t)
                          \/ Apart(x, t) = Apart(e, t) /\ x <= e
      PROVE  x = c
  BY <1>1, <1>2
<1>3. \A e \in C : \/ Apart(c, t) < Apart(e, t)
                   \/ Apart(c, t) = Apart(e, t) /\ c <= e
  OBVIOUS
<1> QED  BY <1>2, <1>3 DEF Nearest

\* The instant is on the service day, the day before it or the day after.
LEMMA DateIsNear ==
    ASSUME NEW s \in Shifts, NEW d \in FirstDay + 1 .. LastDay - 1,
           NEW offset \in Int, NEW delay \in Int, WithinReach(offset, delay)
    PROVE  DateOf(s, Anchor(s, d) + offset + delay) \in d - 1 .. d + 1
<1> DEFINE t == Anchor(s, d) + offset + delay
<1>1. d \in Int /\ t \in Int  BY DaysAssumption DEF Anchor, Noon
<1>2. d - 1 \in Days /\ d \in Days /\ d + 1 \in Days  BY DaysAssumption DEF Days
<1>3. Midnight(s, d - 1) <= t /\ t < Midnight(s, d + 2)
  BY <1>1, DaysAssumption DEF Midnight, Anchor, Noon, WithinReach
<1>4. /\ Midnight(s, d) \in Int /\ Midnight(s, d + 1) \in Int
      /\ (d - 1) + 1 = d /\ (d + 1) + 1 = d + 2
  BY <1>1, DaysAssumption DEF Midnight
<1>5. CASE t < Midnight(s, d)  BY <1>1, <1>2, <1>3, <1>4, <1>5, DateIsUnique
<1>6. CASE Midnight(s, d) <= t /\ t < Midnight(s, d + 1)
  BY <1>1, <1>2, <1>6, DateIsUnique
<1>7. CASE Midnight(s, d + 1) <= t  BY <1>1, <1>2, <1>3, <1>4, <1>7, DateIsUnique
<1> QED  BY <1>1, <1>4, <1>5, <1>6, <1>7

\* resolve_scheduled_datetime() finds the service day of a vehicle that is less than
\* half of the shortest day off its schedule, across midnight and a change of the clocks.
THEOREM ServiceDayIsFound ==
    ASSUME NEW s \in Shifts, NEW d \in FirstDay + 1 .. LastDay - 1,
           NEW offset \in Int, NEW delay \in Int, WithinReach(offset, delay)
    PROVE  ResolveScheduled(s, Anchor(s, d) + offset + delay, offset) = Anchor(s, d) + offset
<1> DEFINE t == Anchor(s, d) + offset + delay
           D == DateOf(s, t)
           C == {Anchor(s, D - 1) + offset, Anchor(s, D) + offset, Anchor(s, D + 1) + offset}
           c == Anchor(s, d) + offset
<1>1. d \in Int /\ t \in Int /\ D \in Int /\ D \in d - 1 .. d + 1
  <2>1. d \in Int /\ t \in Int  BY DaysAssumption DEF Anchor, Noon
  <2>2. D \in d - 1 .. d + 1  BY DateIsNear
  <2> QED  BY <2>1, <2>2
<1>2. c \in C  BY <1>1
<1>3. C \in SUBSET Int
  <2>1. \A e \in Int : Anchor(s, e) + offset \in Int  BY DaysAssumption DEF Anchor, Noon
  <2>2. D - 1 \in Int /\ D \in Int /\ D + 1 \in Int  BY <1>1
  <2> QED  BY <2>1, <2>2
<1>4. ASSUME NEW e \in Int, e # d PROVE Apart(c, t) < Apart(Anchor(s, e) + offset, t)
  <2>1. Apart(c, t) = IF delay >= 0 THEN delay ELSE -delay
    BY <1>1, DaysAssumption DEF Apart, Anchor, Noon
  <2>2. CASE e < d
    BY <1>1, <1>4, <2>1, <2>2, DaysAssumption DEF Apart, Anchor, Noon, WithinReach
  <2>3. CASE d < e
    BY <1>1, <1>4, <2>1, <2>3, DaysAssumption DEF Apart, Anchor, Noon, WithinReach
  <2> QED  BY <1>1, <1>4, <2>2, <2>3
<1>5. \A e \in C : e # c => Apart(c, t) < Apart(e, t)
  <2>1. D - 1 \in Int /\ D \in Int /\ D + 1 \in Int  BY <1>1
  <2>2. \A e \in Int : Anchor(s, e) + offset # c =>
            Apart(c, t) < Apart(Anchor(s, e) + offset, t)
    BY <1>4
  <2> HIDE DEF t, c, D
  <2> QED  BY <2>1, <2>2
<1>6. Nearest(t, C) = c
  <2> HIDE DEF t, c, C
  <2> QED  BY <1>1, <1>2, <1>3, <1>5, NearestIsNearest
<1> QED  BY <1>6 DEF ResolveScheduled

\* Every instant of the model has a date, and lies between its midnights.
LEMMA DateExists ==
    ASSUME NEW s \in Shifts, NEW t \in Begin .. End
    PROVE  /\ DateOf(s, t) \in Days
           /\ Midnight(s, DateOf(s, t)) <= t /\ t < Midnight(s, DateOf(s, t) + 1)
<1> DEFINE Is(d) == Midnight(s, d) <= t /\ t < Midnight(s, d + 1)
<1>1. t \in Int /\ FirstDay \in Int /\ LastDay \in Int  BY DaysAssumption, MatchingAssumption
<1>2. PICK q \in Int : 48 * q <= t /\ t < 48 * (q + 1)
  <2>1. 48 * (t \div 48) <= t /\ t < 48 * ((t \div 48) + 1) /\ t \div 48 \in Int  BY <1>1
  <2> QED  BY <2>1
<1>3. Is(q - 1) \/ Is(q) \/ Is(q + 1)  BY <1>1, <1>2, DaysAssumption DEF Midnight
<1>4. \E d \in Int : Is(d)  BY <1>2, <1>3
<1>5. PICK d \in Int : Is(d)  BY <1>4
<1>6. Midnight(s, FirstDay) <= t /\ t < Midnight(s, LastDay + 1)
  BY <1>1, MatchingAssumption, DaysAssumption DEF Midnight
<1>7. d \in Days  BY <1>1, <1>5, <1>6, DaysAssumption DEF Midnight, Days
<1> QED  BY <1>1, <1>5, <1>7, DateIsUnique

-----------------------------------------------------------------------------
(***************************************************************************)
(* The lookups and the deviations.                                         *)
(***************************************************************************)
\* A stop time that is served is a row of some bundle, under its own key.
StopTimesInv ==
    \A key \in DOMAIN static.stopTimes :
        \E b \in DOMAIN Bundles : \E st \in Bundles[b].stopTimes :
            /\ key = <<st.trip, st.sequence>>
            /\ static.stopTimes[key].trip = st.trip
            /\ static.stopTimes[key].sequence = st.sequence
            /\ static.stopTimes[key].arrival = st.arrival

ClockInv ==
    /\ shift \in Shifts /\ now \in Int
    /\ disk \in DOMAIN Bundles

ScheduleInv == ClockInv /\ StopTimesInv

\* What load() builds from a bundle of the feed serves rows of that bundle.
LEMMA SnapshotServesRows ==
    ASSUME NEW b \in DOMAIN Bundles, NEW today,
           NEW key \in DOMAIN Snapshot(Bundles[b], today).stopTimes
    PROVE  \E st \in Bundles[b].stopTimes :
            /\ key = <<st.trip, st.sequence>>
            /\ Snapshot(Bundles[b], today).stopTimes[key] = st
<1> DEFINE kept == KeptStopTimes(Bundles[b], today)
           lookup == Snapshot(Bundles[b], today).stopTimes
<1>1. lookup = StopTimesLookup(kept)  BY DEF Snapshot
<1>2. kept \subseteq Bundles[b].stopTimes  BY DEF KeptStopTimes
<1>3. key \in {<<st.trip, st.sequence>> : st \in kept}
  BY <1>1 DEF StopTimesLookup
<1>4. lookup[key] = CHOOSE st \in kept : <<st.trip, st.sequence>> = key
  BY <1>1, <1>3 DEF StopTimesLookup
<1>5. \E st \in kept : <<st.trip, st.sequence>> = key  BY <1>3
<1>6. lookup[key] \in kept /\ <<lookup[key].trip, lookup[key].sequence>> = key
  <2> HIDE DEF kept, lookup
  <2> QED  BY <1>4, <1>5
<1> QED  BY <1>2, <1>6

\* The bundles are numbered from 1.
LEMMA BundlesInOrder ==
    /\ 1 \in DOMAIN Bundles
    /\ \A b \in DOMAIN Bundles : b < Len(Bundles) => b + 1 \in DOMAIN Bundles
  BY MatchingAssumption

\* The clock stays within its bound, so that today is a day of the model.
BoundedInv == ClockInv /\ now \in Begin .. End

\* Where LoadBody builds an attribute, and where it assigns it.
BuildAt ==
    [date |-> 2, directions |-> 4, stopTimes |-> 5, stops |-> 6, terminals |-> 7,
     routes |-> 8, tripRoutes |-> 9, version |-> 10]

AssignAt ==
    [directions |-> 11, stopTimes |-> 12, stops |-> 13, terminals |-> 14, routes |-> 15,
     tripRoutes |-> 16, version |-> 17, date |-> 18]

\* What load() is to serve.
Fresh == Snapshots[<<disk, loading.locals.date>>]

\* While load() runs, what it built is of one bundle and one date, and what is served is the
\* old bundle's where it is not assigned yet.
RunningInv ==
    /\ DOMAIN loading.locals = Attributes
    /\ static = [a \in Attributes |-> static[a]]
    /\ loading.at > BuildAt["date"] => loading.locals.date \in Days
    /\ \A a \in Attributes : loading.at > BuildAt[a] => loading.locals[a] = Fresh[a]
    /\ \E b \in 1 .. disk, d \in Days : \A a \in Attributes :
        static[a] = IF loading.at > AssignAt[a] THEN loading.locals[a] ELSE Snapshots[<<b, d>>][a]

\* Between loads all the lookups are those of one bundle that was on disk, for one date.
ServedInv == \E b \in 1 .. disk, d \in Days : static = Snapshots[<<b, d>>]

LoadInv ==
    /\ loading.at \in 0 .. 18
    /\ IF Loading THEN RunningInv ELSE loading = NotLoading /\ ServedInv

OneBundleInv == BoundedInv /\ LoadInv

\* The order of load(): everything is built, whatever may raise, before an attribute is
\* assigned, and everything is assigned.
LEMMA BodyInOrder ==
    /\ Len(LoadBody) = 18
    /\ \A i \in 1 .. 18 :
        /\ LoadBody[i][1] \in {"check", "build", "assign"}
        /\ LoadBody[i][1] # "assign" <=> i <= 10
        /\ LoadBody[i][1] = "build" => LoadBody[i][2] \in Attributes /\ BuildAt[LoadBody[i][2]] = i
        /\ LoadBody[i][1] = "assign" => LoadBody[i][2] \in Attributes /\ AssignAt[LoadBody[i][2]] = i
    /\ \A a \in Attributes :
        /\ BuildAt[a] \in 2 .. 10 /\ LoadBody[BuildAt[a]] = <<"build", a>>
        /\ AssignAt[a] \in 11 .. 18 /\ LoadBody[AssignAt[a]] = <<"assign", a>>
        /\ a # "date" => BuildAt[a] > 2
<1>1. Len(LoadBody) = 18  BY DEF LoadBody
<1>2. ASSUME NEW i \in 1 .. 18
      PROVE  /\ LoadBody[i][1] \in {"check", "build", "assign"}
             /\ LoadBody[i][1] # "assign" <=> i <= 10
             /\ LoadBody[i][1] = "build" => LoadBody[i][2] \in Attributes /\ BuildAt[LoadBody[i][2]] = i
             /\ LoadBody[i][1] = "assign" => LoadBody[i][2] \in Attributes /\ AssignAt[LoadBody[i][2]] = i
  <2>1. \/ i = 1 \/ i = 2 \/ i = 3 \/ i = 4 \/ i = 5 \/ i = 6 \/ i = 7 \/ i = 8 \/ i = 9
        \/ i = 10 \/ i = 11 \/ i = 12 \/ i = 13 \/ i = 14 \/ i = 15 \/ i = 16 \/ i = 17 \/ i = 18
    OBVIOUS
  <2> QED  BY <2>1 DEF LoadBody, Attributes, BuildAt, AssignAt
<1>3. ASSUME NEW a \in Attributes
      PROVE  /\ BuildAt[a] \in 2 .. 10 /\ LoadBody[BuildAt[a]] = <<"build", a>>
             /\ AssignAt[a] \in 11 .. 18 /\ LoadBody[AssignAt[a]] = <<"assign", a>>
             /\ a # "date" => BuildAt[a] > 2
  BY <1>3 DEF LoadBody, Attributes, BuildAt, AssignAt
<1> QED  BY <1>1, <1>2, <1>3

\* A snapshot has the attributes, and nothing else.
LEMMA SnapshotHasAttributes ==
    ASSUME NEW bundle, NEW today
    PROVE  /\ DOMAIN Snapshot(bundle, today) = Attributes
           /\ Snapshot(bundle, today) = [a \in Attributes |-> Snapshot(bundle, today)[a]]
           /\ Snapshot(bundle, today)["date"] = today
  BY DEF Snapshot, Attributes

\* Snapshots are the snapshots.
LEMMA SnapshotsAreSnapshots ==
    ASSUME NEW b \in DOMAIN Bundles, NEW d \in Days
    PROVE  Snapshots[<<b, d>>] = Snapshot(Bundles[b], d)
<1>1. <<b, d>> \in (DOMAIN Bundles) \X Days  OBVIOUS
<1> QED  BY <1>1 DEF Snapshots

\* Every bundle that was on disk is one of the publisher's.
LEMMA WasOnDisk ==
    ASSUME ClockInv, NEW b \in 1 .. disk PROVE b \in DOMAIN Bundles
  BY MatchingAssumption DEF ClockInv

\* A record that agrees with a snapshot on every attribute is that snapshot.
LEMMA AttributesMakeTheSnapshot ==
    ASSUME NEW b \in DOMAIN Bundles, NEW d \in Days, NEW r, DOMAIN r = Attributes,
           r = [a \in Attributes |-> r[a]], \A a \in Attributes : r[a] = Snapshots[<<b, d>>][a]
    PROVE  r = Snapshots[<<b, d>>]
<1> DEFINE f == Snapshots[<<b, d>>]
<1>1. f = [a \in Attributes |-> f[a]]  BY SnapshotsAreSnapshots, SnapshotHasAttributes
<1>2. \A a \in Attributes : r[a] = f[a]  OBVIOUS
<1> HIDE DEF f
<1>3. r = f  BY <1>1, <1>2
<1> QED  BY <1>3 DEF f

\* A load() that raises leaves everything as it was: nothing is assigned by then.
LEMMA FailureKeepsTheBundle ==
    ASSUME OneBundleInv, LoadFails PROVE LoadInv'
<1> USE DEF OneBundleInv, BoundedInv
<1>1. RunningInv /\ loading.at \in 1 .. 18  BY DEF LoadFails, LoadInv, Loading
<1>2. loading.at <= 10
  <2>1. Statement[1] # "assign"  BY DEF LoadFails, StatementRaises, Raises
  <2> QED  BY <1>1, <2>1, BodyInOrder DEF Statement
<1>3. PICK b \in 1 .. disk, d \in Days : \A a \in Attributes :
        static[a] = IF loading.at > AssignAt[a] THEN loading.locals[a] ELSE Snapshots[<<b, d>>][a]
  BY <1>1 DEF RunningInv
<1>4. \A a \in Attributes : static[a] = Snapshots[<<b, d>>][a]
  <2>1. \A a \in Attributes : ~(loading.at > AssignAt[a])  BY <1>1, <1>2, BodyInOrder
  <2> QED  BY <1>3, <2>1
<1>5. static = Snapshots[<<b, d>>]
  BY <1>1, <1>4, WasOnDisk, AttributesMakeTheSnapshot DEF RunningInv
<1>6. static' = Snapshots[<<b, d>>] /\ disk' = disk /\ loading' = NotLoading
  BY <1>5 DEF LoadFails
<1> QED  BY <1>6 DEF LoadInv, ServedInv, Loading, NotLoading, Snapshots

\* A statement that builds adds what load() is to serve, and serves none of it.
LEMMA BuildsAreFresh ==
    ASSUME OneBundleInv, LoadBuilds PROVE LoadInv'
<1> USE DEF OneBundleInv, BoundedInv
<1>1. RunningInv /\ loading.at \in 1 .. 18  BY DEF LoadBuilds, LoadInv, Loading
<1> DEFINE at == loading.at
           a == Statement[2]
<1>2. at <= 10  BY <1>1, BodyInOrder DEF LoadBuilds, Statement
<1>3. UNCHANGED <<shift, now, disk, static>> /\ loading'.at = at + 1  BY DEF LoadBuilds
<1>4. loading'.at \in 0 .. 18 /\ Loading'  BY <1>1, <1>2, <1>3 DEF Loading
<1>5. \A c \in Attributes : ~(at > AssignAt[c]) /\ ~(at + 1 > AssignAt[c])
  BY <1>1, <1>2, BodyInOrder
<1>6. \E b \in 1 .. disk, d \in Days : \A c \in Attributes : static[c] = Snapshots[<<b, d>>][c]
  BY <1>1, <1>5 DEF RunningInv
<1>7. (\E b \in 1 .. disk, d \in Days : \A c \in Attributes : static[c] =
        IF loading.at > AssignAt[c] THEN loading.locals[c] ELSE Snapshots[<<b, d>>][c])'
  BY <1>3, <1>5, <1>6 DEF Snapshots
<1>8. CASE Statement[1] = "check"
  <2>1. loading'.locals = loading.locals  BY <1>8 DEF LoadBuilds
  <2>2. \A c \in Attributes : BuildAt[c] # at
    BY <1>1, <1>8, BodyInOrder DEF Statement
  <2>3. \A c \in Attributes : at + 1 > BuildAt[c] => at > BuildAt[c]
    BY <1>1, <2>2, BodyInOrder
  <2>4. Fresh' = Fresh  BY <1>3, <2>1 DEF Fresh, Snapshots
  <2>5. "date" \in Attributes  BY DEF Attributes
  <2>6. RunningInv'
    BY <1>1, <1>3, <1>7, <2>1, <2>3, <2>4, <2>5 DEF RunningInv
  <2> QED  BY <1>4, <2>6 DEF LoadInv
<1>9. CASE Statement[1] = "build"
  <2>1. loading'.locals = [loading.locals EXCEPT ![a] = Built(a)]  BY <1>9 DEF LoadBuilds
  <2>2. a \in Attributes /\ BuildAt[a] = at
    BY <1>1, <1>9, BodyInOrder DEF Statement
  <2>3. DOMAIN loading.locals = Attributes  BY <1>1 DEF RunningInv
  <2>4. /\ loading'.locals[a] = Built(a)
        /\ \A c \in Attributes : c # a => loading'.locals[c] = loading.locals[c]
    BY <2>1, <2>2, <2>3
  <2>5. \A c \in Attributes : at + 1 > BuildAt[c] => c = a \/ at > BuildAt[c]
    <3> SUFFICES ASSUME NEW c \in Attributes, at + 1 > BuildAt[c], ~(at > BuildAt[c])
                 PROVE  c = a
      OBVIOUS
    <3>1. BuildAt[c] = at  BY <1>1, BodyInOrder
    <3>2. LoadBody[at] = <<"build", c>> /\ LoadBody[at] = <<"build", a>>
      BY <2>2, <3>1, BodyInOrder
    <3> QED  BY <3>2
  <2>6. Today \in Days  BY DateExists DEF Today, ClockInv
  <2>7. CASE a = "date"
    <3>1. at = 2 /\ loading'.locals["date"] = Today
      BY <2>2, <2>4, <2>7 DEF Built, BuildAt
    <3>2. disk' \in DOMAIN Bundles /\ disk' = disk  BY <1>3 DEF ClockInv
    <3>3. Fresh' = Snapshot(Bundles[disk], Today)
      BY <2>6, <3>1, <3>2, SnapshotsAreSnapshots DEF Fresh, Snapshots
    <3>4. Fresh'["date"] = Today  BY <3>3, SnapshotHasAttributes
    <3>5. \A c \in Attributes : at + 1 > BuildAt[c] => c = "date"
      BY <3>1, BodyInOrder
    <3>6. \A c \in Attributes : at + 1 > BuildAt[c] => loading'.locals[c] = Fresh'[c]
      BY <3>1, <3>4, <3>5
    <3>7. DOMAIN loading'.locals = Attributes  BY <2>1, <2>3
    <3>8. RunningInv'
      BY <1>1, <1>3, <1>7, <2>6, <3>1, <3>6, <3>7 DEF RunningInv
    <3> QED  BY <1>4, <3>8 DEF LoadInv
  <2>8. CASE a # "date"
    <3>1. at > BuildAt["date"]
      <4>1. at > 2  BY <2>2, <2>8, BodyInOrder
      <4> QED  BY <4>1 DEF BuildAt
    <3>2. "date" \in Attributes  BY DEF Attributes
    <3>3. loading'.locals.date = loading.locals.date /\ loading.locals.date \in Days
      BY <1>1, <2>4, <2>8, <3>1, <3>2 DEF RunningInv
    <3>4. Fresh' = Fresh  BY <1>3, <3>3 DEF Fresh, Snapshots
    <3>5. Fresh = Snapshot(Bundles[disk], loading.locals.date)
      BY <3>3, SnapshotsAreSnapshots DEF Fresh, ClockInv
    <3>6. Built(a) = Fresh[a]  BY <2>8, <3>5 DEF Built
    <3>7. \A c \in Attributes : at + 1 > BuildAt[c] => loading'.locals[c] = Fresh'[c]
      BY <1>1, <2>4, <2>5, <3>4, <3>6 DEF RunningInv
    <3>8. DOMAIN loading'.locals = Attributes  BY <2>1, <2>3
    <3>9. RunningInv'
      BY <1>1, <1>3, <1>7, <3>3, <3>7, <3>8 DEF RunningInv
    <3> QED  BY <1>4, <3>9 DEF LoadInv
  <2> QED  BY <2>7, <2>8
<1> QED  BY <1>8, <1>9 DEF LoadBuilds

\* An assignment serves what was built; the last one leaves nothing of the old bundle.
LEMMA AssignmentsServeTheFresh ==
    ASSUME OneBundleInv, LoadAssigns PROVE LoadInv'
<1> USE DEF OneBundleInv, BoundedInv
<1>1. RunningInv /\ loading.at \in 1 .. 18  BY DEF LoadAssigns, LoadInv, Loading
<1> DEFINE at == loading.at
           a == Statement[2]
<1>2. at > 10 /\ a \in Attributes /\ AssignAt[a] = at
  BY <1>1, BodyInOrder DEF LoadAssigns, Statement
<1>3. UNCHANGED <<shift, now, disk>>  BY DEF LoadAssigns
<1>4. static' = [static EXCEPT ![a] = loading.locals[a]]  BY DEF LoadAssigns
<1>5. static = [c \in Attributes |-> static[c]]  BY <1>1 DEF RunningInv
<1>6. /\ static'[a] = loading.locals[a]
      /\ \A c \in Attributes : c # a => static'[c] = static[c]
      /\ DOMAIN static' = Attributes
      /\ static' = [c \in Attributes |-> static'[c]]
  BY <1>2, <1>4, <1>5
<1>7. \A c \in Attributes : at + 1 > AssignAt[c] => c = a \/ at > AssignAt[c]
  <2> SUFFICES ASSUME NEW c \in Attributes, at + 1 > AssignAt[c], ~(at > AssignAt[c])
               PROVE  c = a
    OBVIOUS
  <2>1. AssignAt[c] = at  BY <1>1, BodyInOrder
  <2>2. LoadBody[at] = <<"assign", c>> /\ LoadBody[at] = <<"assign", a>>
    BY <1>2, <2>1, BodyInOrder
  <2> QED  BY <2>2
<1>8. \A c \in Attributes : at > AssignAt[c] => at + 1 > AssignAt[c]  BY <1>1, BodyInOrder
<1>9. at + 1 > AssignAt[a]  BY <1>1, <1>2
<1>10. PICK b \in 1 .. disk, d \in Days : \A c \in Attributes :
        static[c] = IF at > AssignAt[c] THEN loading.locals[c] ELSE Snapshots[<<b, d>>][c]
  BY <1>1 DEF RunningInv
<1>11. \A c \in Attributes :
        static'[c] = IF at + 1 > AssignAt[c] THEN loading.locals[c] ELSE Snapshots[<<b, d>>][c]
  <2> TAKE c \in Attributes
  <2>1. CASE c = a  BY <1>6, <1>9, <2>1
  <2>2. CASE c # a
    <3>1. static'[c] = static[c]  BY <1>6, <2>2
    <3>2. at + 1 > AssignAt[c] <=> at > AssignAt[c]  BY <1>7, <1>8, <2>2
    <3> HIDE DEF at
    <3> QED  BY <1>10, <3>1, <3>2
  <2> QED  BY <2>1, <2>2
<1>12. at > BuildAt["date"] /\ \A c \in Attributes : at > BuildAt[c]
  <2>1. \A c \in Attributes : at > BuildAt[c]  BY <1>1, <1>2, BodyInOrder
  <2> QED  BY <2>1 DEF Attributes
<1>13. loading.locals.date \in Days /\ \A c \in Attributes : loading.locals[c] = Fresh[c]
  BY <1>1, <1>12 DEF RunningInv
<1>14. CASE at = 18
  <2>1. loading' = NotLoading  BY <1>14, BodyInOrder DEF LoadAssigns
  <2>2. \A c \in Attributes : at + 1 > AssignAt[c]  BY <1>14, BodyInOrder
  <2>3. \A c \in Attributes : static'[c] = Snapshots[<<disk, loading.locals.date>>][c]
    BY <1>11, <1>13, <2>2 DEF Fresh
  <2>4. static' = Snapshots[<<disk, loading.locals.date>>]
    BY <1>6, <1>13, <2>3, AttributesMakeTheSnapshot DEF ClockInv
  <2>5. disk \in 1 .. disk'  BY <1>3, MatchingAssumption DEF ClockInv
  <2>6. ServedInv'  BY <1>13, <2>4, <2>5 DEF ServedInv, Snapshots
  <2> QED  BY <2>1, <2>6 DEF LoadInv, Loading, NotLoading
<1>15. CASE at # 18
  <2>1. loading' = [loading EXCEPT !.at = at + 1]  BY <1>15, BodyInOrder DEF LoadAssigns
  <2>2. loading'.at = at + 1 /\ loading'.locals = loading.locals  BY <1>1, <2>1 DEF LoadInv
  <2>3. loading'.at \in 0 .. 18 /\ Loading'  BY <1>1, <1>15, <2>2 DEF Loading
  <2>4. Fresh' = Fresh  BY <1>3, <2>2 DEF Fresh, Snapshots
  <2>5. (\E e \in 1 .. disk, f \in Days : \A c \in Attributes : static[c] =
            IF loading.at > AssignAt[c] THEN loading.locals[c] ELSE Snapshots[<<e, f>>][c])'
    <3>1. \A c \in Attributes : static'[c] =
            IF loading'.at > AssignAt[c] THEN loading'.locals[c] ELSE Snapshots[<<b, d>>][c]
      BY <1>11, <2>2
    <3>2. disk' = disk /\ Snapshots' = Snapshots  BY <1>3 DEF Snapshots
    <3> HIDE DEF at, a
    <3> QED  BY <3>1, <3>2
  <2>6. DOMAIN loading.locals = Attributes  BY <1>1 DEF RunningInv
  <2>7. RunningInv'
    BY <1>6, <1>13, <2>2, <2>4, <2>5, <2>6 DEF RunningInv
  <2> QED  BY <2>3, <2>7 DEF LoadInv
<1> QED  BY <1>14, <1>15

\* The first load() is of the first bundle.
LEMMA OneBundleInitially == Init => OneBundleInv
<1> SUFFICES ASSUME Init PROVE OneBundleInv  OBVIOUS
<1>1. BoundedInv
  BY BundlesInOrder, MatchingAssumption DEF Init, BoundedInv, ClockInv
<1>2. DateOf(shift, now) \in Days  BY <1>1, DateExists DEF BoundedInv, ClockInv
<1>3. static = Snapshots[<<1, DateOf(shift, now)>>] /\ 1 \in 1 .. disk
  BY <1>2, BundlesInOrder, SnapshotsAreSnapshots DEF Init
<1>4. ServedInv  BY <1>2, <1>3 DEF ServedInv
<1> QED  BY <1>1, <1>4 DEF Init, OneBundleInv, LoadInv, Loading, NotLoading

\* A load() that starts has built and assigned nothing.
LEMMA StartServesTheOld ==
    ASSUME OneBundleInv, ~Loading, UNCHANGED <<shift, now, disk, static>>,
           loading' = [loading EXCEPT !.at = 1]
    PROVE  LoadInv'
<1> USE DEF OneBundleInv, BoundedInv
<1>1. loading = NotLoading /\ ServedInv  BY DEF LoadInv
<1>2. loading'.at = 1 /\ loading'.locals = Unbuilt  BY <1>1 DEF NotLoading
<1>3. \A a \in Attributes : ~(1 > BuildAt[a]) /\ ~(1 > AssignAt[a])  BY BodyInOrder
<1>4. PICK b \in 1 .. disk, d \in Days : static = Snapshots[<<b, d>>]  BY <1>1 DEF ServedInv
<1>5. static = [a \in Attributes |-> static[a]]
  BY <1>4, WasOnDisk, SnapshotsAreSnapshots, SnapshotHasAttributes
<1>6. "date" \in Attributes  BY DEF Attributes
<1>7. (\E c \in 1 .. disk, e \in Days : \A a \in Attributes : static[a] =
        IF loading.at > AssignAt[a] THEN loading.locals[a] ELSE Snapshots[<<c, e>>][a])'
  BY <1>2, <1>3, <1>4 DEF Snapshots
<1>8. RunningInv'  BY <1>2, <1>3, <1>5, <1>6, <1>7 DEF RunningInv, Unbuilt
<1> QED  BY <1>2, <1>8 DEF LoadInv, Loading

\* What is served and built depends on the bundles alone, of which more may come.
LEMMA LoadWaits ==
    ASSUME OneBundleInv, UNCHANGED <<static, loading>>, disk' >= disk, Loading => disk' = disk,
           disk' \in Int
    PROVE  LoadInv'
<1> USE DEF OneBundleInv, BoundedInv
<1>1. \A b \in 1 .. disk : b \in 1 .. disk'  BY MatchingAssumption DEF ClockInv
<1>2. CASE Loading
  <2>1. RunningInv /\ disk' = disk  BY <1>2 DEF LoadInv
  <2>2. RunningInv'  BY <2>1 DEF RunningInv, Fresh, Snapshots
  <2> QED  BY <1>2, <2>2 DEF LoadInv, Loading
<1>3. CASE ~Loading
  <2>1. ServedInv'  BY <1>1, <1>3 DEF LoadInv, ServedInv, Snapshots
  <2> QED  BY <1>3, <2>1 DEF LoadInv, Loading, NotLoading, Unbuilt
<1> QED  BY <1>2, <1>3

\* Between loads nothing touches the lookups, and a load() brings a bundle, or nothing.
LEMMA OneBundleStep == OneBundleInv /\ [Next]_vars => OneBundleInv'
<1> SUFFICES ASSUME OneBundleInv, [Next]_vars PROVE OneBundleInv'  OBVIOUS
<1> USE DEF OneBundleInv, BoundedInv
<1>1. CASE Tick
  <2>1. BoundedInv'  BY <1>1, MatchingAssumption DEF Tick, ClockInv
  <2>2. disk' >= disk /\ disk' \in Int  BY <1>1, MatchingAssumption DEF Tick, ClockInv
  <2> QED  BY <1>1, <2>1, <2>2, LoadWaits DEF Tick
<1>2. CASE Replace
  <2>1. BoundedInv'  BY <1>2, BundlesInOrder DEF Replace, ClockInv
  <2>2. disk' >= disk /\ disk' \in Int  BY <1>2, MatchingAssumption DEF Replace, ClockInv
  <2> QED  BY <1>2, <2>1, <2>2, LoadWaits DEF Replace
<1>3. CASE DateCheck
  <2>1. BoundedInv'  BY <1>3 DEF DateCheck, ClockInv
  <2>2. CASE ServiceDateStale  BY <1>3, <2>1, <2>2, StartServesTheOld DEF DateCheck
  <2>3. CASE ~ServiceDateStale
    <3>1. loading' = loading
      BY <1>3, <2>3 DEF DateCheck, LoadInv, NotLoading
    <3>2. disk' >= disk /\ disk' \in Int  BY <1>3, MatchingAssumption DEF DateCheck, ClockInv
    <3> QED  BY <1>3, <2>1, <3>1, <3>2, LoadWaits DEF DateCheck
  <2> QED  BY <2>2, <2>3
<1>4. CASE DailyCheck
  <2>1. BoundedInv'  BY <1>4 DEF DailyCheck, ClockInv
  <2> QED  BY <1>4, <2>1, StartServesTheOld DEF DailyCheck
<1>5. CASE LoadFails
  BY <1>5, FailureKeepsTheBundle DEF LoadFails, ClockInv
<1>6. CASE LoadBuilds
  BY <1>6, BuildsAreFresh DEF LoadBuilds, ClockInv
<1>7. CASE LoadAssigns
  BY <1>7, AssignmentsServeTheFresh DEF LoadAssigns, ClockInv
<1>8. ASSUME NEW pings, ProcessWindow(pings) PROVE OneBundleInv'
  <2>1. BoundedInv'  BY <1>8 DEF ProcessWindow, ClockInv
  <2>2. disk' >= disk /\ disk' \in Int  BY <1>8, MatchingAssumption DEF ProcessWindow, ClockInv
  <2> QED  BY <1>8, <2>1, <2>2, LoadWaits DEF ProcessWindow
<1>9. CASE UNCHANGED vars
  <2>1. BoundedInv'  BY <1>9 DEF vars, ClockInv
  <2>2. disk' >= disk /\ disk' \in Int  BY <1>9, MatchingAssumption DEF vars, ClockInv
  <2> QED  BY <1>9, <2>1, <2>2, LoadWaits DEF vars
<1> QED  BY <1>1, <1>2, <1>3, <1>4, <1>5, <1>6, <1>7, <1>8, <1>9 DEF Next

\* Whole or half replaced, the stop times that are served are one bundle's.
LEMMA ServedRowsAreRows == OneBundleInv => ScheduleInv
<1> SUFFICES ASSUME OneBundleInv PROVE ScheduleInv  OBVIOUS
<1> USE DEF OneBundleInv, BoundedInv
<1>1. \E b \in DOMAIN Bundles, d \in Days : static.stopTimes = Snapshot(Bundles[b], d).stopTimes
  <2>1. CASE ~Loading
    BY <2>1, WasOnDisk, SnapshotsAreSnapshots DEF LoadInv, ServedInv
  <2>2. CASE Loading
    <3>1. RunningInv /\ loading.at \in 1 .. 18  BY <2>2 DEF LoadInv, Loading
    <3>2. "stopTimes" \in Attributes  BY DEF Attributes
    <3>3. BuildAt["stopTimes"] = 5 /\ AssignAt["stopTimes"] = 12 /\ BuildAt["date"] = 2
      BY DEF BuildAt, AssignAt
    <3>4. CASE loading.at > 12
      <4>1. static["stopTimes"] = Fresh["stopTimes"] /\ loading.locals.date \in Days
        BY <3>1, <3>2, <3>3, <3>4 DEF RunningInv
      <4>2. Fresh = Snapshot(Bundles[disk], loading.locals.date)
        BY <4>1, SnapshotsAreSnapshots DEF Fresh, ClockInv
      <4> QED  BY <4>1, <4>2 DEF ClockInv
    <3>5. CASE ~(loading.at > 12)
      <4>1. PICK b \in 1 .. disk, d \in Days : static["stopTimes"] = Snapshots[<<b, d>>]["stopTimes"]
        BY <3>1, <3>2, <3>3, <3>5 DEF RunningInv
      <4> QED  BY <4>1, WasOnDisk, SnapshotsAreSnapshots
    <3> QED  BY <3>4, <3>5
  <2> QED  BY <2>1, <2>2
<1>2. StopTimesInv
  <2>1. PICK b \in DOMAIN Bundles, d \in Days : static.stopTimes = Snapshot(Bundles[b], d).stopTimes
    BY <1>1
  <2> QED  BY <2>1, SnapshotServesRows DEF StopTimesInv
<1> QED  BY <1>2 DEF ScheduleInv

\* A vehicle at a stop runs a scheduled arrival, on a service day, with a delay.
LEMMA VehiclesRunTheSchedule ==
    ASSUME ClockInv, NEW p \in AtStop
    PROVE  \E st \in Bundles[disk].stopTimes : \E d \in FirstDay + 1 .. LastDay - 1 :
            /\ st.arrival # Null
            /\ p.trip = st.trip /\ p.sequence = st.sequence
            /\ p.delay \in Delays
            /\ now = Anchor(shift, d) + st.arrival + p.delay
<1>1. PICK y \in Schedulings[disk] \X Delays :
        /\ Noon(shift, y[1][2]) - 12 * Hour + y[1][1].arrival + y[2] = now
        /\ p = [trip |-> y[1][1].trip, sequence |-> y[1][1].sequence, stop |-> y[1][1].stop,
                day |-> y[1][2], delay |-> y[2]]
  BY DEF AtStop
<1>2. y[1] \in Scheduling(Bundles[disk]) /\ y[2] \in Delays
  BY DEF Schedulings, ClockInv
<1>3. /\ y[1][1] \in Bundles[disk].stopTimes /\ y[1][1].arrival # Null
      /\ y[1][2] \in FirstDay + 1 .. LastDay - 1
  BY <1>2 DEF Scheduling
<1> QED  BY <1>1, <1>2, <1>3 DEF Anchor

\* A ping that may become a deviation is the stop's own one.
LEMMA ArrivalsAreAtStops ==
    ASSUME PlausibleFeed, StopTimesInv, NEW pings \in SUBSET Pings, NEW p \in Arrivals(pings)
    PROVE  p \in AtStop
<1>1. /\ p \in Pings /\ p.stop # Null /\ p.sequence # Null
      /\ <<p.trip, p.sequence>> \in DOMAIN static.stopTimes
  BY DEF Arrivals, MissesField, Scheduled, Key
<1>2. p.trip # "ADDED"  BY <1>1 DEF StopTimesInv, PlausibleFeed
<1>3. \A q \in AtStop : /\ [q EXCEPT !.stop = Null].stop = Null
                        /\ [q EXCEPT !.sequence = Null].sequence = Null
                        /\ [q EXCEPT !.trip = "ADDED"].trip = "ADDED"
  BY DEF AtStop
<1> QED  BY <1>1, <1>2, <1>3 DEF Pings

\* Its deviation is its delay.
LEMMA DeviationIsDelay ==
    ASSUME PlausibleFeed, ScheduleInv,
           NEW pings \in SUBSET Pings, NEW p \in Arrivals(pings)
    PROVE  DeviationOf(p) = p.delay
<1> USE DEF ScheduleInv
<1>1. PICK st \in Bundles[disk].stopTimes, d \in FirstDay + 1 .. LastDay - 1 :
        /\ st.arrival # Null
        /\ p.trip = st.trip /\ p.sequence = st.sequence
        /\ p.delay \in Delays
        /\ now = Anchor(shift, d) + st.arrival + p.delay
  BY ArrivalsAreAtStops, VehiclesRunTheSchedule
<1>2. static.stopTimes[Key(p)].arrival = st.arrival
  <2>1. Key(p) \in DOMAIN static.stopTimes  BY DEF Arrivals, Scheduled
  <2>2. PICK b \in DOMAIN Bundles : \E x \in Bundles[b].stopTimes :
            /\ Key(p) = <<x.trip, x.sequence>>
            /\ static.stopTimes[Key(p)].arrival = x.arrival
    BY <2>1 DEF StopTimesInv
  <2>3. PICK x \in Bundles[b].stopTimes :
            /\ Key(p) = <<x.trip, x.sequence>>
            /\ static.stopTimes[Key(p)].arrival = x.arrival
    BY <2>2
  <2>4. x.trip = st.trip /\ x.sequence = st.sequence  BY <1>1, <2>3 DEF Key
  <2> QED  BY <1>1, <2>3, <2>4 DEF PlausibleFeed, ClockInv
<1>3. st.arrival \in Int /\ p.delay \in Int /\ WithinReach(st.arrival, p.delay)
  BY <1>1, MatchingAssumption DEF PlausibleFeed, ClockInv
<1>4. ResolveScheduled(shift, now, st.arrival) = Anchor(shift, d) + st.arrival
  BY <1>1, <1>3, ServiceDayIsFound DEF ClockInv
<1>5. Anchor(shift, d) \in Int  BY DaysAssumption DEF Anchor, Noon, ClockInv
<1> QED  BY <1>1, <1>2, <1>3, <1>4, <1>5 DEF DeviationOf

\* The Nov 1-2 incident cannot come back: in a plausible feed every deviation is how late
\* the vehicle was for its own service day, on the days the clocks change too.
THEOREM DeviationsAreTrue ==
    ASSUME PlausibleFeed PROVE Spec => []DeviationIsTrue
<1>1. Init => DeviationIsTrue  BY DEF Init, DeviationIsTrue
<1>2. ASSUME ScheduleInv, DeviationIsTrue, [Next]_vars PROVE DeviationIsTrue'
  <2>1. CASE Tick \/ Replace \/ DateCheck \/ DailyCheck \/ LoadFails \/ LoadBuilds \/ LoadAssigns
    BY <2>1 DEF Tick, Replace, DateCheck, DailyCheck, LoadFails, LoadBuilds, LoadAssigns,
               Quiet, DeviationIsTrue
  <2>2. ASSUME NEW pings \in SUBSET Pings, ProcessWindow(pings) PROVE DeviationIsTrue'
    <3>1. \A p \in Arrivals(pings) : DeviationOf(p) = p.delay  BY <1>2, DeviationIsDelay
    <3>2. results' = {Deviation(p) : p \in {q \in Arrivals(pings) : PassesGate(q)}}
      BY <2>2 DEF ProcessWindow
    <3> QED  BY <3>1, <3>2 DEF DeviationIsTrue, Deviation
  <2>3. CASE UNCHANGED vars  BY <1>2, <2>3 DEF vars, DeviationIsTrue
  <2>4. \A pings \in kSubset(1, Pings) \cup kSubset(MaxWindow, Pings) : pings \in SUBSET Pings
    BY DEF kSubset
  <2> QED  BY <1>2, <2>1, <2>2, <2>3, <2>4 DEF Next
<1> QED  BY OneBundleInitially, OneBundleStep, ServedRowsAreRows, <1>1, <1>2, PTL DEF Spec

-----------------------------------------------------------------------------
\* Between loads the lookups are all of one bundle and one date, at whatever statement
\* load() raised and if midnight passed meanwhile: it assigns nothing before everything is
\* built, and leaves nothing of the old bundle.
THEOREM LookupsComeFromOneBundle == Spec => []LookupsOfOneBundle
<1>1. OneBundleInv => LookupsOfOneBundle
  <2> SUFFICES ASSUME OneBundleInv, ~Loading
               PROVE  \E b \in 1 .. disk : static = Snapshots[<<b, static.date>>]
    BY DEF LookupsOfOneBundle
  <2>1. PICK b \in 1 .. disk, d \in Days : static = Snapshots[<<b, d>>]
    BY DEF OneBundleInv, LoadInv, ServedInv
  <2>2. static.date = d
    BY <2>1, WasOnDisk, SnapshotsAreSnapshots, SnapshotHasAttributes DEF OneBundleInv, BoundedInv
  <2> QED  BY <2>1, <2>2
<1> QED  BY OneBundleInitially, OneBundleStep, <1>1, PTL DEF Spec

-----------------------------------------------------------------------------
(***************************************************************************)
(* The services that are kept.                                             *)
(***************************************************************************)
\* The last of some of the rows is one of them, and none of them is after it.
LEMMA LastOfRows ==
    ASSUME NEW n \in Nat, NEW s \in SUBSET (1 .. n), s # {}
    PROVE  Max(s) \in s /\ \A i \in s : i <= Max(s)
<1> DEFINE After == {n - i : i \in s}
<1>1. After \in SUBSET Nat /\ After # {}
  <2>1. PICK i \in s : TRUE  OBVIOUS
  <2>2. n - i \in After  OBVIOUS
  <2>3. \A j \in s : n - j \in Nat  OBVIOUS
  <2> QED  BY <2>2, <2>3
<1>2. PICK a \in After : \A b \in After : a <= b  BY <1>1, LeastNatural
<1>3. PICK i \in s : a = n - i  BY <1>2
<1>4. \A j \in s : i >= j
  <2> SUFFICES ASSUME NEW j \in s PROVE i >= j  OBVIOUS
  <2>1. n - j \in After  OBVIOUS
  <2>2. n - i <= n - j  BY <1>2, <1>3, <2>1
  <2> QED  BY <2>2
<1>5. \E x \in s : \A y \in s : x >= y  BY <1>4
<1>6. Max(s) \in s /\ \A y \in s : Max(s) >= y  BY <1>5 DEF Max
<1> QED  BY <1>6

\* Row by row: the services with the first rows of calendar_dates.txt.
LEMMA RowByRow ==
    ASSUME NEW bundle, NEW today, NEW rows, rows = ExceptionRows(bundle),
           NEW n \in Nat, DOMAIN rows = 1 .. n
    PROVE  \E active :
              /\ active[0] = ByPattern(bundle, today)
              /\ \A i \in 1 .. n : active[i] = WithException(today, active[i - 1], rows[i])
              /\ active[n] = ActiveServiceIds(bundle, today)
<1> DEFINE D == 1 .. n
           V == SUBSET (ByPattern(bundle, today) \cup {rows[i].service : i \in D})
           base == ByPattern(bundle, today)
           pick == [s \in (SUBSET D) \ {{}} |-> Max(s)]
           step == [x \in D \X V |-> WithException(today, x[2], rows[x[1]])]
           Solves(g) == g = [s \in SUBSET D |->
                IF s = {} THEN base ELSE WithException(today, g[s \ {Max(s)}], rows[Max(s)])]
           iter == CHOOSE g : Solves(g)
<1>1. IsFiniteSet(D) /\ base \in V
  <2>1. IsFiniteSet(1 .. n)  BY FS_Interval
  <2> QED  BY <2>1
<1>2. \A s \in (SUBSET D) \ {{}} : Max(s) \in s  BY LastOfRows
<1>3. Steps(step, D, V)  BY DEF Steps, WithException
<1>4. PICK g : Solution(g, D, V, base, pick, step)
  <2>1. IsFiniteSet(D)  BY <1>1
  <2>2. base \in V  BY <1>1
  <2>3. Picks(pick, D)  BY <1>2 DEF Picks
  <2> HIDE DEF D, V, base, step, pick
  <2> QED  BY <1>3, <2>1, <2>2, <2>3, SetRecursion
<1>5. Solves(g)
  <2>1. ASSUME NEW s \in SUBSET D, s # {}
        PROVE  g[s] = WithException(today, g[s \ {Max(s)}], rows[Max(s)])
    <3>1. pick[s] = Max(s) /\ Max(s) \in D /\ g[s \ {Max(s)}] \in V  BY <1>2, <1>4, <2>1 DEF Solution
    <3> HIDE DEF V, D
    <3> QED  BY <1>4, <2>1, <3>1 DEF Solution
  <2>2. g[{}] = base  BY <1>4 DEF Solution
  <2>3. \A s \in SUBSET D : g[s] =
            IF s = {} THEN base ELSE WithException(today, g[s \ {Max(s)}], rows[Max(s)])
    BY <2>1, <2>2
  <2> HIDE DEF D, V, base
  <2>4. g = [s \in SUBSET D |-> g[s]]  BY <1>4 DEF Solution
  <2> QED  BY <2>3, <2>4
<1>6. Solves(iter)
  <2> HIDE DEF Solves
  <2> QED  BY <1>5
<1>7. ActiveServiceIds(bundle, today) = iter[D]
  BY DEF ActiveServiceIds, FoldLeft, MapThenFoldSet
<1> DEFINE active == [i \in 0 .. n |-> iter[1 .. i]]
<1>8. active[0] = ByPattern(bundle, today)
  <2>1. 1 .. 0 = {} /\ 0 \in 0 .. n  OBVIOUS
  <2>2. iter[{}] = base  BY <1>6
  <2> HIDE DEF iter
  <2> QED  BY <2>1, <2>2
<1>9. ASSUME NEW i \in 1 .. n
      PROVE  active[i] = WithException(today, active[i - 1], rows[i])
  <2>1. 1 .. i \in SUBSET D /\ 1 .. i # {} /\ i \in 0 .. n /\ i - 1 \in 0 .. n
    <3>1. i \in Int /\ 1 <= i /\ i <= n  OBVIOUS
    <3>2. i \in 1 .. i  BY <3>1
    <3>3. \A x \in 1 .. i : x \in D  BY <3>1
    <3>4. i \in 0 .. n /\ i - 1 \in 0 .. n  BY <3>1
    <3> QED  BY <3>2, <3>3, <3>4
  <2>2. Max(1 .. i) = i
    <3>1. i \in Nat /\ 1 .. i \in SUBSET (1 .. i) /\ i \in 1 .. i  OBVIOUS
    <3>2. Max(1 .. i) \in 1 .. i /\ i <= Max(1 .. i)  BY <2>1, <3>1, LastOfRows
    <3> QED  BY <3>2
  <2>3. (1 .. i) \ {i} = 1 .. (i - 1)  OBVIOUS
  <2>4. iter[1 .. i] = WithException(today, iter[(1 .. i) \ {Max(1 .. i)}], rows[Max(1 .. i)])
    <3> HIDE DEF iter, D, base
    <3> QED  BY <1>6, <2>1
  <2> HIDE DEF iter
  <2> QED  BY <2>1, <2>2, <2>3, <2>4
<1>10. active[n] = ActiveServiceIds(bundle, today)
  <2> HIDE DEF iter
  <2> QED  BY <1>7
<1> HIDE DEF active
<1> QED  BY <1>8, <1>9, <1>10

\* A service that the calendar or a row gives to one of the days around today, and that no
\* row takes away from one of them, is kept.
LEMMA ServiceIsKept ==
    ASSUME NEW bundle, NEW today, NEW service,
           ExceptionRows(bundle) \in Seq(ToSet(ExceptionRows(bundle))),
           \/ service \in ByPattern(bundle, today)
           \/ \E r \in ToSet(ExceptionRows(bundle)) :
                r.service = service /\ r.type = "added" /\ r.day \in TargetDates(today),
           \A r \in ToSet(ExceptionRows(bundle)) :
                r.service = service /\ r.day \in TargetDates(today) => r.type = "added"
    PROVE  service \in ActiveServiceIds(bundle, today)
<1> DEFINE rows == ExceptionRows(bundle)
           n == Len(rows)
           Given(i) == \/ service \in ByPattern(bundle, today)
                       \/ \E j \in 1 .. i : /\ rows[j].service = service
                                           /\ rows[j].type = "added"
                                           /\ rows[j].day \in TargetDates(today)
<1>1. n \in Nat /\ DOMAIN rows = 1 .. n  OBVIOUS
<1>2. \A i \in 1 .. n : rows[i] \in ToSet(rows)  BY <1>1 DEF ToSet
<1>3. PICK active :
        /\ active[0] = ByPattern(bundle, today)
        /\ \A i \in 1 .. n : active[i] = WithException(today, active[i - 1], rows[i])
        /\ active[n] = ActiveServiceIds(bundle, today)
  <2> HIDE DEF n
  <2> QED  BY <1>1, RowByRow
<1> DEFINE P == {i \in Nat : i <= n /\ Given(i) => service \in active[i]}
<1>4. 0 \in P  BY <1>3
<1>5. ASSUME NEW i \in P PROVE i + 1 \in P
  <2> SUFFICES ASSUME i + 1 <= n, Given(i + 1) PROVE service \in active[i + 1]  OBVIOUS
  <2>1. i \in Nat /\ i + 1 \in 1 .. n /\ i <= n /\ (i + 1) - 1 = i  BY <1>1
  <2> DEFINE row == rows[i + 1]
  <2>2. active[i + 1] = WithException(today, active[i], row)  BY <1>3, <2>1
  <2>3. row \in ToSet(rows)  BY <1>2, <2>1
  <2>4. \/ Given(i)
        \/ row.service = service /\ row.type = "added" /\ row.day \in TargetDates(today)
    BY <2>1
  <2>5. row.service = service /\ row.day \in TargetDates(today) => row.type = "added"
    BY <2>3
  <2>6. Given(i) => service \in active[i]  BY <2>1
  <2> HIDE DEF Given, row, rows
  <2> QED  BY <2>2, <2>4, <2>5, <2>6 DEF WithException
<1>6. n \in P
  <2>1. P \in SUBSET Nat  OBVIOUS
  <2> HIDE DEF P
  <2>2. P = Nat  BY <1>4, <1>5, <2>1, SetInduction
  <2> QED  BY <1>1, <2>2
<1>7. Given(n)
  <2>1. \A r \in ToSet(rows) : \E j \in 1 .. n : r = rows[j]  BY <1>1 DEF ToSet
  <2> HIDE DEF rows, n
  <2> QED  BY <2>1 DEF rows
<1> QED  BY <1>1, <1>3, <1>6, <1>7

-----------------------------------------------------------------------------
(***************************************************************************)
(* What a window yields.                                                   *)
(***************************************************************************)
\* The deviations and the counts are those of the last window, whose pings are of now;
\* after any other step there is neither.
WindowInv ==
    /\ window \in SUBSET Pings
    /\ results = {Deviation(p) : p \in {q \in Arrivals(window) : PassesGate(q)}}
    /\ matching = ComputeMatchingStats(window,
                    Cardinality(Arrivals(window) \ {q \in Arrivals(window) : PassesGate(q)}))

\* Nothing is counted, and nothing deviates, where there is no ping.
LEMMA QuietWindow == Quiet => WindowInv'
<1> SUFFICES ASSUME Quiet PROVE WindowInv'  OBVIOUS
<1>1. window' = {} /\ results' = {} /\ matching' = MatchingStats(0, 0, 0, 0, 0)  BY DEF Quiet
<1>2. \A S \in SUBSET window' : S = {}  BY <1>1
<1>3. Arrivals(window)' = {}  BY <1>1 DEF Arrivals
<1>4. results' = {Deviation(p)' : p \in {q \in Arrivals(window)' : PassesGate(q)'}}
  BY <1>1, <1>3
<1>5. ComputeMatchingStats(window, Cardinality(Arrivals(window) \
            {q \in Arrivals(window) : PassesGate(q)}))' = MatchingStats(0, 0, 0, 0, 0)
  <2>1. Cardinality({}) = 0  BY FS_EmptySet
  <2>2. /\ {p \in {} : ~MissesField(p)} = {} /\ {} \ {} = {}
        /\ {p \in {} : Scheduled(p)'} = {} /\ {p \in {} : ~Scheduled(p)'} = {}
        /\ {p \in {} : PassesGate(p)'} = {}
    OBVIOUS
  <2> QED  BY <1>1, <1>3, <2>1, <2>2 DEF ComputeMatchingStats, MissesField
<1>6. window' \in SUBSET Pings'  BY <1>1
<1> QED  BY <1>1, <1>4, <1>5, <1>6 DEF WindowInv

LEMMA WindowInitially == Init => WindowInv
<1> SUFFICES ASSUME Init PROVE WindowInv  OBVIOUS
<1>1. window = {} /\ results = {} /\ matching = MatchingStats(0, 0, 0, 0, 0)  BY DEF Init
<1>2. Arrivals(window) = {}  BY <1>1 DEF Arrivals
<1>3. Cardinality({}) = 0  BY FS_EmptySet
<1>4. /\ {p \in {} : ~MissesField(p)} = {} /\ {} \ {} = {}
      /\ {p \in {} : Scheduled(p)} = {} /\ {p \in {} : ~Scheduled(p)} = {}
      /\ {p \in {} : PassesGate(p)} = {}
  OBVIOUS
<1>5. matching = ComputeMatchingStats(window, Cardinality(Arrivals(window) \
            {q \in Arrivals(window) : PassesGate(q)}))
  BY <1>1, <1>2, <1>3, <1>4 DEF ComputeMatchingStats, MissesField
<1> QED  BY <1>1, <1>2, <1>5 DEF WindowInv

LEMMA WindowStep == WindowInv /\ [Next]_vars => WindowInv'
<1> SUFFICES ASSUME WindowInv, [Next]_vars PROVE WindowInv'  OBVIOUS
<1>1. CASE Tick \/ Replace \/ DateCheck \/ DailyCheck \/ LoadFails \/ LoadBuilds \/ LoadAssigns
  BY <1>1, QuietWindow
  DEF Tick, Replace, DateCheck, DailyCheck, LoadFails, LoadBuilds, LoadAssigns
<1>2. ASSUME NEW pings \in SUBSET Pings, ProcessWindow(pings) PROVE WindowInv'
  <2>1. UNCHANGED <<shift, now, disk, static>>  BY <1>2 DEF ProcessWindow
  <2>2. Pings' = Pings  BY <2>1 DEF Pings, AtStop
  <2>3. \A q : /\ DeviationOf(q)' = DeviationOf(q) /\ Deviation(q)' = Deviation(q)
               /\ PassesGate(q)' = PassesGate(q) /\ Scheduled(q)' = Scheduled(q)
    BY <2>1 DEF DeviationOf, Deviation, PassesGate, Scheduled, LocationOf, RouteIdOf, RouteNameOf
  <2>4. Arrivals(window)' = Arrivals(pings)
    BY <1>2, <2>1, <2>3 DEF ProcessWindow, Arrivals
  <2>5. \A n : ComputeMatchingStats(pings, n)' = ComputeMatchingStats(pings, n)
    BY <2>3 DEF ComputeMatchingStats
  <2> QED  BY <1>2, <2>2, <2>3, <2>4, <2>5 DEF ProcessWindow, WindowInv
<1>3. CASE UNCHANGED vars
  <2>1. UNCHANGED <<shift, now, disk, static, window, results, matching>>  BY <1>3 DEF vars
  <2>2. Pings' = Pings  BY <2>1 DEF Pings, AtStop
  <2>3. \A q : /\ DeviationOf(q)' = DeviationOf(q) /\ Deviation(q)' = Deviation(q)
               /\ PassesGate(q)' = PassesGate(q) /\ Scheduled(q)' = Scheduled(q)
    BY <2>1 DEF DeviationOf, Deviation, PassesGate, Scheduled, LocationOf, RouteIdOf, RouteNameOf
  <2>4. Arrivals(window)' = Arrivals(window)  BY <2>1, <2>3 DEF Arrivals
  <2>5. \A n : ComputeMatchingStats(window, n)' = ComputeMatchingStats(window, n)
    BY <2>1, <2>3 DEF ComputeMatchingStats
  <2> QED  BY <2>1, <2>2, <2>3, <2>4, <2>5 DEF WindowInv
<1>4. \A pings \in kSubset(1, Pings) \cup kSubset(MaxWindow, Pings) : pings \in SUBSET Pings
  BY DEF kSubset
<1> QED  BY <1>1, <1>2, <1>3, <1>4 DEF Next

-----------------------------------------------------------------------------
(***************************************************************************)
(* Every ping is counted.                                                  *)
(***************************************************************************)
\* Finitely many vehicles are at a stop at a time.
LEMMA FinitePings == ASSUME FiniteFeed, ClockInv PROVE IsFiniteSet(Pings)
<1> DEFINE bundle == Bundles[disk]
           rows == bundle.stopTimes
           days == FirstDay + 1 .. LastDay - 1
<1>1. IsFiniteSet(rows) /\ IsFiniteSet(Delays)  BY DEF FiniteFeed, ClockInv
<1>2. IsFiniteSet(days)  BY DaysAssumption, FS_Interval
<1>3. Schedulings[disk] \in SUBSET (rows \X days)
  BY DEF Schedulings, Scheduling, ClockInv
<1>4. IsFiniteSet(rows \X days)
  <2> HIDE DEF rows, days
  <2> QED  BY <1>1, <1>2, FS_Product
<1>5. IsFiniteSet(Schedulings[disk])
  <2> HIDE DEF rows, days
  <2> QED  BY <1>3, <1>4, FS_Subset
<1>6. IsFiniteSet(Schedulings[disk] \X Delays)  BY <1>1, <1>5, FS_Product
<1> DEFINE there == {y \in Schedulings[disk] \X Delays :
                        Noon(shift, y[1][2]) - 12 * Hour + y[1][1].arrival + y[2] = now}
           ping == [y \in there |->
                      [trip |-> y[1][1].trip, sequence |-> y[1][1].sequence,
                       stop |-> y[1][1].stop, day |-> y[1][2], delay |-> y[2]]]
<1>7. IsFiniteSet(there)
  <2>1. there \in SUBSET (Schedulings[disk] \X Delays)  OBVIOUS
  <2> HIDE DEF there
  <2> QED  BY <1>6, <2>1, FS_Subset
<1>8. AtStop = {ping[y] : y \in there}  BY DEF AtStop
<1>9. IsFiniteSet(AtStop)
  <2>1. DOMAIN ping = there  OBVIOUS
  <2> HIDE DEF there, ping
  <2> QED  BY <1>7, <1>8, <2>1, FiniteImage
<1> DEFINE noStop == [p \in AtStop |-> [p EXCEPT !.stop = Null]]
           noSequence == [p \in AtStop |-> [p EXCEPT !.sequence = Null]]
           added == [p \in AtStop |-> [p EXCEPT !.trip = "ADDED"]]
<1>10. /\ IsFiniteSet({noStop[p] : p \in AtStop})
       /\ IsFiniteSet({noSequence[p] : p \in AtStop})
       /\ IsFiniteSet({added[p] : p \in AtStop})
  <2>1. DOMAIN noStop = AtStop /\ DOMAIN noSequence = AtStop /\ DOMAIN added = AtStop
    OBVIOUS
  <2> HIDE DEF noStop, noSequence, added
  <2> QED  BY <1>9, <2>1, FiniteImage
<1>11. Pings = ((AtStop \cup {noStop[p] : p \in AtStop})
                  \cup {noSequence[p] : p \in AtStop}) \cup {added[p] : p \in AtStop}
  BY DEF Pings
<1> HIDE DEF noStop, noSequence, added
<1>12. IsFiniteSet(AtStop \cup {noStop[p] : p \in AtStop})  BY <1>9, <1>10, FS_Union
<1>13. IsFiniteSet((AtStop \cup {noStop[p] : p \in AtStop}) \cup {noSequence[p] : p \in AtStop})
  BY <1>10, <1>12, FS_Union
<1> QED  BY <1>10, <1>11, <1>13, FS_Union

\* What compute_matching_stats() counts, and what the gate drops, add up.
LEMMA WindowAddsUp ==
    ASSUME WindowInv, IsFiniteSet(window) PROVE EveryPingCounted
<1> DEFINE complete == {p \in window : ~MissesField(p)}
           known == {p \in complete : Scheduled(p)}
           arrivals == Arrivals(window)
           passing == {p \in arrivals : PassesGate(p)}
           deviation == [p \in passing |-> Deviation(p)]
<1>1. /\ matching.total = Cardinality(window)
      /\ matching.matched = Cardinality(known)
      /\ matching.missing = Cardinality(window \ complete)
      /\ matching.unmatched = Cardinality({p \in complete : ~Scheduled(p)})
      /\ matching.dropped = Cardinality(arrivals \ passing)
  BY DEF WindowInv, ComputeMatchingStats, MatchingStats
<1>2. complete \in SUBSET window /\ known \in SUBSET complete /\ arrivals \in SUBSET known
      /\ passing \in SUBSET arrivals
  BY DEF Arrivals
<1>3. {p \in complete : ~Scheduled(p)} = complete \ known  OBVIOUS
<1>4. results = {deviation[p] : p \in passing} /\ DOMAIN deviation = passing
  BY DEF WindowInv
<1> HIDE DEF complete, known, arrivals, passing, deviation
<1>5. IsFiniteSet(complete) /\ IsFiniteSet(known)
  BY <1>2, FS_Subset
<1>6. IsFiniteSet(arrivals) /\ Cardinality(arrivals) <= Cardinality(known)
  BY <1>2, <1>5, FS_Subset
<1>7. IsFiniteSet(passing)  BY <1>2, <1>6, FS_Subset
<1>8. Cardinality(results) \in Nat /\ Cardinality(results) <= Cardinality(passing)
  <2>1. IsFiniteSet(results) /\ Cardinality(results) <= Cardinality(passing)
    BY <1>4, <1>7, FiniteImage
  <2> QED  BY <2>1, FS_CardinalityType
<1>9. /\ Cardinality(window) \in Nat /\ Cardinality(complete) \in Nat
      /\ Cardinality(window \ complete) \in Nat
      /\ Cardinality(complete) + Cardinality(window \ complete) = Cardinality(window)
  BY <1>2, PartsAddUp
<1>10. /\ Cardinality(known) \in Nat /\ Cardinality(complete \ known) \in Nat
       /\ Cardinality(known) + Cardinality(complete \ known) = Cardinality(complete)
  BY <1>2, <1>5, PartsAddUp
<1>11. /\ Cardinality(arrivals) \in Nat /\ Cardinality(passing) \in Nat
       /\ Cardinality(arrivals \ passing) \in Nat
       /\ Cardinality(passing) + Cardinality(arrivals \ passing) = Cardinality(arrivals)
  BY <1>2, <1>6, PartsAddUp
<1>12. matching.matched + matching.missing + matching.unmatched = matching.total
  BY <1>1, <1>3, <1>9, <1>10
<1>13. matching.dropped + Cardinality(results) <= matching.matched
  BY <1>1, <1>6, <1>8, <1>10, <1>11
<1> QED  BY <1>1, <1>12, <1>13 DEF EveryPingCounted

\* compute_matching_stats() counts every ping of a window once, matched, incomplete or
\* unmatched, and the gate and the deviations share out matched ones, whatever the
\* windows, the schedule and the clocks are.
THEOREM EveryPingIsCounted == ASSUME FiniteFeed PROVE Spec => []EveryPingCounted
<1>1. ScheduleInv /\ WindowInv => EveryPingCounted
  <2> SUFFICES ASSUME ScheduleInv, WindowInv PROVE EveryPingCounted  OBVIOUS
  <2>1. IsFiniteSet(Pings)  BY FinitePings DEF ScheduleInv
  <2>2. IsFiniteSet(window)  BY <2>1, FS_Subset DEF WindowInv
  <2> QED  BY <2>2, WindowAddsUp
<1> QED
  BY <1>1, OneBundleInitially, OneBundleStep, ServedRowsAreRows, WindowInitially, WindowStep,
     PTL DEF Spec

-----------------------------------------------------------------------------
(***************************************************************************)
(* Every on-time arrival is reported.                                      *)
(***************************************************************************)
\* An arrival that is due around today is of a service that is kept.
LEMMA DueServiceIsKept ==
    ASSUME WellFormedFeed, NEW b \in DOMAIN Bundles, NEW service, NEW d, NEW today,
           RunsOn(Bundles[b], service, d), d \in TargetDates(today),
           \A r \in ToSet(ExceptionRows(Bundles[b])) :
                r.service = service /\ r.day \in TargetDates(today) => r.type # "removed"
    PROVE  service \in ActiveServiceIds(Bundles[b], today)
<1> DEFINE bundle == Bundles[b]
           rows == ToSet(ExceptionRows(bundle))
<1>1. /\ ExceptionRows(bundle) \in Seq(rows)
      /\ \A r \in rows : r.type \in {"added", "removed"}
  BY DEF WellFormedFeed
<1>2. \/ service \in ByPattern(bundle, today)
      \/ \E r \in rows : r.service = service /\ r.day = d /\ r.type = "added"
  BY DEF RunsOn, ByPattern
<1>3. \/ service \in ByPattern(bundle, today)
      \/ \E r \in rows : r.service = service /\ r.type = "added" /\ r.day \in TargetDates(today)
  BY <1>2
<1>4. \A r \in rows : r.service = service /\ r.day \in TargetDates(today) => r.type = "added"
  BY <1>1
<1> HIDE DEF bundle
<1>5. service \in ActiveServiceIds(bundle, today)  BY <1>1, <1>3, <1>4, ServiceIsKept
<1> QED  BY <1>5 DEF bundle

\* The row of a vehicle at a stop is looked up, where no row of calendar_dates.txt takes
\* its service away.
LEMMA OnTimeIsLookedUp ==
    ASSUME PlausibleFeed, WellFormedFeed, ScheduleInv, static = Snapshot(Bundles[disk], Today),
           NEW p \in AtStop, ~RemovedNear(ServiceOf(p), Today)
    PROVE  /\ p.trip # Null
           /\ Key(p) \in DOMAIN static.stopTimes
           /\ static.stopTimes[Key(p)].arrival # Null
<1> USE DEF ScheduleInv, ClockInv
<1> DEFINE bundle == Bundles[disk]
<1>1. PICK y \in Schedulings[disk] \X Delays :
        /\ Noon(shift, y[1][2]) - 12 * Hour + y[1][1].arrival + y[2] = now
        /\ p = [trip |-> y[1][1].trip, sequence |-> y[1][1].sequence, stop |-> y[1][1].stop,
                day |-> y[1][2], delay |-> y[2]]
  BY DEF AtStop
<1> DEFINE st == y[1][1]
           d == y[1][2]
<1>2. y[1] \in Scheduling(bundle) /\ y[2] \in Delays
  BY DEF Schedulings
<1>3. /\ st \in bundle.stopTimes /\ st.arrival # Null /\ d \in FirstDay + 1 .. LastDay - 1
      /\ \E t \in bundle.trips : t.id = st.trip /\ RunsOn(bundle, t.service, d)
  BY <1>2 DEF Scheduling
<1>4. PICK t \in bundle.trips : t.id = st.trip /\ RunsOn(bundle, t.service, d)  BY <1>3
<1>5. ServiceOf(p) = t.service
  <2>1. t.id = p.trip /\ \A u \in bundle.trips : u.id = p.trip => u = t
    BY <1>1, <1>4 DEF WellFormedFeed
  <2>2. RowWith(bundle.trips, p.trip) = t  BY <2>1 DEF RowWith
  <2> QED  BY <2>2 DEF ServiceOf
<1>6. Today \in Int /\ d \in TargetDates(Today)
  <2>1. st.arrival \in Int /\ y[2] \in Int /\ WithinReach(st.arrival, y[2])
    BY <1>2, <1>3, MatchingAssumption DEF PlausibleFeed
  <2>2. now = Anchor(shift, d) + st.arrival + y[2]  BY <1>1 DEF Anchor
  <2> HIDE DEF st, d
  <2>3. Today \in d - 1 .. d + 1  BY <1>3, <2>1, <2>2, DateIsNear DEF Today
  <2>4. d \in Int  BY <1>3, DaysAssumption
  <2> QED  BY <2>3, <2>4 DEF TargetDates
<1>7. \A r \in ToSet(ExceptionRows(bundle)) :
        r.service = t.service /\ r.day \in TargetDates(Today) => r.type # "removed"
  <2>1. TargetDates(Today) = Today - 1 .. Today + 1  BY <1>6 DEF TargetDates
  <2> QED  BY <1>5, <2>1 DEF RemovedNear
<1>8. t.service \in ActiveServiceIds(bundle, Today)
  BY <1>4, <1>6, <1>7, DueServiceIsKept
<1>9. st \in KeptStopTimes(bundle, Today)
  <2>1. t \in KeptTrips(bundle, Today)  BY <1>8 DEF KeptTrips
  <2> QED  BY <1>3, <1>4, <2>1 DEF KeptStopTimes
<1>10. Key(p) = <<st.trip, st.sequence>> /\ p.trip = st.trip  BY <1>1 DEF Key
<1>11. Key(p) \in DOMAIN static.stopTimes
  BY <1>9, <1>10 DEF Snapshot, StopTimesLookup
<1>12. \E x \in bundle.stopTimes :
            /\ Key(p) = <<x.trip, x.sequence>> /\ static.stopTimes[Key(p)] = x
  BY <1>11, SnapshotServesRows
<1>13. static.stopTimes[Key(p)].arrival = st.arrival
  BY <1>3, <1>10, <1>12 DEF PlausibleFeed
<1>14. p.trip # Null  BY <1>3, <1>10 DEF WellFormedFeed
<1> QED  BY <1>3, <1>11, <1>13, <1>14

\* What is on time passes the gate.
LEMMA OnTimeIsADeviation ==
    ASSUME PlausibleFeed, WellFormedFeed, ScheduleInv, WindowInv,
           static = Snapshot(Bundles[disk], Today),
           NEW p \in window, InTime(p), ~RemovedNear(ServiceOf(p), Today)
    PROVE  p \in {r.ping : r \in results}
<1>1. p \in AtStop
  <2>1. p \in Pings /\ p.trip # "ADDED" /\ p.sequence # Null /\ p.stop # Null
    BY DEF WindowInv, InTime
  <2>2. \A q \in AtStop : /\ [q EXCEPT !.stop = Null].stop = Null
                          /\ [q EXCEPT !.sequence = Null].sequence = Null
                          /\ [q EXCEPT !.trip = "ADDED"].trip = "ADDED"
    BY DEF AtStop
  <2> QED  BY <2>1, <2>2 DEF Pings
<1>2. p \in Arrivals(window)
  BY <1>1, OnTimeIsLookedUp DEF Arrivals, InTime, MissesField, Scheduled
<1>3. DeviationOf(p) = p.delay  BY <1>2, DeviationIsDelay DEF WindowInv
<1>4. PassesGate(p)  BY <1>3 DEF InTime, PassesGate
<1>5. Deviation(p) \in results  BY <1>2, <1>4 DEF WindowInv
<1>6. Deviation(p).ping = p  BY DEF Deviation
<1> QED  BY <1>5, <1>6

\* Lookups of today's date and of the version on disk are what load() makes of the bundle on
\* disk.
LEMMA CurrentLookups ==
    ASSUME WellFormedFeed, OneBundleInv, UpToDate
    PROVE  static = Snapshot(Bundles[disk], Today)
<1> USE DEF OneBundleInv, BoundedInv
<1>1. ~Loading /\ static.date = Today /\ ~HasChanged  BY DEF UpToDate
<1>2. PICK b \in 1 .. disk, d \in Days : static = Snapshots[<<b, d>>]
  BY <1>1 DEF LoadInv, ServedInv
<1>3. disk \in DOMAIN Bundles /\ b \in DOMAIN Bundles  BY WasOnDisk DEF ClockInv
<1>4. static = Snapshot(Bundles[b], d)  BY <1>2, <1>3, SnapshotsAreSnapshots
<1>5. d = Today  BY <1>1, <1>4, SnapshotHasAttributes
<1>6. ComputeVersion(Bundles[b]) = ComputeVersion(Bundles[disk])
  BY <1>1, <1>4 DEF HasChanged, Snapshot
<1>7. b = disk  BY <1>3, <1>6 DEF WellFormedFeed
<1> QED  BY <1>4, <1>5, <1>7

\* In a plausible and well-formed feed every on-time arrival of a window yields its
\* deviation, across midnight and a change of the clocks, whatever bundles are replaced or
\* cannot be loaded, once the lookups are on the bundle and on the date.
THEOREM OnTimeArrivalsAreReported ==
    ASSUME PlausibleFeed, WellFormedFeed PROVE Spec => []OnTimeIsReported
<1>1. ScheduleInv /\ WindowInv /\ OneBundleInv => OnTimeIsReported
  <2> SUFFICES ASSUME ScheduleInv, WindowInv, OneBundleInv,
                      UpToDate, NEW p \in window, InTime(p), ~RemovedNear(ServiceOf(p), Today)
               PROVE  p \in {r.ping : r \in results}
    BY DEF OnTimeIsReported
  <2>1. static = Snapshot(Bundles[disk], Today)  BY CurrentLookups
  <2> QED  BY <2>1, OnTimeIsADeviation
<1> QED
  BY <1>1, OneBundleInitially, OneBundleStep, ServedRowsAreRows, WindowInitially, WindowStep,
     PTL DEF Spec

-----------------------------------------------------------------------------
(***************************************************************************)
(* The engine and the notebooks.                                           *)
(***************************************************************************)
\* A vehicle at a stop: the row, the service day and the trip it runs.
Runs(p, st, d, t) ==
    /\ st \in Bundles[disk].stopTimes /\ st.arrival # Null
    /\ d \in FirstDay + 1 .. LastDay - 1
    /\ t \in Bundles[disk].trips /\ t.id = st.trip
    /\ p.trip = st.trip /\ p.sequence = st.sequence /\ p.stop = st.stop /\ p.day = d
    /\ p.delay \in Delays
    /\ now = Anchor(shift, d) + st.arrival + p.delay

\* Every vehicle at a stop runs something.
LEMMA VehicleRuns ==
    ASSUME ClockInv, NEW p \in AtStop PROVE \E st, d, t : Runs(p, st, d, t)
<1>1. PICK y \in Schedulings[disk] \X Delays :
        /\ Noon(shift, y[1][2]) - 12 * Hour + y[1][1].arrival + y[2] = now
        /\ p = [trip |-> y[1][1].trip, sequence |-> y[1][1].sequence, stop |-> y[1][1].stop,
                day |-> y[1][2], delay |-> y[2]]
  BY DEF AtStop
<1>2. y[1] \in Scheduling(Bundles[disk]) /\ y[2] \in Delays  BY DEF Schedulings, ClockInv
<1>3. /\ y[1][1] \in Bundles[disk].stopTimes /\ y[1][1].arrival # Null
      /\ y[1][2] \in FirstDay + 1 .. LastDay - 1
  BY <1>2 DEF Scheduling
<1>4. PICK t \in Bundles[disk].trips : t.id = y[1][1].trip  BY <1>2 DEF Scheduling
<1>5. Runs(p, y[1][1], y[1][2], t)  BY <1>1, <1>2, <1>3, <1>4 DEF Runs, Anchor
<1> QED  BY <1>5

\* Its times are integers, and its arrival is at its anchor, its offset and its delay.
LEMMA RunsInTime ==
    ASSUME PlausibleFeed, ClockInv, NEW p, NEW st, NEW d, NEW t, Runs(p, st, d, t)
    PROVE  /\ st.arrival \in Int /\ p.delay \in Int
           /\ d \in FirstDay + 1 .. LastDay - 1 /\ d \in Int /\ d = p.day
           /\ Anchor(shift, d) \in Int /\ now = Anchor(shift, d) + st.arrival + p.delay
<1>1. st \in Bundles[disk].stopTimes /\ st.arrival # Null /\ p.delay \in Delays  BY DEF Runs
<1>2. st.arrival \in Int /\ p.delay \in Int
  BY <1>1, MatchingAssumption DEF PlausibleFeed, ClockInv
<1>3. d \in FirstDay + 1 .. LastDay - 1 /\ d = p.day  BY DEF Runs
<1>4. d \in Int  BY <1>3, DaysAssumption
<1>5. Anchor(shift, d) \in Int  BY <1>4, DaysAssumption DEF Anchor, Noon, ClockInv
<1> QED  BY <1>2, <1>3, <1>4, <1>5 DEF Runs

\* Where every row has a key of its own, the lookup of some rows finds each of them.
LEMMA RowIsFound ==
    ASSUME WellFormedFeed, ClockInv,
           NEW S \in SUBSET Bundles[disk].stopTimes, NEW st \in S
    PROVE  /\ <<st.trip, st.sequence>> \in DOMAIN StopTimesLookup(S)
           /\ StopTimesLookup(S)[<<st.trip, st.sequence>>] = st
<1> DEFINE key == <<st.trip, st.sequence>>
<1>1. key \in {<<x.trip, x.sequence>> : x \in S}  OBVIOUS
<1>2. \A x \in S : <<x.trip, x.sequence>> = key => x = st  BY DEF WellFormedFeed, ClockInv
<1>3. (CHOOSE x \in S : <<x.trip, x.sequence>> = key) = st  BY <1>2
<1> QED  BY <1>1, <1>3 DEF StopTimesLookup

\* What a lookup of some rows finds is one of them, under its own key.
LEMMA FoundIsRow ==
    ASSUME NEW S, NEW key \in DOMAIN StopTimesLookup(S)
    PROVE  \E st \in S : key = <<st.trip, st.sequence>>
  BY DEF StopTimesLookup

\* The hypotheses of what follows: a feed the lookups are current for, and a window.
Current ==
    /\ PlausibleFeed /\ WellFormedFeed
    /\ ScheduleInv /\ WindowInv /\ now \in Begin .. End
    /\ static = Snapshot(Bundles[disk], Today)

\* The pings the engine matches are those of active trips that the notebook's lookup,
\* without the filter by service, has a row for.
LEMMA MatchedByBoth ==
    ASSUME Current, NEW p \in window, ~MissesField(p)
    PROVE  Scheduled(p) <=>
            Active(p) /\ Key(p) \in DOMAIN SampleLookup(window, Bundles[disk])
<1> USE DEF Current, ScheduleInv
<1> DEFINE bundle == Bundles[disk]
           kept == KeptStopTimes(bundle, Today)
           sample == {st \in bundle.stopTimes : st.trip \in TripsOf(window)}
<1>1. static.stopTimes = StopTimesLookup(kept)  BY DEF Snapshot
<1>2. SampleLookup(window, bundle) = StopTimesLookup(sample)  BY DEF SampleLookup
<1>3. p.trip \in TripsOf(window)  BY DEF TripsOf, MissesField
<1>4. kept \in SUBSET bundle.stopTimes /\ sample \in SUBSET bundle.stopTimes
  BY DEF KeptStopTimes
<1>5. ASSUME Scheduled(p)
      PROVE  Active(p) /\ Key(p) \in DOMAIN SampleLookup(window, bundle)
  <2>1. PICK st \in kept : Key(p) = <<st.trip, st.sequence>>
    BY <1>1, <1>5, FoundIsRow DEF Scheduled
  <2>2. p.trip = st.trip /\ st \in bundle.stopTimes  BY <2>1, <1>4 DEF Key
  <2>3. Active(p)
    <3>1. CASE Filtered(bundle, Today)
      BY <2>1, <2>2, <3>1 DEF KeptStopTimes, Active
    <3>2. CASE ~Filtered(bundle, Today)
      <4>1. p.trip # "ADDED"  BY <2>2 DEF PlausibleFeed, ClockInv
      <4>2. \E t \in bundle.trips : t.id = p.trip
        <5>1. PICK q \in AtStop : p.trip = q.trip
          <6>1. p \in Pings  BY DEF WindowInv
          <6>2. \A q \in AtStop : /\ [q EXCEPT !.stop = Null].trip = q.trip
                                  /\ [q EXCEPT !.sequence = Null].trip = q.trip
                                  /\ [q EXCEPT !.trip = "ADDED"].trip = "ADDED"
            BY DEF AtStop
          <6>3. CASE p \in AtStop  BY <6>3
          <6>4. ASSUME NEW q \in AtStop, \/ p = [q EXCEPT !.stop = Null]
                                         \/ p = [q EXCEPT !.sequence = Null]
                                         \/ p = [q EXCEPT !.trip = "ADDED"]
                PROVE  p.trip = q.trip
            BY <4>1, <6>2, <6>4
          <6> QED  BY <6>1, <6>3, <6>4 DEF Pings
        <5>2. \E x, d, t : Runs(q, x, d, t)  BY VehicleRuns
        <5> QED  BY <5>1, <5>2 DEF Runs
      <4> QED  BY <3>2, <4>2 DEF Active, KeptTrips
    <3> QED  BY <3>1, <3>2
  <2>4. st \in sample  BY <1>3, <2>2
  <2> QED  BY <1>2, <1>4, <2>1, <2>3, <2>4, RowIsFound
<1>6. ASSUME Active(p), Key(p) \in DOMAIN SampleLookup(window, bundle)
      PROVE  Scheduled(p)
  <2>1. PICK st \in sample : Key(p) = <<st.trip, st.sequence>>
    BY <1>2, <1>6, FoundIsRow
  <2>2. p.trip = st.trip  BY <2>1 DEF Key
  <2>3. st \in kept  BY <1>6, <2>1, <2>2 DEF Active, KeptStopTimes
  <2> QED  BY <1>1, <1>4, <2>1, <2>3, RowIsFound DEF Scheduled
<1> QED  BY <1>5, <1>6

\* The directions of active trips are those of trips.txt.
LEMMA DirectionsAgree ==
    ASSUME Current, NEW p \in DirectlyReported(window), Active(p)
    PROVE  /\ p \in StopButNoDirection(window, Bundles[disk])
                <=> p.trip \notin DOMAIN static.directions
           /\ p.trip \notin MissingTrips(window, Bundles[disk])
<1> USE DEF Current, ScheduleInv
<1> DEFINE bundle == Bundles[disk]
<1>1. PICK t \in KeptTrips(bundle, Today) : t.id = p.trip  BY DEF Active
<1>2. t \in bundle.trips /\ \A u \in bundle.trips : u.id = p.trip => u = t
  BY <1>1 DEF KeptTrips, WellFormedFeed, ClockInv
<1>3. p.trip \in DOMAIN DirectionLookup(bundle.trips) <=> t.direction # Null
  BY <1>1, <1>2 DEF DirectionLookup
<1>4. p.trip \in DOMAIN DirectionLookup(KeptTrips(bundle, Today)) <=> t.direction # Null
  BY <1>1, <1>2 DEF DirectionLookup, KeptTrips
<1>5. static.directions = DirectionLookup(KeptTrips(bundle, Today))  BY DEF Snapshot
<1>6. p.trip \notin MissingTrips(window, bundle)  BY <1>1, <1>2 DEF MissingTrips
<1> QED  BY <1>3, <1>4, <1>5, <1>6 DEF StopButNoDirection

\* A deviation is of a vehicle at a stop, with the row it ran in the lookups.
LEMMA DeviationRuns ==
    ASSUME Current, NEW r \in results
    PROVE  LET p == r.ping
           IN  /\ p \in window /\ p \in Arrivals(window) /\ PassesGate(p)
               /\ r = Deviation(p) /\ r.seconds = p.delay
               /\ \E st, d, t : Runs(p, st, d, t) /\ static.stopTimes[Key(p)] = st
<1> USE DEF Current, ScheduleInv
<1>1. PICK p \in Arrivals(window) : PassesGate(p) /\ r = Deviation(p)  BY DEF WindowInv
<1>2. r.ping = p /\ r.seconds = DeviationOf(p)  BY <1>1 DEF Deviation
<1>3. window \in SUBSET Pings /\ p \in window  BY DEF WindowInv, Arrivals
<1>4. DeviationOf(p) = p.delay  BY <1>3, DeviationIsDelay
<1>5. PICK st, d, t : Runs(p, st, d, t)  BY <1>3, ArrivalsAreAtStops, VehicleRuns
<1>6. static.stopTimes[Key(p)] = st
  <2>1. Key(p) \in DOMAIN static.stopTimes  BY DEF Arrivals, Scheduled
  <2>2. PICK x \in Bundles[disk].stopTimes :
            Key(p) = <<x.trip, x.sequence>> /\ static.stopTimes[Key(p)] = x
    BY <2>1, SnapshotServesRows DEF ClockInv
  <2>3. x = st  BY <1>5, <2>2 DEF Runs, Key, WellFormedFeed, ClockInv
  <2> QED  BY <2>2, <2>3
<1> QED  BY <1>1, <1>2, <1>3, <1>4, <1>5, <1>6

\* Its place is that of the ping's own stop_id.
LEMMA PlacesAgree ==
    ASSUME Current, NEW r \in results
    PROVE  [ping |-> r.ping, place |-> r.location] \in WithStop(window, Bundles[disk])
<1> DEFINE p == r.ping
<1>1. p \in window /\ r.location = LocationOf(p)  BY DeviationRuns DEF Deviation
<1>2. static.stopTimes[Key(p)].stop = p.stop  BY DeviationRuns DEF Runs
<1>3. static.stops = StopsLookup(Bundles[disk].stops)  BY DEF Current, Snapshot
<1>4. LocationOf(p) = PlaceOf(Bundles[disk].stops, p)
  BY <1>2, <1>3 DEF LocationOf, PlaceOf, StopsLookup
<1> QED  BY <1>1, <1>4 DEF WithStop

\* Away from the night the clocks change, 24 hours around a midnight are the service days.
LEMMA PrototypeIsRight ==
    ASSUME NEW s \in Shifts, NEW t, NEW offset \in Int, DateOf(s, t) \in Int,
           s = 0 \/ DateOf(s, t) \notin {ShiftDay - 1, ShiftDay}
    PROVE  ResolveFromMidnight(s, t, offset) = ResolveScheduled(s, t, offset)
<1> DEFINE d == DateOf(s, t)
<1>1. /\ Midnight(s, d) - DayTicks = Anchor(s, d - 1)
      /\ Midnight(s, d) = Anchor(s, d)
      /\ Midnight(s, d) + DayTicks = Anchor(s, d + 1)
  BY DaysAssumption DEF Midnight, Anchor, Noon
<1> QED  BY <1>1 DEF ResolveFromMidnight, ResolveScheduled

\* Of active trips the prototype finds the engine's deviations, and no others.
LEMMA PrototypeAgrees ==
    ASSUME Current, ~ClocksChange
    PROVE  {[ping |-> r.ping, seconds |-> r.seconds] : r \in results}
                = {x \in PrototypeArrivals(window, Bundles[disk]) : Active(x.ping)}
<1> USE DEF Current, ScheduleInv
<1> DEFINE bundle == Bundles[disk]
           reported == {[ping |-> r.ping, seconds |-> r.seconds] : r \in results}
           found == {x \in PrototypeArrivals(window, bundle) : Active(x.ping)}
<1>1. Today \in Int  BY DateExists, DaysAssumption DEF Today, ClockInv, Days
<1>2. \A st \in bundle.stopTimes : st.arrival # Null =>
        PrototypeDeviation(st) = now - ResolveScheduled(shift, now, st.arrival)
  <2> SUFFICES ASSUME NEW st \in bundle.stopTimes, st.arrival # Null
               PROVE  PrototypeDeviation(st) = now - ResolveScheduled(shift, now, st.arrival)
    OBVIOUS
  <2>1. st.arrival \in Int  BY DEF PlausibleFeed, ClockInv
  <2>2. ResolveFromMidnight(shift, now, st.arrival) = ResolveScheduled(shift, now, st.arrival)
    BY <1>1, <2>1, PrototypeIsRight DEF ClocksChange, Today, ClockInv
  <2> QED  BY <2>2 DEF PrototypeDeviation, ScheduledTime
<1>3. ASSUME NEW r \in results PROVE [ping |-> r.ping, seconds |-> r.seconds] \in found
  <2> DEFINE p == r.ping
  <2>1. PICK st, d, t : Runs(p, st, d, t) /\ static.stopTimes[Key(p)] = st  BY DeviationRuns
  <2>2. /\ p \in window /\ p \in Arrivals(window) /\ PassesGate(p)
        /\ r.seconds = DeviationOf(p)
    BY DeviationRuns DEF Deviation
  <2>3. PrototypeDeviation(st) = DeviationOf(p)
    BY <1>2, <2>1 DEF DeviationOf, Runs
  <2>4. <<p, st>> \in WithSchedule(window, bundle)
    <3>1. p \in DirectlyReported(window)  BY <2>2 DEF DirectlyReported, Arrivals
    <3>2. ScheduledTime(st) # Null /\ Key(p) = <<st.trip, st.sequence>>
      BY <2>1 DEF Runs, ScheduledTime, Key
    <3> QED  BY <2>1, <3>1, <3>2 DEF WithSchedule, Runs
  <2>5. [ping |-> p, seconds |-> PrototypeDeviation(st)] \in PrototypeArrivals(window, bundle)
    <3>1. st.arrival # Null /\ Apart(PrototypeDeviation(st), 0) <= Gate
      BY <2>1, <2>2, <2>3 DEF PassesGate, Runs
    <3> QED  BY <2>4, <3>1 DEF PrototypeArrivals
  <2>6. Active(p)  BY <2>2, MatchedByBoth DEF Arrivals
  <2> QED  BY <2>2, <2>3, <2>5, <2>6
<1>4. ASSUME NEW x \in found PROVE x \in reported
  <2>1. PICK y \in WithSchedule(window, bundle) :
            /\ y[2].arrival # Null /\ Apart(PrototypeDeviation(y[2]), 0) <= Gate
            /\ x = [ping |-> y[1], seconds |-> PrototypeDeviation(y[2])]
    BY DEF PrototypeArrivals
  <2> DEFINE p == y[1]
             st == y[2]
  <2>2. /\ p \in DirectlyReported(window) /\ st \in bundle.stopTimes
        /\ Key(p) = <<st.trip, st.sequence>>
    BY DEF WithSchedule
  <2>3. /\ p \in window /\ p.stop # Null /\ Active(p)
        /\ p.trip = st.trip /\ p.sequence = st.sequence
    BY <2>1, <2>2 DEF DirectlyReported, Key
  <2>4. ~MissesField(p)  BY <2>2, <2>3 DEF MissesField, WellFormedFeed, ClockInv
  <2>5. st \in KeptStopTimes(bundle, Today)  BY <2>2, <2>3 DEF Active, KeptStopTimes
  <2>6. Scheduled(p) /\ static.stopTimes[Key(p)] = st
    <3>1. static.stopTimes = StopTimesLookup(KeptStopTimes(bundle, Today))  BY DEF Snapshot
    <3>2. KeptStopTimes(bundle, Today) \in SUBSET bundle.stopTimes  BY DEF KeptStopTimes
    <3> QED  BY <2>2, <2>5, <3>1, <3>2, RowIsFound DEF Scheduled
  <2>7. p \in Arrivals(window)  BY <2>1, <2>3, <2>4, <2>6 DEF Arrivals
  <2>8. DeviationOf(p) = PrototypeDeviation(st)  BY <1>2, <2>1, <2>2, <2>6 DEF DeviationOf
  <2>9. PassesGate(p)  BY <2>1, <2>8 DEF PassesGate
  <2>10. Deviation(p) \in results  BY <2>7, <2>9 DEF WindowInv
  <2>11. Deviation(p).ping = p /\ Deviation(p).seconds = DeviationOf(p)  BY DEF Deviation
  <2> HIDE DEF p, st
  <2> QED  BY <2>1, <2>8, <2>10, <2>11 DEF p, st
<1> QED  BY <1>3, <1>4

\* A deviation of an earlier service day, of a vehicle that is not late, was due after
\* 24:00:00.
LEMMA EarlyCrossersAreAfterMidnight ==
    ASSUME Current, NEW r \in results, r.ping.day < Today, r.seconds <= 0
    PROVE  SampleLookup(window, Bundles[disk])[Key(r.ping)]
                \in MidnightCrossers(window, Bundles[disk])
<1> USE DEF Current, ScheduleInv
<1> DEFINE bundle == Bundles[disk]
           p == r.ping
           sample == {st \in bundle.stopTimes : st.trip \in TripsOf(window)}
<1>1. PICK st, d, t : Runs(p, st, d, t)  BY DeviationRuns
<1>2. p \in window /\ p \in Arrivals(window) /\ p.delay <= 0  BY DeviationRuns
<1>3. st.trip \in TripsOf(window)  BY <1>1, <1>2 DEF Runs, TripsOf, Arrivals, MissesField
<1>4. st.arrival \in Int /\ p.delay \in Int /\ d \in Int /\ now \in Int /\ d = p.day
  BY <1>1, RunsInTime DEF ClockInv
<1>5. Today \in Int /\ Midnight(shift, Today) <= now
  <2>1. Today \in Days  BY DateExists DEF Today, ClockInv
  <2> QED  BY <2>1, DateExists, DaysAssumption DEF Today, ClockInv, Days
<1>6. st.arrival >= DayTicks
  <2>1. now = Anchor(shift, d) + st.arrival + p.delay  BY <1>1 DEF Runs
  <2>2. d < Today  BY <1>4
  <2>3. Anchor(shift, d) + DayTicks <= Midnight(shift, Today)
    BY <1>4, <1>5, <2>2, DaysAssumption DEF Anchor, Noon, Midnight, ClockInv
  <2>4. Anchor(shift, d) \in Int /\ Midnight(shift, Today) \in Int
    BY <1>4, <1>5, DaysAssumption DEF Anchor, Noon, Midnight, ClockInv
  <2> HIDE DEF p
  <2> QED  BY <1>2, <1>4, <1>5, <2>1, <2>3, <2>4
<1>7. st \in MidnightCrossers(window, bundle)
  BY <1>1, <1>3, <1>6 DEF Runs, MidnightCrossers
<1>8. SampleLookup(window, bundle)[Key(p)] = st
  <2>1. st \in sample /\ Key(p) = <<st.trip, st.sequence>>  BY <1>1, <1>3 DEF Runs, Key
  <2> QED  BY <2>1, RowIsFound DEF SampleLookup
<1> QED  BY <1>7, <1>8

\* A deviation from the departure differs from the one from the arrival by the stop.
LEMMA DeparturesAgree ==
    ASSUME Current, ShortStops, NEW r \in results,
           NEW x \in DepartureDeviations(window, SampleLookup(window, Bundles[disk])),
           r.ping = x.ping
    PROVE  LET row == SampleLookup(window, Bundles[disk])[Key(r.ping)]
           IN  r.seconds - x.seconds = row.departure - row.arrival
<1> USE DEF Current, ScheduleInv
<1> DEFINE bundle == Bundles[disk]
           p == r.ping
           sample == {st \in bundle.stopTimes : st.trip \in TripsOf(window)}
           lookup == SampleLookup(window, bundle)
<1>1. PICK st, d, t : Runs(p, st, d, t) /\ static.stopTimes[Key(p)] = st  BY DeviationRuns
<1>2. /\ p \in window /\ p \in Arrivals(window) /\ PassesGate(p)
      /\ r.seconds = p.delay /\ DeviationOf(p) = p.delay
  BY DeviationRuns DEF Deviation
<1>3. st.trip \in TripsOf(window)  BY <1>1, <1>2 DEF Runs, TripsOf, Arrivals, MissesField
<1>4. lookup[Key(p)] = st
  <2>1. st \in sample /\ Key(p) = <<st.trip, st.sequence>>  BY <1>1, <1>3 DEF Runs, Key
  <2> QED  BY <2>1, RowIsFound DEF SampleLookup
<1>5. st.departure # Null /\ x.seconds = now - ResolveScheduled(shift, now, st.departure)
  <2> HIDE DEF lookup
  <2>1. PICK q \in DirectlyReported(window) :
            /\ Key(q) \in DOMAIN lookup /\ lookup[Key(q)].departure # Null
            /\ x = [ping |-> q,
                    seconds |-> now - ResolveScheduled(shift, now, lookup[Key(q)].departure)]
    BY DEF DepartureDeviations, lookup
  <2>2. q = p  BY <2>1
  <2> QED  BY <1>4, <2>1, <2>2
<1>6. /\ st.arrival \in Int /\ p.delay \in Int /\ d \in FirstDay + 1 .. LastDay - 1
      /\ Anchor(shift, d) \in Int /\ now = Anchor(shift, d) + st.arrival + p.delay
  BY <1>1, RunsInTime
<1>7. /\ st.departure \in Int
      /\ WithinReach(st.departure, p.delay + st.arrival - st.departure)
  BY <1>1, <1>2, <1>5 DEF Runs, ShortStops, PassesGate, ClockInv
<1> DEFINE late == p.delay + st.arrival - st.departure
<1>8. late \in Int /\ now = Anchor(shift, d) + st.departure + late  BY <1>6, <1>7
<1>9. ResolveScheduled(shift, now, st.departure) = Anchor(shift, d) + st.departure
  <2> HIDE DEF late
  <2>1. WithinReach(st.departure, late)  BY <1>7 DEF late
  <2> QED  BY <1>6, <1>7, <1>8, <2>1, ServiceDayIsFound DEF ClockInv
<1> HIDE DEF lookup, p
<1>10. r.seconds - x.seconds = st.departure - st.arrival  BY <1>2, <1>5, <1>6, <1>7, <1>9
<1> QED  BY <1>4, <1>10 DEF lookup, p

\* While its lookups are current, the engine and the notebooks agree on every window of a
\* plausible and well-formed feed: the matches, the places, the directions, the arrivals
\* after midnight, and, save in the night the clocks change, every deviation.
THEOREM EngineIsTheNotebooks ==
    ASSUME PlausibleFeed, WellFormedFeed, ShortStops
    PROVE  Spec => []EngineAgreesWithNotebooks
<1>1. ScheduleInv /\ WindowInv /\ OneBundleInv => EngineAgreesWithNotebooks
  <2> SUFFICES ASSUME ScheduleInv, WindowInv, OneBundleInv, UpToDate
               PROVE  EngineAgreesWithNotebooks
    BY DEF EngineAgreesWithNotebooks
  <2> DEFINE bundle == Bundles[disk]
             lookup == SampleLookup(window, bundle)
             reported == {[ping |-> r.ping, seconds |-> r.seconds] : r \in results}
  <2>1. Current  BY CurrentLookups DEF Current, OneBundleInv, BoundedInv
  <2>2. matching.matched = Cardinality({p \in window :
            Active(p) /\ ~MissesField(p) /\ Key(p) \in DOMAIN lookup})
    <3>1. {p \in {q \in window : ~MissesField(q)} : Scheduled(p)}
            = {p \in window : Active(p) /\ ~MissesField(p) /\ Key(p) \in DOMAIN lookup}
      BY <2>1, MatchedByBoth
    <3>2. matching.matched = Cardinality({p \in {q \in window : ~MissesField(q)} : Scheduled(p)})
      BY DEF WindowInv, ComputeMatchingStats, MatchingStats
    <3> QED  BY <3>1, <3>2
  <2>3. \A p \in Recoverable(window, bundle) \ DirectlyReported(window) :
            p \notin {r.ping : r \in results}
    <3>1. \A r \in results : r.ping \in DirectlyReported(window)
      BY <2>1, DeviationRuns DEF DirectlyReported, Arrivals
    <3> QED  BY <3>1
  <2>4. \A r \in results :
            [ping |-> r.ping, place |-> r.location] \in WithStop(window, bundle)
    BY <2>1, PlacesAgree
  <2>5. \A p \in {q \in DirectlyReported(window) : Active(q)} :
            /\ p \in StopButNoDirection(window, bundle) <=> p.trip \notin DOMAIN static.directions
            /\ p.trip \notin MissingTrips(window, bundle)
    BY <2>1, DirectionsAgree
  <2>6. ~ClocksChange =>
            reported = {x \in PrototypeArrivals(window, bundle) : Active(x.ping)}
    BY <2>1, PrototypeAgrees
  <2>7. \A r \in results : r.ping.day < Today /\ r.seconds <= 0 =>
            lookup[Key(r.ping)] \in MidnightCrossers(window, bundle)
    BY <2>1, EarlyCrossersAreAfterMidnight
  <2>8. \A r \in reported, x \in DepartureDeviations(window, lookup) :
            r.ping = x.ping => r.seconds - x.seconds =
                lookup[Key(r.ping)].departure - lookup[Key(r.ping)].arrival
    <3>1. \A r \in results, x \in DepartureDeviations(window, lookup) :
            r.ping = x.ping => r.seconds - x.seconds =
                lookup[Key(r.ping)].departure - lookup[Key(r.ping)].arrival
      BY <2>1, DeparturesAgree
    <3> HIDE DEF lookup
    <3> QED  BY <3>1
  <2> QED  BY <2>2, <2>3, <2>4, <2>5, <2>6, <2>7, <2>8 DEF EngineAgreesWithNotebooks
<1> QED
  BY <1>1, OneBundleInitially, OneBundleStep, ServedRowsAreRows, WindowInitially, WindowStep,
     PTL DEF Spec
=============================================================================
