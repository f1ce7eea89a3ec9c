---------------------------- MODULE IngestionProofs ----------------------------
(***************************************************************************)
(* Theorems about the ingestion service, for every set of vehicles, every  *)
(* script and every bound: what a green check is worth, and how long after *)
(* an outage the poller notices that it is over; and about notebook 01's   *)
(* analysis of the topic: that gaps add up, what the cadence gate lets     *)
(* pass, and that an incident is made of silences only.                    *)
(***************************************************************************)
EXTENDS FeedCapture, FiniteSetTheorems, WellFoundedInduction, TLAPS

-----------------------------------------------------------------------------
(***************************************************************************)
(* Induction, as a statement about sets of naturals: what a fold over a    *)
(* finite set needs to be the function its recursion describes.            *)
(***************************************************************************)
\* A set of naturals has a least element.
LEMMA LeastNatural ==
    ASSUME NEW S \in SUBSET Nat, S # {}
    PROVE  \E x \in S : \A y \in S : x <= y
<1> DEFINE R == OpToRel(<, Nat)
<1>1. IsWellFoundedOn(R, Nat)
  BY NatLessThanWellFounded
<1>2. \A x, y \in Nat : <<y, x>> \in R <=> y < x
  BY DEF OpToRel
<1> HIDE DEF R
<1>3. PICK x \in S : \A y \in S : ~(<<y, x>> \in R)
  BY <1>1, WFMin
<1>4. \A y \in S : ~(y < x)
  BY <1>2, <1>3
<1>5. x \in Nat /\ \A y \in S : y \in Nat
  OBVIOUS
<1> QED BY <1>4, <1>5

\* A set of naturals that holds 0 and the successors of what it holds is all of them.
LEMMA SetInduction ==
    ASSUME NEW P \in SUBSET Nat, 0 \in P, \A n \in P : n + 1 \in P
    PROVE  P = Nat
<1>1. SUFFICES ASSUME Nat \ P # {} PROVE FALSE  OBVIOUS
<1>2. PICK n \in Nat \ P : \A m \in Nat \ P : n <= m  BY <1>1, LeastNatural
<1>3. n # 0 /\ n - 1 \in Nat /\ ~(n <= n - 1) /\ (n - 1) + 1 = n  BY <1>2
<1>4. n - 1 \in P  BY <1>2, <1>3
<1> QED  BY <1>2, <1>3, <1>4

\* A recursion over the subsets of D: pick takes an element out, step deals with it.
Picks(pick, D) == \A s \in (SUBSET D) \ {{}} : pick[s] \in s

Steps(step, D, V) == \A d \in D, v \in V : step[<<d, v>>] \in V

Solution(g, D, V, base, pick, step) ==
    /\ g \in [SUBSET D -> V]
    /\ \A s \in SUBSET D :
        g[s] = IF s = {} THEN base ELSE step[<<pick[s], g[s \ {pick[s]}]>>]

\* Over a finite set it has a solution.
LEMMA SetRecursion ==
    ASSUME NEW D, IsFiniteSet(D), NEW V, NEW base \in V,
           NEW pick, Picks(pick, D), NEW step, Steps(step, D, V)
    PROVE  \E g : Solution(g, D, V, base, pick, step)
<1> USE DEF Picks, Steps
<1> DEFINE Small(n) == {s \in SUBSET D : Cardinality(s) <= n}
           Solves(g, n) == /\ g \in [SUBSET D -> V]
                           /\ \A s \in Small(n) :
                                g[s] = IF s = {} THEN base ELSE step[<<pick[s], g[s \ {pick[s]}]>>]
           P == {n \in Nat : \E g : Solves(g, n)}
<1>1. \A s \in SUBSET D : IsFiniteSet(s) /\ Cardinality(s) \in Nat
  BY FS_Subset, FS_CardinalityType
<1>2. 0 \in P
  <2> DEFINE g == [s \in SUBSET D |-> base]
  <2>1. \A s \in Small(0) : s = {}  BY <1>1, FS_EmptySet
  <2>2. Solves(g, 0)  BY <2>1
  <2> HIDE DEF g, Solves
  <2>3. \E f : Solves(f, 0)  BY <2>2
  <2> QED  BY <2>3
<1>3. ASSUME NEW n \in P PROVE n + 1 \in P
  <2>1. n \in Nat /\ \E g : Solves(g, n)  BY <1>3
  <2>2. PICK g : Solves(g, n)  BY <2>1
  <2> DEFINE h == [s \in SUBSET D |->
                    IF s = {} THEN base ELSE step[<<pick[s], g[s \ {pick[s]}]>>]]
  <2>3. h \in [SUBSET D -> V]
    <3>1. \A s \in SUBSET D : s # {} => pick[s] \in D /\ g[s \ {pick[s]}] \in V  BY <2>2
    <3> HIDE DEF Solves
    <3> QED  BY <3>1
  <2>4. \A s \in Small(n) : h[s] = g[s]  BY <2>2
  <2>5. ASSUME NEW s \in Small(n + 1), s # {} PROVE s \ {pick[s]} \in Small(n)
    <3>1. pick[s] \in s /\ s \in SUBSET D  BY <2>5
    <3>2. Cardinality(s \ {pick[s]}) = Cardinality(s) - 1
      BY <1>1, <3>1, FS_RemoveElement
    <3> QED  BY <1>1, <2>1, <3>1, <3>2
  <2>6. \A s \in Small(n + 1) :
            h[s] = IF s = {} THEN base ELSE step[<<pick[s], h[s \ {pick[s]}]>>]
    <3> SUFFICES ASSUME NEW s \in Small(n + 1), s # {}
                 PROVE  h[s] = step[<<pick[s], h[s \ {pick[s]}]>>]
      OBVIOUS
    <3>1. h[s \ {pick[s]}] = g[s \ {pick[s]}]  BY <2>4, <2>5
    <3> QED  BY <3>1
  <2>7. Solves(h, n + 1)  BY <2>3, <2>6
  <2> HIDE DEF h, Solves
  <2>8. \E f : Solves(f, n + 1)  BY <2>7
  <2> QED  BY <2>1, <2>8
<1>4. Cardinality(D) \in P
  <2> HIDE DEF P
  <2>1. P \in SUBSET Nat  BY DEF P
  <2>2. P = Nat  BY <1>2, <1>3, <2>1, SetInduction
  <2> QED  BY <1>1, <2>2
<1>5. PICK g : Solves(g, Cardinality(D))  BY <1>4
<1>6. SUBSET D = Small(Cardinality(D))  BY FS_Subset
<1> QED  BY <1>5, <1>6 DEF Solution

\* Of two parts of a finite set, what one has more than the other.
LEMMA PartsAddUp ==
    ASSUME NEW S, IsFiniteSet(S), NEW T \in SUBSET S
    PROVE  /\ Cardinality(S) \in Nat /\ Cardinality(T) \in Nat /\ Cardinality(S \ T) \in Nat
           /\ Cardinality(T) + Cardinality(S \ T) = Cardinality(S)
<1>1. IsFiniteSet(T) /\ IsFiniteSet(S \ T)  BY FS_Subset, FS_Difference
<1>2. S \cap T = T  OBVIOUS
<1>3. Cardinality(S \ T) = Cardinality(S) - Cardinality(T)  BY <1>2, FS_Difference
<1> QED  BY <1>1, <1>3, FS_CardinalityType

-----------------------------------------------------------------------------
(***************************************************************************)
(* The wait between two cycles.                                            *)
(***************************************************************************)
\* Min({a, b}), as FiniteSetsExt defines it, is one of them and at most either.
LEMMA MinOfTwo ==
    ASSUME NEW a \in Int, NEW b \in Int
    PROVE  /\ Min({a, b}) \in Int /\ Min({a, b}) \in {a, b}
           /\ Min({a, b}) <= a /\ Min({a, b}) <= b
<1>1. \E x \in {a, b} : \A y \in {a, b} : x <= y  OBVIOUS
<1> QED  BY <1>1 DEF Min

\* compute_wait(): however many cycles failed, the wait is at most MAX_BACKOFF_MS.
LEMMA WaitIsBounded ==
    ASSUME NEW failures \in Nat
    PROVE  ComputeWait(failures) \in Int /\ ComputeWait(failures) <= MaxBackoff
<1>1. CASE failures < AlertThreshold
  BY <1>1, IngestionAssumption DEF ComputeWait
<1>2. CASE ~(failures < AlertThreshold)
  <2>1. failures - AlertThreshold \in Nat  BY <1>2, IngestionAssumption
  <2>2. 2 ^ (failures - AlertThreshold) \in Int  BY <2>1
  <2>3. Interval * 2 ^ (failures - AlertThreshold) \in Int
    BY <2>2, IngestionAssumption
  <2>4. LET wait == Min({Interval * 2 ^ (failures - AlertThreshold), MaxBackoff})
        IN  wait \in Int /\ wait <= MaxBackoff
    BY <2>3, MinOfTwo, IngestionAssumption
  <2> QED  BY <1>2, <2>4 DEF ComputeWait
<1> QED  BY <1>1, <1>2

-----------------------------------------------------------------------------
(***************************************************************************)
(* The green check.                                                        *)
(***************************************************************************)
\* Only publishTelemetries() touches the topic, and it only appends.
LEMMA TopicGrows == ASSUME [Next]_vars PROVE topic \subseteq topic'
<1>1. CASE Publish  BY <1>1 DEF Publish
<1>2. CASE PublishFails  BY <1>2 DEF PublishFails
<1>3. CASE RequestRetried \/ RequestFails \/ Wake \/ Start \/ Tick \/ Change \/ Kill
  BY <1>3 DEF RequestRetried, RequestFails, Wake, Start, Tick, Change, Kill, CycleFails
<1>4. CASE UNCHANGED vars  BY <1>4 DEF vars
<1> QED  BY <1>1, <1>2, <1>3, <1>4 DEF Next

\* While the health check is green, every usable entity of the feed it was green for is in
\* the topic, whichever partitions were lost and whenever the process was killed.
THEOREM GreenIsPublished == Spec => []GreenMeansPublished
<1>1. Init => GreenMeansPublished
  BY DEF Init, GreenMeansPublished
<1>2. ASSUME GreenMeansPublished, [Next]_vars PROVE GreenMeansPublished'
  <2>1. CASE Publish
    <3>1. health' = [kind |-> "ok", at |-> now] /\ offered' = ValidTelemetries
      BY <2>1 DEF Publish, CycleSucceeds
    <3>2. topic' = topic \cup {[report |-> e, ingested |-> now] : e \in ValidTelemetries}
      BY <2>1 DEF Publish, Messages
    <3> QED  BY <3>1, <3>2 DEF GreenMeansPublished
  <2>2. CASE PublishFails \/ RequestFails
    <3>1. offered' = offered /\ (health' = health \/ health'.kind # "ok")
      BY <2>2 DEF PublishFails, RequestFails, CycleFails
    <3> QED  BY <1>2, <3>1, TopicGrows DEF GreenMeansPublished
  <2>3. CASE RequestRetried \/ Wake \/ Start \/ Tick \/ Change \/ Kill
    <3>1. offered' = offered /\ health' = health
      BY <2>3 DEF RequestRetried, Wake, Start, Tick, Change, Kill
    <3> QED  BY <1>2, <3>1, TopicGrows DEF GreenMeansPublished
  <2>4. CASE UNCHANGED vars  BY <1>2, <2>4 DEF vars, GreenMeansPublished
  <2> QED  BY <1>2, <2>1, <2>2, <2>3, <2>4 DEF Next
<1> QED  BY <1>1, <1>2, PTL DEF Spec

-----------------------------------------------------------------------------
(***************************************************************************)
(* The end of an outage.                                                   *)
(***************************************************************************)
TypeInv ==
    /\ now \in 0 .. MaxTime /\ upSince \in 0 .. now /\ wholeAt \in Int
    /\ feed \in [Vehicles -> (0 .. MaxTime) \cup {None}]
    /\ poller \in [phase : {"stopped", "waiting", "polling"}, attempt : Nat,
                   failures : Nat, wake : Int]
    /\ budget \in [faults : Int, stalls : 0 .. MaxStall]
    /\ stalled \in SUBSET (0 .. now - 1)

\* No timer is ever further away than the longest backoff.
TimerInv == poller.phase = "waiting" => poller.wake <= now + MaxBackoff

Well == server \in {"up", "frozen"} /\ broker = Partitions /\ poller.phase # "stopped"

Recovered == poller.failures = 0 /\ wholeAt >= upSince

\* Until a cycle has succeeded, the poller waits for a timer that was set before the
\* outage ended, or it is polling and late by no more than it was left waiting.
DeadlineInv ==
    Well => \/ Recovered
            \/ /\ poller.phase = "waiting"
               /\ now <= upSince + MaxBackoff
               /\ poller.wake <= upSince + MaxBackoff
            \/ /\ poller.phase = "polling"
               /\ now <= upSince + MaxBackoff + Cardinality(StalledSince(upSince))

RecoveryInv == TypeInv /\ TimerInv /\ DeadlineInv

\* How long requests were left waiting is a number.
LEMMA StallsAreCounted ==
    ASSUME TypeInv, NEW t
    PROVE  IsFiniteSet(StalledSince(t)) /\ Cardinality(StalledSince(t)) \in Nat
<1>1. now - 1 \in Int /\ 0 \in Int  BY IngestionAssumption DEF TypeInv
<1>2. IsFiniteSet(0 .. now - 1)  BY <1>1, FS_Interval
<1>3. StalledSince(t) \in SUBSET (0 .. now - 1)  BY DEF StalledSince, TypeInv
<1> QED  BY <1>2, <1>3, FS_Subset, FS_CardinalityType

\* send() can only fail if some partition is lost.
LEMMA WellPublishes ==
    ASSUME TypeInv, broker = Partitions
    PROVE  Writable = ValidTelemetries
<1>1. ASSUME NEW v \in Vehicles, feed[v] # None
      PROVE  Entity(v, feed[v]).vehicle \in {None} \cup UNION Partitions
  <2>1. feed[v] \in 0 .. MaxTime  BY <1>1 DEF TypeInv
  <2> QED  BY <2>1, PartitionsAssumption
<1>2. \A e \in ValidTelemetries : e.vehicle \in UNION broker
  BY <1>1 DEF ValidTelemetries, Entities, Valid
<1> QED  BY <1>2 DEF Writable

LEMMA RecoveryInitially == Init => RecoveryInv
BY IngestionAssumption
   DEF Init, RecoveryInv, TypeInv, TimerInv, DeadlineInv, Well, Stopped

LEMMA CyclesEnd ==
    ASSUME RecoveryInv, NEW failures \in Nat
    PROVE  /\ Waiting(failures) \in [phase : {"stopped", "waiting", "polling"}, attempt : Nat,
                                     failures : Nat, wake : Int]
           /\ Waiting(failures).phase = "waiting"
           /\ Waiting(failures).failures = failures
           /\ Waiting(failures).wake <= now + MaxBackoff
BY WaitIsBounded, IngestionAssumption DEF Waiting, RecoveryInv, TypeInv

LEMMA SuccessKeepsRecovery == ASSUME RecoveryInv, Publish PROVE RecoveryInv'
<1>1. /\ poller' = Waiting(0) /\ wholeAt' = now
      /\ UNCHANGED <<now, upSince, feed, budget, server, broker, stalled>>
  BY DEF Publish, CycleSucceeds, outside
<1>2. TypeInv'  BY <1>1, CyclesEnd DEF RecoveryInv, TypeInv
<1>3. TimerInv'  BY <1>1, CyclesEnd DEF TimerInv
<1>4. Recovered'  BY <1>1, CyclesEnd DEF RecoveryInv, TypeInv, Recovered
<1> QED  BY <1>2, <1>3, <1>4 DEF RecoveryInv, DeadlineInv

LEMMA FailureKeepsRecovery ==
    ASSUME RecoveryInv, PublishFails \/ RequestFails PROVE RecoveryInv'
<1>1. /\ poller' = Waiting(poller.failures + 1) /\ wholeAt' = wholeAt
      /\ UNCHANGED <<now, upSince, feed, budget, server, broker, stalled>>
  BY DEF PublishFails, RequestFails, CycleFails, outside
<1>2. poller.failures + 1 \in Nat  BY DEF RecoveryInv, TypeInv
<1>3. TypeInv'  BY <1>1, <1>2, CyclesEnd DEF RecoveryInv, TypeInv
<1>4. TimerInv'  BY <1>1, <1>2, CyclesEnd DEF TimerInv
<1>5. ~Well'
  <2>1. CASE PublishFails
    BY <2>1, <1>1, WellPublishes DEF PublishFails, RecoveryInv, Well
  <2>2. CASE RequestFails
    BY <2>2, <1>1 DEF RequestFails, Well
  <2> QED  BY <2>1, <2>2
<1> QED  BY <1>3, <1>4, <1>5 DEF RecoveryInv, DeadlineInv

LEMMA TickKeepsRecovery == ASSUME RecoveryInv, Tick PROVE RecoveryInv'
<1>1. /\ now < MaxTime /\ now' = now + 1 /\ ~Due
      /\ UNCHANGED <<server, broker, poller, upSince, wholeAt>>
  BY DEF Tick
<1>2. feed' \in [Vehicles -> (0 .. MaxTime) \cup {None}]
  BY <1>1, IngestionAssumption DEF Tick, RecoveryInv, TypeInv
<1>3. budget' = [budget EXCEPT !.stalls = IF Polling THEN @ - 1 ELSE @]
  BY DEF Tick
<1>4. poller.phase = "polling" => /\ budget.stalls > 0
                                  /\ budget'.stalls = budget.stalls - 1
  BY <1>3 DEF Tick, Polling, RecoveryInv, TypeInv
<1>5. stalled' = IF poller.phase = "polling" THEN stalled \cup {now} ELSE stalled
  BY DEF Tick, Polling
<1>6. TypeInv'
  <2>1. stalled' \in SUBSET (0 .. now' - 1)
    BY <1>1, <1>5, IngestionAssumption DEF RecoveryInv, TypeInv
  <2> QED  BY <1>1, <1>2, <1>3, <1>4, <2>1, IngestionAssumption DEF RecoveryInv, TypeInv, Polling
<1>7. TimerInv'
  BY <1>1, IngestionAssumption DEF RecoveryInv, TypeInv, TimerInv
<1>8. DeadlineInv'
  <2> SUFFICES ASSUME Well PROVE DeadlineInv'  BY <1>1 DEF Well, DeadlineInv
  <2>1. now \in Nat /\ upSince \in 0 .. now /\ MaxBackoff \in Nat
    BY IngestionAssumption DEF RecoveryInv, TypeInv
  <2>2. CASE Recovered  BY <1>1, <2>2 DEF Recovered, DeadlineInv
  <2>3. CASE ~Recovered /\ poller.phase = "waiting"
    BY <1>1, <2>1, <2>3 DEF RecoveryInv, TypeInv, DeadlineInv, Due
  <2>4. CASE ~Recovered /\ poller.phase = "polling"
    <3> DEFINE before == StalledSince(upSince)
    <3>1. StalledSince(upSince)' = before \cup {now} /\ now \notin before
      BY <1>1, <1>5, <2>1, <2>4 DEF StalledSince, RecoveryInv, TypeInv
    <3>2. IsFiniteSet(before) /\ Cardinality(before) \in Nat
      BY StallsAreCounted DEF RecoveryInv
    <3>3. now <= upSince + MaxBackoff + Cardinality(before)
      BY <2>4 DEF RecoveryInv, DeadlineInv
    <3> HIDE DEF before
    <3>4. Cardinality(before \cup {now}) = Cardinality(before) + 1
      BY <3>1, <3>2, FS_AddElement
    <3>5. now' <= upSince' + MaxBackoff + Cardinality(StalledSince(upSince)')
      BY <1>1, <2>1, <3>1, <3>2, <3>3, <3>4
    <3> QED  BY <1>1, <2>4, <3>5 DEF DeadlineInv
  <2> QED  BY <2>2, <2>3, <2>4 DEF RecoveryInv, DeadlineInv
<1> QED  BY <1>6, <1>7, <1>8 DEF RecoveryInv

\* A change around the poller starts the time anew.
LEMMA ChangeKeepsRecovery == ASSUME RecoveryInv, Change PROVE RecoveryInv'
<1>1. upSince' = now /\ UNCHANGED <<now, feed, poller, wholeAt, stalled>>
  BY DEF Change
<1>2. budget' = [budget EXCEPT !.faults = @ - 1]  BY DEF Change
<1>3. TypeInv' /\ TimerInv'
  BY <1>1, <1>2 DEF RecoveryInv, TypeInv, TimerInv
<1>4. Cardinality(StalledSince(now)) \in Nat /\ StalledSince(upSince)' = StalledSince(now)
  BY <1>1, StallsAreCounted DEF RecoveryInv, StalledSince
<1>5. DeadlineInv'
  BY <1>1, <1>2, <1>4, IngestionAssumption
     DEF RecoveryInv, TypeInv, TimerInv, DeadlineInv, Well
<1> QED  BY <1>3, <1>5 DEF RecoveryInv

LEMMA OthersKeepRecovery ==
    ASSUME RecoveryInv, RequestRetried \/ Wake \/ Start \/ Kill PROVE RecoveryInv'
<1>1. CASE RequestRetried
  BY <1>1 DEF RequestRetried, outside, RecoveryInv, TypeInv, TimerInv, DeadlineInv, Well
<1>2. CASE Wake
  <2>1. UNCHANGED <<now, upSince, feed, budget, server, broker, stalled, wholeAt>>
    BY <1>2 DEF Wake, outside
  <2>2. /\ Cardinality(StalledSince(upSince)) \in Nat
        /\ StalledSince(upSince)' = StalledSince(upSince)
    BY <2>1, StallsAreCounted DEF RecoveryInv, StalledSince
  <2> QED
    BY <1>2, <2>1, <2>2, IngestionAssumption
       DEF Wake, RecoveryInv, TypeInv, TimerInv, DeadlineInv, Well, Recovered
<1>3. CASE Start
  <2>1. UNCHANGED <<now, feed, budget, stalled, wholeAt>> /\ upSince' = now  BY <1>3 DEF Start
  <2>2. Cardinality(StalledSince(now)) \in Nat /\ StalledSince(upSince)' = StalledSince(now)
    BY <2>1, StallsAreCounted DEF RecoveryInv, StalledSince
  <2> QED
    BY <1>3, <2>1, <2>2, IngestionAssumption
       DEF Start, RecoveryInv, TypeInv, TimerInv, DeadlineInv, Well
<1>4. CASE Kill
  BY <1>4 DEF Kill, Stopped, RecoveryInv, TypeInv, TimerInv, DeadlineInv, Well
<1> QED  BY <1>1, <1>2, <1>3, <1>4

LEMMA RecoveryStep == RecoveryInv /\ [Next]_vars => RecoveryInv'
<1> SUFFICES ASSUME RecoveryInv, [Next]_vars PROVE RecoveryInv'  OBVIOUS
<1>1. CASE UNCHANGED vars
  BY <1>1 DEF vars, RecoveryInv, TypeInv, TimerInv, DeadlineInv, Well, Recovered, StalledSince
<1> QED  BY <1>1, SuccessKeepsRecovery, FailureKeepsRecovery, TickKeepsRecovery,
            ChangeKeepsRecovery, OthersKeepRecovery DEF Next

\* The end of an outage is noticed in time: once the server and the broker have been well
\* for MAX_BACKOFF and the time that requests were left waiting, the failures are forgotten.
THEOREM OutageEndsInTime == Spec => []RecoveryNoticed
<1>1. RecoveryInv => RecoveryNoticed
  <2> SUFFICES ASSUME RecoveryInv PROVE RecoveryNoticed  OBVIOUS
  <2>1. Cardinality(StalledSince(upSince)) \in Nat  BY StallsAreCounted DEF RecoveryInv
  <2> QED
    BY <2>1, IngestionAssumption
       DEF RecoveryInv, TypeInv, DeadlineInv, Well, Recovered, RecoveryNoticed
<1> QED  BY RecoveryInitially, RecoveryStep, <1>1, PTL DEF Spec
-----------------------------------------------------------------------------
(***************************************************************************)
(* The gaps of a vehicle add up.                                           *)
(***************************************************************************)
\* Rows that can be put in order: dated, and one of a vehicle at a time.
Datable(rows) ==
    /\ \A r \in rows : r.timestamp \in 0 .. MaxTime
    /\ \A r, s \in rows : r.vehicle = s.vehicle /\ r.timestamp = s.timestamp => r = s

GapsOf(rows, v) == {g \in Gaps(rows) : g.row.vehicle = v}

\* The instants that a gap is over, and those that some gaps are over.
Span(g) == g.previous.timestamp .. g.row.timestamp - 1
Covered(gaps) == {t \in 0 .. MaxTime : \E g \in gaps : t \in Span(g)}

\* What the order of a sum does not change: a fold of lengths is any measure that grows by
\* the length of what is added.
LEMMA SumIsMeasure ==
    ASSUME NEW G, IsFiniteSet(G), \A g \in G : g.seconds \in Int,
           NEW measure, measure[{}] = 0,
           \A s \in SUBSET G : \A x \in s : measure[s] = measure[s \ {x}] + x.seconds
    PROVE  TotalSeconds(G) = measure[G]
<1> DEFINE pick == [s \in (SUBSET G) \ {{}} |-> CHOOSE x \in s : TRUE]
           step == [x \in G \X Int |-> x[2] + x[1].seconds]
           Solves(f) == f = [s \in SUBSET G |->
                IF s = {} THEN 0 ELSE f[s \ {CHOOSE x \in s : TRUE}] + (CHOOSE x \in s : TRUE).seconds]
           iter == CHOOSE f : Solves(f)
<1>1. \A s \in (SUBSET G) \ {{}} : (CHOOSE x \in s : TRUE) \in s  OBVIOUS
<1>2. Picks(pick, G)  BY <1>1 DEF Picks
<1>3. Steps(step, G, Int)  BY DEF Steps
<1>4. PICK f : Solution(f, G, Int, 0, pick, step)
  <2> HIDE DEF pick, step
  <2> QED  BY <1>2, <1>3, SetRecursion
<1>5. Solves(f)
  <2>1. ASSUME NEW s \in SUBSET G, s # {}
        PROVE  f[s] = f[s \ {CHOOSE x \in s : TRUE}] + (CHOOSE x \in s : TRUE).seconds
    <3> DEFINE c == CHOOSE x \in s : TRUE
    <3>1. c \in s /\ pick[s] = c  BY <1>1, <2>1
    <3>2. f[s \ {c}] \in Int  BY <1>4 DEF Solution
    <3>3. f[s] = step[<<pick[s], f[s \ {pick[s]}]>>]  BY <1>4, <2>1 DEF Solution
    <3> HIDE DEF c, pick
    <3>4. f[s] = step[<<c, f[s \ {c}]>>]  BY <3>1, <3>3
    <3>5. f[s] = f[s \ {c}] + c.seconds  BY <3>1, <3>2, <3>4
    <3> QED  BY <3>5 DEF c
  <2>2. f[{}] = 0 /\ f = [s \in SUBSET G |-> f[s]]  BY <1>4 DEF Solution
  <2> QED  BY <2>1, <2>2
<1>6. Solves(iter)
  <2> HIDE DEF Solves
  <2> QED  BY <1>5
<1>7. TotalSeconds(G) = iter[G]
  BY DEF TotalSeconds, FoldSet, MapThenFoldSet
<1> HIDE DEF iter
<1> DEFINE P == {n \in Nat : \A s \in SUBSET G : Cardinality(s) <= n => iter[s] = measure[s]}
<1>8. \A s \in SUBSET G : IsFiniteSet(s) /\ Cardinality(s) \in Nat
  BY FS_Subset, FS_CardinalityType
<1>9. iter[{}] = measure[{}]  BY <1>6
<1>10. 0 \in P
  <2>1. \A s \in SUBSET G : Cardinality(s) <= 0 => s = {}  BY <1>8, FS_EmptySet
  <2> QED  BY <1>9, <2>1
<1>11. ASSUME NEW n \in P PROVE n + 1 \in P
  <2> SUFFICES ASSUME NEW s \in SUBSET G, Cardinality(s) <= n + 1, s # {}
               PROVE  iter[s] = measure[s]
    <3>1. n + 1 \in Nat  OBVIOUS
    <3>2. \A s \in SUBSET G : s = {} => iter[s] = measure[s]  BY <1>9
    <3> HIDE DEF Solves, pick, step
    <3> QED  BY <3>1, <3>2
  <2> DEFINE c == CHOOSE x \in s : TRUE
  <2>1. c \in s  BY <1>1
  <2>2. iter[s] = iter[s \ {c}] + c.seconds  BY <1>6
  <2> HIDE DEF c
  <2>3. Cardinality(s \ {c}) <= n  BY <1>8, <2>1, FS_RemoveElement
  <2>4. iter[s \ {c}] = measure[s \ {c}]  BY <2>3
  <2> QED  BY <2>1, <2>2, <2>4
<1>12. Cardinality(G) \in P
  <2>1. P \in SUBSET Nat  OBVIOUS
  <2> HIDE DEF P
  <2>2. P = Nat  BY <1>10, <1>11, <2>1, SetInduction
  <2> QED  BY <1>8, <2>2
<1>13. iter[G] = measure[G]  BY <1>8, <1>12
<1> HIDE DEF P
<1> QED  BY <1>7, <1>13

\* A gap is between two rows of its vehicle, and no row of the vehicle is in it.
LEMMA GapIsBetweenRows ==
    ASSUME NEW rows, NEW v, NEW g \in GapsOf(rows, v)
    PROVE  /\ g.previous \in rows /\ g.row \in rows
           /\ g.previous.vehicle = v /\ g.row.vehicle = v
           /\ g = [row |-> g.row, previous |-> g.previous, seconds |-> g.seconds]
           /\ g.seconds = g.row.timestamp - g.previous.timestamp
           /\ g.previous.timestamp < g.row.timestamp
           /\ \A z \in rows : z.vehicle = v => ~(/\ g.previous.timestamp < z.timestamp
                                                 /\ z.timestamp < g.row.timestamp)
  BY DEF GapsOf, Gaps

\* The gaps of a vehicle do not overlap.
LEMMA GapsAreDisjoint ==
    ASSUME NEW rows, Datable(rows), NEW v, NEW g \in GapsOf(rows, v), NEW h \in GapsOf(rows, v),
           NEW t, t \in Span(g), t \in Span(h)
    PROVE  g = h
<1> DEFINE a == g.previous.timestamp  b == g.row.timestamp
           c == h.previous.timestamp  d == h.row.timestamp
<1>1. /\ g.previous \in rows /\ g.row \in rows /\ h.previous \in rows /\ h.row \in rows
      /\ g.previous.vehicle = v /\ g.row.vehicle = v
      /\ h.previous.vehicle = v /\ h.row.vehicle = v
  BY GapIsBetweenRows
<1>2. a \in Int /\ b \in Int /\ c \in Int /\ d \in Int  BY <1>1 DEF Datable
<1>3. t \in Int /\ a <= t /\ t < b /\ c <= t /\ t < d  BY <1>2 DEF Span
<1>4. ~(a < c /\ c < b) /\ ~(a < d /\ d < b)  BY <1>1, GapIsBetweenRows
<1>5. ~(c < a /\ a < d) /\ ~(c < b /\ b < d)  BY <1>1, GapIsBetweenRows
<1>6. a = c /\ b = d
  <2> HIDE DEF a, b, c, d
  <2> QED  BY <1>2, <1>3, <1>4, <1>5
<1>7. g.previous = h.previous /\ g.row = h.row  BY <1>1, <1>6 DEF Datable
<1> QED  BY <1>7, GapIsBetweenRows
\* There are finitely many of them.
LEMMA GapsAreFinite ==
    ASSUME NEW rows, Datable(rows), NEW v PROVE IsFiniteSet(GapsOf(rows, v))
<1> DEFINE G == GapsOf(rows, v)
           start == [g \in G |-> g.previous.timestamp]
<1>1. \A g \in G : start[g] \in 0 .. MaxTime /\ start[g] \in Span(g)
  <2> SUFFICES ASSUME NEW g \in G PROVE start[g] \in 0 .. MaxTime /\ start[g] \in Span(g)
    OBVIOUS
  <2>1. /\ g.previous.timestamp \in 0 .. MaxTime /\ g.row.timestamp \in 0 .. MaxTime
        /\ g.previous.timestamp < g.row.timestamp
    BY GapIsBetweenRows DEF Datable
  <2> QED  BY <2>1 DEF Span
<1>2. \A g, h \in G : start[g] = start[h] => g = h
  <2> HIDE DEF start
  <2> QED  BY <1>1, GapsAreDisjoint
<1>3. start \in Injection(G, 0 .. MaxTime)
  <2>1. start \in [G -> 0 .. MaxTime]  BY <1>1
  <2> HIDE DEF start, G
  <2> QED  BY <1>2, <2>1 DEF Injection, IsInjective
<1>4. IsFiniteSet(0 .. MaxTime)  BY FS_Interval, IngestionAssumption
<1> HIDE DEF start, G
<1>5. IsFiniteSet(G)  BY <1>3, <1>4, FS_Injection
<1> QED  BY <1>5 DEF G

\* A gap more is as many instants more as it is long.
LEMMA CoveredGrows ==
    ASSUME NEW rows, Datable(rows), NEW v,
           NEW s \in SUBSET GapsOf(rows, v), NEW g \in s
    PROVE  Cardinality(Covered(s)) = Cardinality(Covered(s \ {g})) + g.seconds
<1>1. g \in GapsOf(rows, v)  OBVIOUS
<1>2. /\ g.previous.timestamp \in 0 .. MaxTime /\ g.row.timestamp \in 0 .. MaxTime
      /\ g.previous.timestamp < g.row.timestamp
      /\ g.seconds = g.row.timestamp - g.previous.timestamp
  BY <1>1, GapIsBetweenRows DEF Datable
<1>3. Span(g) \subseteq 0 .. MaxTime  BY <1>2, IngestionAssumption DEF Span
<1>4. Covered(s) = Covered(s \ {g}) \cup Span(g)  BY <1>3 DEF Covered
<1>5. Covered(s \ {g}) \cap Span(g) = {}
  <2> SUFFICES ASSUME NEW t \in Span(g), NEW h \in s \ {g}, t \in Span(h) PROVE FALSE
    BY DEF Covered
  <2>1. h \in GapsOf(rows, v)  OBVIOUS
  <2> QED  BY <1>1, <2>1, GapsAreDisjoint
<1>6. IsFiniteSet(0 .. MaxTime)  BY FS_Interval, IngestionAssumption
<1>7. Covered(s \ {g}) \in SUBSET (0 .. MaxTime)  BY DEF Covered
<1>8. IsFiniteSet(Covered(s \ {g})) /\ Cardinality(Covered(s \ {g})) \in Nat
  BY <1>6, <1>7, FS_Subset, FS_CardinalityType
<1>9. IsFiniteSet(Span(g)) /\ Cardinality(Span(g)) = g.seconds
  <2> DEFINE a == g.previous.timestamp  b == g.row.timestamp - 1
  <2>1. a \in Int /\ b \in Int /\ a <= b /\ g.seconds = b - a + 1  BY <1>2
  <2>2. Span(g) = a .. b  BY DEF Span
  <2> HIDE DEF a, b
  <2>3. IsFiniteSet(a .. b) /\ Cardinality(a .. b) = IF a > b THEN 0 ELSE b - a + 1
    BY <2>1, FS_Interval
  <2> QED  BY <2>1, <2>2, <2>3
<1>10. Cardinality({}) = 0  BY FS_EmptySet
<1>11. Cardinality(Covered(s \ {g}) \cup Span(g)) =
            Cardinality(Covered(s \ {g})) + Cardinality(Span(g))
                - Cardinality(Covered(s \ {g}) \cap Span(g))
  BY <1>8, <1>9, FS_Union
<1>12. g.seconds \in Int  BY <1>2
<1> DEFINE n == Cardinality(Covered(s \ {g}))
<1>13. n \in Nat  BY <1>8
<1>14. Cardinality(Covered(s)) = n + g.seconds - 0  BY <1>4, <1>5, <1>9, <1>10, <1>11
<1> HIDE DEF n
<1>15. Cardinality(Covered(s)) = n + g.seconds  BY <1>12, <1>13, <1>14
<1> QED  BY <1>15 DEF n

\* The least and the greatest of a set of naturals up to n are in it.
LEMMA LeastAndGreatest ==
    ASSUME NEW n \in Nat, NEW T \in SUBSET (0 .. n), T # {}
    PROVE  /\ Min(T) \in T /\ \A t \in T : Min(T) <= t
           /\ Max(T) \in T /\ \A t \in T : t <= Max(T)
<1>1. \E x \in T : \A y \in T : x <= y
  <2>1. T \in SUBSET Nat  OBVIOUS
  <2> QED  BY <2>1, LeastNatural
<1>2. \E x \in T : \A y \in T : x >= y
  <2> DEFINE left == {n - t : t \in T}
  <2>1. left \in SUBSET Nat /\ left # {}
    <3>1. PICK t \in T : TRUE  OBVIOUS
    <3>2. n - t \in left  OBVIOUS
    <3>3. \A u \in T : n - u \in Nat  OBVIOUS
    <3> QED  BY <3>2, <3>3
  <2>2. PICK a \in left : \A b \in left : a <= b  BY <2>1, LeastNatural
  <2>3. PICK x \in T : a = n - x  BY <2>2
  <2>4. ASSUME NEW y \in T PROVE x >= y
    <3>1. n - y \in left  OBVIOUS
    <3>2. n - x <= n - y  BY <2>2, <2>3, <3>1
    <3> QED  BY <3>2
  <2> QED  BY <2>4
<1>3. Min(T) \in T /\ \A y \in T : Min(T) <= y  BY <1>1 DEF Min
<1>4. Max(T) \in T /\ \A y \in T : Max(T) >= y  BY <1>2 DEF Max
<1> QED  BY <1>3, <1>4

\* A set of instants has a first and a last one.
LEMMA FirstAndLast ==
    ASSUME NEW T \in SUBSET (0 .. MaxTime), T # {}
    PROVE  /\ Min(T) \in T /\ \A t \in T : Min(T) <= t
           /\ Max(T) \in T /\ \A t \in T : t <= Max(T)
  BY LeastAndGreatest, IngestionAssumption

\* From the first row of a vehicle to its last, every instant is in a gap.
LEMMA GapsCover ==
    ASSUME NEW rows, Datable(rows), NEW v, TimesOf(rows, v) # {}
    PROVE  Covered(GapsOf(rows, v)) = Min(TimesOf(rows, v)) .. Max(TimesOf(rows, v)) - 1
<1> DEFINE T == TimesOf(rows, v)
<1>1. T \in SUBSET (0 .. MaxTime)  BY DEF TimesOf, Datable
<1>2. /\ Min(T) \in T /\ \A t \in T : Min(T) <= t
      /\ Max(T) \in T /\ \A t \in T : t <= Max(T)
  <2>1. T # {}  OBVIOUS
  <2> HIDE DEF T
  <2> QED  BY <1>1, <2>1, FirstAndLast
<1>3. \A r \in rows : r.vehicle = v => r.timestamp \in T  BY DEF TimesOf
<1> DEFINE first == Min(T)
           last == Max(T)
<1> HIDE DEF T, first, last
<1>6. /\ first \in T /\ \A t \in T : first <= t
      /\ last \in T /\ \A t \in T : t <= last
      /\ \A t \in T : t \in Int /\ 0 <= t /\ t <= MaxTime
      /\ MaxTime \in Int
  BY <1>1, <1>2, IngestionAssumption DEF first, last
<1>4. ASSUME NEW t \in Covered(GapsOf(rows, v)) PROVE t \in first .. last - 1
  <2>1. PICK g \in GapsOf(rows, v) : t \in Span(g)  BY DEF Covered
  <2>2. /\ g.previous \in rows /\ g.row \in rows
        /\ g.previous.vehicle = v /\ g.row.vehicle = v
    BY GapIsBetweenRows
  <2>3. g.previous.timestamp \in T /\ g.row.timestamp \in T  BY <1>3, <2>2
  <2>4. t \in 0 .. MaxTime /\ g.previous.timestamp <= t /\ t <= g.row.timestamp - 1
    BY <2>1 DEF Span, Covered
  <2> QED  BY <1>6, <2>3, <2>4
<1>5. ASSUME NEW t \in first .. last - 1 PROVE t \in Covered(GapsOf(rows, v))
  <2> DEFINE before == {u \in T : u <= t}
             after == {u \in T : t < u}
  <2>1. t \in 0 .. MaxTime  BY <1>6
  <2>2. before \in SUBSET (0 .. MaxTime) /\ before # {}
    <3>1. first <= t  BY <1>6
    <3> QED  BY <1>1, <1>6, <3>1
  <2>3. after \in SUBSET (0 .. MaxTime) /\ after # {}
    <3>1. last \in after  BY <1>6, <2>1
    <3> QED  BY <1>1, <3>1
  <2>4. /\ Max(before) \in before /\ \A u \in before : u <= Max(before)
        /\ Min(after) \in after /\ \A u \in after : Min(after) <= u
    BY <2>2, <2>3, FirstAndLast
  <2>5. PICK a \in rows : a.vehicle = v /\ a.timestamp = Max(before)
    BY <2>4 DEF TimesOf, T
  <2>6. PICK b \in rows : b.vehicle = v /\ b.timestamp = Min(after)
    BY <2>4 DEF TimesOf, T
  <2>7. a.timestamp \in Int /\ b.timestamp \in Int /\ a.timestamp <= t /\ t < b.timestamp
    BY <2>4, <2>5, <2>6 DEF Datable
  <2>8. ASSUME NEW z \in rows, z.vehicle = v PROVE ~(a.timestamp < z.timestamp /\ z.timestamp < b.timestamp)
    <3>1. z.timestamp \in T /\ z.timestamp \in Int  BY <1>3, <2>8 DEF Datable
    <3>2. z.timestamp \in before \/ z.timestamp \in after  BY <2>1, <3>1
    <3> HIDE DEF before, after
    <3> QED  BY <2>4, <2>5, <2>6, <2>7, <3>1, <3>2
  <2> DEFINE g == [row |-> b, previous |-> a, seconds |-> b.timestamp - a.timestamp]
  <2>9. g \in Gaps(rows)
    <3>1. <<a, b>> \in rows \X rows  OBVIOUS
    <3>2. a.timestamp < b.timestamp  BY <2>1, <2>7
    <3>3. ~\E z \in rows : /\ z.vehicle = a.vehicle
                           /\ a.timestamp < z.timestamp /\ z.timestamp < b.timestamp
      BY <2>5, <2>8
    <3> HIDE DEF before, after
    <3> DEFINE Next2(y) ==
            /\ y[1].vehicle = y[2].vehicle /\ y[1].timestamp < y[2].timestamp
            /\ ~\E z \in rows : /\ z.vehicle = y[1].vehicle
                                /\ y[1].timestamp < z.timestamp
                                /\ z.timestamp < y[2].timestamp
    <3>4. Next2(<<a, b>>)  BY <2>5, <2>6, <3>2, <3>3
    <3> HIDE DEF Next2
    <3>5. \E y \in {y \in rows \X rows : Next2(y)} :
            g = [row |-> y[2], previous |-> y[1], seconds |-> y[2].timestamp - y[1].timestamp]
      <4>1. <<a, b>> \in {y \in rows \X rows : Next2(y)}  BY <3>1, <3>4
      <4> WITNESS <<a, b>> \in {y \in rows \X rows : Next2(y)}
      <4> QED  OBVIOUS
    <3> HIDE DEF g
    <3> QED  BY <3>5 DEF Gaps, Next2
  <2>10. g \in GapsOf(rows, v)  BY <2>6, <2>9 DEF GapsOf
  <2>11. t \in Span(g)  BY <2>1, <2>7 DEF Span
  <2> QED  BY <2>1, <2>10, <2>11 DEF Covered
<1>7. Covered(GapsOf(rows, v)) = first .. last - 1
  <2>1. first .. last - 1 \in SUBSET Int  BY <1>6
  <2> QED  BY <1>4, <1>5
<1> QED  BY <1>7 DEF first, last, T
\* The rows of a vehicle are as many as the times it reported at, and its gaps add up to
\* the time from the first to the last.
LEMMA DatableAddsUp == ASSUME NEW rows, Datable(rows) PROVE AddUp(rows)
<1> SUFFICES ASSUME NEW v \in {r.vehicle : r \in rows}
             PROVE  /\ Cardinality({r \in rows : r.vehicle = v}) = Cardinality(TimesOf(rows, v))
                    /\ TotalSeconds(GapsOf(rows, v)) = Max(TimesOf(rows, v)) - Min(TimesOf(rows, v))
  BY DEF AddUp, GapsOf
<1> DEFINE mine == {r \in rows : r.vehicle = v}
           T == TimesOf(rows, v)
           G == GapsOf(rows, v)
<1>1. T \in SUBSET (0 .. MaxTime) /\ T # {}
  BY DEF TimesOf, Datable
<1>2. IsFiniteSet(0 .. MaxTime)  BY FS_Interval, IngestionAssumption
<1>3. Cardinality(mine) = Cardinality(T)
  <2> DEFINE at == [r \in mine |-> r.timestamp]
  <2>1. at \in [mine -> 0 .. MaxTime] /\ at \in [mine -> T]  BY DEF Datable, TimesOf
  <2>2. \A r, s \in mine : at[r] = at[s] => r = s  BY DEF Datable
  <2>3. \A t \in T : \E r \in mine : at[r] = t  BY DEF TimesOf
  <2> HIDE DEF at, mine, T
  <2>4. at \in Injection(mine, 0 .. MaxTime)  BY <2>1, <2>2 DEF Injection, IsInjective
  <2>5. IsFiniteSet(mine)  BY <1>2, <2>4, FS_Injection
  <2>6. at \in Bijection(mine, T)
    BY <2>1, <2>2, <2>3 DEF Bijection, Injection, Surjection, IsInjective
  <2>7. ExistsBijection(mine, T)  BY <2>6 DEF ExistsBijection
  <2> QED  BY <2>5, <2>7, FS_Bijection
<1> DEFINE measure == [s \in SUBSET G |-> Cardinality(Covered(s))]
<1>4. TotalSeconds(G) = measure[G]
  <2>1. IsFiniteSet(G)  BY GapsAreFinite
  <2>2. \A g \in G : g.seconds \in Int
    <3> SUFFICES ASSUME NEW g \in G PROVE g.seconds \in Int  OBVIOUS
    <3>1. /\ g.previous.timestamp \in 0 .. MaxTime /\ g.row.timestamp \in 0 .. MaxTime
          /\ g.seconds = g.row.timestamp - g.previous.timestamp
      BY GapIsBetweenRows DEF Datable
    <3> QED  BY <3>1
  <2>3. measure[{}] = 0
    <3>1. Covered({}) = {}  BY DEF Covered
    <3> QED  BY <3>1, FS_EmptySet
  <2>4. \A s \in SUBSET G : \A x \in s : measure[s] = measure[s \ {x}] + x.seconds
    <3> SUFFICES ASSUME NEW s \in SUBSET G, NEW x \in s
                 PROVE  measure[s] = measure[s \ {x}] + x.seconds
      OBVIOUS
    <3>1. Cardinality(Covered(s)) = Cardinality(Covered(s \ {x})) + x.seconds
      BY CoveredGrows
    <3>2. s \ {x} \in SUBSET G  OBVIOUS
    <3> HIDE DEF G
    <3> QED  BY <3>1, <3>2
  <2> HIDE DEF measure, G
  <2> QED  BY <2>1, <2>2, <2>3, <2>4, SumIsMeasure
<1>5. measure[G] = Cardinality(Min(T) .. Max(T) - 1)
  BY <1>1, GapsCover
<1>6. Cardinality(Min(T) .. Max(T) - 1) = Max(T) - Min(T)
  <2> HIDE DEF T
  <2> DEFINE a == Min(T)  b == Max(T)
  <2>1. a \in T /\ b \in T /\ a <= b  BY <1>1, FirstAndLast
  <2>2. a \in Int /\ b \in Int
    <3>1. \A x \in T : x \in Int  BY <1>1
    <3> HIDE DEF a, b
    <3> QED  BY <2>1, <3>1
  <2> HIDE DEF a, b
  <2>3. b - 1 \in Int /\ Cardinality(a .. b - 1) = IF a > b - 1 THEN 0 ELSE (b - 1) - a + 1
    BY <2>2, FS_Interval
  <2>4. Cardinality(a .. b - 1) = b - a  BY <2>1, <2>2, <2>3
  <2> QED  BY <2>4 DEF a, b
<1> QED  BY <1>3, <1>4, <1>5, <1>6

-----------------------------------------------------------------------------
(***************************************************************************)
(* What a capture holds.                                                   *)
(***************************************************************************)
\* A message is a valid report of a vehicle, of a time, and was sent at a time.
IsMessage(m) ==
    /\ m = [report |-> m.report, ingested |-> m.ingested]
    /\ \E v \in Vehicles, t \in 0 .. MaxTime : m.report = Entity(v, t)
    /\ Valid(m.report)
    /\ m.ingested \in 0 .. MaxTime

TopicInv == TypeInv /\ \A m \in topic : IsMessage(m) /\ m.ingested <= now

\* The vehicle and the time of a valid report say which one it is.
LEMMA ReportIsEntity ==
    ASSUME NEW m, IsMessage(m)
    PROVE  /\ m.report.vehicle \in Vehicles /\ m.report.timestamp \in 0 .. MaxTime
           /\ m.report = Entity(m.report.vehicle, m.report.timestamp)
<1>1. PICK v \in Vehicles, t \in 0 .. MaxTime : m.report = Entity(v, t)  BY DEF IsMessage
<1>2. m.report.vehicle = v /\ m.report.timestamp = t
  BY <1>1, ReportsAssumption DEF IsMessage, Valid
<1> QED  BY <1>1, <1>2

\* So a row says which message it is of.
LEMMA RowIsInjective ==
    ASSUME NEW m, IsMessage(m), NEW n, IsMessage(n), Row(m) = Row(n)
    PROVE  m = n
<1>1. /\ m.report.vehicle = n.report.vehicle /\ m.report.timestamp = n.report.timestamp
      /\ m.ingested = n.ingested
  <2>1. /\ Row(m).vehicle = Row(n).vehicle /\ Row(m).timestamp = Row(n).timestamp
        /\ Row(m).ingested = Row(n).ingested
    OBVIOUS
  <2> QED  BY <2>1 DEF Row
<1>2. m.report = n.report  BY <1>1, ReportIsEntity
<1> QED  BY <1>1, <1>2 DEF IsMessage

\* Of each report the last row is kept, and only that one.
LEMMA ReportsOfCapture ==
    ASSUME NEW messages, \A m \in messages : IsMessage(m)
    PROVE  /\ Datable(Reports(messages))
           /\ \A r \in Reports(messages) : \E m \in messages : r = Row(m)
           /\ \A m \in messages : \E r \in Reports(messages) :
                r.vehicle = m.report.vehicle /\ r.timestamp = m.report.timestamp
<1> DEFINE rows == Capture(messages)
           kept == Reports(messages)
<1>1. \A r \in kept : \E m \in messages : r = Row(m)
  BY DEF Reports, Deduplicated, Capture
<1>2. \A r \in kept : r.timestamp \in 0 .. MaxTime
  BY <1>1, ReportIsEntity DEF Row
<1>3. ASSUME NEW r \in kept, NEW s \in kept, r.vehicle = s.vehicle, r.timestamp = s.timestamp
      PROVE  r = s
  <2>1. PICK m \in messages : r = Row(m)  BY <1>1
  <2>2. PICK n \in messages : s = Row(n)  BY <1>1
  <2>3. r \in rows /\ s \in rows /\ r.ingested <= s.ingested /\ s.ingested <= r.ingested
    BY <1>3 DEF Reports, Deduplicated
  <2>4. r.ingested \in Int /\ s.ingested \in Int
    BY <2>1, <2>2, IngestionAssumption DEF Row, IsMessage
  <2>5. r.ingested = s.ingested  BY <2>3, <2>4
  <2>6. /\ m.report.vehicle = n.report.vehicle /\ m.report.timestamp = n.report.timestamp
        /\ m.ingested = n.ingested
    BY <1>3, <2>1, <2>2, <2>5 DEF Row
  <2>7. m.report = n.report  BY <2>6, ReportIsEntity
  <2>8. m = n  BY <2>6, <2>7 DEF IsMessage
  <2> QED  BY <2>1, <2>2, <2>8
<1>4. ASSUME NEW m \in messages
      PROVE  \E r \in kept : r.vehicle = m.report.vehicle /\ r.timestamp = m.report.timestamp
  <2> DEFINE same == {r \in rows : r.vehicle = m.report.vehicle
                                     /\ r.timestamp = m.report.timestamp}
             times == {r.ingested : r \in same}
  <2>1. Row(m) \in same  BY DEF Row, Capture
  <2>2. times \in SUBSET (0 .. MaxTime) /\ times # {}
    <3>1. \A r \in rows : r.ingested \in 0 .. MaxTime  BY DEF Capture, Row, IsMessage
    <3> QED  BY <2>1, <3>1
  <2>3. Max(times) \in times /\ \A t \in times : t <= Max(times)
    <3> HIDE DEF times
    <3> QED  BY <2>2, FirstAndLast
  <2>4. PICK r \in same : r.ingested = Max(times)  BY <2>3
  <2>5. \A s \in rows : s.vehicle = r.vehicle /\ s.timestamp = r.timestamp
                            => s.ingested <= r.ingested
    BY <2>3, <2>4
  <2>6. r \in kept  BY <2>4, <2>5 DEF Reports, Deduplicated
  <2> QED  BY <2>4, <2>6
<1> QED  BY <1>1, <1>2, <1>3, <1>4 DEF Datable
\* Only the valid entities of a feed are sent, at the time it is.
LEMMA SentAreMessages ==
    ASSUME TypeInv, NEW telemetries \in SUBSET ValidTelemetries
    PROVE  \A m \in Messages(telemetries) : IsMessage(m) /\ m.ingested <= now
<1> SUFFICES ASSUME NEW e \in telemetries
             PROVE  IsMessage([report |-> e, ingested |-> now]) /\ now <= now
  BY DEF Messages
<1>1. e \in Entities /\ Valid(e)  BY DEF ValidTelemetries
<1>2. PICK v \in Vehicles : feed[v] # None /\ e = Entity(v, feed[v])  BY <1>1 DEF Entities
<1>3. feed[v] \in 0 .. MaxTime  BY <1>2 DEF TypeInv
<1>4. now \in 0 .. MaxTime  BY DEF TypeInv
<1> QED  BY <1>1, <1>2, <1>3, <1>4, IngestionAssumption DEF IsMessage

LEMMA TopicStep == ASSUME TopicInv, [Next]_vars, TypeInv' PROVE TopicInv'
<1>1. CASE Publish
  <2>1. topic' = topic \cup Messages(ValidTelemetries) /\ now' = now  BY <1>1 DEF Publish, outside
  <2> QED  BY <2>1, SentAreMessages DEF TopicInv
<1>2. CASE PublishFails
  <2>1. /\ topic' = topic \cup Messages(Writable) /\ Writable \in SUBSET ValidTelemetries
        /\ now' = now
    BY <1>2 DEF PublishFails, Writable, outside
  <2> QED  BY <2>1, SentAreMessages DEF TopicInv
<1>3. CASE RequestRetried \/ RequestFails \/ Wake \/ Start \/ Tick \/ Change \/ Kill
  <2>1. topic' = topic /\ (now' = now \/ now' = now + 1)
    BY <1>3 DEF RequestRetried, RequestFails, Wake, Start, Tick, Change, Kill, outside
  <2>2. \A m \in topic : m.ingested <= now' /\ IsMessage(m)
    BY <2>1, IngestionAssumption DEF TopicInv, TypeInv, IsMessage
  <2> QED  BY <2>1, <2>2 DEF TopicInv
<1>4. CASE UNCHANGED vars  BY <1>4 DEF vars, TopicInv
<1> QED  BY <1>1, <1>2, <1>3, <1>4 DEF Next

\* The topic holds finitely many messages.
LEMMA TopicIsFinite == ASSUME TopicInv PROVE IsFiniteSet(topic)
<1> DEFINE times == 0 .. MaxTime
           places == (Vehicles \X times) \X times
           place == [m \in topic |-> <<<<m.report.vehicle, m.report.timestamp>>, m.ingested>>]
<1>1. IsFiniteSet(times) /\ IsFiniteSet(Vehicles)
  BY FS_Interval, IngestionAssumption, ReportsAssumption
<1>2. IsFiniteSet(places)
  <2> HIDE DEF times
  <2>1. IsFiniteSet(Vehicles \X times)  BY <1>1, FS_Product
  <2> QED  BY <1>1, <2>1, FS_Product
<1>3. \A m \in topic : place[m] \in places
  BY ReportIsEntity DEF TopicInv, IsMessage
<1>4. ASSUME NEW m \in topic, NEW n \in topic, place[m] = place[n] PROVE m = n
  <2>1. /\ m.report.vehicle = n.report.vehicle /\ m.report.timestamp = n.report.timestamp
        /\ m.ingested = n.ingested
    BY <1>4
  <2>2. Row(m) = Row(n)
    <3>1. m.report = n.report  BY <2>1, ReportIsEntity DEF TopicInv
    <3> QED  BY <2>1, <3>1 DEF Row
  <2> QED  BY <2>2, RowIsInjective DEF TopicInv
<1>5. place \in [topic -> places]  BY <1>3
<1> HIDE DEF place, places
<1>6. place \in Injection(topic, places)  BY <1>4, <1>5 DEF Injection, IsInjective
<1> QED  BY <1>2, <1>6, FS_Injection

\* What is published twice is what the notebook counts as a duplicate.
LEMMA DuplicatesAreCounted ==
    ASSUME TopicInv
    PROVE  Duplicates(Capture(topic)) = Cardinality(topic) - Cardinality({m.report : m \in topic})
<1> DEFINE reports == {m.report : m \in topic}
           kept == Deduplicated(Capture(topic))
           row == [m \in topic |-> Row(m)]
           report == [r \in kept |-> Entity(r.vehicle, r.timestamp)]
<1>1. \A m \in topic : IsMessage(m)  BY DEF TopicInv
<1>2. IsFiniteSet(topic)  BY TopicIsFinite
<1>3. Cardinality(Capture(topic)) = Cardinality(topic) /\ IsFiniteSet(Capture(topic))
  <2>1. row \in [topic -> Capture(topic)]  BY DEF Capture
  <2>2. \A m, n \in topic : row[m] = row[n] => m = n  BY <1>1, RowIsInjective
  <2>3. \A r \in Capture(topic) : \E m \in topic : row[m] = r  BY DEF Capture
  <2> HIDE DEF row
  <2>4. row \in Bijection(topic, Capture(topic))
    BY <2>1, <2>2, <2>3 DEF Bijection, Injection, Surjection, IsInjective
  <2>5. ExistsBijection(topic, Capture(topic))  BY <2>4 DEF ExistsBijection
  <2> QED  BY <1>2, <2>5, FS_Bijection
<1>4. /\ Datable(kept)
      /\ \A r \in kept : \E m \in topic : r = Row(m)
      /\ \A m \in topic : \E r \in kept :
            r.vehicle = m.report.vehicle /\ r.timestamp = m.report.timestamp
  BY <1>1, ReportsOfCapture DEF Reports
<1>5. \A r \in kept : \E m \in topic : /\ report[r] = m.report
                                       /\ r.vehicle = report[r].vehicle
                                       /\ r.timestamp = report[r].timestamp
  <2> SUFFICES ASSUME NEW r \in kept
               PROVE  \E m \in topic : /\ report[r] = m.report
                                       /\ r.vehicle = report[r].vehicle
                                       /\ r.timestamp = report[r].timestamp
    OBVIOUS
  <2>1. PICK m \in topic : r = Row(m)  BY <1>4
  <2>2. r.vehicle = m.report.vehicle /\ r.timestamp = m.report.timestamp  BY <2>1 DEF Row
  <2>3. report[r] = m.report  BY <1>1, <2>2, ReportIsEntity
  <2> QED  BY <2>2, <2>3
<1>6. ASSUME NEW e \in reports PROVE \E r \in kept : report[r] = e
  <2>1. PICK m \in topic : e = m.report  OBVIOUS
  <2>2. PICK r \in kept : r.vehicle = m.report.vehicle /\ r.timestamp = m.report.timestamp
    BY <1>4
  <2>3. report[r] = m.report  BY <1>1, <2>2, ReportIsEntity
  <2> QED  BY <2>1, <2>3
<1>7. Cardinality(kept) = Cardinality(reports)
  <2>1. IsFiniteSet(kept)
    <3>1. kept \in SUBSET Capture(topic)  BY DEF Deduplicated
    <3> HIDE DEF kept
    <3> QED  BY <1>3, <3>1, FS_Subset
  <2>2. report \in [kept -> reports]
    <3>1. \A r \in kept : report[r] \in reports  BY <1>5
    <3>2. report = [r \in kept |-> report[r]]  OBVIOUS
    <3> HIDE DEF report, reports, kept
    <3> QED  BY <3>1, <3>2
  <2>3. \A r, s \in kept : report[r] = report[s] => r = s
    <3> HIDE DEF report, kept
    <3> QED  BY <1>4, <1>5 DEF Datable
  <2> HIDE DEF report, kept, reports
  <2>4. report \in Bijection(kept, reports)
    BY <1>6, <2>2, <2>3 DEF Bijection, Injection, Surjection, IsInjective
  <2>5. ExistsBijection(kept, reports)  BY <2>4 DEF ExistsBijection
  <2> QED  BY <2>1, <2>5, FS_Bijection
<1> QED  BY <1>3, <1>7 DEF Duplicates

\* Whatever was retried, published in part or polled twice, the notebook's capture says of
\* every vehicle when it was seen: each report is one row, and the gaps add up; so do those
\* of a capture that was cut short.  What is required of a row is in it, but for the status.
THEOREM GapsAddUpAlways == Spec => []GapsAddUp
<1>1. Init => TopicInv
  BY RecoveryInitially DEF RecoveryInv, TopicInv, Init
<1>2. TopicInv /\ RecoveryInv' /\ [Next]_vars => TopicInv'
  BY TopicStep DEF RecoveryInv
<1>3. TopicInv => GapsAddUp
  <2> SUFFICES ASSUME TopicInv PROVE GapsAddUp  OBVIOUS
  <2>1. \A m \in topic : IsMessage(m)  BY DEF TopicInv
  <2>2. ASSUME NEW column \in RequiredCols \ {"status"}
        PROVE  MissingRequired(Capture(topic))[column] = 0
    <3>1. column \in {"vehicle", "timestamp", "place"}  BY DEF RequiredCols
    <3>2. ASSUME NEW r \in Capture(topic) PROVE r[column] # Missing
      <4>1. PICK m \in topic : r = Row(m)  BY DEF Capture
      <4>2. Valid(m.report)  BY <2>1 DEF IsMessage
      <4> QED  BY <3>1, <4>1, <4>2, ReportsAssumption DEF Row, Valid
    <3>3. {r \in Capture(topic) : r[column] = Missing} = {}  BY <3>2
    <3> QED  BY <3>3, FS_EmptySet DEF MissingRequired
  <2>3. AddUp(Reports(topic))  BY <2>1, ReportsOfCapture, DatableAddsUp
  <2>4. ASSUME NEW upTo PROVE AddUp(Deduplicated(CaptureInitial(topic, upTo)))
    <3> DEFINE read == {m \in topic : m.ingested <= upTo[m.report.vehicle]}
    <3>1. CaptureInitial(topic, upTo) = Capture(read)  BY DEF CaptureInitial, Capture
    <3>2. \A m \in read : IsMessage(m)  BY <2>1
    <3> HIDE DEF read
    <3>3. AddUp(Reports(read))  BY <3>2, ReportsOfCapture, DatableAddsUp
    <3> QED  BY <3>1, <3>3 DEF Reports
  <2> QED  BY <2>2, <2>3, <2>4, DuplicatesAreCounted DEF GapsAddUp
<1>4. RecoveryInv /\ [Next]_vars => RecoveryInv'  BY RecoveryStep
<1> QED  BY RecoveryInitially, <1>1, <1>2, <1>3, <1>4, PTL DEF Spec
-----------------------------------------------------------------------------
(***************************************************************************)
(* The cadence.                                                            *)
(***************************************************************************)
Polls == {m.ingested : m \in topic}
Missed == {t \in 0 .. now - 1 : t \notin Polls}

\* Some vehicle can be reported.
ReportedInv ==
    \E v \in Vehicles : feed[v] # None /\ \A t \in 0 .. MaxTime : Valid(Entity(v, t))

\* While nothing has failed, the poller was started at once, it has polled now unless its
\* timer is due, and the ticks that it missed are those spent waiting for an answer.
CadenceInv ==
    /\ budget.faults <= MaxFaults
    /\ Undisturbed =>
        /\ server = "up" /\ broker = Partitions
        /\ poller.phase = "stopped" => topic = {} /\ (now = 0 \/ Partitions = {})
        /\ poller.phase = "waiting" => poller.wake <= now + 1 /\ (now < poller.wake <=> now \in Polls)
        /\ poller.phase = "polling" => now \notin Polls
        /\ poller.phase # "stopped" => Missed = stalled

RegularInv == TypeInv /\ ReportedInv /\ CadenceInv

LEMMA RegularInitially == ASSUME RegularFeed, Init PROVE RegularInv
<1>1. TypeInv  BY RecoveryInitially DEF RecoveryInv
<1>2. ReportedInv
  <2>1. PICK v \in Vehicles : 0 \in script[v] /\ \A t \in 0 .. MaxTime : Valid(Entity(v, t))
    BY DEF RegularFeed, Init
  <2>2. feed[v] = 0 /\ 0 # None
    BY <2>1, IngestionAssumption DEF Init, RegularFeed
  <2> QED  BY <2>1, <2>2 DEF ReportedInv
<1>3. CadenceInv
  BY IngestionAssumption DEF Init, CadenceInv, Undisturbed, Stopped
<1> QED  BY <1>1, <1>2, <1>3 DEF RegularInv

\* What has been reported can be reported again.
LEMMA ReportedStep ==
    ASSUME RegularFeed, TypeInv, ReportedInv, [Next]_vars PROVE ReportedInv'
<1>1. CASE Tick
  <2>1. PICK v \in Vehicles : feed[v] # None /\ \A t \in 0 .. MaxTime : Valid(Entity(v, t))
    BY DEF ReportedInv
  <2>2. now' \in 0 .. MaxTime  BY <1>1, IngestionAssumption DEF Tick, TypeInv
  <2>3. feed'[v] # None
    BY <1>1, <2>1, <2>2 DEF Tick, RegularFeed
  <2> QED  BY <2>1, <2>3 DEF ReportedInv
<1>2. CASE Publish \/ PublishFails \/ RequestRetried \/ RequestFails \/ Wake \/ Start
             \/ Change \/ Kill \/ UNCHANGED vars
  <2>1. feed' = feed
    BY <1>2 DEF Publish, PublishFails, RequestRetried, RequestFails, Wake, Start, Change,
                Kill, outside, vars
  <2> QED  BY <2>1 DEF ReportedInv
<1> QED  BY <1>1, <1>2 DEF Next

\* A poll that is answered leaves its time in the topic, and the next one is a tick later.
LEMMA PublishKeepsCadence == ASSUME RegularFeed, RegularInv, Publish PROVE CadenceInv'
<1>1. /\ UNCHANGED <<now, server, broker, budget, stalled>>
      /\ poller' = Waiting(0) /\ topic' = topic \cup Messages(ValidTelemetries)
      /\ poller.phase = "polling"
  BY DEF Publish, CycleSucceeds, outside, Answering, Polling
<1>2. ValidTelemetries # {}
  <2>1. PICK v \in Vehicles : feed[v] # None /\ \A t \in 0 .. MaxTime : Valid(Entity(v, t))
    BY DEF RegularInv, ReportedInv
  <2>2. feed[v] \in 0 .. MaxTime  BY <2>1 DEF RegularInv, TypeInv
  <2> QED  BY <2>1, <2>2 DEF ValidTelemetries, Entities
<1>3. now \in Polls' /\ Polls \subseteq Polls' /\ Polls' \subseteq Polls \cup {now}
  <2>1. PICK e \in ValidTelemetries : TRUE  BY <1>2
  <2>2. [report |-> e, ingested |-> now] \in topic'  BY <1>1 DEF Messages
  <2>3. \A m \in topic' : m \in topic \/ m.ingested = now  BY <1>1 DEF Messages
  <2>4. [report |-> e, ingested |-> now].ingested = now  OBVIOUS
  <2>5. now \in Polls'  BY <2>2, <2>4 DEF Polls
  <2>6. Polls \subseteq Polls'  BY <1>1 DEF Polls
  <2>7. Polls' \subseteq Polls \cup {now}  BY <2>3 DEF Polls
  <2> QED  BY <2>5, <2>6, <2>7
<1>4. now \in Int  BY IngestionAssumption DEF RegularInv, TypeInv
<1>5. Missed' = Missed  BY <1>1, <1>3, <1>4 DEF Missed
<1>6. poller'.phase = "waiting" /\ poller'.wake = now + 1
  BY <1>1, IngestionAssumption DEF Waiting, ComputeWait, RegularFeed
<1>7. now' < poller'.wake  BY <1>1, <1>4, <1>6
<1> QED  BY <1>1, <1>3, <1>4, <1>5, <1>6, <1>7 DEF RegularInv, CadenceInv, Undisturbed

\* Time passes when the tick was polled, or at the cost of a stall.
LEMMA TickKeepsCadence == ASSUME RegularFeed, RegularInv, TopicInv, Tick PROVE CadenceInv'
<1>1. /\ now' = now + 1 /\ ~Due /\ UNCHANGED <<server, broker, poller, topic>>
      /\ stalled' = IF poller.phase = "polling" THEN stalled \cup {now} ELSE stalled
      /\ budget' = [budget EXCEPT !.stalls = IF Polling THEN @ - 1 ELSE @]
  BY DEF Tick, Polling
<1>2. now \in Nat /\ budget.faults \in Int /\ poller.wake \in Int
  BY IngestionAssumption DEF RegularInv, TypeInv
<1>3. budget'.faults = budget.faults  BY <1>1 DEF RegularInv, TypeInv
<1>4. Polls' = Polls /\ now' \notin Polls
  BY <1>1, <1>2 DEF Polls, TopicInv, IsMessage
<1>5. Missed' = IF now \in Polls THEN Missed ELSE Missed \cup {now}
  BY <1>1, <1>2, <1>4 DEF Missed
<1> SUFFICES ASSUME Undisturbed'
             PROVE  /\ server = "up" /\ broker = Partitions
                    /\ poller.phase = "stopped" => topic = {} /\ Partitions = {}
                    /\ poller.phase = "waiting" => poller.wake <= now + 1
                    /\ poller.phase # "stopped" => Missed' = stalled'
  BY <1>1, <1>2, <1>3, <1>4 DEF CadenceInv, RegularInv
<1>7. Undisturbed  BY <1>3 DEF Undisturbed
<1>8. CASE poller.phase = "stopped"
  BY <1>1, <1>7, <1>8 DEF RegularInv, CadenceInv, Due
<1>9. CASE poller.phase = "waiting"
  <2>1. now < poller.wake  BY <1>1, <1>2, <1>9 DEF Due
  <2>2. Missed' = Missed  BY <1>5, <1>7, <1>9, <2>1 DEF RegularInv, CadenceInv
  <2> QED  BY <1>1, <1>2, <1>3, <1>7, <1>9, <2>2 DEF RegularInv, CadenceInv
<1>10. CASE poller.phase = "polling"
  BY <1>1, <1>2, <1>5, <1>7, <1>10 DEF RegularInv, CadenceInv
<1> QED  BY <1>8, <1>9, <1>10 DEF RegularInv, TypeInv

LEMMA CadenceStep == ASSUME RegularFeed, RegularInv, TopicInv, [Next]_vars PROVE CadenceInv'
<1>1. CASE Publish  BY <1>1, PublishKeepsCadence
<1>2. CASE Tick  BY <1>2, TickKeepsCadence
<1>3. CASE PublishFails \/ RequestRetried \/ RequestFails
  <2>1. UNCHANGED <<server, broker, budget>>
    BY <1>3 DEF PublishFails, RequestRetried, RequestFails, outside
  <2>2. ~Undisturbed
    <3>1. CASE PublishFails
      BY <3>1, WellPublishes DEF PublishFails, RegularInv, CadenceInv
    <3>2. CASE RequestRetried \/ RequestFails
      BY <3>2 DEF RequestRetried, RequestFails, RegularInv, CadenceInv
    <3> QED  BY <1>3, <3>1, <3>2
  <2> QED  BY <2>1, <2>2 DEF RegularInv, CadenceInv, Undisturbed
<1>4. CASE Wake
  <2>1. /\ UNCHANGED <<now, server, broker, topic, budget, stalled>>
        /\ poller'.phase = "polling" /\ poller.phase = "waiting" /\ poller.wake <= now
    BY <1>4 DEF Wake, outside, RegularInv, TypeInv
  <2>2. Missed' = Missed /\ Polls' = Polls  BY <2>1 DEF Missed, Polls
  <2>3. now \in Int /\ poller.wake \in Int  BY IngestionAssumption DEF RegularInv, TypeInv
  <2> QED  BY <2>1, <2>2, <2>3 DEF RegularInv, CadenceInv, Undisturbed
<1>5. CASE Start
  <2>1. /\ UNCHANGED <<now, server, broker, topic, budget, stalled>> /\ poller'.phase = "polling"
        /\ poller.phase = "stopped" /\ broker # {}
    BY <1>5 DEF Start
  <2>2. Undisturbed => now = 0 /\ topic = {}  BY <2>1 DEF RegularInv, CadenceInv
  <2>3. now = 0 => Missed' = {} /\ stalled' = {}
    <3>1. now = 0 => 0 .. now' - 1 = {}  BY <2>1
    <3> QED  BY <2>1, <3>1 DEF Missed, RegularInv, TypeInv
  <2>4. topic = {} => Polls' = {}  BY <2>1 DEF Polls
  <2> QED  BY <2>1, <2>2, <2>3, <2>4 DEF RegularInv, CadenceInv, Undisturbed
<1>6. CASE Change \/ Kill
  <2>1. budget' = [budget EXCEPT !.faults = @ - 1]  BY <1>6 DEF Change, Kill
  <2>2. budget.faults \in Int /\ budget'.faults = budget.faults - 1
    BY <2>1 DEF RegularInv, TypeInv
  <2> QED  BY <2>2, IngestionAssumption DEF RegularInv, CadenceInv, Undisturbed
<1>7. CASE UNCHANGED vars
  <2>1. UNCHANGED <<now, server, broker, topic, budget, poller, stalled>>  BY <1>7 DEF vars
  <2>2. Missed' = Missed /\ Polls' = Polls  BY <2>1 DEF Missed, Polls
  <2> QED  BY <2>1, <2>2 DEF RegularInv, CadenceInv, Undisturbed
<1> QED  BY <1>1, <1>2, <1>3, <1>4, <1>5, <1>6, <1>7 DEF Next
\* Multiples of a minute, and the ticks between them.
LEMMA MinuteOfTick ==
    ASSUME NEW t \in Nat
    PROVE  /\ Minute(t) \in Nat
           /\ Minute(t) * MinuteTicks <= t /\ t < Minute(t) * MinuteTicks + MinuteTicks
<1>1. MinuteTicks \in Nat /\ MinuteTicks > 0  BY AnalysisAssumption
<1> QED  BY <1>1 DEF Minute

LEMMA EarlierMinute ==
    ASSUME NEW m \in Nat, NEW n \in Nat, m < n
    PROVE  m * MinuteTicks + MinuteTicks <= n * MinuteTicks
<1>1. MinuteTicks \in Nat  BY AnalysisAssumption
<1>2. PICK k \in Nat : n = m + 1 + k
  <2>1. n - m - 1 \in Nat /\ n = m + 1 + (n - m - 1)  OBVIOUS
  <2> QED  BY <2>1
<1>3. k * MinuteTicks \in Nat  BY <1>1
<1>4. n * MinuteTicks = m * MinuteTicks + MinuteTicks + k * MinuteTicks  BY <1>1, <1>2
<1>5. m * MinuteTicks \in Nat  BY <1>1
<1> QED  BY <1>1, <1>3, <1>4, <1>5

\* A whole minute of a regular feed is polled as often as its requests were answered, and
\* is in the gate's table if one was.
LEMMA MinutesAreRegular ==
    ASSUME RegularFeed, RegularInv, TopicInv, Undisturbed, poller.phase # "stopped",
           NEW m \in 0 .. Minute(now) - 1
    PROVE  /\ Answered(m) \in Nat
           /\ m \in DOMAIN PollsPerMinute(Capture(topic)) <=> Answered(m) > 0
           /\ m \in DOMAIN PollsPerMinute(Capture(topic)) =>
                PollsPerMinute(Capture(topic))[m] = Answered(m)
<1> DEFINE mine == {t \in Polls : Minute(t) = m}
           first == m * MinuteTicks
           ticks == first .. first + MinuteTicks - 1
<1>1. PollTimes(Capture(topic)) = Polls
  <2>1. \A msg \in topic : Row(msg).ingested = msg.ingested  BY DEF Row
  <2>2. \A t \in PollTimes(Capture(topic)) : t \in Polls
    BY <2>1 DEF PollTimes, Capture, Polls
  <2>3. \A t \in Polls : t \in PollTimes(Capture(topic))
    BY <2>1 DEF PollTimes, Capture, Polls
  <2> QED  BY <2>2, <2>3
<1>2. /\ m \in DOMAIN PollsPerMinute(Capture(topic)) <=> mine # {}
      /\ m \in DOMAIN PollsPerMinute(Capture(topic)) =>
            PollsPerMinute(Capture(topic))[m] = Cardinality(mine)
  BY <1>1 DEF PollsPerMinute
<1>3. now \in Nat /\ \A t \in Polls : t \in Nat /\ t <= now
  BY IngestionAssumption DEF Polls, TopicInv, IsMessage, TypeInv
<1>4. m \in Nat /\ m < Minute(now)
  BY <1>3, MinuteOfTick
<1>5. /\ first \in Nat /\ MinuteTicks \in Nat
      /\ first + MinuteTicks <= now
  <2>1. m * MinuteTicks + MinuteTicks <= Minute(now) * MinuteTicks
    BY <1>3, <1>4, MinuteOfTick, EarlierMinute
  <2>2. Minute(now) * MinuteTicks <= now /\ Minute(now) \in Nat  BY <1>3, MinuteOfTick
  <2>3. MinuteTicks \in Nat  BY AnalysisAssumption
  <2>4. m * MinuteTicks \in Nat /\ Minute(now) * MinuteTicks \in Nat  BY <1>4, <2>2, <2>3
  <2> QED  BY <1>3, <2>1, <2>2, <2>3, <2>4
<1>6. \A t \in mine : t \in ticks
  <2> SUFFICES ASSUME NEW t \in mine PROVE t \in ticks  OBVIOUS
  <2>1. t \in Nat /\ Minute(t) = m  BY <1>3
  <2>2. m * MinuteTicks <= t /\ t < m * MinuteTicks + MinuteTicks  BY <2>1, MinuteOfTick
  <2> HIDE DEF first
  <2>3. first <= t /\ t < first + MinuteTicks  BY <2>2 DEF first
  <2> QED  BY <1>5, <2>1, <2>3
<1>7. \A t \in ticks \ mine : t \in Missed /\ Minute(t) = m
  <2> SUFFICES ASSUME NEW t \in ticks, t \notin mine PROVE t \in Missed /\ Minute(t) = m  OBVIOUS
  <2>1. t \in Nat /\ t <= now - 1 /\ first <= t /\ t < first + MinuteTicks
    <3> HIDE DEF first
    <3> QED  BY <1>3, <1>5
  <2>2. Minute(t) = m
    <3>1. /\ Minute(t) \in Nat /\ Minute(t) * MinuteTicks <= t
          /\ t < Minute(t) * MinuteTicks + MinuteTicks
      BY <2>1, MinuteOfTick
    <3>2. Minute(t) * MinuteTicks \in Nat  BY <1>5, <3>1
    <3>3. CASE Minute(t) < m
      <4>1. Minute(t) * MinuteTicks + MinuteTicks <= first  BY <1>4, <3>1, <3>3, EarlierMinute
      <4> HIDE DEF first
      <4> QED  BY <1>5, <2>1, <3>1, <3>2, <4>1
    <3>4. CASE m < Minute(t)
      <4>1. first + MinuteTicks <= Minute(t) * MinuteTicks  BY <1>4, <3>1, <3>4, EarlierMinute
      <4> HIDE DEF first
      <4> QED  BY <1>5, <2>1, <3>1, <3>2, <4>1
    <3> QED  BY <1>4, <3>1, <3>3, <3>4
  <2>3. t \notin Polls  BY <2>2
  <2> QED  BY <1>3, <2>1, <2>2, <2>3 DEF Missed
<1>8. IsFiniteSet(ticks) /\ Cardinality(ticks) = MinuteTicks
  <2> HIDE DEF first
  <2> DEFINE last == first + MinuteTicks - 1
  <2>1. first \in Int /\ last \in Int /\ first <= last /\ last - first + 1 = MinuteTicks
    BY <1>5, AnalysisAssumption
  <2> HIDE DEF last
  <2>2. IsFiniteSet(first .. last)
        /\ Cardinality(first .. last) = IF first > last THEN 0 ELSE last - first + 1
    BY <2>1, FS_Interval
  <2>3. Cardinality(first .. last) = MinuteTicks  BY <2>1, <2>2
  <2> QED  BY <2>2, <2>3 DEF last
<1>9. /\ Cardinality(mine) \in Nat /\ Cardinality(ticks \ mine) \in Nat
      /\ Cardinality(mine) + Cardinality(ticks \ mine) = MinuteTicks
  <2>1. mine \in SUBSET ticks  BY <1>6
  <2> HIDE DEF mine, ticks
  <2> QED  BY <1>8, <2>1, PartsAddUp
<1>10. Missed = stalled  BY DEF RegularInv, CadenceInv
<1>11. ASSUME NEW t \in stalled, Minute(t) = m PROVE t \in ticks \ mine
  <2>1. t \in Nat  BY <1>3 DEF RegularInv, TypeInv
  <2>2. m * MinuteTicks <= t /\ t < m * MinuteTicks + MinuteTicks
    BY <1>11, <2>1, MinuteOfTick
  <2>3. t \notin Polls  BY <1>10 DEF Missed
  <2> HIDE DEF first
  <2>4. first <= t /\ t < first + MinuteTicks  BY <2>2 DEF first
  <2>5. t \in ticks  BY <1>5, <2>1, <2>4
  <2> QED  BY <2>3, <2>5
<1>12. ticks \ mine = {t \in stalled : Minute(t) = m}  BY <1>7, <1>10, <1>11
<1>13. Answered(m) = Cardinality(mine)
  <2> HIDE DEF ticks, mine, first
  <2> QED  BY <1>5, <1>9, <1>12 DEF Answered
<1>14. mine # {} <=> Cardinality(mine) > 0
  <2>1. IsFiniteSet(mine)
    <3>1. mine \in SUBSET ticks  BY <1>6
    <3> HIDE DEF mine, ticks
    <3> QED  BY <1>8, <3>1, FS_Subset
  <2> HIDE DEF mine
  <2> QED  BY <1>9, <2>1, FS_EmptySet
<1> HIDE DEF mine
<1> QED  BY <1>2, <1>9, <1>13, <1>14

\* What the cadence gate makes of slow answers, however slow they were, whenever the capture
\* is analysed: as long as the server, the broker and the process do not fail, it stops at
\* the whole minutes in which waiting cost more polls than are tolerated, but not all.
THEOREM GateTellsSlowAnswers == ASSUME RegularFeed PROVE Spec => []CadenceGateIsFair
<1>1. Init => TopicInv /\ RegularInv
  BY RecoveryInitially, RegularInitially DEF RecoveryInv, TopicInv, Init
<1>2. RecoveryInv => TypeInv  BY DEF RecoveryInv
<1>3. TopicInv /\ TypeInv' /\ [Next]_vars => TopicInv'
  BY TopicStep
<1>4. RegularInv /\ TopicInv /\ TypeInv' /\ [Next]_vars => RegularInv'
  BY CadenceStep, ReportedStep DEF RegularInv
<1>5. TopicInv /\ RegularInv => CadenceGateIsFair
  <2> SUFFICES ASSUME TopicInv, RegularInv, Settled, Undisturbed, NEW m \in 0 .. Minute(now) - 1
               PROVE  m \in AbnormalMinutes(Capture(topic), ExpectedPolls, PollTolerance)
                      <=> Answered(m) > 0 /\ Distance(Answered(m), ExpectedPolls) > PollTolerance
    BY DEF CadenceGateIsFair
  <2>1. poller.phase # "stopped"  BY DEF Settled
  <2>2. /\ m \in DOMAIN PollsPerMinute(Capture(topic)) <=> Answered(m) > 0
        /\ m \in DOMAIN PollsPerMinute(Capture(topic)) =>
                PollsPerMinute(Capture(topic))[m] = Answered(m)
    BY <2>1, MinutesAreRegular
  <2> QED  BY <2>2 DEF AbnormalMinutes
<1> QED
  BY RecoveryInitially, RecoveryStep, <1>1, <1>2, <1>3, <1>4, <1>5, PTL DEF Spec
-----------------------------------------------------------------------------
(***************************************************************************)
(* Order statistics and incidents.                                         *)
(***************************************************************************)
\* The image of a finite set is finite.
LEMMA FiniteImage ==
    ASSUME NEW S, IsFiniteSet(S), NEW f, DOMAIN f = S
    PROVE  IsFiniteSet({f[x] : x \in S})
<1> DEFINE T == {f[x] : x \in S}
           g == [x \in S |-> f[x]]
<1>1. g \in Surjection(S, T)  BY DEF Surjection
<1> HIDE DEF g, T
<1>2. IsFiniteSet(T)  BY <1>1, FS_Surjection
<1> QED  BY <1>2 DEF T

\* Those that fall short of a measure, and those that do not exceed it.
Under(S, f, s) == {x \in S : f[x] < s}
UpTo(S, f, s) == {x \in S : f[x] <= s}

\* Among finitely many measured things there is, for each k, the measure that at most k
\* fall short of and more than k do not exceed.
LEMMA OrderStatistic ==
    ASSUME NEW S, IsFiniteSet(S), NEW n \in Nat, NEW f \in [S -> 0 .. n],
           NEW k \in Nat, k < Cardinality(S)
    PROVE  \E s \in {f[x] : x \in S} :
              Cardinality(Under(S, f, s)) <= k /\ Cardinality(UpTo(S, f, s)) > k
<1> DEFINE V == {f[x] : x \in S}
           C == {s \in V : Cardinality(UpTo(S, f, s)) > k}
<1> USE DEF Under, UpTo
<1>1. V \in SUBSET (0 .. n) /\ V \in SUBSET Nat  OBVIOUS
<1>2. V # {}
  <2>1. S # {}  BY FS_EmptySet
  <2> QED  BY <2>1
<1>3. C # {}
  <2>1. PICK s \in V : \A t \in V : t <= s
    <3> HIDE DEF V
    <3> QED  BY <1>1, <1>2, LeastAndGreatest
  <2>2. UpTo(S, f, s) = S  BY <2>1
  <2> QED  BY <2>1, <2>2
<1>4. PICK s \in C : \A t \in C : s <= t
  <2>1. C \in SUBSET Nat  BY <1>1
  <2> HIDE DEF C
  <2> QED  BY <1>3, <2>1, LeastNatural
<1>5. Cardinality(Under(S, f, s)) <= k
  <2>1. CASE Under(S, f, s) = {}  BY <2>1, FS_EmptySet
  <2>2. CASE Under(S, f, s) # {}
    <3> DEFINE W == {f[x] : x \in Under(S, f, s)}
    <3>1. W # {} /\ W \in SUBSET (0 .. n)  BY <2>2
    <3>2. PICK t \in W : \A u \in W : u <= t
      <4> HIDE DEF W
      <4> QED  BY <3>1, LeastAndGreatest
    <3>3. t \in V /\ t < s /\ s \in Nat /\ t \in Nat  BY <1>1, <3>1, <3>2
    <3>4. UpTo(S, f, t) = Under(S, f, s)
      <4>1. ASSUME NEW x \in S, f[x] <= t PROVE f[x] < s  BY <3>3, <4>1
      <4>2. ASSUME NEW x \in S, f[x] < s PROVE f[x] <= t  BY <3>2, <4>2
      <4> QED  BY <4>1, <4>2
    <3>5. t \notin C  BY <1>4, <3>3
    <3>6. ~(Cardinality(UpTo(S, f, t)) > k)  BY <3>3, <3>5
    <3>7. IsFiniteSet(Under(S, f, s))  BY FS_Subset
    <3>8. Cardinality(Under(S, f, s)) \in Nat  BY <3>7, FS_CardinalityType
    <3> QED  BY <3>4, <3>6, <3>8
  <2> QED  BY <2>1, <2>2
<1> QED  BY <1>4, <1>5

\* Gaps whose lengths are numbers.
Measured(gaps) == IsFiniteSet(gaps) /\ \A g \in gaps : g.seconds \in 0 .. MaxTime

Shorter(gaps, s) == {g \in gaps : g.seconds < s}
NoLonger(gaps, s) == {g \in gaps : g.seconds <= s}

LEMMA KthIsBetween ==
    ASSUME NEW gaps, Measured(gaps), NEW k \in Nat, k < Cardinality(gaps)
    PROVE  /\ Kth(gaps, k) \in 0 .. MaxTime
           /\ Cardinality(Shorter(gaps, Kth(gaps, k))) <= k
           /\ Cardinality(NoLonger(gaps, Kth(gaps, k))) > k
<1> DEFINE f == [g \in gaps |-> g.seconds]
<1>1. f \in [gaps -> 0 .. MaxTime]  BY DEF Measured
<1>2. IsFiniteSet(gaps) /\ MaxTime \in Nat  BY IngestionAssumption DEF Measured
<1>3. \E s \in {f[x] : x \in gaps} :
            Cardinality(Under(gaps, f, s)) <= k /\ Cardinality(UpTo(gaps, f, s)) > k
  <2> HIDE DEF f
  <2> QED  BY <1>1, <1>2, OrderStatistic
<1>4. \E s \in {g.seconds : g \in gaps} :
            /\ Cardinality({g \in gaps : g.seconds < s}) <= k
            /\ Cardinality({g \in gaps : g.seconds <= s}) > k
  <2>1. {f[x] : x \in gaps} = {g.seconds : g \in gaps}  OBVIOUS
  <2>2. \A s : Under(gaps, f, s) = {g \in gaps : g.seconds < s}  BY DEF Under
  <2>3. \A s : UpTo(gaps, f, s) = {g \in gaps : g.seconds <= s}  BY DEF UpTo
  <2> HIDE DEF f
  <2> QED  BY <1>3, <2>1, <2>2, <2>3
<1>5. /\ Kth(gaps, k) \in {g.seconds : g \in gaps}
      /\ Cardinality({g \in gaps : g.seconds < Kth(gaps, k)}) <= k
      /\ Cardinality({g \in gaps : g.seconds <= Kth(gaps, k)}) > k
  BY <1>4 DEF Kth
<1> QED  BY <1>5 DEF Measured, Shorter, NoLonger

\* A quantile is interpolated between a length and one that is no smaller.
LEMMA KthIsMonotone ==
    ASSUME NEW gaps, Measured(gaps), NEW j \in Nat, NEW k \in Nat, j <= k, k < Cardinality(gaps)
    PROVE  Kth(gaps, j) <= Kth(gaps, k)
<1> DEFINE a == Kth(gaps, j)
           b == Kth(gaps, k)
<1>0. Cardinality(gaps) \in Nat  BY FS_CardinalityType DEF Measured
<1>1. /\ a \in 0 .. MaxTime /\ Cardinality(Shorter(gaps, a)) <= j
      /\ b \in 0 .. MaxTime /\ Cardinality(NoLonger(gaps, b)) > k
  BY <1>0, KthIsBetween
<1> HIDE DEF a, b
<1>2. SUFFICES ASSUME b < a PROVE FALSE
  BY <1>1, IngestionAssumption DEF a, b
<1>3. NoLonger(gaps, b) \subseteq Shorter(gaps, a)
  BY <1>1, <1>2, IngestionAssumption DEF Measured, Shorter, NoLonger
<1>4. IsFiniteSet(Shorter(gaps, a))  BY FS_Subset DEF Measured, Shorter
<1>5. /\ Cardinality(NoLonger(gaps, b)) <= Cardinality(Shorter(gaps, a))
      /\ IsFiniteSet(NoLonger(gaps, b))
  BY <1>3, <1>4, FS_Subset
<1>6. /\ Cardinality(NoLonger(gaps, b)) \in Nat
      /\ Cardinality(Shorter(gaps, a)) \in Nat
  BY <1>4, <1>5, FS_CardinalityType
<1> QED  BY <1>1, <1>5, <1>6

\* The position of a quantile among n gaps.
LEMMA PositionIsWithin ==
    ASSUME NEW p \in 0 .. 100, NEW n \in Nat, n > 0
    PROVE  /\ (p * (n - 1)) \div 100 \in 0 .. n - 1
           /\ 100 * ((p * (n - 1)) \div 100) <= p * (n - 1)
           /\ p * (n - 1) < 100 * ((p * (n - 1)) \div 100) + 100
           /\ (p * (n - 1)) % 100 \in 0 .. 99
           /\ p * (n - 1) \in Nat
<1>1. p \in Nat /\ n - 1 \in Nat /\ 100 - p \in Nat  OBVIOUS
<1>2. p * (n - 1) \in Nat /\ (100 - p) * (n - 1) \in Nat  BY <1>1
<1>3. (100 - p) * (n - 1) = 100 * (n - 1) - p * (n - 1)  BY <1>1
<1> DEFINE m == p * (n - 1)
<1>4. m \in Nat /\ m <= 100 * (n - 1)  BY <1>2, <1>3
<1> HIDE DEF m
<1>5. /\ m \div 100 \in Int /\ 100 * (m \div 100) <= m /\ m < 100 * (m \div 100) + 100
      /\ m % 100 \in 0 .. 99
  BY <1>4
<1>6. m \div 100 \in 0 .. n - 1  BY <1>1, <1>4, <1>5
<1> QED  BY <1>4, <1>5, <1>6 DEF m

\* What is beyond a quantile.
Beyond(gaps, p) == {g \in gaps : 100 * g.seconds > Quantile(gaps, p)}

LEMMA QuantileIsBetween ==
    ASSUME NEW gaps, Measured(gaps), gaps # {}, NEW p \in 0 .. 100
    PROVE  /\ Quantile(gaps, p) \in Int
           /\ 100 * Cardinality(Beyond(gaps, p)) < (100 - p) * (Cardinality(gaps) - 1) + 100
<1> DEFINE n == Cardinality(gaps)
           m == p * (n - 1)
           k == m \div 100
           j == Min({k + 1, n - 1})
           a == Kth(gaps, k)
           b == Kth(gaps, j)
           Low == NoLonger(gaps, a)
           High == Beyond(gaps, p)
<1>1. n \in Nat /\ n > 0
  <2>1. n \in Nat  BY FS_CardinalityType DEF Measured
  <2>2. n # 0  BY FS_EmptySet DEF Measured
  <2> QED  BY <2>1, <2>2
<1>2. k \in 0 .. n - 1 /\ m % 100 \in 0 .. 99 /\ m < 100 * k + 100 /\ m \in Nat
  <2> HIDE DEF n
  <2> QED  BY <1>1, PositionIsWithin
<1>3. j \in k .. n - 1
  <2>1. n - 1 \in Int /\ k + 1 \in Int /\ k <= n - 1 /\ k \in Int
    <3> HIDE DEF k, n
    <3> QED  BY <1>1, <1>2
  <2>2. j \in {k + 1, n - 1} /\ j <= k + 1 /\ j <= n - 1
    <3> HIDE DEF k, n
    <3> QED  BY <2>1, MinOfTwo
  <2> HIDE DEF j, k, n
  <2> QED  BY <2>1, <2>2
<1>4. Quantile(gaps, p) = 100 * a + (m % 100) * (b - a)  BY DEF Quantile
<1> HIDE DEF j, k, n
<1>5. /\ a \in 0 .. MaxTime /\ b \in 0 .. MaxTime /\ a <= b
      /\ Cardinality(Low) > k
  <2>1. j \in Nat /\ k \in Nat /\ k <= j /\ k < Cardinality(gaps) /\ j < Cardinality(gaps)
    BY <1>1, <1>2, <1>3 DEF n
  <2> QED  BY <2>1, KthIsBetween, KthIsMonotone
<1> HIDE DEF a, b, m
<1>6. (m % 100) * (b - a) \in Nat
  <2>1. b - a \in Nat /\ m % 100 \in Nat  BY <1>2, <1>5, IngestionAssumption
  <2> DEFINE c == m % 100  d == b - a
  <2> HIDE DEF c, d
  <2>2. c \in Nat /\ d \in Nat => c * d \in Nat  OBVIOUS
  <2> QED  BY <2>1, <2>2 DEF c, d
<1>7. Quantile(gaps, p) \in Int /\ Quantile(gaps, p) >= 100 * a
  BY <1>4, <1>5, <1>6, IngestionAssumption
<1>8. Low \cap High = {} /\ Low \cup High \subseteq gaps
  BY <1>5, <1>7, IngestionAssumption DEF Measured, NoLonger, Beyond
<1>9. Cardinality(Low) + Cardinality(High) <= n /\ Cardinality(Low) \in Nat
      /\ Cardinality(High) \in Nat
  <2>1. IsFiniteSet(Low) /\ IsFiniteSet(High)  BY FS_Subset DEF Measured, NoLonger, Beyond
  <2>2. Cardinality(Low) \in Nat /\ Cardinality(High) \in Nat  BY <2>1, FS_CardinalityType
  <2>3. Cardinality(Low \cup High) = Cardinality(Low) + Cardinality(High)
    <3> HIDE DEF Low, High
    <3>1. Cardinality(Low \cup High)
            = Cardinality(Low) + Cardinality(High) - Cardinality(Low \cap High)
      BY <2>1, FS_Union
    <3>2. Cardinality(Low \cap High) = 0  BY <1>8, FS_EmptySet
    <3> QED  BY <2>2, <3>1, <3>2
  <2>4. Cardinality(Low \cup High) <= n
    <3> HIDE DEF Low, High
    <3> QED  BY <1>8, FS_Subset DEF Measured, n
  <2> QED  BY <2>2, <2>3, <2>4
<1>10. (100 - p) * (n - 1) = 100 * (n - 1) - m  BY <1>1 DEF m
<1> HIDE DEF Low, High
<1>11. 100 * Cardinality(High) < 100 * (n - 1) - m + 100
  BY <1>1, <1>2, <1>5, <1>9
<1> QED  BY <1>7, <1>10, <1>11 DEF High, n
\* The rows of a capture are of vehicles, and its movement gaps can be measured.
LEMMA MovementIsMeasured ==
    ASSUME NEW messages, \A m \in messages : IsMessage(m)
    PROVE  /\ Datable(Reports(messages))
           /\ \A r \in Reports(messages) : r.vehicle \in Vehicles
           /\ MovementOf(messages) \subseteq Gaps(Reports(messages))
           /\ Measured(MovementOf(messages))
<1> DEFINE rows == Reports(messages)
           of == [v \in Vehicles |-> GapsOf(rows, v)]
<1>1. Datable(rows)  BY ReportsOfCapture
<1>2. \A r \in rows : r.vehicle \in Vehicles  BY ReportsOfCapture, ReportIsEntity DEF Row
<1>3. MovementOf(messages) \subseteq Gaps(rows)  BY DEF MovementOf, MovementGaps
<1>4. ASSUME NEW g \in Gaps(rows)
      PROVE  g \in GapsOf(rows, g.row.vehicle) /\ g.row.vehicle \in Vehicles
  BY <1>2, <1>4 DEF Gaps, GapsOf
<1>5. IsFiniteSet(UNION {of[v] : v \in Vehicles})
  <2>1. \A v \in Vehicles : IsFiniteSet(of[v])  BY <1>1, GapsAreFinite
  <2>2. DOMAIN of = Vehicles  OBVIOUS
  <2> HIDE DEF of
  <2>3. IsFiniteSet({of[v] : v \in Vehicles})  BY <2>2, FiniteImage, ReportsAssumption
  <2> QED  BY <2>1, <2>3, FS_UNION
<1>6. Gaps(rows) \subseteq UNION {of[v] : v \in Vehicles}  BY <1>4
<1>7. IsFiniteSet(MovementOf(messages))
  <2> HIDE DEF of
  <2> QED  BY <1>3, <1>5, <1>6, FS_Subset
<1>8. ASSUME NEW g \in Gaps(rows) PROVE g.seconds \in 0 .. MaxTime
  <2>1. /\ g.previous \in rows /\ g.row \in rows
        /\ g.seconds = g.row.timestamp - g.previous.timestamp
        /\ g.previous.timestamp < g.row.timestamp
    BY <1>4, GapIsBetweenRows
  <2>2. g.previous.timestamp \in 0 .. MaxTime /\ g.row.timestamp \in 0 .. MaxTime
    BY <1>1, <2>1 DEF Datable
  <2> QED  BY <2>1, <2>2, IngestionAssumption
<1> QED  BY <1>1, <1>2, <1>3, <1>7, <1>8 DEF Measured

\* After a gap a vehicle is not seen before the gap is over.
LEMMA GapIsSilence ==
    ASSUME NEW rows, Datable(rows), NEW g \in Gaps(rows), NEW q \in Int, 100 * g.seconds >= q
    PROVE  LET t == g.previous.timestamp
               times == TimesOf(rows, g.row.vehicle)
           IN  /\ t \in times /\ \E u \in times : u > t
               /\ \A u \in times : u > t => 100 * (u - t) >= q
<1> DEFINE t == g.previous.timestamp
           times == TimesOf(rows, g.row.vehicle)
<1>1. g \in GapsOf(rows, g.row.vehicle)  BY DEF GapsOf
<1>2. /\ g.previous \in rows /\ g.row \in rows /\ g.previous.vehicle = g.row.vehicle
      /\ g.seconds = g.row.timestamp - t /\ t < g.row.timestamp
      /\ \A z \in rows : z.vehicle = g.row.vehicle =>
            ~(t < z.timestamp /\ z.timestamp < g.row.timestamp)
  BY <1>1, GapIsBetweenRows
<1>3. t \in times /\ g.row.timestamp \in times  BY <1>2 DEF TimesOf
<1>4. t \in Int /\ g.row.timestamp \in Int  BY <1>2 DEF Datable
<1>5. ASSUME NEW u \in times, u > t PROVE 100 * (u - t) >= q
  <2>1. PICK z \in rows : z.vehicle = g.row.vehicle /\ z.timestamp = u  BY DEF TimesOf
  <2>2. u \in Int /\ ~(t < u /\ u < g.row.timestamp)  BY <1>2, <2>1 DEF Datable
  <2>3. u - t >= g.seconds /\ g.seconds \in Int  BY <1>2, <1>4, <1>5, <2>2
  <2> QED  BY <1>4, <2>2, <2>3
<1> QED  BY <1>2, <1>3, <1>4, <1>5

\* The size of the poll of a rank is a number.
LEMMA RankedSizeIsNumber ==
    ASSUME NEW S, IsFiniteSet(S), NEW N \in Nat, NEW size \in [S -> 0 .. N],
           NEW k \in Nat, k < Cardinality(S)
    PROVE  RankedSize(size, k) \in Nat
<1>1. PICK n \in {size[t] : t \in S} :
            Cardinality(Under(S, size, n)) <= k /\ Cardinality(UpTo(S, size, n)) > k
  BY OrderStatistic
<1>2. DOMAIN size = S /\ Range(size) = {size[t] : t \in S}  BY DEF Range
<1> DEFINE Ranked(x) == /\ Cardinality({t \in DOMAIN size : size[t] < x}) <= k
                        /\ Cardinality({t \in DOMAIN size : size[t] <= x}) > k
<1>3. n \in Range(size) /\ Ranked(n)  BY <1>1, <1>2 DEF Under, UpTo
<1>4. RankedSize(size, k) = CHOOSE x \in Range(size) : Ranked(x)  BY DEF RankedSize
<1> HIDE DEF Ranked
<1>5. RankedSize(size, k) \in Range(size)  BY <1>3, <1>4
<1> QED  BY <1>2, <1>5

\* The median size of a poll, less its fraction, is a number.
LEMMA ActiveIsNumber ==
    ASSUME NEW messages, IsFiniteSet(messages), messages # {}, \A m \in messages : IsMessage(m)
    PROVE  ActiveVehicles(Capture(messages)) \in Nat
<1> DEFINE rows == Capture(messages)
           S == PollTimes(rows)
           At(t) == {r \in rows : r.ingested = t}
           size == GroupSizes(rows)
           polls == Cardinality(S)
           low == RankedSize(size, (polls - 1) \div 2)
           high == RankedSize(size, polls \div 2)
<1>1. IsFiniteSet(rows) /\ rows # {}
  <2> DEFINE f == [m \in messages |-> Row(m)]
  <2>1. IsFiniteSet({f[m] : m \in messages})
    <3>1. DOMAIN f = messages  OBVIOUS
    <3> HIDE DEF f
    <3> QED  BY <3>1, FiniteImage
  <2>2. {f[m] : m \in messages} = rows  BY DEF Capture
  <2>3. \E m \in messages : f[m] \in rows  BY <2>2
  <2> QED  BY <2>1, <2>2, <2>3
<1>2. Cardinality(rows) \in Nat  BY <1>1, FS_CardinalityType
<1>3. S \in SUBSET (0 .. MaxTime) /\ S # {}
  BY <1>1 DEF PollTimes, Capture, Row, IsMessage
<1>4. IsFiniteSet(S)
  <2>1. IsFiniteSet(0 .. MaxTime)  BY FS_Interval, IngestionAssumption
  <2> HIDE DEF S
  <2> QED  BY <1>3, <2>1, FS_Subset
<1>5. size \in [S -> 0 .. Cardinality(rows)]
  <2> SUFFICES ASSUME NEW t \in S PROVE Cardinality(At(t)) \in 0 .. Cardinality(rows)
    BY DEF GroupSizes
  <2>1. IsFiniteSet(At(t)) /\ Cardinality(At(t)) <= Cardinality(rows)
    <3>1. At(t) \subseteq rows  OBVIOUS
    <3> HIDE DEF At, rows
    <3> QED  BY <1>1, <3>1, FS_Subset
  <2>2. Cardinality(At(t)) \in Nat  BY <2>1, FS_CardinalityType
  <2> QED  BY <1>2, <2>1, <2>2
<1>6. ActiveVehicles(rows) = (low + high) \div 2  BY <1>5 DEF ActiveVehicles
<1> HIDE DEF size, S, rows
<1>7. polls \in Nat /\ polls # 0
  BY <1>3, <1>4, FS_EmptySet, FS_CardinalityType
<1>8. /\ (polls - 1) \div 2 \in Nat /\ (polls - 1) \div 2 < polls
      /\ polls \div 2 \in Nat /\ polls \div 2 < polls
  BY <1>7
<1>9. low \in Nat /\ high \in Nat  BY <1>2, <1>4, <1>5, <1>8, RankedSizeIsNumber
<1> HIDE DEF low, high
<1>10. (low + high) \div 2 \in Nat  BY <1>9
<1> QED  BY <1>6, <1>10 DEF rows

\* A minute in which a large gap starts, and how many vehicles have one.
LEMMA AffectedAreVehicles ==
    ASSUME NEW messages, \A m \in messages : IsMessage(m)
    PROVE  LET affected == AffectedPerMinute(MovementOf(messages), Percent)
           IN  /\ DOMAIN affected \in SUBSET (0 .. MaxTime)
               /\ \A m \in DOMAIN affected :
                    /\ affected[m] \in 0 .. Cardinality(Vehicles)
                    /\ \E g \in Large(MovementOf(messages), Percent) :
                            Minute(g.previous.timestamp) = m
<1> DEFINE gaps == MovementOf(messages)
           affected == AffectedPerMinute(gaps, Percent)
           Of(m) == {g.row.vehicle : g \in {h \in Large(gaps, Percent) :
                                                Minute(h.previous.timestamp) = m}}
<1>1. DOMAIN affected = {Minute(g.previous.timestamp) : g \in Large(gaps, Percent)}
  BY DEF AffectedPerMinute
<1>2. \A m \in DOMAIN affected : affected[m] = Cardinality(Of(m))  BY DEF AffectedPerMinute
<1>3. ASSUME NEW g \in Large(gaps, Percent)
      PROVE  g.previous.timestamp \in 0 .. MaxTime /\ g.row.vehicle \in Vehicles
  <2>1. g \in Gaps(Reports(messages))  BY MovementIsMeasured DEF Large
  <2>2. g.previous \in Reports(messages) /\ g.row \in Reports(messages)  BY <2>1 DEF Gaps
  <2> QED  BY <2>2, MovementIsMeasured DEF Datable
<1>4. ASSUME NEW m PROVE Cardinality(Of(m)) \in 0 .. Cardinality(Vehicles)
  <2>1. Of(m) \subseteq Vehicles  BY <1>3
  <2> HIDE DEF Of
  <2>2. IsFiniteSet(Of(m)) /\ Cardinality(Of(m)) <= Cardinality(Vehicles)
    BY <2>1, FS_Subset, ReportsAssumption
  <2>3. Cardinality(Of(m)) \in Nat /\ Cardinality(Vehicles) \in Nat
    BY <2>2, FS_CardinalityType, ReportsAssumption
  <2> QED  BY <2>2, <2>3
<1>5. ASSUME NEW t \in 0 .. MaxTime PROVE Minute(t) \in 0 .. MaxTime
  BY <1>5, AnalysisAssumption, IngestionAssumption DEF Minute
<1> QED  BY <1>1, <1>2, <1>3, <1>4, <1>5

\* Each minute of a reported incident is one in which a vehicle fell silent for as long as
\* the cutoff, whatever the topic holds; the first version of the detection saw it too; and
\* the threshold made of the other gaps takes at most one in a hundred, rounded up, for a
\* vehicle that is gone.
THEOREM IncidentsAreSilences == Spec => []IncidentsNeverBridge
<1>1. Init => TopicInv
  BY RecoveryInitially DEF RecoveryInv, TopicInv, Init
<1>2. TopicInv /\ RecoveryInv' /\ [Next]_vars => TopicInv'
  BY TopicStep DEF RecoveryInv
<1>3. TopicInv => IncidentsNeverBridge
  <2> SUFFICES ASSUME TopicInv, topic # {} PROVE IncidentsNeverBridge
    BY DEF IncidentsNeverBridge, Settled
  <2> DEFINE rows == Reports(topic)
             gaps == MovementOf(topic)
             active == ActiveVehicles(Capture(topic))
             affected == AffectedPerMinute(gaps, Percent)
             incidents == FindIncidentWindows(gaps, active, Percent, MinPercent, MinRunLength)
             clean == CleanGaps(gaps, incidents)
  <2>1. \A m \in topic : IsMessage(m)  BY DEF TopicInv
  <2>2. /\ Datable(rows) /\ \A r \in rows : r.vehicle \in Vehicles
        /\ gaps \subseteq Gaps(rows) /\ Measured(gaps)
    BY <2>1, MovementIsMeasured
  <2>3. active \in Nat  BY <2>1, TopicIsFinite, ActiveIsNumber
  <2>4. /\ DOMAIN affected \in SUBSET (0 .. MaxTime)
        /\ \A m \in DOMAIN affected :
              /\ affected[m] \in 0 .. Cardinality(Vehicles)
              /\ \E g \in Large(gaps, Percent) : Minute(g.previous.timestamp) = m
    BY <2>1, AffectedAreVehicles
  <2>5. ASSUME NEW run \in incidents, NEW m \in run
        PROVE  m \in DOMAIN affected /\ 100 * affected[m] >= MinPercent * active
    BY DEF FindIncidentWindows, RunsOf, SuspectMinutes
  <2> HIDE DEF rows, gaps, active, affected, incidents
  <2>6. ASSUME NEW m \in DOMAIN affected PROVE SilenceBegins(m, rows, gaps)
    <3>1. PICK g \in Large(gaps, Percent) : Minute(g.previous.timestamp) = m  BY <2>4
    <3>2. g \in gaps /\ gaps # {} /\ 100 * g.seconds >= Quantile(gaps, Percent)
      BY <3>1 DEF Large
    <3>3. Quantile(gaps, Percent) \in Int  BY <2>2, <3>2, GatesAssumption, QuantileIsBetween
    <3>4. g \in Gaps(rows) /\ g.row.vehicle \in Vehicles
      <4>1. g \in Gaps(rows)  BY <2>2, <3>2
      <4> QED  BY <2>2, <4>1 DEF Gaps
    <3> QED  BY <2>2, <3>1, <3>2, <3>3, <3>4, GapIsSilence DEF SilenceBegins
  <2>7. ASSUME NEW run \in incidents, MinPercent * active > 100 * (MinVehicles - 1), run # {}
        PROVE  /\ run \subseteq FindClusterWindows(gaps, Percent, MinVehicles)
               /\ MaxVehicleCluster(gaps, Percent) >= MinVehicles
    <3> DEFINE suspect == {m \in DOMAIN affected : affected[m] >= MinVehicles}
    <3>1. Cardinality(Vehicles) \in Nat  BY FS_CardinalityType, ReportsAssumption
    <3>2. \A m \in DOMAIN affected : affected[m] \in Nat  BY <2>4, <3>1
    <3>3. MinPercent * active \in Nat /\ MinVehicles \in Nat
      <4>1. MinPercent \in Nat  BY GatesAssumption
      <4> QED  BY <2>3, <4>1, GatesAssumption
    <3>4. run \subseteq suspect
      <4> SUFFICES ASSUME NEW m \in run PROVE affected[m] >= MinVehicles  BY <2>5
      <4>1. m \in DOMAIN affected /\ 100 * affected[m] >= MinPercent * active  BY <2>5
      <4>2. affected[m] \in Nat  BY <3>2, <4>1
      <4> QED  BY <2>7, <3>3, <4>1, <4>2
    <3>5. suspect \in SUBSET (0 .. MaxTime) /\ suspect # {}  BY <2>4, <2>7, <3>4
    <3>6. /\ \A m \in suspect : Min(suspect) <= m /\ m <= Max(suspect) /\ m \in Int
          /\ Min(suspect) \in Int /\ Max(suspect) \in Int
      <4> HIDE DEF suspect
      <4>1. \A m \in suspect : m \in Int  BY <3>5, IngestionAssumption
      <4> QED  BY <3>5, <4>1, FirstAndLast
    <3>7. FindClusterWindows(gaps, Percent, MinVehicles) = Min(suspect) .. Max(suspect)
      BY <3>5 DEF FindClusterWindows, affected
    <3>8. MaxVehicleCluster(gaps, Percent) >= MinVehicles
      <4>1. PICK m \in suspect : TRUE  BY <3>5
      <4>2. m \in DOMAIN affected /\ affected[m] >= MinVehicles  BY <4>1
      <4>3. affected # <<>>  BY <4>2
      <4>4. MaxVehicleCluster(gaps, Percent) = Max(Range(affected))
        BY <4>3 DEF MaxVehicleCluster, affected
      <4>5. Range(affected) \in SUBSET (0 .. Cardinality(Vehicles)) /\ affected[m] \in Range(affected)
        BY <2>4, <4>2 DEF Range
      <4>6. affected[m] <= Max(Range(affected)) /\ Max(Range(affected)) \in Range(affected)
        BY <3>1, <4>5, LeastAndGreatest
      <4>7. Max(Range(affected)) \in Nat /\ affected[m] \in Nat  BY <3>1, <4>5, <4>6
      <4> QED  BY <3>3, <4>2, <4>4, <4>6, <4>7
    <3> HIDE DEF suspect
    <3> QED  BY <3>4, <3>6, <3>7, <3>8
  <2>8. \A run \in incidents : run # {}  BY DEF incidents, FindIncidentWindows, RunsOf
  <2>9. 100 * Cardinality(Outlasting(clean)) < Cardinality(clean) + 100
    <3>1. Measured(clean)
      <4>1. clean \subseteq gaps  BY DEF CleanGaps
      <4> HIDE DEF clean
      <4> QED  BY <2>2, <4>1, FS_Subset DEF Measured
    <3> HIDE DEF clean
    <3>2. CASE clean = {}
      <4>1. Outlasting(clean) = {}  BY <3>2 DEF Outlasting
      <4> QED  BY <3>2, <4>1, FS_EmptySet
    <3>3. CASE clean # {}
      <4> DEFINE late == Beyond(clean, 99)
      <4>1. /\ Quantile(clean, 99) \in Int
            /\ 100 * Cardinality(late) < (100 - 99) * (Cardinality(clean) - 1) + 100
        BY <3>1, <3>3, 99 \in 0 .. 100, QuantileIsBetween
      <4>2. Outlasting(clean) = late
        <5>1. \A g \in clean : g.seconds \in Int
          BY <3>1, IngestionAssumption DEF Measured
        <5>2. PollTicks \in Int  BY AnalysisAssumption
        <5> QED  BY <4>1, <5>1, <5>2 DEF Outlasting, SilentThreshold, Beyond
      <4> HIDE DEF late
      <4>3. Cardinality(clean) \in Nat  BY <3>1, FS_CardinalityType DEF Measured
      <4>4. (100 - 99) * (Cardinality(clean) - 1) = Cardinality(clean) - 1  BY <4>3
      <4>5. IsFiniteSet(late)  BY <3>1, FS_Subset DEF late, Measured, Beyond
      <4>6. Cardinality(late) \in Nat  BY <4>5, FS_CardinalityType
      <4> QED  BY <4>1, <4>2, <4>3, <4>4, <4>6
    <3> QED  BY <3>2, <3>3
  <2>10. \A run \in incidents : \A m \in run : SilenceBegins(m, rows, gaps)  BY <2>5, <2>6
  <2> QED
    BY <2>7, <2>8, <2>9, <2>10
    DEF IncidentsNeverBridge, rows, gaps, active, incidents, clean
<1>4. RecoveryInv /\ [Next]_vars => RecoveryInv'  BY RecoveryStep
<1> QED  BY RecoveryInitially, <1>1, <1>2, <1>3, <1>4, PTL DEF Spec
=============================================================================
