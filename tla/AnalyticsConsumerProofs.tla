----------------------- MODULE AnalyticsConsumerProofs -----------------------
(***************************************************************************)
(* Proofs about the analytics consumer's loop, for every value of the      *)
(* constants: any number of keys, messages, crashes and outages.           *)
(***************************************************************************)
EXTENDS FirstProcess, FiniteSetTheorems, WellFoundedInduction, TLAPS

\* A set of naturals has a least element.
LEMMA LeastNatural ==
    ASSUME NEW S \in SUBSET Nat, S # {}
    PROVE  \E x \in S : \A y \in S : x <= y
<1> DEFINE R == OpToRel(<, Nat)
<1>1. IsWellFoundedOn(R, Nat)
  BY NatLessThanWellFounded
<1>2. \A x, y \in Nat : <<y, x>> \in R <=> y < x
  BY DEF OpToRel
<1> HIDE DEF R
<1>3. PICK x \in S : \A y \in S : ~(<<y, x>> \in R)
  BY <1>1, WFMin
<1>4. \A y \in S : ~(y < x)
  BY <1>2, <1>3
<1>5. x \in Nat /\ \A y \in S : y \in Nat
  OBVIOUS
<1> QED BY <1>4, <1>5

USE KeysAssumption, TimeAssumption, BoundsAssumption, KindsAssumption DEF None

\* Appending keeps the messages that are already in the log.
LEMMA AppendKeeps ==
    ASSUME NEW m \in Messages, log \in Seq(Messages), log' = Append(log, m)
    PROVE  /\ log' \in Seq(Messages)
           /\ Len(log') = Len(log) + 1
           /\ Offsets' = Offsets \cup {Len(log) + 1}
           /\ \A o \in Offsets : log'[o] = log[o]
           /\ log'[Len(log) + 1] = m
  BY DEF Offsets

\* A message of the log is a ping, or carries nothing the metrics use.
LEMMA MessageShape ==
    ASSUME log \in Seq(Messages), NEW o \in Offsets
    PROVE  /\ log[o] \in Messages
           /\ log[o].ts \in 0..MaxTs
           /\ log[o].key \in Keys \cup {NoKey}
  <1>1. log[o] \in Messages
    BY DEF Offsets
  <1> QED BY <1>1 DEF Messages

\* The results of a window are arrivals; so is whatever the tracker keeps.
LEMMA ResultsAreArrivals ==
    ASSUME log \in Seq(Messages), NEW S \in SUBSET Offsets
    PROVE  /\ FirstArrivals(S) \subseteq Arrivals
           /\ Gated(FirstArrivals(S)) \subseteq FirstArrivals(S)
           /\ Fresh(Gated(FirstArrivals(S))) \subseteq Gated(FirstArrivals(S))
  BY MessageShape DEF FirstArrivals, Arrival, Arrivals, Gated, Fresh

\* A process that starts afresh has well-typed timers.
LEMMA ZeroTimers ==
    0 \in 0..Window /\ 0 \in 0..(RetryMax + RetryJitter)
  OBVIOUS

-----------------------------------------------------------------------------
(***************************************************************************)
(* TypeOK is an invariant of the loop.                                     *)
(***************************************************************************)
THEOREM TypeCorrect == Spec => []TypeOK
<1>1. Init => TypeOK
  <2> SUFFICES ASSUME Init PROVE TypeOK
    OBVIOUS
  <2>1. log \in Seq(Messages) /\ Len(log) <= MaxLog
    BY DEF Init
  <2>2. committed \in {None} \cup 0..Len(log) /\ position \in 0..Len(log)
    BY DEF Init
  <2> QED BY <2>1, <2>2, ZeroTimers DEF Init, TypeOK, Phases
<1>2. TypeOK /\ [Next]_vars => TypeOK'
  <2> SUFFICES ASSUME TypeOK, [Next]_vars PROVE TypeOK'
    OBVIOUS
  <2>1. CASE Publish
    <3>1. PICK m \in Messages : Len(log) < MaxLog /\ log' = Append(log, m)
      BY <2>1 DEF Publish
    <3>2. log \in Seq(Messages) /\ Len(log) \in Nat
      BY DEF TypeOK
    <3>3. /\ log' \in Seq(Messages) /\ Len(log') = Len(log) + 1
          /\ Offsets' = Offsets \cup {Len(log) + 1}
      BY <3>1, <3>2, AppendKeeps
    <3> QED BY <2>1, <3>1, <3>2, <3>3 DEF Publish, TypeOK, process, history
  <2>2. CASE Tick
    BY <2>2 DEF Tick, TypeOK, Offsets, history
  <2>3. CASE Start
    <3>1. committed' \in {None} \cup 0..Len(log') /\ position' \in 0..Len(log')
      BY <2>3 DEF Start, TypeOK
    <3> QED BY <2>3, <3>1, ZeroTimers DEF Start, TypeOK, Cleared, Phases, Offsets
  <2>4. CASE Crash
    <3>1. committed' \in {None} \cup 0..Len(log') /\ position' \in 0..Len(log')
      BY <2>4 DEF Crash, TypeOK
    <3>2. crashes' \in Nat /\ pc' \in Phases
      BY <2>4 DEF Crash, TypeOK, Phases
    <3>3. UNCHANGED <<log, committed, mongo, outages, history>> /\ Cleared
      BY <2>4 DEF Crash
    <3> QED BY <3>1, <3>2, <3>3, ZeroTimers DEF TypeOK, Cleared, Offsets, history
  <2>5. CASE PollMessage
    <3>1. Len(log) \in Nat /\ position + 1 \in 1..Len(log)
      BY <2>5 DEF PollMessage, TypeOK
    <3>2. position' \in 0..Len(log)
      BY <2>5, <3>1 DEF PollMessage
    <3>3. rows' \subseteq Offsets /\ pc' \in Phases
      BY <2>5, <3>1 DEF PollMessage, TypeOK, Offsets, Phases
    <3> QED BY <2>5, <3>2, <3>3 DEF PollMessage, TypeOK, Offsets, history
  <2>6. CASE PollNothing
    BY <2>6 DEF PollNothing, TypeOK, Offsets, Phases, process, history
  <2>7. CASE NotDue
    BY <2>7 DEF NotDue, TypeOK, Offsets, Phases, process, history
  <2>8. CASE FlushRaises \/ CommitRaises
    <3>1. committed' \in {None} \cup 0..Len(log') /\ position' \in 0..Len(log')
      BY <2>8 DEF FlushRaises, CommitRaises, TypeOK
    <3>2. /\ UNCHANGED <<log, mongo, crashes, outages, history>>
          /\ pc' = "down" /\ Cleared
      BY <2>8 DEF FlushRaises, CommitRaises
    <3> QED BY <3>1, <3>2, ZeroTimers DEF TypeOK, Cleared, Phases, Offsets, history
  <2>9. CASE FlushEmpty
    BY <2>9 DEF FlushEmpty, TypeOK, Offsets, Phases, history
  <2>10. CASE FlushInBackoff
    <3>1. CarryForward(rows) \subseteq rows
      BY DEF CarryForward
    <3> QED BY <2>10, <3>1, ZeroTimers DEF FlushInBackoff, TypeOK, Offsets, Phases
  <2>11. CASE Flush
    <3> DEFINE results == Gated(FirstArrivals(rows))
               fresh == Fresh(results)
    <3>1. fresh \subseteq results /\ results \subseteq Arrivals
      BY ResultsAreArrivals DEF TypeOK
    <3>2. KeysOf(results) \subseteq Keys
      BY <3>1 DEF KeysOf, Arrivals
    <3>3. Purged(seen \cup fresh, rows) \subseteq Arrivals
      BY <3>1 DEF Purged, TypeOK
    <3>4. /\ bunching' \in BOOLEAN
          /\ window' \subseteq Arrivals
          /\ seen' \subseteq Arrivals
          /\ lostKeys' \subseteq Keys
      <4>1. PICK outcome \in ComputeOutcomes :
              /\ bunching' \in BOOLEAN
              /\ window' = IF outcome = "ok" THEN fresh ELSE {}
              /\ seen' = IF outcome = "failed_before_dedup"
                           THEN seen ELSE Purged(seen \cup fresh, rows)
              /\ lostKeys' = IF outcome = "ok" THEN lostKeys
                                               ELSE lostKeys \cup KeysOf(results)
        BY <2>11 DEF Flush, Compute
      <4> HIDE DEF results, fresh
      <4> QED BY <4>1, <3>1, <3>2, <3>3 DEF TypeOK
    <3>5. CarryForward(rows) \subseteq Offsets
      BY DEF CarryForward, TypeOK
    <3> QED BY <2>11, <3>4, <3>5 DEF Flush, TypeOK, Offsets, Phases
  <2>12. CASE WriteBunching
    BY <2>12 DEF WriteBunching, TypeOK, Offsets, Phases, history
  <2>13. CASE WriteDeviations
    BY <2>13 DEF WriteDeviations, TypeOK, Offsets, Phases, process, Upsert
  <2>14. CASE WriteDeviationsFails
    <3>1. KeysOf(window) \subseteq Keys
      BY DEF KeysOf, Arrivals, TypeOK
    <3>2. mongo' \subseteq Arrivals
      BY <2>14 DEF WriteDeviationsFails, Upsert, TypeOK
    <3> QED BY <2>14, <3>1, <3>2 DEF WriteDeviationsFails, TypeOK, Offsets, Phases
  <2>15. CASE Commit
    <3>1. committed' \in {None} \cup 0..Len(log)
      BY <2>15 DEF Commit, TypeOK
    <3> QED BY <2>15, <3>1, ZeroTimers DEF Commit, EndOfWindow, TypeOK, Offsets, Phases, history
  <2>16. CASE EnterBackoff
    <3>1. backoffLeft' \in 0..(RetryMax + RetryJitter)
      BY <2>16 DEF EnterBackoff, Delays
    <3>2. failures' \in Nat /\ outages' \in Nat
      BY <2>16 DEF EnterBackoff, TypeOK
    <3>3. UNCHANGED <<log, committed, position, rows, seen, mongo, crashes, history>>
      BY <2>16 DEF EnterBackoff
    <3>4. EndOfWindow
      BY <2>16 DEF EnterBackoff
    <3> QED BY <3>1, <3>2, <3>3, <3>4, ZeroTimers
            DEF EndOfWindow, TypeOK, Offsets, Phases, history
  <2>17. CASE UNCHANGED vars
    BY <2>17 DEF vars, process, history, TypeOK, Offsets
  <2> QED
    BY <2>1, <2>2, <2>3, <2>4, <2>5, <2>6, <2>7, <2>8, <2>9, <2>10, <2>11, <2>12,
       <2>13, <2>14, <2>15, <2>16, <2>17 DEF Next, Poll, Check, Persist, Settle
<1> QED
  BY <1>1, <1>2, PTL DEF Spec

-----------------------------------------------------------------------------
(* The inductive invariant.  NoSilentSkip is not inductive: a commit needs  *)
(* to know that everything handed to this process is accounted for, so the *)
(* invariant follows each message from poll() to the verdict.              *)

\* Where a message the process has been handed may still be.
InFlight ==
    IF pc \in {"poll", "check"} THEN rows
    ELSE IF pc \in {"write_bunching", "write_deviations"} THEN batch ELSE {}

\* Every message handed over is in flight, accounted for, or malformed.
HandedOver ==
    \A o \in Offsets :
        o <= position /\ log[o].kind # "malformed" => o \in InFlight \cup Accounted

\* A poison message never gets past flush().
PoisonStops ==
    \A o \in Offsets :
        log[o].kind = "poison" => /\ o \notin handled \cup dropped
                                  /\ pc \in Writing => o \notin batch

\* A running process is at or past the committed offset.
AtOrPast == pc # "down" => committed <= position

OffsetInv == HandedOver /\ NoSilentSkip /\ PoisonStops /\ AtOrPast

\* The log is only appended to, so facts about old offsets survive Publish.
LEMMA OffsetInvInit == Init => OffsetInv
  BY DEF Init, OffsetInv, HandedOver, NoSilentSkip, PoisonStops, AtOrPast, Offsets,
         Committed, Accounted

LEMMA OffsetInvStep == TypeOK /\ OffsetInv /\ [Next]_vars => OffsetInv'
<1> SUFFICES ASSUME TypeOK, OffsetInv, [Next]_vars PROVE OffsetInv'
  OBVIOUS
<1> USE DEF OffsetInv
<1>0. Len(log) \in Nat /\ position \in Nat
  BY DEF TypeOK
<1>1. CASE Publish
  <2>1. PICK m \in Messages : log' = Append(log, m)
    BY <1>1 DEF Publish
  <2>2. /\ Offsets' = Offsets \cup {Len(log) + 1}
        /\ \A o \in Offsets : log'[o] = log[o]
    BY <2>1, AppendKeeps DEF TypeOK
  <2>3. UNCHANGED <<committed, pc, process, history>>
    BY <1>1 DEF Publish
  <2>4. position \in 0..Len(log) /\ committed \in {None} \cup 0..Len(log)
    BY DEF TypeOK
  <2>5. handled \subseteq Offsets /\ dropped \subseteq Offsets /\ batch \subseteq Offsets
    BY DEF TypeOK
  <2>6. Len(log) + 1 \notin Offsets /\ ~(Len(log) + 1 <= position) /\ ~Committed(Len(log) + 1)
    BY <1>0, <2>4 DEF Offsets, Committed
  <2>7. HandedOver' /\ AtOrPast'
    BY <2>2, <2>3, <2>6 DEF HandedOver, AtOrPast, InFlight, Accounted, process, history
  <2>8. NoSilentSkip'
    BY <2>2, <2>3, <2>6 DEF NoSilentSkip, Committed, Accounted, history
  <2>9. PoisonStops'
    BY <2>2, <2>3, <2>5, <2>6 DEF PoisonStops, process, history
  <2> QED BY <2>7, <2>8, <2>9
<1>2. CASE Tick
  BY <1>2 DEF Tick, HandedOver, NoSilentSkip, PoisonStops, AtOrPast, InFlight, Offsets,
              Committed, Accounted, history
<1>3. CASE Start
  <2>1. log' = log /\ committed' = committed
    BY <1>3 DEF Start
  <2>2. HandedOver' /\ AtOrPast'
    BY <1>3, <1>0 DEF Start, HandedOver, NoSilentSkip, AtOrPast, Offsets, Committed,
                      Accounted, TypeOK
  <2>3. NoSilentSkip'
    BY <1>3 DEF Start, NoSilentSkip, Committed, Accounted, Offsets
  <2>4. PoisonStops'
    BY <1>3 DEF Start, PoisonStops, Cleared, Offsets
  <2> QED BY <2>2, <2>3, <2>4
<1>4. CASE Crash
  <2>1. /\ UNCHANGED <<log, committed, history>>
        /\ pc' = "down" /\ position' = 0 /\ batch' = {}
    BY <1>4 DEF Crash, Cleared
  <2> QED BY <2>1, <1>0 DEF HandedOver, NoSilentSkip, PoisonStops, AtOrPast, Offsets,
                            Committed, Accounted, history
<1>5. CASE PollMessage
  <2>1. HandedOver' /\ AtOrPast'
    BY <1>5, <1>0 DEF PollMessage, HandedOver, AtOrPast, InFlight, Offsets, Accounted,
                      history, TypeOK
  <2>2. NoSilentSkip'
    BY <1>5 DEF PollMessage, NoSilentSkip, Offsets, Committed, Accounted, history
  <2>3. PoisonStops'
    BY <1>5 DEF PollMessage, PoisonStops, Offsets, Writing, history
  <2> QED BY <2>1, <2>2, <2>3
<1>6. CASE PollNothing
  BY <1>6 DEF PollNothing, HandedOver, NoSilentSkip, PoisonStops, AtOrPast, InFlight,
              Offsets, Committed, Accounted, Writing, process, history
<1>7. CASE NotDue
  BY <1>7 DEF NotDue, HandedOver, NoSilentSkip, PoisonStops, AtOrPast, InFlight,
              Offsets, Committed, Accounted, Writing, process, history
<1>8. CASE FlushRaises \/ CommitRaises
  BY <1>8, <1>0 DEF FlushRaises, CommitRaises, Cleared, HandedOver, NoSilentSkip,
                    PoisonStops, AtOrPast, Offsets, Committed, Accounted, history
<1>9. CASE FlushEmpty
  BY <1>9 DEF FlushEmpty, HandedOver, NoSilentSkip, PoisonStops, AtOrPast, InFlight,
              Offsets, Committed, Accounted, Writing, history
<1>10. CASE FlushInBackoff
  <2>1. rows' \cup dropped' = rows \cup dropped
    BY <1>10 DEF FlushInBackoff, CarryForward
  <2>2. HandedOver' /\ AtOrPast'
    BY <1>10, <2>1 DEF FlushInBackoff, HandedOver, AtOrPast, InFlight, Offsets, Accounted
  <2>3. NoSilentSkip'
    BY <1>10 DEF FlushInBackoff, NoSilentSkip, Offsets, Committed, Accounted
  <2>4. PoisonStops'
    BY <1>10 DEF FlushInBackoff, Flushable, PoisonStops, Offsets, Writing
  <2> QED BY <2>2, <2>3, <2>4
<1>11. CASE Flush
  <2>1. HandedOver' /\ AtOrPast'
    BY <1>11 DEF Flush, HandedOver, AtOrPast, InFlight, Offsets, Accounted
  <2>2. NoSilentSkip'
    BY <1>11 DEF Flush, NoSilentSkip, Offsets, Committed, Accounted
  <2>3. PoisonStops'
    BY <1>11 DEF Flush, Flushable, PoisonStops, Offsets, Writing
  <2> QED BY <2>1, <2>2, <2>3
<1>12. CASE WriteBunching
  BY <1>12 DEF WriteBunching, HandedOver, NoSilentSkip, PoisonStops, AtOrPast, InFlight,
               Offsets, Committed, Accounted, Writing, history
<1>13. CASE WriteDeviations
  BY <1>13 DEF WriteDeviations, HandedOver, NoSilentSkip, PoisonStops, AtOrPast, InFlight,
               Offsets, Committed, Accounted, Writing, process
<1>14. CASE WriteDeviationsFails
  BY <1>14 DEF WriteDeviationsFails, HandedOver, NoSilentSkip, PoisonStops, AtOrPast,
               InFlight, Offsets, Committed, Accounted, Writing
<1>15. CASE Commit
  BY <1>15 DEF Commit, EndOfWindow, HandedOver, NoSilentSkip, PoisonStops, AtOrPast,
               InFlight, Offsets, Committed, Accounted, Writing, history, TypeOK
<1>16. CASE EnterBackoff
  <2>1. /\ UNCHANGED <<log, committed, position, rows, history>>
        /\ batch' = {} /\ pc = "enter_backoff" /\ pc' = "poll"
    BY <1>16 DEF EnterBackoff, EndOfWindow
  <2> QED BY <2>1 DEF HandedOver, NoSilentSkip, PoisonStops, AtOrPast, InFlight, Offsets,
                      Committed, Accounted, Writing, history
<1>17. CASE UNCHANGED vars
  BY <1>17 DEF vars, process, history, HandedOver, NoSilentSkip, PoisonStops, AtOrPast,
               InFlight, Offsets, Committed, Accounted
<1> QED
  BY <1>1, <1>2, <1>3, <1>4, <1>5, <1>6, <1>7, <1>8, <1>9, <1>10, <1>11, <1>12,
     <1>13, <1>14, <1>15, <1>16, <1>17 DEF Next, Poll, Check, Persist, Settle

(***************************************************************************)
(* Below the committed offset every readable message was in a window whose *)
(* writes were attempted, was discarded in backoff, or predates the group. *)
(***************************************************************************)
THEOREM NothingSkippedInSilence == Spec => []NoSilentSkip
<1>1. OffsetInv => NoSilentSkip
  BY DEF OffsetInv
<1> QED
  BY <1>1, OffsetInvInit, OffsetInvStep, TypeCorrect, PTL DEF Spec

(***************************************************************************)
(* The consumer never commits past a message that makes flush() raise.     *)
(***************************************************************************)
THEOREM PoisonIsNeverPassed == Spec => []PoisonBlocks
<1>1. OffsetInv => PoisonBlocks
  BY DEF OffsetInv, PoisonStops, NoSilentSkip, PoisonBlocks, Accounted
<1> QED
  BY <1>1, OffsetInvInit, OffsetInvStep, TypeCorrect, PTL DEF Spec

-----------------------------------------------------------------------------
(* What the tracker remembers, what a window holds and what MongoDB holds. *)

\* At the verdict, the window's results are stored or recorded as lost.
WindowAccounted ==
    pc \in {"commit", "enter_backoff"} =>
        KeysOf(window) \subseteq KeysOf(mongo) \cup lostKeys

\* A commit is due only for a window that is wholly stored.
VerdictEarned == pc = "commit" => complete /\ window \subseteq mongo

ResultInv == SuppressionSound /\ WindowAccounted /\ VerdictEarned

\* An upsert keeps every key and adds those of the results, as they are.
LEMMA UpsertKeys ==
    ASSUME NEW docs, NEW results
    PROVE  /\ KeysOf(Upsert(docs, results)) = KeysOf(docs) \cup KeysOf(results)
           /\ results \subseteq Upsert(docs, results)
  BY DEF KeysOf, Upsert

LEMMA ResultInvInit == Init => ResultInv
  BY DEF Init, ResultInv, SuppressionSound, WindowAccounted, VerdictEarned, KeysOf

LEMMA ResultInvStep == ResultInv /\ [Next]_vars => ResultInv'
<1> SUFFICES ASSUME ResultInv, [Next]_vars PROVE ResultInv'
  OBVIOUS
<1> USE DEF ResultInv
<1>1. CASE UNCHANGED <<seen, window, mongo, lostKeys, complete>>
           /\ pc' \notin {"commit", "enter_backoff"}
           /\ (pc' \in Writing) = (pc \in Writing)
  BY <1>1 DEF SuppressionSound, WindowAccounted, VerdictEarned, KeysOf
<1>2. CASE UNCHANGED <<seen, window, mongo, lostKeys, complete, pc>>
  BY <1>2 DEF SuppressionSound, WindowAccounted, VerdictEarned, KeysOf
<1>3. CASE seen' = {} /\ pc' \in {"down", "poll"}
  BY <1>3 DEF SuppressionSound, WindowAccounted, VerdictEarned, KeysOf, Writing
<1>4. CASE Flush
  <2> DEFINE results == Gated(FirstArrivals(rows))
             fresh == Fresh(results)
  <2>1. PICK outcome \in ComputeOutcomes :
          /\ window' = IF outcome = "ok" THEN fresh ELSE {}
          /\ seen' = IF outcome = "failed_before_dedup"
                       THEN seen ELSE Purged(seen \cup fresh, rows)
          /\ lostKeys' = IF outcome = "ok" THEN lostKeys
                                           ELSE lostKeys \cup KeysOf(results)
    BY <1>4 DEF Flush, Compute
  <2>2. pc = "check" /\ pc' = "write_bunching" /\ mongo' = mongo
    BY <1>4 DEF Flush
  <2>3. fresh \subseteq results
    BY DEF Fresh
  <2> HIDE DEF results, fresh
  <2>4. Purged(seen \cup fresh, rows) \subseteq seen \cup fresh
    BY DEF Purged
  <2>5. KeysOf(seen') \subseteq KeysOf(seen) \cup KeysOf(fresh)
    BY <2>1, <2>4 DEF KeysOf
  <2>6. KeysOf(seen) \subseteq KeysOf(mongo) \cup lostKeys
    BY <2>2 DEF SuppressionSound, Writing
  <2>7. SuppressionSound'
    <3>1. CASE outcome = "ok"
      <4>1. window' = fresh /\ lostKeys' = lostKeys
        BY <3>1, <2>1
      <4> QED BY <4>1, <2>2, <2>5, <2>6 DEF SuppressionSound, Writing
    <3>2. CASE outcome = "failed_before_dedup"
      <4>1. seen' = seen /\ lostKeys \subseteq lostKeys'
        BY <3>2, <2>1
      <4> QED BY <4>1, <2>2, <2>6 DEF SuppressionSound, Writing
    <3>3. CASE outcome = "failed_after_dedup"
      <4>1. lostKeys' = lostKeys \cup KeysOf(results)
        BY <3>3, <2>1
      <4>2. KeysOf(fresh) \subseteq KeysOf(results)
        BY <2>3 DEF KeysOf
      <4> QED BY <4>1, <4>2, <2>2, <2>5, <2>6 DEF SuppressionSound, Writing
    <3> QED BY <3>1, <3>2, <3>3
  <2> QED BY <2>2, <2>7 DEF WindowAccounted, VerdictEarned
<1>5. CASE WriteBunching
  BY <1>5 DEF WriteBunching, SuppressionSound, WindowAccounted, VerdictEarned, KeysOf,
              Writing, history
<1>6. CASE WriteDeviations
  <2>1. /\ pc = "write_deviations" /\ mongo' = Upsert(mongo, window)
        /\ pc' = IF complete THEN "commit" ELSE "enter_backoff"
        /\ UNCHANGED <<seen, window, complete, lostKeys>>
    BY <1>6 DEF WriteDeviations, process
  <2>2. /\ KeysOf(mongo') = KeysOf(mongo) \cup KeysOf(window)
        /\ window \subseteq mongo'
    BY <2>1, UpsertKeys
  <2>3. KeysOf(seen') = KeysOf(seen) /\ KeysOf(window') = KeysOf(window)
    BY <2>1 DEF KeysOf
  <2> QED BY <2>1, <2>2, <2>3 DEF SuppressionSound, WindowAccounted, VerdictEarned, Writing
<1>7. CASE WriteDeviationsFails
  <2>1. PICK part \in SUBSET window : mongo' = Upsert(mongo, part)
    BY <1>7 DEF WriteDeviationsFails
  <2>2. /\ pc = "write_deviations" /\ pc' = "enter_backoff"
        /\ UNCHANGED <<seen, window>> /\ lostKeys' = lostKeys \cup KeysOf(window)
    BY <1>7 DEF WriteDeviationsFails
  <2>3. KeysOf(mongo) \subseteq KeysOf(mongo')
    BY <2>1, UpsertKeys
  <2>4. KeysOf(seen') = KeysOf(seen) /\ KeysOf(window') = KeysOf(window)
    BY <2>2 DEF KeysOf
  <2> QED BY <2>2, <2>3, <2>4 DEF SuppressionSound, WindowAccounted, VerdictEarned, Writing
<1>8. CASE Commit \/ EnterBackoff
  <2>1. /\ UNCHANGED <<seen, mongo, lostKeys>>
        /\ pc \in {"commit", "enter_backoff"} /\ pc' = "poll"
    BY <1>8 DEF Commit, EnterBackoff, EndOfWindow, history
  <2>2. KeysOf(seen') = KeysOf(seen) /\ KeysOf(mongo') = KeysOf(mongo)
    BY <2>1 DEF KeysOf
  <2>3. KeysOf(seen) \subseteq KeysOf(mongo) \cup lostKeys
    BY <2>1 DEF SuppressionSound, WindowAccounted, Writing
  <2> QED BY <2>1, <2>2, <2>3 DEF SuppressionSound, WindowAccounted, VerdictEarned, Writing
<1>9. CASE Poll \/ NotDue \/ FlushEmpty \/ FlushInBackoff
  <2>1. UNCHANGED <<seen, window, mongo, lostKeys, complete>>
    BY <1>9 DEF Poll, PollMessage, PollNothing, NotDue, FlushEmpty, FlushInBackoff,
                process, history
  <2>2. pc \in {"poll", "check"} /\ pc' \in {"poll", "check"}
    BY <1>9 DEF Poll, PollMessage, PollNothing, NotDue, FlushEmpty, FlushInBackoff
  <2> QED BY <1>1, <2>1, <2>2 DEF Writing
<1>10. CASE Publish \/ Tick \/ UNCHANGED vars
  BY <1>10, <1>2 DEF Publish, Tick, vars, process, history
<1>11. CASE Start \/ Crash \/ FlushRaises \/ CommitRaises
  BY <1>11, <1>3 DEF Start, Crash, FlushRaises, CommitRaises, Cleared
<1> QED
  BY <1>4, <1>5, <1>6, <1>7, <1>8, <1>9, <1>10, <1>11
     DEF Next, Poll, Check, Persist, Settle

(***************************************************************************)
(* The tracker never withholds a result that was not handed to MongoDB.    *)
(***************************************************************************)
THEOREM TrackerIsSound == Spec => []SuppressionSound
<1>1. ResultInv => SuppressionSound
  BY DEF ResultInv
<1> QED
  BY <1>1, ResultInvInit, ResultInvStep, PTL DEF Spec

(***************************************************************************)
(* The committed offset moves only when the window is wholly in MongoDB.   *)
(***************************************************************************)
THEOREM CommitsFollowStores == Spec => CommitAfterStore
<1>1. ResultInv /\ [Next]_vars
        => [committed' # committed => complete /\ window \subseteq mongo]_vars
  <2> SUFFICES ASSUME ResultInv, Next, committed' # committed
               PROVE  complete /\ window \subseteq mongo
    OBVIOUS
  <2>1. Commit
    BY DEF Next, Publish, Tick, Start, Crash, Poll, PollMessage, PollNothing, Check,
           NotDue, FlushRaises, FlushEmpty, FlushInBackoff, Flush, Persist, WriteBunching,
           WriteDeviations, WriteDeviationsFails, Settle, CommitRaises, EnterBackoff
  <2> QED BY <2>1 DEF Commit, ResultInv, VerdictEarned
<1> QED
  BY <1>1, ResultInvInit, ResultInvStep, PTL DEF Spec, CommitAfterStore

-----------------------------------------------------------------------------
(* Every arrival that was committed has a document, with its exceptions.   *)

\* The collapse to first arrivals keeps every key of the window.
LEMMA EveryKeyHasAFirstArrival ==
    ASSUME log \in Seq(Messages), NEW S \in SUBSET Offsets, NEW o \in S, log[o].key \in Keys
    PROVE  \E q \in S : Arrival(q) \in FirstArrivals(S) /\ log[q].key = log[o].key
<1> DEFINE Same == {q \in S : log[q].key = log[o].key}
           Times == {Ts(q) : q \in Same}
<1>1. Times \in SUBSET Nat /\ Ts(o) \in Times
  BY MessageShape DEF Ts
<1>2. PICK t \in Times : \A u \in Times : t <= u
  BY <1>1, LeastNatural
<1>3. PICK q \in Same : Ts(q) = t
  OBVIOUS
<1>4. \A p \in S : log[p].key = log[q].key => Ts(q) <= Ts(p)
  BY <1>2, <1>3
<1> QED BY <1>3, <1>4 DEF FirstArrivals

\* A key whose arrival the engine need not store, and one it has dealt with.
OutOfGate(k) == \E p \in Offsets : log[p].key = k /\ Gated({Arrival(p)}) = {}
Answered(k) == k \in KeysOf(mongo) \cup lostKeys \/ OutOfGate(k)

HandledAnswered == \A o \in handled : log[o].key \in Keys => Answered(log[o].key)

BatchAnswered ==
    pc \in {"write_bunching", "write_deviations"} =>
        \A o \in batch : log[o].key \in Keys =>
            Answered(log[o].key) \/ log[o].key \in KeysOf(window)

StoreInv == HandledAnswered /\ BatchAnswered

LEMMA StoreInvInit == Init => StoreInv
  BY DEF Init, StoreInv, HandledAnswered, BatchAnswered

\* What has been answered for stays so, as long as nothing is deleted.
LEMMA AnswersStay ==
    ASSUME log' = log, KeysOf(mongo) \subseteq KeysOf(mongo'), lostKeys \subseteq lostKeys'
    PROVE  \A k : Answered(k) => Answered(k)'
  BY DEF Answered, OutOfGate, Gated, Arrival, Offsets, Ts

\* The computation answers for every key of the window it is given: the first
\* arrival of the key is out of the gate, already seen, new, or lost.
LEMMA FlushAnswers ==
    ASSUME TypeOK, ResultInv, Flush, NEW o \in rows, log[o].key \in Keys
    PROVE  Answered(log[o].key)' \/ log[o].key \in KeysOf(window')
<1> DEFINE results == Gated(FirstArrivals(rows))
           fresh == Fresh(results)
           k == log[o].key
<1>1. PICK outcome \in ComputeOutcomes :
        /\ window' = IF outcome = "ok" THEN fresh ELSE {}
        /\ lostKeys' = IF outcome = "ok" THEN lostKeys
                                         ELSE lostKeys \cup KeysOf(results)
  BY DEF Flush, Compute
<1>2. pc = "check" /\ log' = log /\ mongo' = mongo
  BY DEF Flush
<1>3. PICK q \in rows : Arrival(q) \in FirstArrivals(rows) /\ log[q].key = k
  BY EveryKeyHasAFirstArrival DEF TypeOK
<1>4. \A j : Answered(j) => Answered(j)'
  <2>1. KeysOf(mongo') = KeysOf(mongo) /\ lostKeys \subseteq lostKeys'
    BY <1>1, <1>2
  <2> QED BY <1>2, <2>1, AnswersStay
<1>5. CASE Arrival(q) \notin results
  <2>1. Gated({Arrival(q)}) = {}
    BY <1>3, <1>5 DEF Gated
  <2>2. OutOfGate(k)
    BY <1>3, <2>1 DEF OutOfGate, TypeOK
  <2> QED BY <1>2, <1>4, <2>2 DEF Answered
<1>6. CASE Arrival(q) \in results /\ outcome # "ok"
  <2>1. k \in KeysOf(results)
    BY <1>3, <1>6 DEF KeysOf, Arrival
  <2>2. k \in lostKeys'
    BY <1>1, <1>6, <2>1
  <2> QED BY <1>2, <2>2 DEF Answered
<1>7. CASE Arrival(q) \in results /\ outcome = "ok"
  <2>1. CASE Arrival(q) \in fresh
    BY <1>1, <1>3, <1>7, <2>1 DEF KeysOf, Arrival
  <2>2. CASE Arrival(q) \notin fresh
    <3>1. PICK e \in seen : e.key = Arrival(q).key
      BY <1>7, <2>2 DEF Fresh
    <3>2. k \in KeysOf(seen)
      BY <1>3, <3>1 DEF KeysOf, Arrival
    <3>3. k \in KeysOf(mongo) \cup lostKeys
      BY <1>2, <3>2 DEF ResultInv, SuppressionSound, Writing
    <3> QED BY <1>2, <1>4, <3>3 DEF Answered
  <2> QED BY <2>1, <2>2
<1> QED BY <1>5, <1>6, <1>7

LEMMA StoreInvStep ==
    TypeOK /\ ResultInv /\ StoreInv /\ [Next]_vars => StoreInv'
<1> SUFFICES ASSUME TypeOK, ResultInv, StoreInv, [Next]_vars PROVE StoreInv'
  OBVIOUS
<1> USE DEF StoreInv
<1>1. CASE Publish
  <2>1. PICK m \in Messages : log' = Append(log, m)
    BY <1>1 DEF Publish
  <2>2. /\ Offsets \subseteq Offsets'
        /\ \A o \in Offsets : log'[o] = log[o]
    BY <2>1, AppendKeeps DEF TypeOK
  <2>3. UNCHANGED <<pc, process, mongo, history>>
    BY <1>1 DEF Publish
  <2>4. handled \subseteq Offsets /\ batch \subseteq Offsets
    BY DEF TypeOK
  <2>5. \A k : Answered(k) => Answered(k)'
    <3>1. \A p \in Offsets : Arrival(p)' = Arrival(p)
      BY <2>2 DEF Arrival
    <3>2. \A k : OutOfGate(k) => OutOfGate(k)'
      BY <2>2, <3>1 DEF OutOfGate, Gated
    <3> QED BY <2>3, <3>2 DEF Answered, KeysOf, history
  <2> QED BY <2>2, <2>3, <2>4, <2>5 DEF HandledAnswered, BatchAnswered, KeysOf, process,
                                        history
<1>2. CASE Flush
  <2>1. /\ log' = log /\ mongo' = mongo /\ handled' = handled /\ batch' = rows
        /\ lostKeys \subseteq lostKeys'
    BY <1>2 DEF Flush, Compute
  <2>2. \A k : Answered(k) => Answered(k)'
    BY <2>1, AnswersStay
  <2>3. HandledAnswered'
    BY <2>1, <2>2 DEF HandledAnswered
  <2>4. BatchAnswered'
    BY <1>2, <2>1, FlushAnswers DEF BatchAnswered
  <2> QED BY <2>3, <2>4
<1>3. CASE WriteBunching
  <2>1. /\ pc = "write_bunching"
        /\ UNCHANGED <<log, mongo, handled, batch, window, lostKeys>>
    BY <1>3 DEF WriteBunching, history
  <2>2. \A k : Answered(k) => Answered(k)'
    BY <2>1, AnswersStay
  <2> QED BY <2>1, <2>2 DEF HandledAnswered, BatchAnswered
<1>4. CASE WriteDeviations
  <2>1. /\ pc = "write_deviations" /\ pc' \in {"commit", "enter_backoff"}
        /\ mongo' = Upsert(mongo, window) /\ handled' = handled \cup batch
        /\ UNCHANGED <<log, lostKeys>>
    BY <1>4 DEF WriteDeviations
  <2>2. KeysOf(mongo') = KeysOf(mongo) \cup KeysOf(window)
    BY <2>1, UpsertKeys
  <2>3. \A k : Answered(k) => Answered(k)'
    BY <2>1, <2>2, AnswersStay
  <2>4. \A k \in KeysOf(window) : Answered(k)'
    BY <2>2 DEF Answered
  <2> QED BY <2>1, <2>3, <2>4 DEF HandledAnswered, BatchAnswered
<1>5. CASE WriteDeviationsFails
  <2>1. PICK part \in SUBSET window : mongo' = Upsert(mongo, part)
    BY <1>5 DEF WriteDeviationsFails
  <2>2. /\ pc = "write_deviations" /\ pc' = "enter_backoff"
        /\ handled' = handled \cup batch /\ lostKeys' = lostKeys \cup KeysOf(window)
        /\ log' = log
    BY <1>5 DEF WriteDeviationsFails
  <2>3. KeysOf(mongo) \subseteq KeysOf(mongo')
    BY <2>1, UpsertKeys
  <2>4. \A k : Answered(k) => Answered(k)'
    BY <2>2, <2>3, AnswersStay
  <2>5. \A k \in KeysOf(window) : Answered(k)'
    BY <2>2 DEF Answered
  <2> QED BY <2>2, <2>4, <2>5 DEF HandledAnswered, BatchAnswered
<1>6. CASE UNCHANGED <<log, mongo, handled, lostKeys>>
           /\ pc' \notin {"write_bunching", "write_deviations"}
  <2>1. \A k : Answered(k) => Answered(k)'
    BY <1>6, AnswersStay
  <2> QED BY <1>6, <2>1 DEF HandledAnswered, BatchAnswered
<1>7. CASE Tick \/ Start \/ Crash \/ PollMessage \/ PollNothing \/ NotDue \/ FlushRaises
           \/ FlushEmpty \/ FlushInBackoff \/ Commit \/ CommitRaises \/ EnterBackoff
  BY <1>6, <1>7 DEF Tick, Start, Crash, PollMessage, PollNothing, NotDue, FlushRaises,
     FlushEmpty, FlushInBackoff, Commit, CommitRaises, EnterBackoff, EndOfWindow, history
<1>8. CASE UNCHANGED vars
  <2>1. UNCHANGED <<log, mongo, handled, lostKeys, pc, batch, window>>
    BY <1>8 DEF vars, process, history
  <2>2. \A k : Answered(k) => Answered(k)'
    BY <2>1, AnswersStay
  <2> QED BY <2>1, <2>2 DEF HandledAnswered, BatchAnswered
<1> QED
  BY <1>1, <1>2, <1>3, <1>4, <1>5, <1>7, <1>8 DEF Next, Poll, Check, Persist, Settle

(***************************************************************************)
(* Every committed arrival has a document, unless a ping of its key is     *)
(* outside the 30-minute gate, its key was in a window whose write or      *)
(* computation failed, its ping was dropped in backoff, or it was          *)
(* published before the group first started.                               *)
(***************************************************************************)
THEOREM CommittedArrivalsAreStored == Spec => []CommittedStored
<1>1. OffsetInv /\ StoreInv => CommittedStored
  <2> SUFFICES ASSUME OffsetInv, StoreInv, NEW o \in Offsets, Committed(o), IsPing(o),
                      log[o].key \in Keys
               PROVE  \/ Answered(log[o].key)
                      \/ o \in dropped \cup missed
    BY DEF CommittedStored, Answered, OutOfGate
  <2>1. o \in Accounted
    BY DEF OffsetInv, NoSilentSkip, IsPing
  <2> QED BY <2>1 DEF Accounted, StoreInv, HandledAnswered
<1> QED
  BY <1>1, OffsetInvInit, OffsetInvStep, ResultInvInit, ResultInvStep, StoreInvInit,
     StoreInvStep, TypeCorrect, PTL DEF Spec

-----------------------------------------------------------------------------
(* The first process stores the first arrival of every key.                *)

\* The topic keeps the pings of one key in the order of their timestamps.
LogOrdered ==
    \A p, q \in Offsets : p <= q /\ log[p].key = log[q].key /\ log[p].key \in Keys
                            => Ts(p) <= Ts(q)

\* An arrival that was handed over.
Witnessed(e) == \E p \in Offsets : p <= position /\ Arrival(p) = e

NotTooLate(e) == e.ts - Scheduled[e.key] <= MaxDeviation

\* What the tracker has seen, and the results being written, were handed over, and no ping
\* that is still buffered is older; nor is one of their window.
MemoryInv ==
    /\ LogOrdered
    /\ \A o \in rows : o <= position
    /\ \A e \in seen \cup window : Witnessed(e)
    /\ \A e \in seen \cup window, o \in rows : log[o].key = e.key => e.ts <= Ts(o)
    /\ \A d \in window, o \in batch : log[o].key = d.key => d.ts <= Ts(o)
    /\ \A d \in window : NotTooLate(d)

\* The keys the promise is about.
Dependable(k) == k \notin overlooked /\ NeverTooEarly(k) /\ DwellIsRemembered(k)

\* The dwell is over: none of its pings is buffered, and one was handed over that is newer
\* than one of them by more than the retention.
DwellIsOver(k) ==
    /\ \A o \in rows : log[o].key # k
    /\ \E f, p \in Offsets : p <= position /\ log[f].key = k /\ Ts(p) > Ts(f) + Retention

\* The tracker withholds the key, or need not any more.
Recalled(k) == k \in KeysOf(seen) \/ DwellIsOver(k)

\* Until it ends, the first process keeps in the store what it has computed first: a key
\* that it handled is recalled, so that no later ping of it is taken for its arrival.
FirstProcessInv ==
    firstProcess =>
        /\ pc = "down" => handled = {} /\ mongo = {}
        /\ \A d \in mongo : Witnessed(d) /\ NotTooLate(d)
        /\ \A d \in mongo, o \in rows \cup batch : log[o].key = d.key => d.ts <= Ts(o)
        /\ \A k \in Keys, o \in handled \cup batch :
                log[o].key = k /\ NotTooLate(Arrival(o)) /\ Dependable(k) => Recalled(k)
        /\ \A d \in mongo \cup window, o \in handled :
                log[o].key = d.key /\ Dependable(d.key) => d.ts <= Ts(o)

LEMMA MemoryInvInit == Init => MemoryInv
  BY DEF Init, MemoryInv, LogOrdered, Offsets

\* A process that has forgotten everything remembers nothing wrong.
LEMMA ClearedMemory ==
    ASSUME LogOrdered, log' = log, Cleared
    PROVE  MemoryInv'
  BY DEF MemoryInv, LogOrdered, Cleared, Offsets, Ts

\* The log only grows.
LEMMA LogGrows ==
    ASSUME TypeOK, [Next]_vars
    PROVE  Offsets \subseteq Offsets' /\ \A o \in Offsets : log'[o] = log[o]
<1>1. CASE Publish
  <2>1. PICK m \in Messages : log' = Append(log, m)
    BY <1>1 DEF Publish
  <2> QED BY <2>1, AppendKeeps DEF TypeOK
<1>2. CASE UNCHANGED log
  BY <1>2 DEF Offsets
<1>3. Publish \/ UNCHANGED log
  BY DEF Next, Poll, Check, Persist, Settle, Tick, Start, Crash, PollMessage, PollNothing,
         NotDue, FlushRaises, FlushEmpty, FlushInBackoff, Flush, WriteBunching,
         WriteDeviations, WriteDeviationsFails, Commit, CommitRaises, EnterBackoff, vars
<1> QED BY <1>1, <1>2, <1>3

\* A key that can be depended on always could.
LEMMA DependableBefore ==
    ASSUME TypeOK, [WatchedNext]_watchedVars, NEW k, Dependable(k)'
    PROVE  Dependable(k)
<1>1. [Next]_vars /\ overlooked \subseteq overlooked'
  BY DEF WatchedNext, watchedVars
<1>2. Offsets \subseteq Offsets' /\ \A o \in Offsets : log'[o] = log[o]
  BY <1>1, LogGrows
<1>3. NeverTooEarly(k)
  BY <1>2 DEF Dependable, NeverTooEarly, Ts
<1>4. DwellIsRemembered(k)
  BY <1>2 DEF Dependable, DwellIsRemembered, Ts
<1> QED BY <1>1, <1>3, <1>4 DEF Dependable

\* What a window computes: the first of its pings of each key that is new and passes the
\* gate; the tracker takes all of it, less what is purged, or nothing.
LEMMA FlushComputes ==
    ASSUME TypeOK, MemoryInv, Flush
    PROVE  LET fresh == Fresh(Gated(FirstArrivals(rows)))
           IN  /\ window' \subseteq fresh /\ seen' \subseteq seen \cup fresh
               /\ seen' = seen \/ seen' = Purged(seen \cup fresh, rows)
               /\ fresh \subseteq Arrivals
               /\ \A e \in fresh :
                    /\ e.key \notin KeysOf(seen) /\ NotTooLate(e)
                    /\ \E p \in rows : Arrival(p) = e
                    /\ \A o \in rows : log[o].key = e.key => e.ts <= Ts(o)
<1> DEFINE results == Gated(FirstArrivals(rows))
           fresh == Fresh(results)
<1>1. log \in Seq(Messages) /\ rows \in SUBSET Offsets /\ seen \subseteq Arrivals
  BY DEF TypeOK
<1>2. fresh \subseteq results /\ results \subseteq FirstArrivals(rows)
      /\ FirstArrivals(rows) \subseteq Arrivals
  BY <1>1, ResultsAreArrivals
<1>3. ASSUME NEW e \in fresh
      PROVE  /\ e.key \notin KeysOf(seen) /\ NotTooLate(e)
             /\ \E p \in rows : Arrival(p) = e
             /\ \A o \in rows : log[o].key = e.key => e.ts <= Ts(o)
  <2>1. e.key \notin KeysOf(seen)
    BY DEF Fresh, KeysOf
  <2>2. NotTooLate(e)
    BY <1>2 DEF Gated, NotTooLate
  <2>3. PICK p \in rows : /\ e = Arrival(p)
                          /\ \A o \in rows : log[o].key = log[p].key => Ts(p) <= Ts(o)
    BY <1>2 DEF FirstArrivals
  <2>4. e.key = log[p].key /\ e.ts = Ts(p)
    BY <2>3 DEF Arrival, Ts
  <2> QED BY <2>1, <2>2, <2>3, <2>4
<1>4. /\ window' = fresh \/ window' = {}
      /\ seen' = seen \/ seen' = Purged(seen \cup fresh, rows)
  BY DEF Flush, Compute
<1>5. Purged(seen \cup fresh, rows) \subseteq seen \cup fresh
  BY DEF Purged
<1> HIDE DEF fresh
<1>6. window' \subseteq fresh /\ seen' \subseteq seen \cup fresh
  BY <1>4, <1>5
<1> QED BY <1>2, <1>3, <1>4, <1>6 DEF fresh

\* What a window purges is of a dwell that is over, if the retention was long enough for it.
LEMMA PurgedIsOver ==
    ASSUME TypeOK, MemoryInv, Flush, NEW e, NEW E, e \in E, e \notin Purged(E, rows),
           Witnessed(e), DwellIsRemembered(e.key)
    PROVE  DwellIsOver(e.key)'
<1>1. PICK p \in rows : ~(e.ts >= Ts(p) - Retention)
  BY DEF Purged
<1>2. PICK f \in Offsets : f <= position /\ Arrival(f) = e
  BY DEF Witnessed
<1>3. log[f].key = e.key /\ Ts(f) = e.ts
  BY <1>2 DEF Arrival, Ts
<1>4. p \in Offsets /\ p <= position /\ log \in Seq(Messages) /\ rows \subseteq Offsets
  BY DEF TypeOK, MemoryInv
<1>5. \A o \in Offsets : Ts(o) \in Nat
  BY <1>4, MessageShape DEF Ts
<1>6. Ts(p) > Ts(f) + Retention
  BY <1>1, <1>2, <1>3, <1>4, <1>5
<1>7. UNCHANGED <<log, position>> /\ rows' = CarryForward(rows)
  BY DEF Flush
<1>8. ASSUME NEW o \in rows', log[o].key = e.key PROVE FALSE
  <2>1. o \in Offsets /\ Ts(o) >= Ts(p) - Overlap
    BY <1>1, <1>4, <1>7 DEF CarryForward
  <2>2. Ts(p) <= Ts(o) + Overlap
    BY <1>4, <1>5, <2>1
  <2>3. Ts(p) <= Ts(f) + Retention
    BY <1>2, <1>3, <1>4, <1>8, <2>1, <2>2 DEF DwellIsRemembered
  <2> QED BY <1>2, <1>4, <1>5, <1>6, <2>3
<1> QED BY <1>2, <1>3, <1>4, <1>6, <1>7, <1>8 DEF DwellIsOver, Offsets, Ts

\* A window recalls the keys that were, and those of its own pings that the gate lets pass.
LEMMA FlushRecalls ==
    ASSUME TypeOK, MemoryInv, Flush, WatchedNext, NEW k \in Keys, Dependable(k)',
           \/ Recalled(k)
           \/ \E o \in rows : log[o].key = k /\ NotTooLate(Arrival(o))
    PROVE  Recalled(k)'
<1> DEFINE results == Gated(FirstArrivals(rows))
           fresh == Fresh(results)
<1>1. Dependable(k)
  BY DependableBefore
<1>2. /\ seen' = seen \/ seen' = Purged(seen \cup fresh, rows)
      /\ \A e \in fresh : \E p \in rows : Arrival(p) = e
  BY FlushComputes
<1>3. UNCHANGED <<log, position>> /\ rows' = CarryForward(rows)
      /\ pc = "check" /\ pc' = "write_bunching"
  BY DEF Flush
<1>4. CarryForward(rows) \subseteq rows /\ rows \subseteq Offsets /\ log \in Seq(Messages)
  BY DEF CarryForward, TypeOK
<1>5. \A e \in seen \cup fresh : Witnessed(e)
  BY <1>2, <1>4 DEF MemoryInv, Witnessed
<1>6. ASSUME NEW e \in seen \cup fresh, e.key = k, seen' = Purged(seen \cup fresh, rows)
      PROVE  Recalled(k)'
  <2>1. CASE e \in seen'
    BY <1>6, <2>1 DEF Recalled, KeysOf
  <2>2. CASE e \notin seen'
    <3> HIDE DEF fresh
    <3>1. DwellIsOver(e.key)'
      BY <1>1, <1>5, <1>6, <2>2, PurgedIsOver DEF Dependable
    <3>2. DwellIsOver(k)'
      BY <1>6, <3>1
    <3> QED BY <3>2 DEF Recalled
  <2> QED BY <2>1, <2>2
<1>7. CASE DwellIsOver(k)
  BY <1>3, <1>4, <1>7 DEF DwellIsOver, Recalled, Offsets, Ts
<1>8. CASE k \in KeysOf(seen)
  <2>1. PICK e \in seen : e.key = k
    BY <1>8 DEF KeysOf
  <2>2. CASE seen' = seen
    BY <1>8, <2>2 DEF Recalled, KeysOf
  <2> QED BY <1>2, <1>6, <2>1, <2>2
<1>9. CASE k \notin KeysOf(seen) /\ \E o \in rows : log[o].key = k /\ NotTooLate(Arrival(o))
  <2>1. PICK o \in rows : log[o].key = k /\ NotTooLate(Arrival(o))
    BY <1>9
  <2>2. PICK q \in rows : Arrival(q) \in FirstArrivals(rows) /\ log[q].key = log[o].key
    BY <1>4, <2>1, EveryKeyHasAFirstArrival
  <2>3. Arrival(q).key = k /\ Arrival(q).ts = Ts(q)
    BY <2>1, <2>2 DEF Arrival, Ts
  <2>4. Ts(q) <= Ts(o)
    <3>1. PICK p \in rows : /\ Arrival(q) = Arrival(p)
                            /\ \A x \in rows : log[x].key = log[p].key => Ts(p) <= Ts(x)
      BY <2>2 DEF FirstArrivals
    <3>2. Arrival(p).key = log[p].key /\ Arrival(p).ts = Ts(p)
      BY DEF Arrival, Ts
    <3> QED BY <2>1, <2>3, <3>1, <3>2
  <2>5. /\ Ts(q) \in Int /\ Ts(o) \in Int /\ Scheduled[k] \in Int /\ MaxDeviation \in Int
    BY <1>4, MessageShape DEF Ts
  <2>6. Ts(o) - Scheduled[k] <= MaxDeviation
    BY <2>1 DEF NotTooLate, Arrival, Ts
  <2>7. Scheduled[k] - Ts(q) <= MaxDeviation
    BY <1>1, <1>4, <2>1, <2>2 DEF Dependable, NeverTooEarly
  <2>8. Arrival(q) \in results
    BY <2>2, <2>3, <2>4, <2>5, <2>6, <2>7 DEF Gated
  <2>9. Arrival(q) \in fresh
    BY <1>9, <2>3, <2>8 DEF Fresh, KeysOf
  <2>10. ~Overlooks
    <3>1. ASSUME Overlooks PROVE FALSE
      <4>1. overlooked' = overlooked \cup KeysOf(fresh)
        BY <3>1 DEF WatchedNext
      <4> HIDE DEF fresh
      <4>2. k \in KeysOf(fresh)
        BY <2>3, <2>9 DEF KeysOf
      <4> QED BY <4>1, <4>2 DEF Dependable
    <3> QED BY <3>1
  <2>11. seen' = Purged(seen \cup fresh, rows)
    BY <1>3, <2>10 DEF Overlooks
  <2> HIDE DEF fresh
  <2> QED BY <1>6, <2>3, <2>9, <2>11
<1> QED BY <1>7, <1>8, <1>9 DEF Recalled

\* An arrival that was handed over is not after a ping of its key that is yet to come.
LEMMA WitnessedIsOlder ==
    ASSUME TypeOK, LogOrdered, NEW e \in Arrivals, Witnessed(e),
           NEW o \in Offsets, position < o, log[o].key = e.key
    PROVE  e.ts <= Ts(o)
<1>1. PICK p \in Offsets : p <= position /\ Arrival(p) = e
  BY DEF Witnessed
<1>2. log[p].key = e.key /\ Ts(p) = e.ts /\ e.key \in Keys
  BY <1>1 DEF Arrival, Ts, Arrivals
<1>3. p <= o
  BY <1>1 DEF TypeOK, Offsets
<1> QED BY <1>2, <1>3 DEF LogOrdered

LEMMA MemoryInvStep ==
    ASSUME TypeOK, MemoryInv, [Next]_vars
    PROVE  MemoryInv'
<1> USE DEF MemoryInv
<1>0. rows \subseteq Offsets /\ batch \subseteq Offsets /\ seen \subseteq Arrivals
      /\ window \subseteq Arrivals
  BY DEF TypeOK
<1>1. CASE Publish
  <2>1. PICK m \in Messages :
          /\ m.key \in Keys => \A o \in Offsets : log[o].key = m.key => Ts(o) <= m.ts
          /\ log' = Append(log, m)
    BY <1>1 DEF Publish
  <2>2. /\ Len(log) \in Nat /\ Offsets' = Offsets \cup {Len(log) + 1}
        /\ \A o \in Offsets : log'[o] = log[o]
        /\ log'[Len(log) + 1] = m
    <3>1. log \in Seq(Messages)
      BY DEF TypeOK
    <3>2. Len(log) \in Nat
      BY <3>1
    <3> QED BY <2>1, <3>1, <3>2, AppendKeeps
  <2>3. UNCHANGED process
    BY <1>1 DEF Publish
  <2>4. LogOrdered'
    <3> SUFFICES ASSUME NEW p \in Offsets', NEW q \in Offsets', p <= q,
                        log'[p].key = log'[q].key, log'[p].key \in Keys
                 PROVE  log'[p].ts <= log'[q].ts
      BY DEF LogOrdered, Ts
    <3>1. CASE q \in Offsets
      <4>1. p \in Offsets
        BY <2>2, <3>1 DEF Offsets
      <4> QED BY <2>2, <3>1, <4>1 DEF LogOrdered, Ts
    <3>2. CASE q = Len(log) + 1 /\ p \in Offsets
      BY <2>1, <2>2, <3>2 DEF Ts
    <3>3. CASE q = Len(log) + 1 /\ p = q
      <4>1. m.ts \in Nat
        BY DEF Messages
      <4> QED BY <2>2, <3>3, <4>1
    <3> QED BY <2>2, <3>1, <3>2, <3>3
  <2>5. \A e : Witnessed(e) => Witnessed(e)'
    BY <2>2, <2>3 DEF Witnessed, Arrival, process
  <2> QED BY <1>0, <2>2, <2>3, <2>4, <2>5 DEF NotTooLate, Ts, process
<1>2. CASE Start \/ Crash \/ FlushRaises \/ CommitRaises
  BY <1>2, ClearedMemory DEF Start, Crash, FlushRaises, CommitRaises
<1>3. CASE PollMessage
  <2>1. /\ position \in Nat /\ position + 1 \in Offsets /\ position' = position + 1
        /\ rows' \subseteq rows \cup {position + 1}
        /\ UNCHANGED <<log, seen, batch, window>>
    BY <1>3 DEF PollMessage, TypeOK, Offsets
  <2>2. LogOrdered'
    BY <2>1 DEF LogOrdered, Offsets, Ts
  <2>3. \A e \in seen \cup window : log[position + 1].key = e.key => e.ts <= Ts(position + 1)
    BY <1>0, <2>1, WitnessedIsOlder
  <2>4. \A e \in seen \cup window : Witnessed(e)'
    BY <2>1 DEF Witnessed, Offsets, Arrival
  <2>5. \A o \in rows' : o <= position'
    BY <1>0, <2>1 DEF Offsets
  <2> QED BY <2>1, <2>2, <2>3, <2>4, <2>5 DEF NotTooLate, Ts
<1>4. CASE Flush
  <2> DEFINE fresh == Fresh(Gated(FirstArrivals(rows)))
  <2>1. /\ UNCHANGED <<log, position>> /\ batch' = rows /\ rows' = CarryForward(rows)
    BY <1>4 DEF Flush
  <2>2. CarryForward(rows) \subseteq rows
    BY DEF CarryForward
  <2>3. /\ window' \subseteq fresh /\ seen' \subseteq seen \cup fresh
        /\ \A e \in fresh :
            /\ NotTooLate(e) /\ \E p \in rows : Arrival(p) = e
            /\ \A o \in rows : log[o].key = e.key => e.ts <= Ts(o)
    BY <1>4, FlushComputes
  <2> HIDE DEF fresh
  <2>4. \A e \in seen \cup fresh : Witnessed(e)'
    BY <1>0, <2>1, <2>3 DEF Witnessed, Offsets, Arrival
  <2>5. LogOrdered'
    BY <2>1 DEF LogOrdered, Offsets, Ts
  <2> QED BY <2>1, <2>2, <2>3, <2>4, <2>5 DEF NotTooLate, Ts
<1>5. CASE UNCHANGED <<log, position, seen, window>> /\ rows' \subseteq rows
           /\ batch' \subseteq batch
  BY <1>5 DEF LogOrdered, Witnessed, NotTooLate, Offsets, Arrival, Ts
<1>6. CASE Tick \/ PollNothing \/ NotDue \/ FlushEmpty \/ FlushInBackoff \/ WriteBunching
           \/ WriteDeviations \/ WriteDeviationsFails \/ UNCHANGED vars
  <2>1. CarryForward(rows) \subseteq rows
    BY DEF CarryForward
  <2> QED BY <1>5, <1>6, <2>1 DEF Tick, PollNothing, NotDue, FlushEmpty, FlushInBackoff,
          WriteBunching, WriteDeviations, WriteDeviationsFails, vars, process
<1>7. CASE Commit \/ EnterBackoff
  <2>1. /\ UNCHANGED <<log, position, rows, seen>> /\ batch' = {} /\ window' = {}
    BY <1>7 DEF Commit, EnterBackoff, EndOfWindow
  <2> QED BY <2>1 DEF LogOrdered, Witnessed, Offsets, Arrival, Ts
<1> QED
  BY <1>1, <1>2, <1>3, <1>4, <1>6, <1>7 DEF Next, Poll, Check, Persist, Settle

\* A key stays recalled while the buffer only shrinks and the tracker keeps what it has.
LEMMA RecalledStays ==
    ASSUME TypeOK, NEW k, Recalled(k), Offsets \subseteq Offsets',
           \A o \in Offsets : log'[o] = log[o],
           position' = position, rows' \subseteq rows, seen' = seen
    PROVE  Recalled(k)'
<1>1. rows \subseteq Offsets
  BY DEF TypeOK
<1> QED BY <1>1 DEF Recalled, DwellIsOver, KeysOf, Ts

LEMMA FirstProcessStep ==
    ASSUME TypeOK, MemoryInv, FirstProcessInv, [WatchedNext]_watchedVars
    PROVE  FirstProcessInv'
<1> SUFFICES ASSUME firstProcess'
             PROVE  FirstProcessInv'
  BY DEF FirstProcessInv
<1>0. /\ firstProcess
      /\ pc = "down" => handled = {} /\ mongo = {}
      /\ \A d \in mongo : Witnessed(d) /\ NotTooLate(d)
      /\ \A d \in mongo, o \in rows \cup batch : log[o].key = d.key => d.ts <= Ts(o)
      /\ \A k \in Keys, o \in handled \cup batch :
            log[o].key = k /\ NotTooLate(Arrival(o)) /\ Dependable(k) => Recalled(k)
      /\ \A d \in mongo \cup window, o \in handled :
            log[o].key = d.key /\ Dependable(d.key) => d.ts <= Ts(o)
  <2>1. firstProcess
    BY DEF WatchedNext, watchedVars
  <2> QED BY <2>1 DEF FirstProcessInv
<1>1. pc # "down" => pc' # "down" \/ UNCHANGED vars
  BY DEF WatchedNext, watchedVars
<1>2. [Next]_vars
  BY DEF WatchedNext, watchedVars
<1>3. Offsets \subseteq Offsets' /\ \A o \in Offsets : log'[o] = log[o]
  BY <1>2, LogGrows
<1>4. \A k : Dependable(k)' => Dependable(k)
  BY DependableBefore
<1>5. /\ rows \subseteq Offsets /\ batch \subseteq Offsets /\ handled \subseteq Offsets
      /\ mongo \subseteq Arrivals /\ window \subseteq Arrivals
  BY DEF TypeOK
\* Most steps leave the store, the tracker and what was handled alone.
<1>6. ASSUME UNCHANGED <<position, seen, mongo, handled>>, rows' \subseteq rows,
             batch' \subseteq batch, window' \subseteq window, pc' = "down" => pc = "down"
      PROVE  FirstProcessInv'
  <2>1. \A d \in mongo' : Witnessed(d)' /\ NotTooLate(d)'
    BY <1>0, <1>3, <1>6 DEF Witnessed, NotTooLate, Arrival
  <2>2. \A d \in mongo', o \in rows' \cup batch' : log'[o].key = d.key => d.ts <= Ts(o)'
    BY <1>0, <1>3, <1>5, <1>6 DEF Ts
  <2>3. ASSUME NEW k \in Keys, NEW o \in handled' \cup batch', log'[o].key = k,
               NotTooLate(Arrival(o))', Dependable(k)'
        PROVE  Recalled(k)'
    <3>1. o \in handled \cup batch /\ o \in Offsets /\ log'[o] = log[o]
      BY <1>3, <1>5, <1>6
    <3>2. Recalled(k)
      BY <1>0, <1>4, <2>3, <3>1 DEF NotTooLate, Arrival
    <3> QED BY <1>3, <1>6, <3>2, RecalledStays
  <2>4. \A d \in mongo' \cup window', o \in handled' :
            log'[o].key = d.key /\ Dependable(d.key)' => d.ts <= Ts(o)'
    BY <1>0, <1>3, <1>4, <1>5, <1>6 DEF Ts
  <2> QED BY <1>0, <1>6, <2>1, <2>2, <2>3, <2>4 DEF FirstProcessInv
<1>7. CASE Start
  <2>1. /\ pc = "down" /\ pc' = "poll" /\ handled' = handled /\ mongo' = mongo
        /\ batch' = {} /\ window' = {}
    BY <1>7 DEF Start, Cleared
  <2> QED BY <1>0, <2>1 DEF FirstProcessInv
<1>8. CASE Crash \/ FlushRaises \/ CommitRaises
  <2>1. pc # "down" /\ pc' = "down"
    BY <1>8 DEF Crash, FlushRaises, CommitRaises
  <2>2. UNCHANGED <<position, seen, mongo, handled, rows, batch, window, pc>>
    BY <1>1, <2>1 DEF vars, process, history
  <2> QED BY <1>6, <2>2
<1>9. CASE PollMessage
  <2>1. /\ position \in Nat /\ position + 1 \in Offsets /\ position' = position + 1
        /\ rows' \subseteq rows \cup {position + 1} /\ pc' # "down"
        /\ UNCHANGED <<log, seen, batch, window, mongo, handled>>
    BY <1>9 DEF PollMessage, TypeOK, Offsets, history
  <2>2. \A d \in mongo' : Witnessed(d)' /\ NotTooLate(d)'
    BY <1>0, <2>1 DEF Witnessed, NotTooLate, Arrival, Offsets
  <2>3. \A d \in mongo : log[position + 1].key = d.key => d.ts <= Ts(position + 1)
    BY <1>0, <1>5, <2>1, WitnessedIsOlder DEF MemoryInv
  <2>4. \A d \in mongo', o \in rows' \cup batch' : log'[o].key = d.key => d.ts <= Ts(o)'
    BY <1>0, <2>1, <2>3 DEF Ts
  <2>5. ASSUME NEW k, Recalled(k), Dependable(k)' PROVE Recalled(k)'
    <3>1. CASE k \in KeysOf(seen)
      BY <2>1, <3>1 DEF Recalled, KeysOf
    <3>2. CASE DwellIsOver(k)
      <4>1. PICK f \in Offsets, p \in Offsets :
              p <= position /\ log[f].key = k /\ Ts(p) > Ts(f) + Retention
        BY <3>2 DEF DwellIsOver
      <4>2. log[position + 1].key # k
        <5>1. SUFFICES ASSUME log[position + 1].key = k PROVE FALSE
          OBVIOUS
        <5>2. p < position + 1 /\ DwellIsRemembered(k)
          BY <1>4, <2>1, <2>5, <4>1 DEF Dependable, Offsets
        <5>3. Ts(p) <= Ts(f) + Retention
          BY <2>1, <4>1, <5>1, <5>2 DEF DwellIsRemembered
        <5>4. Ts(p) \in Int /\ Ts(f) \in Int
          BY <4>1, MessageShape DEF Ts, TypeOK
        <5> QED BY <4>1, <5>3, <5>4
      <4>3. p <= position'
        BY <2>1, <4>1 DEF Offsets
      <4>4. \A o \in rows' : log'[o].key # k
        BY <2>1, <3>2, <4>2 DEF DwellIsOver
      <4> QED BY <2>1, <4>1, <4>3, <4>4 DEF Recalled, DwellIsOver, Offsets, Ts
    <3> QED BY <2>5, <3>1, <3>2 DEF Recalled
  <2>6. ASSUME NEW k \in Keys, NEW o \in handled' \cup batch', log'[o].key = k,
               NotTooLate(Arrival(o))', Dependable(k)'
        PROVE  Recalled(k)'
    <3>1. o \in handled \cup batch /\ log[o].key = k /\ NotTooLate(Arrival(o))
      BY <2>1, <2>6 DEF NotTooLate, Arrival
    <3>2. Recalled(k)
      BY <1>0, <1>4, <2>6, <3>1
    <3> QED BY <2>5, <2>6, <3>2
  <2>7. \A d \in mongo' \cup window', o \in handled' :
            log'[o].key = d.key /\ Dependable(d.key)' => d.ts <= Ts(o)'
    BY <1>0, <1>4, <2>1 DEF Ts
  <2> QED BY <2>1, <2>2, <2>4, <2>6, <2>7 DEF FirstProcessInv
<1>10. CASE Flush
  <2> DEFINE fresh == Fresh(Gated(FirstArrivals(rows)))
  <2>1. /\ UNCHANGED <<log, position, mongo, handled>> /\ batch' = rows
        /\ rows' = CarryForward(rows) /\ pc # pc' /\ pc' # "down"
    BY <1>10 DEF Flush
  <2>2. CarryForward(rows) \subseteq rows
    BY DEF CarryForward
  <2>3. /\ window' \subseteq fresh /\ fresh \subseteq Arrivals
        /\ \A e \in fresh :
            /\ e.key \notin KeysOf(seen) /\ NotTooLate(e)
            /\ \E p \in rows : Arrival(p) = e
    BY <1>10, FlushComputes
  <2> HIDE DEF fresh
  <2>4. WatchedNext
    BY <2>1 DEF watchedVars, vars
  <2>5. \A d \in mongo' : Witnessed(d)' /\ NotTooLate(d)'
    BY <1>0, <2>1 DEF Witnessed, NotTooLate, Arrival, Offsets
  <2>6. \A d \in mongo', o \in rows' \cup batch' : log'[o].key = d.key => d.ts <= Ts(o)'
    BY <1>0, <2>1, <2>2 DEF Ts
  <2>7. ASSUME NEW k \in Keys, NEW o \in handled' \cup batch', log'[o].key = k,
               NotTooLate(Arrival(o))', Dependable(k)'
        PROVE  Recalled(k)'
    <3>1. o \in handled \cup rows /\ log[o].key = k /\ NotTooLate(Arrival(o))
      BY <2>1, <2>7 DEF NotTooLate, Arrival
    <3>2. Recalled(k) \/ \E q \in rows : log[q].key = k /\ NotTooLate(Arrival(q))
      BY <1>0, <1>4, <2>7, <3>1
    <3> QED BY <1>10, <2>4, <2>7, <3>2, FlushRecalls
  <2>8. ASSUME NEW d \in mongo' \cup window', NEW o \in handled',
               log'[o].key = d.key, Dependable(d.key)'
        PROVE  d.ts <= Ts(o)'
    <3>1. Dependable(d.key) /\ o \in handled /\ log[o].key = d.key /\ Ts(o)' = Ts(o)
      BY <1>4, <2>1, <2>8 DEF Ts
    <3>2. CASE d \in mongo
      BY <1>0, <3>1, <3>2
    <3>3. CASE d \in fresh
      <4>1. d.key \in Keys /\ d.ts \in Nat
        BY <2>3, <3>3 DEF Arrivals
      <4>2. ~NotTooLate(Arrival(o))
        <5>1. SUFFICES ASSUME NotTooLate(Arrival(o)) PROVE FALSE
          OBVIOUS
        <5>2. Recalled(d.key)
          BY <1>0, <3>1, <4>1, <5>1
        <5>3. \E p \in rows : log[p].key = d.key
          BY <2>3, <3>3 DEF Arrival
        <5> QED BY <2>3, <3>3, <5>2, <5>3 DEF Recalled, DwellIsOver
      <4>3. Ts(o) \in Nat /\ Scheduled[d.key] \in Int
        BY <1>5, <3>1, <4>1, MessageShape DEF Ts, TypeOK
      <4>4. d.ts - Scheduled[d.key] <= MaxDeviation
            /\ ~(Ts(o) - Scheduled[d.key] <= MaxDeviation)
        BY <2>3, <3>1, <3>3, <4>2 DEF NotTooLate, Arrival, Ts
      <4> QED BY <3>1, <4>1, <4>3, <4>4
    <3> QED BY <2>1, <2>3, <2>8, <3>2, <3>3
  <2> QED BY <1>0, <2>1, <2>5, <2>6, <2>7, <2>8 DEF FirstProcessInv
<1>11. CASE WriteDeviations \/ WriteDeviationsFails
  <2>1. /\ UNCHANGED <<log, position, rows, batch, seen, window>>
        /\ handled' = handled \cup batch /\ mongo' \subseteq mongo \cup window
        /\ pc' # "down"
    BY <1>11 DEF WriteDeviations, WriteDeviationsFails, process, Upsert
  <2>2. \A d \in mongo' : Witnessed(d)' /\ NotTooLate(d)'
    BY <1>0, <2>1 DEF MemoryInv, Witnessed, NotTooLate, Arrival, Offsets
  <2>3. \A d \in mongo', o \in rows' \cup batch' : log'[o].key = d.key => d.ts <= Ts(o)'
    BY <1>0, <2>1 DEF MemoryInv, Ts
  <2>4. ASSUME NEW k \in Keys, NEW o \in handled' \cup batch', log'[o].key = k,
               NotTooLate(Arrival(o))', Dependable(k)'
        PROVE  Recalled(k)'
    <3>1. Recalled(k)
      BY <1>0, <1>4, <2>1, <2>4 DEF NotTooLate, Arrival
    <3> QED BY <2>1, <3>1 DEF Recalled, DwellIsOver, KeysOf, Offsets, Ts
  <2>5. \A d \in mongo' \cup window', o \in handled' :
            log'[o].key = d.key /\ Dependable(d.key)' => d.ts <= Ts(o)'
    BY <1>0, <1>4, <2>1 DEF MemoryInv, Ts
  <2> QED BY <2>1, <2>2, <2>3, <2>4, <2>5 DEF FirstProcessInv
<1>12. CASE \/ Tick \/ Publish \/ PollNothing \/ NotDue \/ FlushEmpty \/ FlushInBackoff
            \/ WriteBunching \/ Commit \/ EnterBackoff \/ UNCHANGED vars
  <2>1. CarryForward(rows) \subseteq rows
    BY DEF CarryForward
  <2>2. /\ UNCHANGED <<position, seen, mongo, handled>> /\ rows' \subseteq rows
        /\ batch' \subseteq batch /\ window' \subseteq window
        /\ pc' = "down" => pc = "down"
    BY <1>12, <2>1 DEF Tick, Publish, PollNothing, NotDue, FlushEmpty, FlushInBackoff,
          WriteBunching, Commit, EnterBackoff, EndOfWindow, vars, process, history
  <2> QED BY <1>6, <2>2
<1> QED
  BY <1>2, <1>7, <1>8, <1>9, <1>10, <1>11, <1>12 DEF Next, Poll, Check, Persist, Settle

(***************************************************************************)
(* While its first process runs, the engine keeps for every key the        *)
(* earliest ping any window has processed, whatever the overlap of the     *)
(* windows and however many writes fail: provided no ping of the key is    *)
(* too early for the gate, no window lost the key before the tracker heard *)
(* of it, and the dwell is over before the tracker's retention is.         *)
(***************************************************************************)
THEOREM FirstArrivalIsKept == WatchedSpec => []StoredIsFirstArrival
<1>1. WatchedInit => Init /\ FirstProcessInv
  BY DEF WatchedInit, Init, FirstProcessInv
<1>2. [WatchedNext]_watchedVars => [Next]_vars
  BY DEF WatchedNext, watchedVars
<1>3. WatchedSpec => Spec
  BY <1>1, <1>2, PTL DEF WatchedSpec, Spec
<1>4. TypeOK /\ MemoryInv /\ [Next]_vars => MemoryInv'
  BY MemoryInvStep
<1>5. TypeOK /\ MemoryInv /\ FirstProcessInv /\ [WatchedNext]_watchedVars => FirstProcessInv'
  BY FirstProcessStep
<1>6. FirstProcessInv => StoredIsFirstArrival
  BY DEF FirstProcessInv, StoredIsFirstArrival, Dependable
<1> QED
  BY <1>1, <1>2, <1>3, <1>4, <1>5, <1>6, MemoryInvInit, TypeCorrect, PTL DEF WatchedSpec

-----------------------------------------------------------------------------
(* Refinement: the loop implements LogConsumer.                            *)

LEMMA RefinesInit == Init => Log!Init
  BY DEF Init, Log!Init, Accounted, Offsets

LEMMA RefinesStep ==
    TypeOK /\ TypeOK' /\ OffsetInv /\ [Next]_vars => [Log!Next]_Log!vars
<1> SUFFICES ASSUME TypeOK, TypeOK', OffsetInv, Next PROVE [Log!Next]_Log!vars
  <2>1. UNCHANGED vars => UNCHANGED Log!vars
    BY DEF vars, process, history, Log!vars, Accounted, Offsets
  <2> QED BY <2>1
<1> DEFINE Malformed == {o \in Offsets : log[o].kind = "malformed"}
<1>1. CASE Publish
  <2>1. PICK m \in Messages : log' = Append(log, m)
    BY <1>1 DEF Publish
  <2>2. /\ Len(log') = Len(log) + 1
        /\ Offsets' = Offsets \cup {Len(log) + 1}
        /\ \A o \in Offsets : log'[o] = log[o]
        /\ Len(log) + 1 \notin Offsets
    BY <2>1, AppendKeeps DEF TypeOK, Offsets
  <2>3. Malformed' \in {Malformed, Malformed \cup {Len(log) + 1}}
    BY <2>2
  <2>4. Accounted' = Accounted /\ committed' = committed
    BY <1>1 DEF Publish, history, Accounted
  <2> QED BY <2>2, <2>3, <2>4 DEF Log!Next, Log!Publish
<1>2. CASE UNCHANGED <<log, committed>> /\ Accounted \subseteq Accounted'
  <2>1. Accounted' \cup Malformed' \subseteq 1..Len(log)
    BY <1>2 DEF TypeOK, Accounted, Offsets
  <2>2. Malformed' = Malformed
    BY <1>2 DEF Offsets
  <2> QED BY <1>2, <2>1, <2>2 DEF Log!Next, Log!Settle
<1>3. CASE Commit
  <2>1. /\ UNCHANGED <<log, history>>
        /\ committed' = position /\ pc = "commit"
    BY <1>3 DEF Commit
  <2>2. position \in 0..Len(log) /\ Len(log) \in Nat
    BY DEF TypeOK
  <2>3. committed <= position
    BY <2>1 DEF OffsetInv, AtOrPast
  <2>4. 1..position \subseteq Accounted \cup Malformed
    BY <2>1, <2>2 DEF OffsetInv, HandedOver, InFlight, Offsets
  <2>5. Accounted' = Accounted /\ Malformed' = Malformed
    BY <2>1 DEF history, Accounted, Offsets
  <2>6. position # None
    BY <2>2
  <2> QED BY <2>1, <2>2, <2>3, <2>4, <2>5, <2>6 DEF Log!Next, Log!Acknowledge, TypeOK
<1>4. CASE Tick \/ Crash \/ Poll \/ NotDue \/ FlushRaises \/ FlushEmpty \/ Flush
           \/ WriteBunching \/ CommitRaises \/ EnterBackoff
  BY <1>4, <1>2 DEF Tick, Crash, Poll, PollMessage, PollNothing, NotDue, FlushRaises,
                    FlushEmpty, Flush, WriteBunching, CommitRaises, EnterBackoff,
                    history, Accounted
<1>5. CASE Start \/ FlushInBackoff \/ WriteDeviations \/ WriteDeviationsFails
  BY <1>5, <1>2 DEF Start, FlushInBackoff, WriteDeviations, WriteDeviationsFails, Accounted
<1> QED
  BY <1>1, <1>3, <1>4, <1>5 DEF Next, Check, Persist, Settle

(***************************************************************************)
(* The analytics consumer implements LogConsumer: under any crashes and    *)
(* outages its committed offset only advances, over settled messages.      *)
(***************************************************************************)
THEOREM ConsumerImplementsLog == Spec => ImplementsLogConsumer
  BY RefinesInit, RefinesStep, OffsetInvInit, OffsetInvStep, TypeCorrect, PTL
     DEF Spec, ImplementsLogConsumer, Log!Spec
=============================================================================
