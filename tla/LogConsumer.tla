---------------------------- MODULE LogConsumer ----------------------------
(***************************************************************************)
(* The promise both consumers of raw.vehicle-positions make about offsets, *)
(* stripped of how they keep it.  Messages are appended to a log; the      *)
(* consumer settles messages (stores what they carry, or deliberately      *)
(* gives up on them) and acknowledges a prefix of the log, and a prefix is *)
(* acknowledged only when every message in it is settled.  What counts as  *)
(* "settled" is the refinement mapping's to say: AnalyticsConsumer maps it *)
(* to "handed to the sink, discarded in backoff, or skipped", and          *)
(* ArchiveConsumer to "on disk".                                           *)
(***************************************************************************)
EXTENDS Naturals

VARIABLES
    published,  \* how many messages the log holds
    settled,    \* the offsets (1..published) the consumer owes nothing for
    acked       \* the acknowledged prefix 1..acked (the committed offset)

vars == <<published, settled, acked>>

TypeOK ==
    /\ published \in Nat
    /\ settled \subseteq 1..published
    /\ acked \in 0..published

Init ==
    /\ published = 0
    /\ settled = {}
    /\ acked = 0

\* A message arrives; one that carries nothing to store is settled at birth.
Publish ==
    /\ published' = published + 1
    /\ settled' \in {settled, settled \cup {published + 1}}
    /\ UNCHANGED acked

\* Any number of messages are settled at once; settled is for good.
Settle ==
    /\ settled' \in SUBSET (1..published)
    /\ settled \subseteq settled'
    /\ UNCHANGED <<published, acked>>

\* The acknowledged prefix grows, over settled messages only.
Acknowledge ==
    /\ acked' \in acked..published
    /\ 1..acked' \subseteq settled
    /\ UNCHANGED <<published, settled>>

Next == Publish \/ Settle \/ Acknowledge

Spec == Init /\ [][Next]_vars

(***************************************************************************)
(* Nothing is acknowledged before it is settled: the offset committed to   *)
(* Kafka never covers a message the consumer still owes work for.          *)
(***************************************************************************)
AckedSettled == 1..acked \subseteq settled
=============================================================================
