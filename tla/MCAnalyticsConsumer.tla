------------------------- MODULE MCAnalyticsConsumer -------------------------
(* AnalyticsConsumer on small instances.                                    *)
EXTENDS AnalyticsConsumer, TLC

CONSTANTS k1, k2

\* A gate of a tick lets the first three ticks pass, and takes the last one out.
MCScheduled == [k \in Keys |-> 1]
MCOnTime == [k \in Keys |-> 0]

AllOutcomes == {"ok", "failed_before_dedup", "failed_after_dedup"}
=============================================================================
