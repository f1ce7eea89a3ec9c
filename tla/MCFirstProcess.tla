---------------------------- MODULE MCFirstProcess ----------------------------
(* FirstProcess on small instances.                                         *)
EXTENDS MCAnalyticsConsumer, FirstProcess
=============================================================================
