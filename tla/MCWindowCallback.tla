--------------------------- MODULE MCWindowCallback ---------------------------
(* Constants for the model-checking runs of WindowCallback. *)
EXTENDS WindowCallback

CONSTANTS r1, unknown, none

MCRoutes == {r1, unknown}

Deviation(route) == [route |-> route, kind |-> "deviation"]
Bunching(action) == [route |-> r1, kind |-> action]

Good == [matched |-> 1, total |-> 1]
Bad == [matched |-> 0, total |-> 1]

\* For the statistics: the alerter sees windows without pings.
MCStatsResults ==
    {[results |-> {Deviation(r1), Bunching("new"), Deviation(none)}, matching |-> NoMatching],
     [results |-> {Bunching("update"), Deviation(none)}, matching |-> NoMatching]}

\* For the alerts: windows with pings and without results.
MCAlertResults ==
    {[results |-> {}, matching |-> Good], [results |-> {}, matching |-> Bad]}
QuietHour == {[current |-> 0, weekAgo |-> 1]}

\* A failed query, a low hour and a normal one.
EveryHour == {QueryFailed, [current |-> 0, weekAgo |-> 2], [current |-> 1, weekAgo |-> 2]}

=============================================================================
