-------------------------- MODULE DataQualityAlerter --------------------------
(***************************************************************************)
(* The data-level alerts of alerting.py: DataQualityAlerter, evaluated once *)
(* per processed window, and the check at Healthchecks.io its notifier     *)
(* pings.  The state lives in memory and a restart forgets it; the check   *)
(* is outside and remembers the last ping that arrived.                    *)
(***************************************************************************)
EXTENDS WallClock, Sequences, SequencesExt

CONSTANTS
    RatioWindow,        \* ratio_window_minutes, in ticks
    Retention,          \* SAMPLE_RETENTION_MINUTES, in ticks
    MinSamples,         \* MIN_RATIO_SAMPLES
    MinWeekAgo          \* week_ago_min_count

ASSUME AlerterAssumption ==
    /\ RatioWindow \in Nat \ {0}
    /\ Retention \in Nat /\ Retention >= RatioWindow
    /\ MinSamples \in Nat \ {0}
    /\ MinWeekAgo \in Nat \ {0}

VARIABLES
    samples,            \* _ratio_samples: per window its time and its counts
    alertHour,          \* _current_hour, or NoHour
    ratioAlert,         \* _ratio_reason is not None
    volumeAlert,        \* _volume_reason is not None
    check,              \* the check: "up", "down" or "new", by the last ping
    judged,             \* history: the hours the volume rule was run for
    cleared,            \* history: since the last /fail ping that arrived, a
                        \* rule judged its data to be good again
    forgotten           \* history: since then, a restart dropped an alert

alerterVars == <<samples, alertHour, ratioAlert, volumeAlert, check, judged,
                 cleared, forgotten>>

NoAlertHour == -1

\* A window without pings, or a result without matching statistics.
NoMatching == [matched |-> 0, total |-> 0]

Alerting == ratioAlert \/ volumeAlert

AlerterTypeOK ==
    /\ \A n \in DOMAIN samples : samples[n].at \in 0 .. MaxTime
    /\ alertHour \in Hours \cup {NoAlertHour}
    /\ ratioAlert \in BOOLEAN /\ volumeAlert \in BOOLEAN
    /\ check \in {"new", "up", "down"}
    /\ judged \in Seq(Hours)
    /\ cleared \in BOOLEAN /\ forgotten \in BOOLEAN
    \* nothing is judged before a first window was seen
    /\ alertHour = NoAlertHour => samples = <<>> /\ ~Alerting

AlerterInit ==
    /\ samples = <<>> /\ alertHour = NoAlertHour
    /\ ratioAlert = FALSE /\ volumeAlert = FALSE
    /\ check = "new" /\ judged = <<>>
    /\ cleared = FALSE /\ forgotten = FALSE

-----------------------------------------------------------------------------
(***************************************************************************)
(* Rule 1.  The samples are in the order the windows came in; pruning only *)
(* ever looks at the head.                                                 *)
(***************************************************************************)
\* The first sample that is recent enough stops the popping.
Pruned(seq, t) ==
    LET kept == {n \in DOMAIN seq : seq[n].at >= t - Retention} IN
    IF kept = {} THEN <<>>
    ELSE SubSeq(seq, CHOOSE n \in kept : \A m \in kept : n <= m, Len(seq))

Observed(matching) ==
    IF matching.total = 0 THEN samples
    ELSE Pruned(Append(samples, [at |-> now] @@ matching), now)

Trailing(seq) == SelectSeq(seq, LAMBDA s : s.at >= now - RatioWindow)

\* Enough samples, and the oldest reaches back to the window's start.
Covers(trailing) ==
    /\ Len(trailing) >= MinSamples
    /\ now - trailing[1].at >= RatioWindow

Matched(seq) == FoldLeft(LAMBDA sum, s : sum + s.matched, 0, seq)
Total(seq) == FoldLeft(LAMBDA sum, s : sum + s.total, 0, seq)

BelowHalf(seq) == 2 * Matched(seq) < Total(seq)

\* Mutant: too few samples count as a good ratio.
EvaluateRatioRule_ClearsWhenSparse(seq) ==
    Covers(Trailing(seq)) /\ BelowHalf(Trailing(seq))

EvaluateRatioRule(seq) ==
    IF Covers(Trailing(seq)) THEN BelowHalf(Trailing(seq)) ELSE ratioAlert

(***************************************************************************)
(* Rule 2.  Judging an hour compares two counts of MongoDB, the hour's and *)
(* that of the same hour a week ago; either query may fail.  A quiet hour  *)
(* and a failed query leave the rule's state as it was.                    *)
(***************************************************************************)
QueryFailed == [current |-> -1, weekAgo |-> -1]

\* count_deviations_between() for both hours: documents or an error.
Counts == [current : Nat, weekAgo : Nat] \cup {QueryFailed}

Judgeable(counts) == counts # QueryFailed /\ counts.weekAgo >= MinWeekAgo

LowVolume(counts) == 2 * counts.current < counts.weekAgo

EvaluateVolumeRule(counts) ==
    IF Judgeable(counts) THEN LowVolume(counts) ELSE volumeAlert

\* Mutant: any other hour closes the last one.
ClosesHour_AnyChange == alertHour # NoAlertHour /\ HourOf(now) # alertHour

\* A new hour closes the last one; an hour at or before it does not.
ClosesHour == alertHour # NoAlertHour /\ HourOf(now) > alertHour

MaybeCloseHour(counts) ==
    /\ alertHour' = IF alertHour = NoAlertHour \/ ClosesHour THEN HourOf(now)
                    ELSE alertHour
    /\ judged' = IF ClosesHour THEN Append(judged, alertHour) ELSE judged
    /\ volumeAlert' = IF ClosesHour THEN EvaluateVolumeRule(counts) ELSE volumeAlert

\* ok() or fail(); a ping that does not arrive is logged and swallowed.
PingState(arrives) ==
    check' = IF ~arrives THEN check ELSE IF Alerting' THEN "down" ELSE "up"

\* The data, not the alert's state, say that it is over.
GoodAgain(counts) ==
    \/ Covers(Trailing(samples')) /\ ~BelowHalf(Trailing(samples'))
    \/ ClosesHour /\ Judgeable(counts) /\ ~LowVolume(counts)

\* observe_window(): the sample, the hour, the ratio, the ping.
ObserveWindow(matching, counts, arrives) ==
    /\ samples' = Observed(matching)
    /\ MaybeCloseHour(counts)
    /\ ratioAlert' = EvaluateRatioRule(samples')
    /\ PingState(arrives)
    /\ cleared' = (~(arrives /\ Alerting') /\ (cleared \/ GoodAgain(counts)))
    /\ forgotten' = (~(arrives /\ Alerting') /\ forgotten)

\* A new process: DataQualityAlerter.__init__.
ForgetAlerts ==
    /\ samples' = <<>> /\ alertHour' = NoAlertHour
    /\ ratioAlert' = FALSE /\ volumeAlert' = FALSE
    /\ judged' = <<>>
    /\ forgotten' = (forgotten \/ Alerting)
    /\ UNCHANGED <<check, cleared>>

-----------------------------------------------------------------------------
\* Within a process every hour is judged at most once and in order, even if
\* the clock is stepped back, and never before it is over.
HoursJudgedInOrder ==
    /\ \A m, n \in DOMAIN judged : m < n => judged[m] < judged[n]
    /\ \A n \in DOMAIN judged : judged[n] < alertHour

\* The check never turns green by itself: a rule has judged its data to be good,
\* or a restart has forgotten the alert (which nothing on disk would recall).
\* Windows without pings, missing samples, quiet hours and failed queries do not
\* turn it green.
GreenIsEarned ==
    [][check = "down" /\ check' = "up" => cleared' \/ forgotten']_alerterVars

\* "Matched-ping ratio below 50% sustained for 30 minutes" (alerting.py:9-11):
\* if the last sample before the 30 minutes and every sample since are below
\* the threshold, and there are enough of them, the alert is firing.
LowThroughout ==
    \E first \in DOMAIN samples :
        /\ samples[first].at <= now - RatioWindow
        /\ Len(samples) - first >= MinSamples
        /\ \A n \in first .. Len(samples) : BelowHalf(<<samples[n]>>)

=============================================================================
