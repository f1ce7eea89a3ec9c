------------------------------ MODULE FeedAnalysis ------------------------------
(***************************************************************************)
(* Notebook 01 (data quality and frequency) as operators on a capture: the *)
(* gates the metrics were validated behind, and the incident detection in  *)
(* its two versions, the exploratory one and the final one.                *)
(*                                                                         *)
(* A row of a capture is a record: vehicle, timestamp, place, status,      *)
(* stop, route and ingested.  Times are ticks, quantiles are in percent.   *)
(***************************************************************************)
EXTENDS Integers, FiniteSets, FiniteSetsExt, Functions

CONSTANTS
    MinuteTicks,        \* the ticks of a minute
    PollTicks,          \* POLL_INTERVAL_SECONDS
    DwellDistance,      \* DWELL_DISTANCE_METERS
    Missing             \* a field that is not there

ASSUME AnalysisAssumption ==
    MinuteTicks \in Nat \ {0} /\ PollTicks \in Nat \ {0} /\ DwellDistance \in Nat

Minute(t) == t \div MinuteTicks
Distance(x, y) == IF x <= y THEN y - x ELSE x - y

-----------------------------------------------------------------------------
(***************************************************************************)
(* Capture, cadence, validity and duplicates.                              *)
(***************************************************************************)
Row(message) ==
    [vehicle |-> message.report.vehicle, timestamp |-> message.report.timestamp,
     place |-> message.report.place, status |-> message.report.status,
     stop |-> message.report.stop, route |-> message.report.route,
     ingested |-> message.ingested]

\* The final notebook reads from the first message to the first pause of the topic.
Capture(messages) == {Row(m) : m \in messages}

\* The exploratory one stops after a number of messages or a while, somewhere in each
\* partition: the messages of a vehicle are read up to one of them.
CaptureInitial(messages, upTo) ==
    {Row(m) : m \in {x \in messages : x.ingested <= upTo[x.report.vehicle]}}

PollTimes(rows) == {r.ingested : r \in rows}

\* groupby('minute').size(): a minute without a poll is not in it.
PollsPerMinute(rows) ==
    [m \in {Minute(t) : t \in PollTimes(rows)} |->
        Cardinality({t \in PollTimes(rows) : Minute(t) = m})]

\* Mutant: a minute at the tolerance is abnormal.
AbnormalMinutes_AtTolerance(rows, expected, tolerance) ==
    {m \in DOMAIN PollsPerMinute(rows) :
        Distance(PollsPerMinute(rows)[m], expected) >= tolerance}

AbnormalMinutes(rows, expected, tolerance) ==
    {m \in DOMAIN PollsPerMinute(rows) :
        Distance(PollsPerMinute(rows)[m], expected) > tolerance}

\* required_cols; lat and lon are the place.
RequiredCols == {"vehicle", "timestamp", "place", "status"}

\* df_pings[required_cols].isna().sum(): the rows that lack a column, for each of them.
MissingRequired(rows) ==
    [column \in RequiredCols |-> Cardinality({r \in rows : r[column] = Missing})]

\* SELECT DISTINCT ON (vehicle_id, timestamp) ... ORDER BY ..., ingested_at DESC
Deduplicated(rows) ==
    {r \in rows : \A s \in rows :
        s.vehicle = r.vehicle /\ s.timestamp = r.timestamp => s.ingested <= r.ingested}

Duplicates(rows) == Cardinality(rows) - Cardinality(Deduplicated(rows))

-----------------------------------------------------------------------------
(***************************************************************************)
(* Gaps: each row with the one before it, LAG() over its vehicle.          *)
(***************************************************************************)
\* Mutant: the window is not partitioned by vehicle.
Gaps_AllVehicles(rows) ==
    {[row |-> x[2], previous |-> x[1], seconds |-> x[2].timestamp - x[1].timestamp] :
        x \in {y \in rows \X rows :
            /\ y[1].timestamp < y[2].timestamp
            /\ ~\E z \in rows : y[1].timestamp < z.timestamp /\ z.timestamp < y[2].timestamp}}

Gaps(rows) ==
    {[row |-> x[2], previous |-> x[1], seconds |-> x[2].timestamp - x[1].timestamp] :
        x \in {y \in rows \X rows :
            /\ y[1].vehicle = y[2].vehicle /\ y[1].timestamp < y[2].timestamp
            /\ ~\E z \in rows : /\ z.vehicle = y[1].vehicle
                                 /\ y[1].timestamp < z.timestamp
                                 /\ z.timestamp < y[2].timestamp}}

\* A vehicle that stayed where it was, and was stopped before or after.
LikelyDwell(gap) ==
    /\ Distance(gap.row.place, gap.previous.place) <= DwellDistance
    /\ gap.row.status = "STOPPED_AT" \/ gap.previous.status = "STOPPED_AT"

MovementGaps(rows) == {g \in Gaps(rows) : ~LikelyDwell(g)}

-----------------------------------------------------------------------------
(***************************************************************************)
(* Incidents.                                                              *)
(***************************************************************************)
\* The length of a gap that k gaps are shorter than.
Kth(gaps, k) ==
    CHOOSE s \in {g.seconds : g \in gaps} :
        /\ Cardinality({g \in gaps : g.seconds < s}) <= k
        /\ Cardinality({g \in gaps : g.seconds <= s}) > k

\* 100 times the quantile of the gaps' lengths, interpolated as pandas does.
Quantile(gaps, percent) ==
    LET position == percent * (Cardinality(gaps) - 1)
        below == Kth(gaps, position \div 100)
        above == Kth(gaps, Min({position \div 100 + 1, Cardinality(gaps) - 1}))
    IN  100 * below + (position % 100) * (above - below)

Large(gaps, percent) ==
    IF gaps = {} THEN {} ELSE {g \in gaps : 100 * g.seconds >= Quantile(gaps, percent)}

\* The vehicles whose large gap starts in a minute.
AffectedPerMinute(gaps, percent) ==
    [m \in {Minute(g.previous.timestamp) : g \in Large(gaps, percent)} |->
        Cardinality({g.row.vehicle : g \in {h \in Large(gaps, percent) :
            Minute(h.previous.timestamp) = m}})]

\* max_vehicle_cluster(): the worst minute of a cutoff.
MaxVehicleCluster(gaps, percent) ==
    LET affected == AffectedPerMinute(gaps, percent)
    IN  IF affected = <<>> THEN 0 ELSE Max(Range(affected))

\* find_cluster_windows(): from the first suspect minute to the last, whatever is between.
FindClusterWindows(gaps, percent, minVehicles) ==
    LET affected == AffectedPerMinute(gaps, percent)
        suspect == {m \in DOMAIN affected : affected[m] >= minVehicles}
    IN  IF suspect = {} THEN {} ELSE Min(suspect) .. Max(suspect)

\* The fraction of the fleet, in percent, and the minutes that reach it.
SuspectMinutes(gaps, active, percent, minPercent) ==
    LET affected == AffectedPerMinute(gaps, percent)
    IN  {m \in DOMAIN affected : 100 * affected[m] >= minPercent * active}

\* Mutant: a minute in between may be missing.
RunsOf_Bridging(minutes) ==
    {run \in {a .. b : a \in minutes, b \in minutes} :
        /\ run # {}
        /\ \A m \in Min(run) .. Max(run) - 1 : {m, m + 1} \cap minutes # {}
        /\ Min(run) - 1 \notin minutes /\ Max(run) + 1 \notin minutes}

\* The runs of adjacent minutes.
RunsOf(minutes) ==
    {run \in {a .. b : a \in minutes, b \in minutes} :
        /\ run # {} /\ run \subseteq minutes
        /\ Min(run) - 1 \notin minutes /\ Max(run) + 1 \notin minutes}

\* find_incident_windows(): the runs that are long enough, as sets of minutes.
FindIncidentWindows(gaps, active, percent, minPercent, minRunLength) ==
    {run \in RunsOf(SuspectMinutes(gaps, active, percent, minPercent)) :
        Cardinality(run) >= minRunLength}

\* The gaps that start in no incident.  (between() takes the minute after, too, when it
\* starts on its first instant.)
CleanGaps(gaps, incidents) ==
    {g \in gaps : \A run \in incidents :
        \/ g.previous.timestamp < Min(run) * MinuteTicks
        \/ g.previous.timestamp > (Max(run) + 1) * MinuteTicks}

\* SILENT_VEHICLE_THRESHOLD_SECONDS, times 100.
SilentThreshold(gaps) == Quantile(gaps, 99) + 100 * PollTicks

===============================================================================
