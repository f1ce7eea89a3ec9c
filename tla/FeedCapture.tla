------------------------------ MODULE FeedCapture ------------------------------
(***************************************************************************)
(* What the notebooks make of what the ingestion service publishes: the    *)
(* capture is the topic, at any time, and its analysis is compared with    *)
(* what the vehicles, the server, the broker and the process did.          *)
(***************************************************************************)
EXTENDS Ingestion, FeedAnalysis

CONSTANTS
    ExpectedPolls, PollTolerance,       \* the cadence gate's
    Percent,                            \* cutoff_quantile, in percent
    MinPercent, MinRunLength, MinVehicles

ASSUME GatesAssumption ==
    /\ ExpectedPolls \in Nat /\ PollTolerance \in Nat
    /\ Percent \in 0 .. 100 /\ MinPercent \in 0 .. 100
    /\ MinRunLength \in Nat /\ MinVehicles \in Nat

\* A report says whose it is and when it was made, or lacks it; a field that is missing in
\* a message is missing in its row.
ASSUME ReportsAssumption ==
    /\ IsFiniteSet(Vehicles) /\ Missing = None
    /\ \A v \in Vehicles : \A t \in 0 .. MaxTime :
        Entity(v, t).vehicle \in {v, None} /\ Entity(v, t).timestamp \in {t, None}

Reports(messages) == Deduplicated(Capture(messages))
MovementOf(messages) == MovementGaps(Reports(messages))

\* group_sizes: the rows of each poll.
GroupSizes(rows) == [t \in PollTimes(rows) |-> Cardinality({r \in rows : r.ingested = t})]

\* The size of a poll that k polls are smaller than.
RankedSize(size, k) ==
    CHOOSE n \in Range(size) :
        /\ Cardinality({t \in DOMAIN size : size[t] < n}) <= k
        /\ Cardinality({t \in DOMAIN size : size[t] <= n}) > k

\* ACTIVE_VEHICLES_PER_POLL, int(group_sizes.median()): the mean of the two sizes in the
\* middle when the polls are even in number, less its fraction.
ActiveVehicles(rows) ==
    LET size == GroupSizes(rows)
        polls == Cardinality(DOMAIN size)
    IN  (RankedSize(size, (polls - 1) \div 2) + RankedSize(size, polls \div 2)) \div 2

\* The properties of the analysis are checked after each cycle that succeeds.
Settled == poller.phase = "waiting" /\ wholeAt = now /\ topic # {}

-----------------------------------------------------------------------------
TimesOf(rows, v) == {r.timestamp : r \in {x \in rows : x.vehicle = v}}

TotalSeconds(gaps) == FoldSet(LAMBDA g, sum : sum + g.seconds, 0, gaps)

AddUp(rows) ==
    \A v \in {r.vehicle : r \in rows} :
        LET gaps == {g \in Gaps(rows) : g.row.vehicle = v}
        IN  /\ Cardinality({r \in rows : r.vehicle = v}) = Cardinality(TimesOf(rows, v))
            /\ TotalSeconds(gaps) = Max(TimesOf(rows, v)) - Min(TimesOf(rows, v))

\* Whatever was retried, published in part or polled twice, a report is one row, the gaps
\* of a vehicle add up to the time it was seen, and of what notebook 01 requires of a row
\* it lacks at most the status, which the validator publishes as null.  So it is for a
\* capture that was cut short.
GapsAddUp ==
    Settled =>
        /\ \A column \in RequiredCols \ {"status"} :
                MissingRequired(Capture(topic))[column] = 0
        /\ Duplicates(Capture(topic))
                = Cardinality(topic) - Cardinality({m.report : m \in topic})
        /\ AddUp(Reports(topic))
        /\ \A t \in 0 .. now : AddUp(Deduplicated(
                CaptureInitial(topic, [v \in Vehicles |-> IF v = 1 THEN t ELSE now])))

Undisturbed == budget.faults = MaxFaults

\* The feed the gate is meant for: a poll at every tick, and at any time a vehicle that
\* can be reported.
RegularFeed ==
    /\ Interval = 1
    /\ None \notin 0 .. MaxTime
    /\ \A s \in Scripts : \E v \in Vehicles :
            0 \in s[v] /\ \A t \in 0 .. MaxTime : Valid(Entity(v, t))

\* The ticks of a minute at which no request was left waiting for its answer.
Answered(m) == MinuteTicks - Cardinality({t \in stalled : Minute(t) = m})

\* Requests have no timeout, and the gate tells how long they waited.  While the server,
\* the broker and the process do not fail, a whole minute stops the notebook exactly if
\* the waiting cost it more polls than are tolerated -- unless it cost all of them: a
\* minute without a poll is no row of the gate, and passes.
CadenceGateIsFair ==
    Settled /\ Undisturbed =>
        \A m \in 0 .. Minute(now) - 1 :
            m \in AbnormalMinutes(Capture(topic), ExpectedPolls, PollTolerance)
            <=> Answered(m) > 0 /\ Distance(Answered(m), ExpectedPolls) > PollTolerance

\* A vehicle's silence, as long as the cutoff, began in a minute.
SilenceBegins(m, rows, gaps) ==
    \E v \in Vehicles : \E t \in TimesOf(rows, v) :
        /\ Minute(t) = m
        /\ \E u \in TimesOf(rows, v) : u > t
        /\ \A u \in TimesOf(rows, v) : u > t => 100 * (u - t) >= Quantile(gaps, Percent)

\* The gaps that are longer than the threshold less the poll interval in it.
Outlasting(gaps) == {g \in gaps : 100 * (g.seconds + PollTicks) > SilentThreshold(gaps)}

\* The final detection never bridges: in each minute of what it reports a vehicle began a
\* silence as long as the cutoff.  It is part of what the first version reported, if the
\* fraction is no fewer vehicles than that one asked for.  Of the gaps that are left, at
\* most one in a hundred, rounded up, outlasts the threshold made of them.
IncidentsNeverBridge ==
    Settled =>
        LET rows == Reports(topic)
            gaps == MovementOf(topic)
            active == ActiveVehicles(Capture(topic))
            incidents == FindIncidentWindows(gaps, active, Percent, MinPercent, MinRunLength)
            clean == CleanGaps(gaps, incidents)
        IN  /\ \A run \in incidents :
                /\ \A m \in run : SilenceBegins(m, rows, gaps)
                /\ MinPercent * active > 100 * (MinVehicles - 1) =>
                    /\ run \subseteq FindClusterWindows(gaps, Percent, MinVehicles)
                    /\ MaxVehicleCluster(gaps, Percent) >= MinVehicles
            /\ 100 * Cardinality(Outlasting(clean)) < Cardinality(clean) + 100

===============================================================================
