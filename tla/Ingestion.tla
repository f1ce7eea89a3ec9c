------------------------------- MODULE Ingestion -------------------------------
(***************************************************************************)
(* The ingestion service: poller.ts polls the agency's vehicle positions,  *)
(* validator.ts keeps the usable entities, producer.ts publishes them, and *)
(* a health check hears of every cycle.  A request is retried inside its   *)
(* cycle (requestWithRetry.ts); failed cycles in a row make the poller     *)
(* wait longer.                                                            *)
(*                                                                         *)
(* Time is in ticks of a poll interval.  What the vehicles do is a script, *)
(* chosen at the start; what the server, the broker and the process do is  *)
(* not.                                                                    *)
(***************************************************************************)
EXTENDS Integers, FiniteSets, FiniteSetsExt

CONSTANTS
    Vehicles,
    Scripts,        \* a script: [Vehicles -> the ticks at which the vehicle reports]
    Entity(_, _),   \* the entity of a vehicle's report at a tick
    Partitions,     \* the vehicles whose messages go to one partition, for each partition
    None,           \* a field that is not there
    Interval,       \* BASE_INTERVAL_MS
    MaxBackoff,     \* MAX_BACKOFF_MS
    AlertThreshold, \* ALERT_THRESHOLD
    MaxAttempts,    \* maxAttempts of a request
    MaxTime,        \* bound: ticks
    MaxFaults,      \* bound: changes of the server and the broker, and kills
    MaxStall,       \* bound: ticks that all requests spend waiting for an answer
    MaxTrouble      \* bound: faults and such ticks together

ASSUME IngestionAssumption ==
    /\ Interval \in Nat \ {0} /\ MaxBackoff \in Nat \ {0} /\ Interval <= MaxBackoff
    /\ AlertThreshold \in Nat \ {0} /\ MaxAttempts \in Nat \ {0}
    /\ MaxTime \in Nat /\ MaxFaults \in Nat /\ MaxStall \in Nat
    /\ MaxTrouble \in Nat

\* Every vehicle's messages have a partition: vehicle_id is the key.
ASSUME PartitionsAssumption ==
    \A v \in Vehicles : \A t \in 0 .. MaxTime :
        Entity(v, t).vehicle \in {None} \cup UNION Partitions

VARIABLES
    now,
    script,     \* the vehicles' script
    feed,       \* what the server would serve: the last report of each vehicle
    server,     \* how the server answers
    broker,     \* the partitions that can be written
    poller,     \* the process: its phase, the request's attempt, the failures, the timer
    topic,      \* the messages in Kafka
    health,     \* the last ping of the health check
    offered,    \* history: the valid entities of the last cycle that succeeded
    wholeAt,    \* history: when that was
    upSince,    \* history: since when nothing is in the poller's way
    stalled,    \* history: the ticks at which a request was left waiting for its answer
    budget      \* bound: faults and stalls that are left

vars == <<now, script, feed, server, broker, poller, topic, health, offered, wholeAt,
          upSince, stalled, budget>>

outside == <<now, script, feed, server, broker, upSince, stalled, budget>>

-----------------------------------------------------------------------------
(***************************************************************************)
(* One cycle.                                                              *)
(***************************************************************************)
\* vehiclesWithValidTelemetries(): an entity without a position, an id or a timestamp is
\* skipped, and the others are published.
Valid(e) == e.place # None /\ e.vehicle # None /\ e.timestamp # None

Entities == {Entity(v, feed[v]) : v \in {u \in Vehicles : feed[u] # None}}
ValidTelemetries == {e \in Entities : Valid(e)}
Writable == {e \in ValidTelemetries : e.vehicle \in UNION broker}

\* The messages of a publishTelemetries(), all with one ingested_at.
Messages(telemetries) == {[report |-> e, ingested |-> now] : e \in telemetries}

\* Mutant: the backoff has no limit.
ComputeWait_Unlimited(failures) ==
    IF failures < AlertThreshold THEN Interval ELSE Interval * 2 ^ (failures - AlertThreshold)

ComputeWait(failures) ==
    IF failures < AlertThreshold THEN Interval
    ELSE Min({Interval * 2 ^ (failures - AlertThreshold), MaxBackoff})

Stopped == [phase |-> "stopped", attempt |-> 1, failures |-> 0, wake |-> 0]

Waiting(failures) ==
    [phase |-> "waiting", attempt |-> 1, failures |-> failures,
     wake |-> now + ComputeWait(failures)]

CycleSucceeds ==
    /\ poller' = Waiting(0)
    /\ health' = [kind |-> "ok", at |-> now]
    /\ offered' = ValidTelemetries
    /\ wholeAt' = now

CycleFails ==
    LET failures == poller.failures + 1
    IN  /\ poller' = Waiting(failures)
        /\ health' = IF failures >= AlertThreshold THEN [kind |-> "fail", at |-> now] ELSE health
        /\ UNCHANGED <<offered, wholeAt>>

Polling == poller.phase = "polling"

\* The server answers with a feed; frozen, it is an old one.
Answering == Polling /\ server \in {"up", "frozen"}

\* Mutant: the promise of send() is not awaited.
Publish_NotAwaited ==
    /\ Answering
    /\ topic' = topic \cup Messages(Writable)
    /\ CycleSucceeds
    /\ UNCHANGED outside

\* send() is not called for an empty feed, whatever the broker is doing.
Publish ==
    /\ Answering
    /\ Writable = ValidTelemetries
    /\ topic' = topic \cup Messages(ValidTelemetries)
    /\ CycleSucceeds
    /\ UNCHANGED outside

\* send() rejects, with the batches of some partitions written.
PublishFails ==
    /\ Answering
    /\ Writable # ValidTelemetries
    /\ topic' = topic \cup Messages(Writable)
    /\ CycleFails
    /\ UNCHANGED outside

\* No answer, 429 or 5xx: the request is sent again after a second or two.
RequestRetried ==
    /\ Polling
    /\ server = "down" /\ poller.attempt < MaxAttempts
    /\ poller' = [poller EXCEPT !.attempt = @ + 1]
    /\ UNCHANGED <<outside, topic, health, offered, wholeAt>>

\* The last attempt failed, 4xx, an empty or an undecodable body.
RequestFails ==
    /\ Polling
    /\ \/ server = "refusing"
       \/ server = "down" /\ poller.attempt = MaxAttempts
    /\ CycleFails
    /\ UNCHANGED <<outside, topic>>

Wake ==
    /\ poller.phase = "waiting" /\ poller.wake <= now
    /\ poller' = [poller EXCEPT !.phase = "polling"]
    /\ UNCHANGED <<outside, topic, health, offered, wholeAt>>

\* pollVehiclePositions(): setupKafka() first; if it throws the process exits again.
Start ==
    /\ poller.phase = "stopped" /\ broker # {}
    /\ poller' = [phase |-> "polling", attempt |-> 1, failures |-> 0, wake |-> now]
    /\ upSince' = now
    /\ UNCHANGED <<now, script, feed, server, broker, topic, health, offered, wholeAt, stalled,
                   budget>>

-----------------------------------------------------------------------------
(***************************************************************************)
(* What happens around it.                                                 *)
(***************************************************************************)
\* Within the bound on faults and stalls together.
TroubleIsLeft == (MaxFaults - budget.faults) + (MaxStall - budget.stalls) < MaxTrouble

Due ==
    \/ poller.phase = "stopped" /\ broker # {}
    \/ poller.phase = "waiting" /\ poller.wake <= now

\* Timers fire on time and cycles are short, unless a request waits for its answer.
Tick ==
    /\ now < MaxTime
    /\ ~Due
    /\ Polling => budget.stalls > 0 /\ TroubleIsLeft
    /\ now' = now + 1
    /\ feed' = IF server = "frozen" THEN feed
               ELSE [v \in Vehicles |-> IF now' \in script[v] THEN now' ELSE feed[v]]
    /\ budget' = [budget EXCEPT !.stalls = IF Polling THEN @ - 1 ELSE @]
    /\ stalled' = IF Polling THEN stalled \cup {now} ELSE stalled
    /\ UNCHANGED <<script, server, broker, poller, topic, health, offered, wholeAt, upSince>>

Change ==
    /\ budget.faults > 0 /\ TroubleIsLeft
    /\ budget' = [budget EXCEPT !.faults = @ - 1]
    /\ \/ \E s \in {"up", "frozen", "down", "refusing"} \ {server} :
            server' = s /\ UNCHANGED broker
       \/ broker' \in (SUBSET Partitions) \ {broker} /\ UNCHANGED server
    /\ upSince' = now
    /\ UNCHANGED <<now, script, feed, poller, topic, health, offered, wholeAt, stalled>>

Kill ==
    /\ budget.faults > 0 /\ TroubleIsLeft /\ poller.phase # "stopped"
    /\ budget' = [budget EXCEPT !.faults = @ - 1]
    /\ poller' = Stopped
    /\ UNCHANGED <<now, script, feed, server, broker, topic, health, offered, wholeAt, upSince,
                   stalled>>

Init ==
    /\ now = 0
    /\ script \in Scripts
    /\ feed = [v \in Vehicles |-> IF 0 \in script[v] THEN 0 ELSE None]
    /\ server = "up" /\ broker = Partitions
    /\ poller = Stopped
    /\ topic = {}
    /\ health = [kind |-> "none", at |-> 0]
    /\ offered = {} /\ wholeAt = -1 /\ upSince = 0 /\ stalled = {}
    /\ budget = [faults |-> MaxFaults, stalls |-> MaxStall]

Next ==
    \/ Publish \/ PublishFails \/ RequestRetried \/ RequestFails \/ Wake
    \/ Start \/ Tick \/ Change \/ Kill

Spec == Init /\ [][Next]_vars

-----------------------------------------------------------------------------
(***************************************************************************)
(* Properties.                                                             *)
(***************************************************************************)
\* While the check is green, every usable entity of the feed it was green for is in Kafka.
GreenMeansPublished ==
    health.kind = "ok" => \A e \in offered : [report |-> e, ingested |-> health.at] \in topic

StalledSince(t) == {s \in stalled : s >= t}

\* However long the backoff has become, the end of an outage is noticed: the server and
\* the broker have been well for MAX_BACKOFF and the time that requests were left waiting,
\* and the failures are forgotten.
RecoveryNoticed ==
    (/\ server \in {"up", "frozen"} /\ broker = Partitions /\ poller.phase # "stopped"
     /\ now > upSince + MaxBackoff + Cardinality(StalledSince(upSince)))
    => poller.failures = 0 /\ wholeAt >= upSince

===============================================================================
