---------------------------- MODULE WindowCallback ----------------------------
(***************************************************************************)
(* main.py: one process of the analytics engine around                     *)
(* on_window_result(), which composes the hourly statistics (HourlyStats)  *)
(* and the alerts (DataQualityAlerter).  Every window is persisted,        *)
(* observed by the alerter, reported in the pipeline_status document, and  *)
(* accumulated; a flush of the hour may follow.  A signal, a kill or an    *)
(* outage of PostgreSQL may fall between any two of these steps.           *)
(*                                                                         *)
(* What persist_window() does to MongoDB, and what its failure does to the *)
(* Kafka offset, is in AnalyticsConsumer; the callback goes on either way. *)
(***************************************************************************)
EXTENDS HourlyStats, DataQualityAlerter

CONSTANTS
    WindowResults,      \* what a window may yield: [results, matching]
    VolumeCounts,       \* what the two queries of an hour may return
    Delivered,          \* does a ping, or a status write, arrive?
    MaxProcesses,       \* bound: how often the engine is started
    MaxJump,            \* bound: ticks that pass at once
    MaxBack             \* bound: ticks the clock is stepped back

ASSUME CallbackAssumption ==
    /\ \A r \in WindowResults :
          r.results \subseteq [route : Routes \cup {NoRoute},
                              kind : {"deviation", "new", "update"}]
    /\ MaxProcesses \in Nat /\ MaxJump \in Nat /\ MaxBack \in Nat
    /\ VolumeCounts \subseteq Counts
    /\ Delivered \subseteq BOOLEAN

VARIABLES
    result,             \* the WindowResult in progress
    status,             \* the pipeline_status document: its alerts, or "none"
    lost                \* history: the last ping or status write did not arrive

vars == <<clockVars, statsVars, alerterVars, result, status, lost>>

NoResult == [results |-> {}, matching |-> NoMatching]

TypeOK ==
    /\ ClockTypeOK
    /\ StatsTypeOK
    /\ AlerterTypeOK
    /\ result \in WindowResults \cup {NoResult}
    /\ status \in {"none", "alerts", "healthy"}
    /\ lost \in BOOLEAN

Init ==
    /\ ClockInit
    /\ StatsInit
    /\ AlerterInit
    /\ result = NoResult
    /\ status = "none"
    /\ lost = FALSE

-----------------------------------------------------------------------------
(***************************************************************************)
(* docker starts the process: the callback's objects are built, PgWriter   *)
(* connects.  The alerter's and the accumulator's memory is new.           *)
(***************************************************************************)
Start ==
    /\ step = "down"
    /\ process < MaxProcesses
    /\ step' = "connecting"
    /\ process' = process + 1
    /\ ForgetAlerts
    /\ UNCHANGED <<clockVars, windows, attempt, accumulator, buffer, server,
                   stored, result, status, lost>>

ConnectPg == Connect /\ UNCHANGED <<clockVars, alerterVars, result, status, lost>>

\* run() has processed a window; persist_window() has written it or failed.
Persist(r) ==
    /\ step = "idle"
    /\ r # NoResult => windows < MaxWindows
    /\ windows' = IF r = NoResult THEN windows ELSE windows + 1
    /\ result' = r
    /\ step' = "observe"
    /\ UNCHANGED <<clockVars, alerterVars, process, attempt, accumulator, buffer,
                   server, stored, status, lost>>

\* alerter.observe_window(result.matching, now)
Observe(counts, arrives) ==
    /\ step = "observe"
    /\ ObserveWindow(result.matching, counts, arrives)
    /\ lost' = ~arrives
    /\ step' = "report"
    /\ UNCHANGED <<clockVars, life, accumulator, buffer, server, stored, result,
                   status>>

\* build_pipeline_status_document(): the alerts are what readers tell apart.
StatusDocument == IF Alerting THEN "alerts" ELSE "healthy"

\* writer.write_pipeline_status(...): a failure is logged and swallowed.
Report(written) ==
    /\ step = "report"
    /\ status' = IF written THEN StatusDocument ELSE status
    /\ lost' = (lost \/ ~written)
    /\ step' = "accumulate"
    /\ UNCHANGED <<clockVars, alerterVars, life, accumulator, buffer, server,
                   stored, result>>

\* accumulator.accumulate(result)
Count ==
    /\ step = "accumulate"
    /\ Accumulate(result.results)
    /\ result' = NoResult
    /\ UNCHANGED <<clockVars, alerterVars, status, lost>>

Flush ==
    /\ MaybeFlush \/ Handover \/ Upsert \/ Clear
    /\ UNCHANGED <<clockVars, alerterVars, result, status, lost>>

Callback ==
    \/ \E r \in WindowResults \cup {NoResult} : Persist(r)
    \/ \E counts \in VolumeCounts, arrives \in Delivered : Observe(counts, arrives)
    \/ \E written \in Delivered : Report(written)
    \/ Count
    \/ Flush

Finally ==
    /\ Shutdown
    /\ UNCHANGED <<clockVars, alerterVars, result, status, lost>>

-----------------------------------------------------------------------------
(***************************************************************************)
(* The environment.                                                        *)
(***************************************************************************)
\* The rest of a callback takes no time, except that the second datetime.now()
\* may already see the next hour.
Tick ==
    /\ step \in {"idle", "flush", "down"}
    /\ \E d \in 1 .. MaxJump : Advance(d)
    /\ UNCHANGED <<statsVars, alerterVars, result, status, lost>>

ClockBack ==
    /\ step = "idle"
    /\ \E d \in 1 .. MaxBack : StepBack(d)
    /\ UNCHANGED <<statsVars, alerterVars, result, status, lost>>

RetryTimer == RetryDue /\ UNCHANGED <<clockVars, alerterVars, result, status, lost>>

Signal ==
    /\ process < MaxProcesses
    /\ Interrupt
    /\ result' = NoResult
    /\ UNCHANGED <<clockVars, alerterVars, status, lost>>

Killed ==
    /\ process < MaxProcesses
    /\ Kill
    /\ result' = NoResult
    /\ UNCHANGED <<clockVars, alerterVars, status, lost>>

Postgres ==
    /\ PgGoesDown \/ PgComesUp
    /\ UNCHANGED <<clockVars, alerterVars, result, status, lost>>

Environment == Tick \/ ClockBack \/ RetryTimer \/ Signal \/ Killed \/ Postgres

Next == Start \/ ConnectPg \/ Callback \/ Finally \/ Environment

(***************************************************************************)
(* The container is restarted, the loop keeps processing windows (a window *)
(* may be empty), PostgreSQL comes back and the retry interval passes.     *)
(***************************************************************************)
Fairness ==
    /\ WF_vars(Start) /\ WF_vars(ConnectPg) /\ WF_vars(Callback) /\ WF_vars(Finally)
    /\ WF_vars(RetryTimer)
    /\ WF_vars(PgComesUp /\ Postgres)

Spec == Init /\ [][Next]_vars /\ Fairness

-----------------------------------------------------------------------------
\* Violated: "below 50% sustained for 30 minutes" (alerting.py:9-11) fires the
\* first alert.
SustainedLowRatioFires == step = "report" /\ LowThroughout => ratioAlert

=============================================================================
