------------------------------ MODULE WallClock ------------------------------
(***************************************************************************)
(* The wall clock two parts of the analytics engine read on their own:     *)
(* main.py's callback calls datetime.now(UTC) once for the alerter and     *)
(* once more for the hourly accumulator.  Time passes in ticks; the host   *)
(* may also step its clock back (NTP), which no code path excludes.        *)
(***************************************************************************)
EXTENDS Integers

CONSTANTS
    HourTicks,      \* ticks per hour
    MaxTime,        \* bound: the clock stops here
    MaxStepsBack    \* bound: how often the host steps its clock back

ASSUME ClockAssumption ==
    /\ HourTicks \in Nat \ {0}
    /\ MaxTime \in Nat
    /\ MaxStepsBack \in Nat

VARIABLES
    now,            \* the wall clock, in ticks
    stepsBack       \* how often it was stepped back

clockVars == <<now, stepsBack>>

Hours == 0 .. MaxTime \div HourTicks

\* reference_time.replace(minute=0, second=0, microsecond=0)
HourOf(t) == t \div HourTicks

ClockTypeOK ==
    /\ now \in 0 .. MaxTime
    /\ stepsBack \in 0 .. MaxStepsBack

ClockInit == now = 0 /\ stepsBack = 0

\* Time passes; d > 1 is a quiet stretch in which nothing happened.
Advance(d) ==
    /\ now + d <= MaxTime
    /\ now' = now + d
    /\ UNCHANGED stepsBack

StepBack(d) ==
    /\ stepsBack < MaxStepsBack
    /\ d <= now
    /\ now' = now - d
    /\ stepsBack' = stepsBack + 1

=============================================================================
