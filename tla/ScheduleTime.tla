----------------------------- MODULE ScheduleTime -----------------------------
(***************************************************************************)
(* Time in the agency's zone, as metrics/schedule_deviation.py reads it:   *)
(* a schedule time is an offset from "noon minus 12 hours" of a service    *)
(* day, and one night the clocks may be put forward or back.               *)
(*                                                                         *)
(* Time is in ticks of half an hour, counted without a gap (UTC), from the *)
(* midnight before day 0.  "shift" is how much longer ShiftDay is than     *)
(* other days: 0, or an hour more or less.                                 *)
(***************************************************************************)
EXTENDS Integers

CONSTANTS
    FirstDay, LastDay,      \* bound: the days there are
    ShiftDay                \* the Sunday on which the clocks may change

ASSUME DaysAssumption ==
    FirstDay \in Int /\ LastDay \in Int /\ ShiftDay \in Int

Days == FirstDay .. LastDay
Hour == 2
DayTicks == 24 * Hour
Shifts == {-Hour, 0, Hour}

\* The first instant of a day, on the wall clock.
Midnight(shift, d) == DayTicks * d + IF d > ShiftDay THEN shift ELSE 0

\* Noon is unambiguous: the clocks change in the night before it.
Noon(shift, d) == DayTicks * d + 12 * Hour + IF d >= ShiftDay THEN shift ELSE 0

\* to_eastern(t).date()
DateOf(shift, t) ==
    CHOOSE d \in Days : Midnight(shift, d) <= t /\ t < Midnight(shift, d + 1)

Apart(x, y) == IF x <= y THEN y - x ELSE x - y

-----------------------------------------------------------------------------
(***************************************************************************)
(* resolve_scheduled_datetime().                                           *)
(***************************************************************************)
\* Mutant, and what the notebook's prototype did: the offset is from midnight.
Anchor_Midnight(shift, d) == Midnight(shift, d)

Anchor(shift, d) == Noon(shift, d) - 12 * Hour

\* min(candidates, key=...): of two that are equally near, the first.
Nearest(t, candidates) ==
    CHOOSE c \in candidates : \A e \in candidates :
        \/ Apart(c, t) < Apart(e, t)
        \/ Apart(c, t) = Apart(e, t) /\ c <= e

\* Mutant: the service day is the calendar day.
ResolveScheduled_SameDay(shift, t, offset) == Anchor(shift, DateOf(shift, t)) + offset

\* The offset on the previous, the same or the next service day.
ResolveScheduled(shift, t, offset) ==
    LET d == DateOf(shift, t)
    IN  Nearest(t, {Anchor(shift, d - 1) + offset, Anchor(shift, d) + offset,
                    Anchor(shift, d + 1) + offset})

\* The prototype of notebook 03: days of 24 hours around the midnight before the ping.
ResolveFromMidnight(shift, t, offset) ==
    LET midnight == Midnight(shift, DateOf(shift, t))
    IN  Nearest(t, {midnight - DayTicks + offset, midnight + offset, midnight + DayTicks + offset})

===============================================================================
