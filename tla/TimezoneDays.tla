---------------------------- MODULE TimezoneDays ----------------------------
(***************************************************************************)
(* Business days in the configured time zone: the date of a moment, and    *)
(* the moments a date stands for, which every query by date and the usage  *)
(* summary select by.  internal/timezone/policy.go.                        *)
(*                                                                         *)
(* Moments and wall clock times are integers, an hour apart; a zone z is   *)
(* [before, after, at]: its offsets before and from the moment it changes  *)
(* its clock, by an hour at most.                                          *)
(***************************************************************************)
EXTENDS Integers, FiniteSetsExt

CONSTANTS DayLength,     \* hours of a day
          Window,        \* hours around a wall time whose offsets are tried: 48 in the code
          LastDay

Moments == 0 - 2 * DayLength .. (LastDay + 3) * DayLength
Offset(z, t) == IF t < z.at THEN z.before ELSE z.after
Local(z, t)  == t + Offset(z, t)
BusinessDate(z, t) == Local(z, t) \div DayLength

candidateOffsets(z, wall) == {Offset(z, wall + h) : h \in 0 - Window .. Window}
Candidates(z, wall) ==
  {wall - o : o \in {p \in candidateOffsets(z, wall) : Local(z, wall - p) = wall}}

\* The earliest moment the clock shows this time; none is an error.
resolveWallTime(z, wall) == Min(Candidates(z, wall))
Exists(z, wall) == Candidates(z, wall) # {}

\* DayRange fails when either end does not exist.
HasRange(z, d)   == Exists(z, d * DayLength) /\ Exists(z, (d + 1) * DayLength)
DayStart(z, d)   == resolveWallTime(z, d * DayLength)
DayEnd(z, d)     == resolveWallTime(z, (d + 1) * DayLength)
InDay(z, d, t)   == DayStart(z, d) <= t /\ t < DayEnd(z, d)

-----------------------------------------------------------------------------
\* The range of a date holds exactly the moments of that date, on days that are
\* an hour shorter or longer too, and where midnight comes twice: a request is
\* counted on one day, the one its time is shown with.
DayHoldsItsMoments(z) ==
  \A d \in 0 .. LastDay :
    HasRange(z, d) => \A t \in Moments : InDay(z, d, t) <=> BusinessDate(z, t) = d

\* Dates are selected by the calendar of the zone, days of 23 and 25 hours
\* included: every date has its range.
DayHasRange(z) == \A d \in 0 .. LastDay : HasRange(z, d)
=============================================================================
