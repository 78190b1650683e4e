------------------------------ MODULE MCClocks ------------------------------
(* The clocks of TimezoneDays, for the run that shows a finding. *)
EXTENDS TimezoneDays

\* A clock that changes once: its offset before and after, and the moment.
VARIABLE clock

Init == clock = [before |-> 0, after |-> 0, at |-> 0]
Next == clock' \in {z \in [before : -3..3, after : -3..3, at : -2..12] :
                      z.after - z.before \in -1..1}
Spec == Init /\ [][Next]_clock

\* CHANGELOG.md:33: every business day can be filtered as a half-open interval, days
\* of 23 and of 25 hours included.
EveryDayHasRange == DayHasRange(clock)
=============================================================================
