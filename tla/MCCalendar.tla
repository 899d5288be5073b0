----------------------------- MODULE MCCalendar -----------------------------
(***************************************************************************)
(* Calendars around the end of February and of March 2024: holidays at both*)
(* month ends and in a run, weekends of every shape, one a whole week.     *)
(***************************************************************************)
EXTENDS Calendar

At(n) == FromYyyymmdd(n)

\* Friday 23 February to Friday 8 March: the days the queries start from.
MCDays == At(20240223)..At(20240308)

\* Runs of holidays around the month end; and every Saturday of February,
\* which leaves it without a business day if all the other days are weekend.
Pool == {At(20240228), At(20240229), At(20240301), At(20240302), At(20240304)}
Saturdays == {At(20240203), At(20240210), At(20240217), At(20240224)}
MCLists == SUBSET Pool \cup {Saturdays, {At(20240229), BadDate}, NullDates}
MCMasks == {{0, 6}, {5, 6}, {}, {0, 1, 2, 3, 4, 5}, {2}, 0..6, BadMask}
MCSteps == {-6, -2, -1, 1, 2, 5}
=============================================================================
