------------------------------- MODULE MCTime -------------------------------
(***************************************************************************)
(* Windows of four years: at both ends of the interface's range, around    *)
(* day zero, around a leap century and around two common ones.             *)
(***************************************************************************)
EXTENDS MCCalendar, Time

\* 1 January of 1000, 1898, 1968, 1998, 2098 and 9996.
MCStarts == {-354285, -26297, -731, 10227, 46752, 2931436}
MCMonths == {-12, -6, -3, -1, 1, 2, 7, 12}
MCSpans  == {-400, 0, 3, 31, 59, 366, 800}
=============================================================================
