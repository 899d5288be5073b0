------------------------------- MODULE Marshal -------------------------------
(***************************************************************************)
(* What the Excel add-in makes of a worksheet cell, and of a status.       *)
(*                                                                         *)
(* Dates have a copy of the calendar's arithmetic of their own.  Of the    *)
(* other arguments only this counts: whether the cell is missing, holds a  *)
(* good value, holds one of the right type that is not allowed, or cannot  *)
(* be read as the argument at all (an error value, a range, a text).       *)
(***************************************************************************)
EXTENDS Dates

\* Mutant of SerialToYyyymmdd: serials are taken from Excel's first day on.
SerialToYyyymmddFromOne(serial) ==
  IF serial < 1 \/ serial > 2958465 THEN 0
  ELSE LET c == Civil(serial - 25569) IN c.year * 10000 + c.month * 100 + c.day

\* A serial's date.  Those before 1 March 1900 have none here: Excel counts a
\* 29 February 1900 that never was.
SerialToYyyymmdd(serial) ==
  IF serial < 61 \/ serial > 2958465 THEN 0
  ELSE LET z     == serial - 25569 + 719468
           era   == z \div 146097
           doe   == z - era * 146097
           yoe   == (doe - doe \div 1460 + doe \div 36524 - doe \div 146096) \div 365
           doy   == doe - (365 * yoe + yoe \div 4 - yoe \div 100)
           mp    == (5 * doy + 2) \div 153
           month == IF mp < 10 THEN mp + 3 ELSE mp - 9
           year  == yoe + era * 400 + (IF month <= 2 THEN 1 ELSE 0)
       IN  year * 10000 + month * 100 + doy - (153 * mp + 2) \div 5 + 1

\* A text of three numbers; the day is not held against its month.
ParseIsoDate(y, m, d) ==
  IF 1000 <= y /\ y <= 9999 /\ m \in 1..12 /\ d \in 1..31
    THEN y * 10000 + m * 100 + d ELSE 0

\* The forms in which a cell gives a date.
Text(y, m, d) == [form |-> "text", ymd |-> <<y, m, d>>]
Number(n)     == [form |-> "number", value |-> n]
Blank         == [form |-> "missing"]

\* The date a cell stands for, as the library's eight digits; 0 for none.
DateOfCell(x) ==
  CASE x.form = "text"    -> ParseIsoDate(x.ymd[1], x.ymd[2], x.ymd[3])
    [] x.form = "number"  -> IF x.value >= 10000101 THEN x.value
                             ELSE SerialToYyyymmdd(x.value)
    [] x.form = "missing" -> 0

------------------------------------------------------------------------------
(* Arguments.                                                               *)

Cells == {"good", "missing", "odd", "unreadable"}

Dated     == {"valuation", "issue", "maturity"}
Numeric   == {"coupon", "rate"}
Named     == {"frequency", "bdc", "compounding"}   \* by number or by name
Arguments == Dated \cup Numeric \cup Named \cup {"daycount", "face", "first_coupon"}

\* What becomes of an argument: taken as given, replaced by its default,
\* an error of the call, or passed on to the library, which will refuse it.
Reading(arg, cell) ==
  CASE cell = "good"       -> "given"
    [] cell = "missing"    -> IF arg \in Dated \cup Numeric THEN "error" ELSE "default"
    [] cell = "odd"        -> IF arg \in Named THEN "error" ELSE "doubtful"
    [] cell = "unreadable" ->
         IF arg \in Dated \cup Numeric \cup {"daycount", "frequency"}
           THEN "error" ELSE "default"

------------------------------------------------------------------------------
(* The answers.                                                             *)

Statuses == {"OK", "NULL_ARG", "BAD_STRUCT_SIZE", "BAD_ARG", "BAD_DATE",
             "BAD_SCHEDULE", "NO_CONVERGENCE", "NO_BUMP_SUPPORT",
             "BUFFER_TOO_SMALL", "ALLOC", "UNSUPPORTED"}

\* status_to_xlerr: the error a cell shows for a status.
XlError(status) ==
  IF status = "OK" THEN "#NULL!"
  ELSE IF status = "NO_CONVERGENCE" THEN "#NUM!"
  ELSE IF status \in {"UNSUPPORTED", "NO_BUMP_SUPPORT"} THEN "#N/A"
  ELSE "#VALUE!"
=============================================================================
