------------------------------- MODULE MCExcel -------------------------------
(***************************************************************************)
(* Two calls recalculated side by side, at different dates: one over all   *)
(* kinds of cells, the other, good cells only, to be disturbed by it.      *)
(***************************************************************************)
EXTENDS Excel

CONSTANTS
  one, other, host,   \* the two calls and the program around them
  arena               \* an allocator family the host may install

MCOwners   == {one, other, host}
MCFamilies == {"crt", arena}
MCKinds    == {"result", "payload", "context", "scratch", "bond", "periods",
               "flows", "buffer"}
MCDates    == {1, 2}

Good == [a \in Arguments |-> "good"]
Sheets ==
  {Good, [a \in Arguments |->
            IF a \in Dated \cup Numeric THEN "good" ELSE "missing"]}
  \cup {[Good EXCEPT ![a] = x] : a \in Arguments, x \in Cells}

MCRequests ==
  [call : {one}, function : {"yield", "dirty", "cashflows", "version"},
   cells : Sheets, date : {1}]
  \cup [call : {other}, function : {"price", "risk"}, cells : {Good}, date : {2}]
=============================================================================
