------------------------------ MODULE MCSession ------------------------------
(***************************************************************************)
(* A small session: one context, whose settings and errors every call uses,*)
(* one bond variable, two bump sizes, calls nested two deep.               *)
(***************************************************************************)
EXTENDS Session

CONSTANTS c1, b1, d1
=============================================================================
