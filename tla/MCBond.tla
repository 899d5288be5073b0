------------------------------- MODULE MCBond -------------------------------
(***************************************************************************)
(* Bonds of up to two years around the end of February 2024: month ends,   *)
(* grids that miss the issue date, front stubs short and long, and          *)
(* valuation dates on, before and after coupons and their payments.         *)
(***************************************************************************)
EXTENDS Bond

At(n) == FromYyyymmdd(n)

\* Sat 31 Aug 2024 and the Monday after it are no business days.
Labor == [weekend |-> {0, 6}, holidays |-> {At(20240902), At(20240229)}]

Shape(issue, maturity, first, freq, eom) ==
  [issue |-> issue, maturity |-> maturity, first |-> first, frequency |-> freq,
   eom |-> eom]

Issues     == {At(20230831), At(20231115), At(20240229)}
Maturities == {At(20240831), At(20250228)}
Firsts     == {NoDay, At(20231115), At(20240331), At(20240831)}

Shapes == {Shape(i, m, f, q, e) :
             i \in Issues, m \in Maturities, f \in Firsts,
             q \in {0, 1, 2, 4}, e \in BOOLEAN}
Plain  == Shape(At(20230831), At(20240831), NoDay, 2, TRUE)
OddShapes == {[Plain EXCEPT !.frequency = 3], [Plain EXCEPT !.frequency = 12],
              [Plain EXCEPT !.maturity = At(20230831)],
              [Plain EXCEPT !.issue = BadDate], [Plain EXCEPT !.first = BadDate],
              [Plain EXCEPT !.maturity = At(20240229)]}

Terms(shape, bdc, dc, size, calendar, face, rate) ==
  [issue |-> shape.issue, maturity |-> shape.maturity, first |-> shape.first,
   frequency |-> shape.frequency, eom |-> shape.eom, bdc |-> bdc,
   daycount |-> dc, size |-> size, calendar |-> calendar,
   facePositive |-> face, rate |-> rate]

MCDefs ==
  {Terms(s, b, dc, "full", Labor, TRUE, "small") :
     s \in Shapes, b \in {"PRECEDING", "MODIFIED_FOLLOWING"},
     dc \in {"ACT_ACT_ICMA", "THIRTY_360_BOND"}}
  \cup {Terms(s, b, dc, z, NoCalendar, TRUE, "nan") :
          s \in OddShapes \cup {Plain}, b \in BDCs, dc \in Conventions,
          z \in {"short", "full"}}
  \cup {Terms(Plain, "NONE", "ACT_360", z, NoCalendar, f, r) :
          z \in Sizes, f \in BOOLEAN, r \in Rates}

MCValuations == {At(20231231), At(20240229), At(20240830), At(20240902), Unset}
=============================================================================
