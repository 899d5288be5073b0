\* A Python program with re-entrant risk calls.
SPECIFICATION Spec
CONSTANTS
  c1 = c1   b1 = b1  d1 = d1
  Contexts = {c1}
  Bonds = {b1}
  Dates = {d1}
  Sizes = {1, 2}
  Default = 1
  Unset = Unset  Refused = Refused
  NoBond = NoBond  NoNumber = NoNumber
  MaxDepth = 2
INVARIANTS MirrorsTrue NumbersAtOneSize DiagnosticIsOwn
