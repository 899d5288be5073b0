\* The same program: a size set behind the property's back.
SPECIFICATION Spec
CONSTANTS
  c1 = c1   b1 = b1  d1 = d1
  Contexts = {c1}
  Bonds = {b1}
  Dates = {d1}
  Sizes = {1, 2}
  Default = 1
  Unset = Unset  Refused = Refused
  NoBond = NoBond  NoNumber = NoNumber
  MaxDepth = 2
INVARIANT NumbersAtShownSize
