\* A native curve shared by two callers, beside yielding curves, one per caller,
\* and a short, a reset-less and a flat one.
SPECIFICATION Spec
CONSTANTS
  a = a  b = b
  native = native  mine = mine  yours = yours
  old = old  oneway = oneway  level = level
  p1 = p1  p2 = p2  p3 = p3
  Callers = {a, b}
  Pillars = {p1, p2, p3}
  Curves = {native, mine, yours, old, oneway, level}
  Yields = {mine, yours}
  Requests <- RiskRequests
  Faults = {"discount", "bumpRefused"}
  MaxFaults = 1
  OffGrid = OffGrid  Invalid = Invalid  All = All
  Vtable <- MCVtable
  Users <- MCUsers
  Grid <- MCGrid  GridTenors <- MCTenors  Times <- MCTimes
  BumpSize <- MCBumpSize
  NFlows = 2
  NoCaller = NoCaller  Untouched = Untouched
INVARIANTS RiskInv CurveRestored OutExact KeyRatesAddUp
PROPERTIES ImplementsAbs OnlyBumpsRestorable
