\* A key-rate call that fails at its second tenor.
SPECIFICATION Spec
CONSTANTS
  a = a  b = b
  native = native  mine = mine  yours = yours
  old = old  oneway = oneway  level = level
  p1 = p1  p2 = p2  p3 = p3
  Callers = {a, b}
  Pillars = {p1, p2}
  Curves = {native}
  Yields = {}
  Requests <- NativeRequests
  Faults = {}
  MaxFaults = 0
  OffGrid = OffGrid  Invalid = Invalid  All = All
  Vtable <- MCVtable
  Users <- MCUsers
  Grid <- MCGrid  GridTenors <- MCTenors  Times <- MCTimes
  BumpSize <- MCBumpSize
  NFlows = 2
  NoCaller = NoCaller  Untouched = Untouched
INVARIANT OutOnlyOnSuccess
