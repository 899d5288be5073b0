\* Every callback may misbehave.
SPECIFICATION FairSpec
CONSTANTS
  a = a  b = b
  native = native  mine = mine  yours = yours
  old = old  oneway = oneway  level = level
  p1 = p1  p2 = p2  p3 = p3
  Callers = {a, b}
  Pillars = {p1, p2}
  Curves = {native}
  Yields = {}
  Requests <- HostileRequests
  Faults = {"discount", "bumpRefused", "bumpTorn", "resetFails"}
  MaxFaults = 1
  OffGrid = OffGrid  Invalid = Invalid  All = All
  Vtable <- MCVtable
  Users <- MCUsers
  Grid <- MCGrid  GridTenors <- MCTenors  Times <- MCTimes
  BumpSize <- MCBumpSize
  NFlows = 1
  NoCaller = NoCaller  Untouched = Untouched
INVARIANTS TypeOK OutMatchesStatus LastStatusFresh
PROPERTIES EveryCallReturns
