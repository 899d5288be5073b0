SPECIFICATION Spec
CONSTANTS
  one = one  other = other  host = host  arena = arena
  Owners <- MCOwners
  Host = host
  Kinds <- MCKinds
  Families <- MCFamilies
  Crt = "crt"
  Dead = Dead
  Calls = {one, other}
  Dates <- MCDates
  Requests <- MCRequests
  Nothing = Nothing
INVARIANTS NothingLeaks FreedByMaker CellShowsItsOwn
