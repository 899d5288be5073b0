SPECIFICATION Spec
CONSTANTS
  BadDate = BadDate
  Unset = Unset
  NoCalendar = NoCalendar
  Defs <- MCDefs
  Valuations <- MCValuations
INVARIANTS LongStubsAccepted
CHECK_DEADLOCK FALSE
