SPECIFICATION Spec
CONSTANTS
  BadDate = BadDate
  Unset = Unset
  NoCalendar = NoCalendar
  Defs <- MCDefs
  Valuations <- MCValuations
INVARIANTS PeriodsTile  StubsInFront PaymentsOrdered
INVARIANTS FlowsAreTheFuture CouponsWhole AccruedWithinCoupon BuiltIsPriceable
PROPERTIES WalkMovesBack
CHECK_DEADLOCK FALSE
