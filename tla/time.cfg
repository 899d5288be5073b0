SPECIFICATION TimeSpec
CONSTANTS
  BadDate = BadDate
  NullDates = NullDates
  BadMask = BadMask
  HolidayLists <- MCLists
  Masks <- MCMasks
  Days <- MCDays
  Steps <- MCSteps
  Starts <- MCStarts
  Today = 10227
  Window = 1460
  Months <- MCMonths
  Spans <- MCSpans
INVARIANTS DatesRoundTrip MonthShift IsdaAdditive FractionsGrow SerialsAgree
INVARIANTS WalksEnd AdjustOrders AdvanceCounts
PROPERTIES DaysFollow HolidaysApplied
CHECK_DEADLOCK FALSE
