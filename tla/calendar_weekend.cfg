SPECIFICATION Spec
CONSTANTS
  BadDate = BadDate
  NullDates = NullDates
  BadMask = BadMask
  HolidayLists <- MCLists
  Masks <- MCMasks
  Days <- MCDays
  Steps <- MCSteps
INVARIANTS HolidaysKept
