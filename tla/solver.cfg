SPECIFICATION Spec
CONSTANTS
  NaN = NaN
  Objectives <- MCObjectives
  Lo = 0
  Hi = 13
  Guess = 5
  FirstStep = 2
  MaxWiden = 64
  Tol = 2
  Slack <- MCSlack
  MaxIter = 4
INVARIANTS SearchConfined RootTrapped AnswerTrusted GivesUpHonestly
PROPERTIES ImplementsRootSearch
CHECK_DEADLOCK FALSE
