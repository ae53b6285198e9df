CONSTANTS
  e1 = e1  e2 = e2  e3 = e3  e4 = e4
  Events <- MCEvents
  Threshold = 2
  MaxBuffer = 3
  Managed = TRUE
  AnswerMayGetLost = TRUE
  p1 = p1  p2 = p2
  Plan <- MCPlan
  NoPlan = NoPlan
  MaxRows = 2
  PollLimit = 2
  MaxCrashes = 1
  DatabaseFails = TRUE
SPECIFICATION MCSpec
INVARIANTS EventsAccounted ToldOnce FlaggedPlanIsTold
PROPERTIES EventuallySettled LogSpec NoRowRunsForever
CHECK_DEADLOCK FALSE
