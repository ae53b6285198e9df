CONSTANTS
  c1 = c1  c2 = c2  c3 = c3
  p1 = p1  p2 = p2
  k1 = k1  k2 = k2
  NoOwner = NoOwner
  Call = {c1, c2, c3}
  Process = {p1, p2}
  LockKey = {k1}
  ProcOf <- MCProcOf
  LockOf <- MCLockOf
  MaxPolls = 2
  RedisFails = TRUE
  ApiCall = {r1, r2}
  Accounts = {x1, x2}
  Spellings = {"gcal", "g_cal"}
  App = "gcal"
  MaxFaults = 2
  Request = {r1, r2}
  AuthConfig = {a1, a2}
  Sound = {a1}
  MaxSessions = 3
  MaxTroubles = 1
  Planner = {r1, r2, r3}
  Intent = {i1, i2}
  FailureThreshold = 2
  SuccessThreshold = 2
  MaxSkeletons = 2
  MaxCalls = 4
SPECIFICATION MCSpec
SYMMETRY Interchangeable
INVARIANTS ListingIsTrue OnlyRefusalsRepeat EmptyOnlyIfTroubled
PROPERTIES OnlyOwnLockReleased MutexSpec OpenCircuitIsLeftAlone SkeletonShapesOnePlan
CHECK_DEADLOCK FALSE
