CONSTANTS
  c1 = c1  c2 = c2  c3 = c3
  p1 = p1  p2 = p2
  k1 = k1  k2 = k2
  NoOwner = NoOwner
  Call = {c1, c2, c3}
  Process = {p1, p2}
  LockKey = {k1}
  ProcOf <- MCProcOf
  LockOf <- MCLockOf
  MaxPolls = 2
  RedisFails = FALSE
SPECIFICATION Spec
INVARIANTS ReleasesOwnValue
CHECK_DEADLOCK FALSE
