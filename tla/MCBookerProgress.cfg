CONSTANTS
  c1 = c1  c2 = c2
  p1 = p1  p2 = p2
  step1 = step1  resource = resource
  NoOwner = NoOwner
  Call = {c1, c2}
  Process = {p1, p2}
  IdemKey = {step1}
  LockKey = {resource}
  ProcOf <- MCTwoProcs
  KeyOf <- MCOneStep
  LockOf <- MCOneLock
  MaxRetries = 1
  MaxPolls = 2
  RedisFails = TRUE
  ClaimsAge = FALSE
  AnswersGetLost = FALSE
  ProcessesCrash = TRUE
SPECIFICATION FairSpec
PROPERTIES EveryCallEnds
CHECK_DEADLOCK FALSE
