CONSTANTS
  gA = gA  gB = gB
  Plans <- MCPlans
  Gates <- MCGates
  NoGate = NoGate
  Asks <- MCAsks
  RecoveryLimit = 2
  PlanLimit = 5
SPECIFICATION Spec
PROPERTY CompletedRunsOnce
CHECK_DEADLOCK FALSE
