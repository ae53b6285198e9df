CONSTANTS
  gA = gA  gB = gB
  Plans <- MCPlans
  Gates <- MCGates
  NoGate = NoGate
  Asks <- MCAsks
  RecoveryLimit = 2
  PlanLimit = 5
SPECIFICATION FairSpec
INVARIANTS GatedNeedsApproval DependenciesFirst RevisionsAttested SpawnBudget SuccessCoversPlan
PROPERTIES OnlySiblingsRepeat WorkSpec RoundsEnd
CHECK_DEADLOCK FALSE
