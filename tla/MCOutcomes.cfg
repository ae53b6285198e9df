CONSTANTS
  c1 = c1  c2 = c2
  Call = {c1, c2}
  Intents = {"book"}
  Entities = {"none", "Alice", "phone", "essay"}
  Pii = {"phone"}
  Huge = {"essay"}
  HasIndex = TRUE
  Week = 1
  Ttl = 1
  MaxPlans = 2
  MaxRounds = 3
  MaxDay = 1
  MaxFaults = 1
SPECIFICATION Spec
INVARIANTS MemoryIsGrounded StatusIsTrue PatternsCount
SYMMETRY MCSymmetry
CHECK_DEADLOCK FALSE
