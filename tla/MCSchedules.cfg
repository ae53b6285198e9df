CONSTANTS
  Client = {c1, c2}
  Limits = {0, 1}
  MaxRequests = 3
  MaxStarts = 2
  MaxFaults = 1
SPECIFICATION Spec
SYMMETRY MCSymmetry
INVARIANTS  ActiveHasJob
PROPERTY NoRunAgainstWish
CHECK_DEADLOCK FALSE
