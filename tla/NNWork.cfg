SPECIFICATION FairSpec
CONSTANTS
  Rpcs = {r1, r2, r3}
  MaxPauses = 2
  LockFree = TRUE
  None = None
INVARIANTS
  WorkInv
  BgwaitMeansDone
PROPERTIES
  RpcsAnswered
  DestroyReturns
CHECK_DEADLOCK FALSE
