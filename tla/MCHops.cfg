SPECIFICATION Spec
CONSTANT Nets <- MCNets
INVARIANTS
  OnePlace
  RefsExact
  Downhill
  NobodyWaits
  Backlog
CHECK_DEADLOCK FALSE
