SPECIFICATION Spec
CONSTANTS
  Rank = {1,2,3,4}
  Node <- MCNode
  Rep <- MCRep
  Epochs = 2
  Envs <- MCEnvs
INVARIANTS
  EpochComplete
  NewBuffer
  LandsNear
  NothingStranded
  NobodyStuck
