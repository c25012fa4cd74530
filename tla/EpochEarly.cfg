SPECIFICATION Spec
CONSTANTS
  Rank = {1, 2, 3}
  Node <- MCNode
  Rep <- MCRep
  Epochs = 2
  Envs <- CheckedEnvs
INVARIANTS
  NoBadEpoch
