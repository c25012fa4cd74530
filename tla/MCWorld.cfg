SPECIFICATION Spec
CONSTANTS
  Rank = {0, 1, 2}
  Epochs = 2
  Envs <- MCEnvs
INVARIANTS
  Matched
  MergedRight
  
