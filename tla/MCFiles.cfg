CONSTANTS
  UCHAR_MAX = 7
  FILE_BUF = 3
  OFF_SZ = 2
  MIN_RPCQ = 4
  MAX_RPCQ = 12
  MAX_CB = 2
  MIN_TARGET = 1
  PORT_MAX = 5
  Threads = {t1, t2}
  Dirs <- MCDirs
  Names <- MCNames
  Chunks <- MCChunks
  MaxFiles = 3
  MaxEpochs = 2
  Envs <- MCEnvs
SPECIFICATION Spec
INVARIANTS
  StoreIntact
  
  CountsTrue
  PortsDistinct
  
SYMMETRY ThreadSymmetry
CHECK_DEADLOCK FALSE
