SPECIFICATION FairSpec
CONSTANTS
  p1 = p1
  p2 = p2
  NoOne = NoOne
  Thread = {t1, t2}
  Peer = {p1, p2}
  rpcq_order <- MCOrder
  max_rpcq_sz = 2
  cb_allowed = 2
  MaxWrites = 5
  MaxEpoch = 1
INVARIANTS
  SendInv
  OneEpoch
  FlushComplete
PROPERTIES
  Implements
  CallsReturn
