CONSTANTS
  Flushers = {f1, f2}
  Osets = {orq, remoteq}
  LocalSets = {orq}
  Queues = {q1, q2}
  Deliver = deliver
  None = none
  MaxQueued = 2
  MaxFlush = 3
  Kinds = {orq, remoteq, deliver}
  ShutsDown = TRUE
SPECIFICATION FairSpec
INVARIANTS
  FlushInv
  SuccessMeansFlushed
PROPERTIES
  FlushReturns
  QueueCancelReturns
CHECK_DEADLOCK FALSE
