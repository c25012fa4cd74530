CONSTANTS
  Small = {s1, s2}
  Big = {b1}
  Reqs <- MCReqs
  Size <- MCSize
  Clients = {c1}
  Handlers = {h1}
  Net = net
  Flusher = flusher
  NoThread = nobody
  NoReq = noreq
  maxoqrpc = 1
  buftarget = 2
  shufsend_rpclimit = 1
  MaxFail = 1
  MaxFlush = 1
SPECIFICATION FairSpec
INVARIANTS
  FlushSane
  StopOnce
PROPERTIES
  CallsReturn
CHECK_DEADLOCK FALSE
