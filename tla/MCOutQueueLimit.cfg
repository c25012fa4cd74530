CONSTANTS
  Small = {s1, s2}
  Big = {b1}
  Reqs <- MCReqs
  Size <- MCSize
  Clients = {c1, c2, c3}
  Handlers = {}
  Net = net
  Flusher = flusher
  NoThread = nobody
  NoReq = noreq
  maxoqrpc = 1
  buftarget = 2
  shufsend_rpclimit = 1
  MaxFail = 0
  MaxFlush = 0
SPECIFICATION FairSpec
PROPERTIES
  LimitedSendersGo
CHECK_DEADLOCK FALSE
