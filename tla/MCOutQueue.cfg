CONSTANTS
  Small = {s1, s2}
  Big = {b1, b2}
  Reqs <- MCReqs
  Size <- MCSize
  Clients = {c1}
  Handlers = {h1}
  Net = net
  Flusher = flusher
  NoThread = nobody
  NoReq = noreq
  maxoqrpc = 2
  buftarget = 2
  shufsend_rpclimit = 0
  MaxFail = 0
  MaxFlush = 1
SYMMETRY Symmetry
SPECIFICATION Spec
INVARIANTS
  HeldBack
  FlushDelivers
  IndInv
