CONSTANTS
  Reqs = {r1, r2, r3}
  Clients = {c1}
  Handlers = {h1, h2}
  NoThread = nobody
  NoReq = noreq
  deliverq_max = 2
  deliverq_threshold = 1
  MaxFlush = 1
SPECIFICATION FairSpec
INVARIANTS
  DeliveryInv
PROPERTIES
  Implements
  CallsReturn
