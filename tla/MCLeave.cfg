SPECIFICATION LeaveApartSpec
CONSTANTS
  a = a
  b = b
  c = c
  d = d
  e = e
  g = g
  h = h
  x = x
  y = y
  z = z
  NoThread = NoThread
  NoPeer = NoPeer
  Peers = {1, 2, 3}
  Founders = {1, 2, 3}
  Threads = {a, b, c, g}
  Helpers = {}
  Callbacks = {g}
  Host <- MCHost
  Calls <- CallsLeave
  MaxCalls = 1
  Items = {x, y, z}
  Stored = {x}
  Fresh <- FreshForBAndC
INVARIANTS ChecksHold WriterFindsAgreement TriggersEndFirst
