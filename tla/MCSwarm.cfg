SPECIFICATION Spec
CONSTANTS
  a = a
  b = b
  c = c
  d = d
  e = e
  g = g
  h = h
  x = x
  y = y
  z = z
  NoThread = NoThread
  NoPeer = NoPeer
  Peers = {1, 2, 3, 4}
  Founders = {1, 2, 3, 4}
  Threads = {a, b, d, e}
  Helpers = {}
  Callbacks = {}
  Host <- MCHost
  Calls <- CallsLock
  MaxCalls = 1
  Items = {}
  Stored = {}
  Fresh <- NothingFresh
INVARIANTS LockInv LockChecks
PROPERTIES EveryCallReturns
