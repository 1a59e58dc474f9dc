SPECIFICATION Spec
CONSTANTS
  a = a
  b = b
  c = c
  d = d
  e = e
  g = g
  h = h
  x = x
  y = y
  z = z
  NoThread = NoThread
  NoPeer = NoPeer
  Peers = {1, 2}
  Founders = {1}
  Threads = {a, b, h}
  Helpers = {}
  Callbacks = {h}
  Host <- MCHost
  Calls <- CallsTwoPeers
  MaxCalls = 3
  Items = {x, y, z}
  Stored = {x}
  Fresh <- FreshForBAndC
 
PROPERTIES EveryCallReturns ImplementsRWLock
