CONSTANTS
  Peers = {2, 4, 6, 8}
  Founder = 2
  Leavers = {4, 6}
  Chunks = {"x"}
  HashOf <- MCHashOf
  Calls <- MCCalls
  Apart = {"joins", "resets", "writes"}
  Absent = Absent
  NoPeer = NoPeer
SPECIFICATION Spec
INVARIANTS RingIsOneCycle  HeldIsRegistered 
PROPERTIES RingComesToRest
CHECK_DEADLOCK FALSE
