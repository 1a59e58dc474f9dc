CONSTANTS
  Processes = {p, q, r}
  NoProcess = NoProcess
  Chunks = {"a"}
  OwnerOf <- MCOwnerOf
  Calls <- MCCalls
  Apart = {"entries", "departures", "pushes"}
  p = p
  q = q
  r = r
SPECIFICATION Spec
INVARIANTS ListenersGetChunks JoinersAreHeard TriggersAttachedOnce  TableChecks
PROPERTIES CallsReturn
CHECK_DEADLOCK FALSE
