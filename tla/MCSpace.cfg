CONSTANTS
  Processes = {10, 20, 30}
  Creator = 30
  Chunks = {"x", "y"}
  Bounds <- MCBounds
  Subdivision <- MCSubdivision
  HashOf <- MCHashOf
  Calls <- MCCalls
  Apart = {"accesses", "announcements", "changes"}
  NoProcess = NoProcess
SPECIFICATION Spec
INVARIANTS SpaceChecks SeeksFind ListenersHear
