SPECIFICATION Spec
CONSTANTS
  Procs = {1, 2}
  Trans = {"a", "f"}
  Host <- MCHost
  Chunks = {1, 2, 3}
  TableOf <- MCTableOf
  Holders <- MCHolders
  Items = {"x", "y", "z", "w", "v"}
  HomeOf <- MCHomeOf
  Stored = {"x", "y"}
  Fresh <- MCFresh
  TrackerOf <- MCTrackerOf
  Parallel = {"a"}
  Futures = {"f"}
  Mergers = {}
  Fetchers = {}
  Reads <- MCReads
  Updates <- MCUpdates
  Removes <- MCRemoves
  CustomMerge <- MCCustomMerge
  NumberOf <- MCNumberOf
  MaxOps <- MCMaxOps
  MaxCommits <- MCMaxCommits
  Starts <- MCStarts
  NoTrans = "no transaction"
  NoItem = "no item"
INVARIANT FutureIsCommit
CHECK_DEADLOCK FALSE
