CONSTANTS
  Processes = {p, q, r}
  NoProcess = NoProcess
  Modes = {"file", "server"}
  Crashes = 1
  Apart = {"takeovers", "departures", "timeouts", "holders"}
SPECIFICATION Spec
INVARIANTS OneMetatable ReadyArePeers StartupChecks
PROPERTIES StartsReturn
CHECK_DEADLOCK FALSE
