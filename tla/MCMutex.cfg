CONSTANTS
  Threads = {a, b, c, d}
  Kinds = {"writer_first", "reader_first"}
  Calls <- MCCalls
  a = a
  b = b
  c = c
  d = d
SPECIFICATION Spec
PROPERTIES ImplementsRWLock LocksAreGranted
CHECK_DEADLOCK FALSE
