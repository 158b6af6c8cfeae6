CONSTANTS
  Last = 3
  BufSize = 2
  Capacity = 1
  Start = 3
  Increment = 2
  Modes = {"recv", "socket", "proxy", "as_socket"}
  Destroys = TRUE
SPECIFICATION FairSpec
INVARIANTS DataSignalled ReadInOrder EmptyMeansEnd SendmesKeepUp
PROPERTY CloseReturns
CHECK_DEADLOCK FALSE
