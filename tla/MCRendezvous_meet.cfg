SPECIFICATION FairSpec
CONSTANTS
  Threads = {u1, u2}
  DownThreads = {w1}
  Sizes = {2, 3}
  CellSize = 2
  ReadSize = 3
  Attempts = 2
  Sends = 2
  MaxFaults = 1
INVARIANTS LayersInStep CleanChannelDelivers
PROPERTIES WaitsAreAnswered
CHECK_DEADLOCK FALSE
