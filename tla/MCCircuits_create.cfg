CONSTANTS
  Tries = 2
  Hops = 3
SPECIFICATION FairSpec
INVARIANTS NoOrphans RemovedNotConnected LayersMatch
PROPERTIES BothGoOn
CHECK_DEADLOCK FALSE
