SPECIFICATION FairSpec
CONSTANTS
  t1 = t1
  t2 = t2
  Threads = {t1, t2}
  Scenes <- AllScenes
  HsDirs = 4
  Points = 2
  Retries = 2
  MaxFaults <- SomeFaults
  None = None
INVARIANTS KeysAgree FailsForCause StreamsReachTheirHost
PROPERTIES EstablishesOnce RequestsSettle
CHECK_DEADLOCK FALSE
