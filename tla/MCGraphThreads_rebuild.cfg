CONSTANTS
  t1 = t1
  t2 = t2
  t3 = t3
  A = A
  B = B
  C = C
  Threads = {t1, t2, t3}
  Origins = {A, B, C}
  AtStart = {A, B}
  Tasks <- RebuildTasks
  NoThread = NoThread
SPECIFICATION FairSpec
INVARIANTS ReadersSeeWholeGraph
PROPERTIES UpdatesReachGraph RoutesRecomputed
CHECK_DEADLOCK FALSE
