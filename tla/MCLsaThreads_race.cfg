CONSTANTS
  Threads = {t1, t2, t3}
  MaxSN = 3
  Absent = Absent
SPECIFICATION LsaSpec
INVARIANTS NewestFlooded EntriesTogether NewestKept FloodedOnce
SYMMETRY ThreadSymmetry
CHECK_DEADLOCK FALSE
