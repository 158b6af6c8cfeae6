SPECIFICATION Spec
CONSTANTS
  u1 = u1
  u2 = u2
  Threads = {u1, u2}
  Jobs <- SomeJobs
  Authorities = {a1, a2, a3}
  None = None
  RenewTries = 2
  CertsTries = 2
  Guards = {1, 2, 3, 4, 5, 6}
  MaxHour = 1
  MaxCalls = 2
  MaxFaults = 1
  MaxCrashes = 1
INVARIANTS MajoritySigned DiffsApply DirGuardKept
PROPERTIES GivesUpForCause
CHECK_DEADLOCK FALSE
