CONSTANTS
  S = S
  A = A
  B = B
  C = C
  D = D
  j1 = j1
  j2 = j2
  Routers = {S, A, B, C, D}
  Nbrs <- Kite
  Joins = {j1, j2}
  Source <- NearAndFarSource
  Dest <- NearAndFarDest
  InitTTL = 3
  Cost <- KiteCost
  LookupTTL = 4
  MaxLookups = 1
  MaxCuts = 1
SPECIFICATION OverlaySpec
INVARIANTS TTLLimitsReach FollowsPlan LostForCause
PROPERTIES JoinReaches FloodEnds
CHECK_DEADLOCK FALSE
