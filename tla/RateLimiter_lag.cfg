CONSTANTS
  Requests = {r1, r2, r3, r4, r5}
  Keys = {k1, k2}
  Limit = 2
  Window = 3
  MaxLag = 1
  MaxTime = 6
SPECIFICATION LimiterSpec
SYMMETRY Symmetry
CHECK_DEADLOCK FALSE
INVARIANTS
  WindowCap
  RefusedForCause
  MapIsRecent
