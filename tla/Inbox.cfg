SPECIFICATION FairSpec
CONSTANTS
  Ids = {m1, m2}
  Requests = {r1, r2}
  Sweeper = sweeper
  MaxUploads = 1
  MaxRestarts = 1
  NoId = NoId
CHECK_DEADLOCK FALSE
INVARIANTS Available GoneForGood
PROPERTIES NothingLingers
