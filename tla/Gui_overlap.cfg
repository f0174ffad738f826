CONSTANTS
  Paths = {"p", "q"}
  None = None
  Accented = {"accented"}
  MaxPending = 0
  MaxTransfers = 1
  MaxAnswers = 0
  Overlap = TRUE
SPECIFICATION Spec
CHECK_DEADLOCK FALSE
INVARIANT FailureLeavesNothing
