CONSTANTS
  Paths = {"p"}
  None = None
  Accented = {"accented"}
  MaxPending = 1
  MaxTransfers = 2
  MaxAnswers = 1
  Overlap = FALSE
SPECIFICATION FairSpec
CHECK_DEADLOCK FALSE
INVARIANTS OneAnswerEach VerdictTrue ShutdownWaits
PROPERTIES CancelEnds
