CONSTANTS
  w1 = w1
  w2 = w2
  None = None
  Requests = {1, 2, 3}
  Workers = {w1, w2}
  Roles = 1
  MaxConcurrent = 2
  MaxCalls = 2
  MaxCrashes = 1
SPECIFICATION FairSpec
INVARIANT AdmissionHolds
INVARIANT NeverReplayed
INVARIANT SettledIsTerminated
PROPERTY ReceiptsAreFound
CHECK_DEADLOCK FALSE
