CONSTANTS
  l1 = l1
  l2 = l2
  a1 = a1
  a2 = a2
  Run = Run
  None = None
  Leases = {l1, l2}
  AttemptOf <- TwoAttempts
  Revokers = {p1}
  Redeemers = {d1, d2}
  MaxFaults = 1
SPECIFICATION FairSpec
INVARIANT LiveIsPending
INVARIANT CleanIsFinal
PROPERTY RedeemedInScope
PROPERTY ImplementsFence
PROPERTY RevocationsComplete
CHECK_DEADLOCK FALSE
