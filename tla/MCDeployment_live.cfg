CONSTANTS
  w1 = w1
  w2 = w2
  None = None
  Workers = {w1, w2}
  Ops = {1, 2}
  MaxAttempts = 2
  MaxFaults = 1
SPECIFICATION FairSpec
CHECK_DEADLOCK FALSE
INVARIANT OneDeliverer
INVARIANT SettledIsQuiet
INVARIANT ResolvedIsFenced
INVARIANT SuccessIsDeployed
INVARIANT NeverRollsBack
PROPERTY ObligationsAreResolved
