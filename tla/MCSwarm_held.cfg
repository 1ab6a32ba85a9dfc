CONSTANTS
  i1 = i1
  r1 = r1
  r2 = r2
  None = None
  Items = {i1}
  Runs = {r1, r2}
  ItemOf <- FirstItem
  Blockers <- NoBlockers
  Schedulers = {s1, s2}
  MaxConcurrentRuns = 1
  MaxFaults = 2
SPECIFICATION Spec
INVARIANT HeldIsInProgress
PROPERTY VerdictIsEvidenced
