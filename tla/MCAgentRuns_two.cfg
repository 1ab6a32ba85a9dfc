CONSTANTS
  i1 = i1
  r1 = r1
  r2 = r2
  None = None
  Items = {i1}
  Runs = {r1, r2}
  ItemOf <- OneItem
  Blockers <- NoBlockers
  Cleaners = {c1, c2}
  StdioRuns = {r1}
  Purges = FALSE
  MaxFaults = 1
SPECIFICATION Spec
INVARIANT TypeOK
INVARIANT ExclusiveExecution
INVARIANT ReleaseIsTrue
INVARIANT AuthorityHasObligation
INVARIANT ClaimHasObligation
INVARIANT SuccessIsEvidenced
PROPERTY ImplementsLease
SYMMETRY AnyCleaner
CHECK_DEADLOCK FALSE
