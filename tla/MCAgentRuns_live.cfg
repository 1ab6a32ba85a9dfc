CONSTANTS
  i1 = i1
  r1 = r1
  r2 = r2
  None = None
  Items = {i1}
  Runs = {r1, r2}
  ItemOf <- OneItem
  Blockers <- NoBlockers
  Cleaners = {c1}
  StdioRuns = {r1}
  Purges = TRUE
  MaxFaults = 0
SPECIFICATION FairSpec
PROPERTY CreatedRunIsReleased
CHECK_DEADLOCK FALSE
