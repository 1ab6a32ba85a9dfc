CONSTANTS
  i1 = i1
  r1 = r1
  r2 = r2
  None = None
  Items = {i1}
  Runs = {r1}
  ItemOf <- FirstItem
  Blockers <- NoBlockers
  Schedulers = {s1}
  MaxConcurrentRuns = 1
  MaxFaults = 0
SPECIFICATION FairSpec
PROPERTY ReadySubtaskStarts
