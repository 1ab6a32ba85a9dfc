CONSTANTS
  c1 = c1
  c2 = c2
  Callers = {c1, c2}
  People = {"author", "reviewer"}
  Author = "author"
  Commits = {1, 2}
  Governed = {1, 2}
  Large = {2}
  Resets = FALSE
  MaxTarget = 2
  MaxCalls = 3
SPECIFICATION Spec
SYMMETRY Handlers
INVARIANT MergedAsJudged
INVARIANT MergedIsEndorsed
INVARIANT LandsInOrder
CHECK_DEADLOCK FALSE
