CONSTANTS
  j1 = j1
  j2 = j2
  u1 = u1
  Jobs = {j1, j2}
  Runs = {u1}
  RunOf <- OneRun
  Needs <- Chain
  Secrets = {}
  Runners = {r1, r2}
  Replicas = {p1, p2}
  Conns = {c1, c2}
  Attempts = {}
  Nil = Nil
  None = None
  MaxCrashes = 1
SPECIFICATION Spec
INVARIANTS
  SentJobIsOwned
  SingleExecution
  SettledRunAgrees
  NeedsSucceeded
PROPERTY
  OutcomeIsFinal
SYMMETRY ChainSymmetry
CHECK_DEADLOCK FALSE
