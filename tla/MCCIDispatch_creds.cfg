CONSTANTS
  j1 = j1
  j2 = j2
  u1 = u1
  Jobs = {j1}
  Runs = {u1}
  RunOf <- OneRun
  Needs <- NoNeeds
  Secrets = {j1}
  Runners = {r1}
  Replicas = {p1}
  Conns = {c1}
  Attempts = {a1, a2}
  Nil = Nil
  None = None
  MaxCrashes = 1
SPECIFICATION Spec
INVARIANTS
  TypeOK
  RunningJobKeepsCredentials
  LeaseHasObligation
SYMMETRY CredSymmetry
CHECK_DEADLOCK FALSE
