CONSTANTS
  k1 = k1
  k2 = k2
  e1 = e1
  n1 = n1
  n2 = n2
  Events = {e1, e2}
  Keys = {k1, k2}
  KeyOf <- TwoKeys
  Names = {n1, n2}
  Workflow <- Declares
  Consumers = {c1, c2}
  None = None
  MaxCrashes = 1
SPECIFICATION Spec
INVARIANTS
  OneInserter
  AckedHasRun
PROPERTY
  EveryPushIsServed
