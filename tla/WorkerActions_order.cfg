SPECIFICATION Spec
CONSTANTS
  r0 = r0
  r1 = r1
  k1 = k1
  k2 = k2
  t1 = t1
  t2 = t2
  Tasks = {k1, k2}
  Revisions = {r0, r1}
  None = None
  Runtime = Runtime
  Threads = {t1}
  MaxRequests = 1
  MaxTurns = 2
  WorkerCeiling = 3
  Acts = {"risky", "finish"}
  Disturbances = {"replace", "crash"}
  CredentialBound = TRUE
  ContinueDelivered = TRUE
SYMMETRY Symmetry
CHECK_DEADLOCK FALSE
INVARIANT GrantedBeforeScheduling
