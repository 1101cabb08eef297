SPECIFICATION FairSpec
CONSTANTS
  r0 = r0
  r1 = r1
  k1 = k1
  k2 = k2
  t1 = t1
  t2 = t2
  Tasks = {k1}
  Revisions = {r0, r1}
  None = None
  Runtime = Runtime
  Threads = {t1}
  MaxRequests = 2
  MaxTurns = 2
  WorkerCeiling = 2
  Acts = {"direct", "outside", "risky", "finish", "fail", "malformed"}
  Disturbances = {"replace", "expiry", "edit", "fault", "crash"}
  CredentialBound = TRUE
  ContinueDelivered = FALSE
CHECK_DEADLOCK FALSE
PROPERTY Progress
