SPECIFICATION FairSpecFromEarly
CONSTANTS
  r0 = r0
  r1 = r1
  p1 = p1
  p2 = p2
  t1 = t1
  t2 = t2
  Classes = {"BUDGET"}
  Revisions = {r0, r1}
  InitialRevision = r0
  Plans = {p1}
  None = None
  Threads = {t1}
  MaxRequests = 4
  PlanningCeiling = 2
  PlanningActions = {"read", "submit", "fail"}
  ContinueDelivered = TRUE
CHECK_DEADLOCK FALSE
INVARIANT LiveRuntimeOwns
INVARIANT PlanBinding
PROPERTY UncertainCallSticks
PROPERTY Progress
