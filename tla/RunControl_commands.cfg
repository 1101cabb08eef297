SPECIFICATION SpecFromPhases
CONSTANTS
  r0 = r0
  r1 = r1
  p1 = p1
  p2 = p2
  t1 = t1
  t2 = t2
  Classes = {"BUDGET", "POLICY"}
  Revisions = {r0, r1}
  InitialRevision = r0
  Plans = {p1}
  None = None
  Threads = {t1, t2}
  MaxRequests = 8
  PlanningCeiling = 2
  PlanningActions = {"read", "submit"}
  ContinueDelivered = FALSE
VIEW UpToSequence
SYMMETRY ThreadSymmetry
CHECK_DEADLOCK FALSE
INVARIANT TypeOK
INVARIANT OneDelivery
INVARIANT PermitsInOrder
INVARIANT CurrentDocument
INVARIANT EffectsAccounted
INVARIANT PlanApproved
PROPERTY PolicyFrozen
PROPERTY ImplementsDelivery
