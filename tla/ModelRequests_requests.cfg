SPECIFICATION FairSpec
CONSTANTS
  b1 = b1
  b2 = b2
  Budgets = {b1, b2}
  PlanningCeiling <- MCPlanningCeiling
  CallCeiling <- MCCallCeiling
  UnitCeiling <- MCUnitCeiling
  ReservedUnits = 2
  Usages = {1, 3}
  TrancheCalls = 3
  MaxTurns = 2
  MaxCommands = 2
  MaxCrashes = 1
  None = None
CHECK_DEADLOCK FALSE
INVARIANT TypeOK
INVARIANT AttemptsAccounted
INVARIANT CeilingsHold
INVARIANT TurnsAreAccounted
PROPERTY SentUnderAuthority
PROPERTY ReservationResolves
