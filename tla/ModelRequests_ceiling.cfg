SPECIFICATION Spec
CONSTANTS
  b1 = b1
  b2 = b2
  Budgets = {b1}
  PlanningCeiling <- MCPlanningCeiling
  CallCeiling <- MCCallCeiling
  UnitCeiling <- MCUnitCeiling
  ReservedUnits = 2
  Usages = {1, 3}
  TrancheCalls = 3
  MaxTurns = 2
  MaxCommands = 0
  MaxCrashes = 0
  None = None
CHECK_DEADLOCK FALSE
INVARIANT KnownOutcomeSettles
