SPECIFICATION RedeliveredSpec
CONSTANTS
  Tasks <- MCTasks
  Plans <- MCPlans
  Order <- MCOrder
  Paths <- MCPaths
  WorkerCeiling <- MCWorkerCeiling
  TrancheCalls = 2
  Bootstraps = 1
  CallCeiling = 3
  AttemptCeiling = 2
  ResumeCeiling = 1
  CheckpointCeiling = 1
  InvalidCeiling = 2
  MaxLapses = 1
  MaxLeases = 2
  MaxNames = 3
  None = None
PROPERTY FailedTaskIsRescheduled
