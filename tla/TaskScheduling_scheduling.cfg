SPECIFICATION FairSpec
CONSTANTS
  Tasks <- MCTasks
  Plans <- MCPlans
  Order <- MCOrder
  Paths <- MCPaths
  WorkerCeiling <- MCWorkerCeiling
  TrancheCalls = 2
  Bootstraps = 1
  CallCeiling = 3
  AttemptCeiling = 2
  ResumeCeiling = 1
  CheckpointCeiling = 1
  InvalidCeiling = 2
  MaxLapses = 1
  MaxLeases = 2
  MaxNames = 2
  None = None
INVARIANT TypeOK
INVARIANT LeasesInForce
INVARIANT TasksApart
INVARIANT WithinCaps
PROPERTY DispatchIsObeyed
PROPERTY LeaseEndsForGood
PROPERTY DeliveriesEnd
