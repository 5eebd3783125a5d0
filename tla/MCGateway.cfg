SPECIFICATION Safety
CONSTANTS
  r1 = r1
  r2 = r2
  a1 = a1
  t1 = t1
  t2 = t2
  Requests = {r1, r2}
  Operators = {o1}
  Agents = {a1}
  AgentOf <- OneAgent
  Tables = {t1}
  Queries <- NoRecoveryQueries
  ThePolicy <- DefaultGatewayPolicy
  MaxBlockedAttempts = 1
  RetryWindow = 1
  QuarantineDuration = 2
  QuarantineBlocksSafe = FALSE
  MaxSnapshotAge = 1
  MaxHeartbeatAge = 1
  RequireHeartbeat = TRUE
  RecoveryGroup <- NoGroups
  SnapshotBeforeCritical = TRUE
  PauseBlocksSafe = FALSE
  MaxConcurrent = 2
  Sidecar = FALSE
  Clock = {0}
  MaxSnapshots <- NoSnapshots
SYMMETRY Interchangeable
INVARIANTS GatewayInv OnlyApprovedRisk AuditTellsTheTruth RowTellsTheTruth
PROPERTIES PauseHolds ImplementsBehavior
CHECK_DEADLOCK FALSE
