SPECIFICATION Safety
CONSTANTS
  r1 = r1
  r2 = r2
  a1 = a1
  t1 = t1
  t2 = t2
  Requests = {r1}
  Operators = {o1}
  Agents = {a1}
  AgentOf <- OneAgent
  Tables = {t1}
  Queries <- RecoveryQueries
  ThePolicy <- DefaultGatewayPolicy
  MaxBlockedAttempts = 1
  RetryWindow = 1
  QuarantineDuration = 2
  QuarantineBlocksSafe = FALSE
  MaxSnapshotAge = 1
  MaxHeartbeatAge = 1
  RequireHeartbeat = TRUE
  RecoveryGroup <- NoGroups
  SnapshotBeforeCritical = TRUE
  PauseBlocksSafe = FALSE
  MaxConcurrent = 1
  Sidecar = TRUE
  Clock = {0, 1, 2}
  MaxSnapshots <- OneSnapshot
PROPERTIES FreshWhenSent


CHECK_DEADLOCK FALSE
