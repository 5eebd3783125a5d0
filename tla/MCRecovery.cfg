SPECIFICATION Spec
CONSTANTS
  r1 = r1
  r2 = r2
  a1 = a1
  t1 = t1
  t2 = t2
  Requests = {r1}
  Operators = {o1}
  Agents = {a1}
  AgentOf <- OneAgent
  Tables = {t1, t2}
  Queries <- RecoveryQueries
  ThePolicy <- FilePolicy
  MaxBlockedAttempts = 1
  RetryWindow = 1
  QuarantineDuration = 2
  QuarantineBlocksSafe = FALSE
  MaxSnapshotAge = 1
  MaxHeartbeatAge = 1
  RequireHeartbeat = TRUE
  RecoveryGroup <- OneGroup
  SnapshotBeforeCritical = TRUE
  PauseBlocksSafe = FALSE
  MaxConcurrent = 1
  Sidecar = TRUE
  Clock = {0, 2}
  MaxSnapshots <- TwoOfFirst
INVARIANTS GatewayInv 
PROPERTIES Answered ImplementsContract

CHECK_DEADLOCK FALSE
