SPECIFICATION Spec
CONSTANTS
  r1 = r1
  r2 = r2
  r3 = r3
  r4 = r4
  a1 = a1
  a2 = a2
  Requests = {r1, r2, r3, r4}
  Agents = {a1, a2}
  AgentOf <- AgentOfModel
  MaxBlockedAttempts = 2
  RetryWindow = 1
  QuarantineDuration = 2
  MetadataFaults = FALSE
  Clock = {0, 1, 2, 3}
PROPERTY QuarantineLasts
CHECK_DEADLOCK FALSE
