SPECIFICATION Spec
CONSTANTS
  Tables = {t1}
  Allowlist = {}
  SnapshotOnStart = TRUE
  SnapshotEveryPoll = FALSE
  MinStablePolls = 1
  PauseFileUsed = FALSE
  MaxChanges = 1
  MaxFaults = 0
PROPERTIES ChangedIsRecaptured
CHECK_DEADLOCK FALSE
