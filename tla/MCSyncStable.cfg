SPECIFICATION Spec
CONSTANTS
  Tables = {t1}
  Allowlist = {}
  SnapshotOnStart = TRUE
  SnapshotEveryPoll = FALSE
  MinStablePolls = 2
  PauseFileUsed = FALSE
  MaxChanges = 2
  MaxFaults = 0
INVARIANTS StableBeforeCapture
CHECK_DEADLOCK FALSE
