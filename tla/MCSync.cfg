SPECIFICATION Spec
CONSTANTS
  Tables = {t1, t2}
  Allowlist = {}
  SnapshotOnStart = TRUE
  SnapshotEveryPoll = FALSE
  MinStablePolls = 1
  PauseFileUsed = TRUE
  MaxChanges = 2
  MaxFaults = 1
INVARIANTS SyncInv HealthyMeansRecoverable
PROPERTIES Recovers DropReported
CHECK_DEADLOCK FALSE
