SPECIFICATION Spec
CONSTANTS
  Ids <- MCIds
  Old = 2
  Leftovers <- MCLeftovers
  PageSize = 2
  MaxSnapshotAge = 1
  MaxHeartbeat = 1
  StaleAfter = 1
  MaxNow = 2
  MaxFaults = 1
INVARIANTS RecoveryInv AcceptedStays NewestAccepted StaleNotSuppressed
PROPERTY QuarantineHeals
