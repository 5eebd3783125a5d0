SPECIFICATION Spec
CONSTANTS
  Requests = {r1}
  Operators = {o1, o2, o3}
INVARIANTS EngineInv PendingWhileWaiting FirstDecisionWins
PROPERTIES SignalReturns ImplementsContract
CHECK_DEADLOCK FALSE
