SPECIFICATION Spec
CONSTANTS
  Callers = {c1, c2}
  MaxInMemory = 2
  MaxEntries = 3
  MaxFaults = 2
SYMMETRY Symmetry
INVARIANTS ProcessInv PauseSurvives TwoFaultsToLose HistoryComplete HistoryOrdered
