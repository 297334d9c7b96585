CONSTANTS
  Bases = {b1, b2}
  MaxAttempts = 2
  MaxCount = 2
  Total = 5
  BaselineUsed = 1
SYMMETRY Symmetry
SPECIFICATION LedgerSpec
INVARIANTS
  BudgetNeverExceeded
PROPERTIES
  SpentStaysSpent
  ImplementsMeter
