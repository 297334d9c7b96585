SPECIFICATION Spec
CONSTANTS
  NumTrials = 2
  Rounds = 2
  ReviewReserve = 2
  Capacity = 9
  OpenCode = FALSE
  MaxMishaps = 2
INVARIANTS
  PairInv
  CheckPaysForBothSides
  RetriesLeaveReview
PROPERTIES
  ValidEvidenceKept
  CallEnds
CHECK_DEADLOCK FALSE
