CONSTANTS
  Portfolio = {c1, c2}
  FailureOnly = {c2}
  Confirmation = TRUE
  EvidenceKinds <- Decisive
  Budget = 22
  PreflightUnits = 1
  RolloutUnits = 1
  AnalysisUnits = 1
  RetryBuffer = 1
  MaxIterations = 5
  MaxCrashes = 1
SPECIFICATION Spec
INVARIANTS
  LoopInv
  AffordedStagesFinish
  ChampionIsConfirmed
PROPERTIES
  PromotesChildOfChampion
  RunEnds
