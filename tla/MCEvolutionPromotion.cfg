CONSTANTS
  Portfolio = {c1, c2}
  FailureOnly = {c2}
  Confirmation = TRUE
  EvidenceKinds <- AllEvidence
  Budget = 16
  PreflightUnits = 1
  RolloutUnits = 1
  AnalysisUnits = 1
  RetryBuffer = 1
  MaxIterations = 4
  MaxCrashes = 1
SPECIFICATION Spec
INVARIANTS
  PromotionSurvives
