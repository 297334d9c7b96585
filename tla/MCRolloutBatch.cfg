CONSTANTS
  Bases <- BothBases
  MaxAttempts = 9
  MaxCount = 3
  Total = 7
  BaselineUsed = 0
  NumTrials = 3
  TrialKinds <- AllKinds
  Faults <- AllFaults
  Harnesses = {"opencode", "pi"}
  Restarters = {"controller", "script"}
  MaxMishaps = 2
SPECIFICATION Spec
INVARIANTS
  RolloutInv
  EveryTrialCharged
  OutputIsAdmissible
PROPERTIES
  ImplementsEvidence
  CallsGetThrough
