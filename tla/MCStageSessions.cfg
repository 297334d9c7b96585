CONSTANTS
  Stages <- AllStages
  Groups = {g1, g2}
  Chunks <- OneChunk
  ReusableGroups = {r1}
  AdjustGroups = {d1}
  Capacity = 6
  Attempts = 2
  MaxMishaps = 1
SPECIFICATION Spec
INVARIANTS
  StageInv
  AnsweredNotBoughtAgain
  FallbackIsEarned
PROPERTIES
  ResultsAreFinal
  StageEnds
CHECK_DEADLOCK FALSE
