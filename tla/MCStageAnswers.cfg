CONSTANTS
  Stages = {"post"}
  Groups = {g1}
  Chunks <- OneChunk
  ReusableGroups = {r1}
  AdjustGroups = {d1}
  Capacity = 4
  Attempts = 3
  MaxMishaps = 0
SPECIFICATION Spec
INVARIANT LiveAnswerAccepted
CHECK_DEADLOCK FALSE
