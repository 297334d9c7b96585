CONSTANTS
  Bases = {b1, b2}
  MaxAttempts = 2
  MaxCount = 1
  Total = 4
  BaselineUsed = 1
  Threads = {t1}
  Scripts = {s1}
SYMMETRY Symmetry
SPECIFICATION Spec
INVARIANTS
  OneActiveAttempt
