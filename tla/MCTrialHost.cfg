CONSTANTS
  p1 = p1
  p2 = p2
  t1 = t1
  t2 = t2
  Processes = {p1, p2}
  Trials = {t1, t2}
  Workloads <- Batches
  Scopes <- BothOrOne
  Pids = {1, 2}
  SlotCount <- OneSlot
  Retries = 1
  MishapsIn <- Bounded
SPECIFICATION Spec
INVARIANTS
  LiveContainersKept
  AgentsWithinCapacity
  ResultsAreVerified
PROPERTIES
  CachedTrialRunsOnce
  FinishedTrialKept
  BatchEnds
