CONSTANTS
  p1 = p1 p2 = p2 f1 = f1 f2 = f2 t1 = t1 t2 = t2 k1 = k1 k2 = k2 k3 = k3
  Keys = {k1, k2, k3}
  NoKey = NoKey
  Refs = {p1, p2, f1, f2}
  Failed = {f1, f2}
  Slots = {1, 2}
  MergeIds = {m1, m2}
  Experiences = {e1, e2}
  MaxGroups = 4
  Target = 3
  NoCandidate = NoCandidate
  NotANumber = NotANumber
  Unranked = 9
  Reviewed = {t1, t2}
  Channels = {c1, c2}
  Changed = {c1}
  RolloutRepeats = 2
  PreflightCost = 1
  RetryBuffer = 3
  MinStandard = 5
  DefaultTasks = 6
  Confirming = TRUE
  Catalogs <- DraftCatalogs
  Indexes <- TrialIndexes
  Claims <- ClaimedStatuses
  Findings <- FoundPassages
  FirstTask = t1
  SecondTask = t2
  MaxExperiences = 14
  GroupIds <- GroupNames
  Names <- CandidateNames
  Priorities = {1, 2, 9, NotANumber}
  Absences <- ProbeAbsences
  MaxRemaining = 110
  Caps = {0, 4, 5, 6, 8}
SPECIFICATION Spec
INVARIANTS
  SynthesisIsSound
  ComparisonIsSound
  PartsAreExact
  CombinationsAreAccepted
  ReviewIsSound
  QueryStaysUsable
  PlanIsSound
CHECK_DEADLOCK FALSE
