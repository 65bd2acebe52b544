SPECIFICATION FairPlannerSpec
CONSTANTS
  Key = {1}
  v = v
  t1 = t1
  t2 = t2
  Value = {v}
  TxnId = {t1}
  MaxTs = 3
  Tombstone = Tombstone
  NoVersion = NoVersion
  NoIntent = NoIntent
  UsizeMax = 7
  NoPass = NoPass
  NoCall = NoCall
  Batches <- OneKeyBatches
  KeyLists <- None
  GuardLists <- None
  MinCommits <- None
  SafePoints = {2, 3}
  Budgets <- None
  Collapses = {TRUE}
  MaxPasses = 0
  MaxFailures = 1
  TombstoneFence = TRUE
  PlanBudgets = {0, 1, 2}
  MaxJobs = 2
  NoJob = NoJob
  NoPlan = NoPlan
INVARIANTS GcTransparent VersionsStable PlansStaySafe JobDoneClean
PROPERTY JobEnds
