SPECIFICATION Spec
CONSTANTS
  Key = {1, 2}
  v = v
  t1 = t1
  t2 = t2
  Value = {v}
  TxnId = {}
  MaxTs = 2
  Tombstone = Tombstone
  NoVersion = NoVersion
  NoIntent = NoIntent
  UsizeMax = 7
  NoPass = NoPass
  NoCall = NoCall
  Batches <- GcBatches
  KeyLists <- None
  GuardLists <- None
  MinCommits <- None
  SafePoints = {1, 2}
  Budgets <- HugeVersionBudget
  Collapses = {TRUE}
  MaxPasses = 1
  MaxFailures = 0
  TombstoneFence = TRUE
INVARIANT GcTransparent
