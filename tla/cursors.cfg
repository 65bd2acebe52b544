SPECIFICATION FairScanSpec
CONSTANTS
  Key = {1, 2, 3, 4}
  v = v
  t1 = t1
  t2 = t2
  Value = {v}
  TxnId = {}
  MaxTs = 1
  Tombstone = Tombstone
  NoVersion = NoVersion
  NoIntent = NoIntent
  UsizeMax = 7
  NoPass = NoPass
  NoCall = NoCall
  Batches <- ScanBatches
  KeyLists <- None
  GuardLists <- None
  MinCommits <- None
  SafePoints = {1}
  Budgets <- ScanBudget
  Collapses = {TRUE}
  MaxPasses = 1
  MaxFailures = 1
  TombstoneFence = TRUE
  Prefixed = {1, 2, 3}
  Limits = {1, 2}
INVARIANT ScanComplete
PROPERTIES ScanEnds PassEnds
CHECK_DEADLOCK FALSE
