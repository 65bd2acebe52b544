SPECIFICATION Spec
CONSTANTS
  Key = {1, 2}
  v = v
  t1 = t1
  t2 = t2
  Value = {v}
  TxnId = {t1}
  MaxTs = 2
  Tombstone = Tombstone
  NoVersion = NoVersion
  NoIntent = NoIntent
  Hidden = Hidden
  UsizeMax = 7
  NoPass = NoPass
  NoCall = NoCall
  Batches <- RefinementBatches
  KeyLists <- RefinementKeyLists
  GuardLists <- RefinementGuards
  MinCommits <- None
  SafePoints = {1, 2}
  Budgets <- RefinementBudgets
  Collapses = {TRUE}
  MaxPasses = 1
  MaxFailures = 0
  TombstoneFence = TRUE
INVARIANTS IndexExact GcTransparent PassDoneClean LocksUnfenced
PROPERTY ImplementsSnapshotStore
