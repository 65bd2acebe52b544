SPECIFICATION Spec
CONSTANTS
  Key = {1, 2}
  v = v
  t1 = t1
  t2 = t2
  Value = {v}
  TxnId = {}
  MaxTs = 3
  Tombstone = Tombstone
  NoVersion = NoVersion
  NoIntent = NoIntent
  UsizeMax = 7
  NoPass = NoPass
  NoCall = NoCall
  Batches <- GcBatches
  KeyLists <- None
  GuardLists <- None
  MinCommits <- None
  SafePoints = {2, 3}
  Budgets <- TightBudgets
  Collapses = {TRUE, FALSE}
  MaxPasses = 2
  MaxFailures = 1
  TombstoneFence = TRUE
INVARIANTS TypeOK GcTransparent BudgetRespected PassDoneClean
PROPERTY RepeatableReads
