SPECIFICATION Spec
CONSTANTS
  Key = {1, 2}
  v = v
  t1 = t1
  t2 = t2
  Value = {v}
  TxnId = {t1, t2}
  MaxTs = 2
  Tombstone = Tombstone
  NoVersion = NoVersion
  NoIntent = NoIntent
  UsizeMax = 7
  NoPass = NoPass
  NoCall = NoCall
  Batches <- TxnBatches
  KeyLists <- PairKeyLists
  GuardLists <- SomeGuards
  MinCommits <- OneMinCommit
  SafePoints <- None
  Budgets <- None
  Collapses <- None
  MaxPasses = 0
  MaxFailures = 0
  TombstoneFence = TRUE
SYMMETRY TxnSymmetry
INVARIANTS IndexExact IntentFresh
PROPERTIES CommitOrder LockedKeyIsolation
