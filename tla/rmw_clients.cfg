SPECIFICATION Spec
CONSTANTS
  Key = {1, 2}
  Value = {1, 2, 3}
  TxnId = {1, 2, 3}
  MaxTs = 7
  Tombstone = Tombstone
  NoVersion = NoVersion
  NoIntent = NoIntent
  KeyLists <- SomeKeyLists
  Paths = {"intent", "guarded"}
  CommitAtApply = TRUE
CHECK_DEADLOCK FALSE
INVARIANTS EveryUpdateCounts CommitIsFinal CommittedHoldsNoLock
