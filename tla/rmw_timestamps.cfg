SPECIFICATION Spec
CONSTANTS
  Key = {1, 2}
  Value = {1, 2}
  TxnId = {1, 2}
  MaxTs = 5
  Tombstone = Tombstone
  NoVersion = NoVersion
  NoIntent = NoIntent
  KeyLists <- SomeKeyLists
  Paths = {"intent"}
  CommitAtApply = FALSE
CHECK_DEADLOCK FALSE
INVARIANT EveryUpdateCounts
