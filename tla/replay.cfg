SPECIFICATION Spec
CONSTANTS
  Key = {1, 2}
  v = v
  t1 = t1
  t2 = t2
  Value = {v}
  TxnId = {t1, t2}
  MaxTs = 3
  Tombstone = Tombstone
  NoVersion = NoVersion
  NoIntent = NoIntent
  Ops <- SomeOps
  MaxLog = 6
  MaxCrashes = 2
CHECK_DEADLOCK FALSE
INVARIANT ReplayConverges
