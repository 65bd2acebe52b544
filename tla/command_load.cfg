SPECIFICATION FairSpec
CONSTANTS
  Key = {1, 2}
  Value <- LoadValues
  TxnId <- LoadTxnIds
  MaxTs = 9
  Tombstone = Tombstone
  NoVersion = NoVersion
  NoIntent = NoIntent
  UsizeMax = 7
  NoPass = NoPass
  NoCall = NoCall
  Ops = 4
  Text = Text
  Delays = {1, 3}
  MsetLen = 2
  Retention = 1
  GcEvery = 1
  GcMaxKeys = 2
  GcMaxVersions = 1
CHECK_DEADLOCK FALSE
INVARIANTS TypeOK NeverPanics NoLostUpdate
PROPERTY EveryIncrementApplied
