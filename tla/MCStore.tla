------------------------------- MODULE MCStore -------------------------------
(* Small instances of MvccStore for TLC. *)
EXTENDS MvccStore, TLC

CONSTANTS v, t1, t2

TxnSymmetry == Permutations({t1, t2})

W(k, value) == [key |-> k, value |-> value]

\* Write sets: single puts and deletes, both keys, a repeated key, none.
SingleBatches == {<<W(1, v)>>, <<W(1, Tombstone)>>, <<W(2, v)>>, <<W(2, Tombstone)>>}
PairBatches == {<<W(1, v), W(2, Tombstone)>>}
AllBatches == SingleBatches \cup PairBatches \cup {<<W(1, v), W(1, Tombstone)>>, <<>>}
TxnBatches == PairBatches \cup {<<W(1, v), W(1, Tombstone)>>, <<W(2, v)>>}

PairKeyLists == {<<1, 2>>, <<1, 1>>, <<>>}

VersionGuard(k, read_ts, expected) ==
    [kind |-> "ExpectedVersion", key |-> k, read_ts |-> read_ts, expected |-> expected]
ValueGuard(k, read_ts, expected) ==
    [kind |-> "ExpectedValue", key |-> k, read_ts |-> read_ts, expected |-> expected]

SomeGuards == {<<>>, <<VersionGuard(1, 1, 1)>>,
               <<ValueGuard(2, 0, Tombstone), VersionGuard(1, 0, NoTs)>>}

None == {}

OneMinCommit == {2}

B(max_keys, max_versions) == [max_keys |-> max_keys, max_versions |-> max_versions]
TightBudgets == {B(1, 1), B(2, 2)}
HugeVersionBudget == {B(2, UsizeMax)}
GcBatches == {<<W(1, v)>>, <<W(1, Tombstone)>>, <<W(2, Tombstone), W(1, v)>>, <<>>}
=============================================================================
