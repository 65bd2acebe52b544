----------------------------- MODULE MCRefinement -----------------------------
(* Small instances of SnapshotRefinement for TLC. *)
EXTENDS MCStore, SnapshotRefinement

RefinementBatches == {<<W(1, v), W(2, Tombstone)>>}
RefinementKeyLists == {<<1, 2>>, <<2>>}
RefinementGuards == {<<ValueGuard(2, 1, Tombstone)>>}
RefinementBudgets == {B(1, 1), B(0, 2)}
=============================================================================
