------------------------------- MODULE MCScan -------------------------------
(* A small instance of PrefixScan for TLC. *)
EXTENDS MCStore, PrefixScan

ScanBatches == {<<W(4, v), W(2, v)>>, <<W(1, v)>>, <<W(2, Tombstone)>>,
                <<W(3, v), W(1, Tombstone)>>}
ScanBudget == {B(1, 1)}
=============================================================================
