------------------------------ MODULE MCPlanner ------------------------------
(* Small instances of KeyGcPlanner for TLC. *)
EXTENDS MCStore, KeyGcPlanner

OneKeyBatches == {<<W(1, v)>>, <<W(1, Tombstone)>>}
=============================================================================
