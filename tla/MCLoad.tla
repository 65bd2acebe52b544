------------------------------- MODULE MCLoad -------------------------------
(* A small instance of CommandLoad for TLC. *)
EXTENDS CommandLoad

LoadValues == 0 .. Ops \cup {Text}
LoadTxnIds == 1 .. Ops
=============================================================================
