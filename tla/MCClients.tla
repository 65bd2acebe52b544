------------------------------ MODULE MCClients ------------------------------
(* Small instances of RmwClients for TLC: clients of both keys and of one. *)
EXTENDS RmwClients

SomeKeyLists == {<<1, 2>>, <<2>>}
=============================================================================
