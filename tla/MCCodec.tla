------------------------------- MODULE MCCodec -------------------------------
(* A small instance of Codec for TLC. *)
EXTENDS Codec

Strings(n) == UNION {[1 .. m -> Byte] : m \in 0 .. n}

\* Keys of up to two bytes fit a length prefix of one byte; three do not.
SomeKeys == Strings(1) \cup {<<0, 1>>, <<2, 2>>, <<1, 1, 1>>}
SomeValues == Strings(1) \cup {<<2, 1>>, None}
SomeTs == {0, 1, 2, 3, 5, 8}

SomeCommitted == [key : SomeKeys, commit_ts : 0 .. Base ^ U128 - 1, value : SomeValues]
SomeIntents == [key : SomeKeys, txn_id : Byte, start_ts : SomeTs,
                min_commit_ts : {0, 3, 8, None}, mutation : SomeValues]
=============================================================================
