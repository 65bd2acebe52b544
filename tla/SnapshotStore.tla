---------------------------- MODULE SnapshotStore ----------------------------
(***************************************************************************)
(* What the engine promises, without versions, indexes or garbage          *)
(* collection: for each key, what a read at every timestamp returns, the   *)
(* timestamp of its newest commit and the lock a transaction holds on it.  *)
(* Only the reads at or above the frontier are promised; an operator of    *)
(* the store may raise it.                                                 *)
(***************************************************************************)
EXTENDS Integers

CONSTANTS
    Key,        \* keys
    Content,    \* what a read returns: a value, or Absent
    Absent,     \* the content of a key that was never written or was deleted
    Lock,       \* locks: records with txn_id, start_ts, mutation, min_commit_ts
    Free,       \* no lock
    TxnId,      \* transactions
    Timestamp,  \* timestamps
    Never,      \* below every timestamp: the newest commit of a new key
    Hidden      \* a read that is no longer promised

VARIABLES view, last, locks, frontier

snapshotVars == <<view, last, locks, frontier>>

Init ==
    /\ view = [k \in Key |-> [r \in Timestamp |-> Absent]]
    /\ last = [k \in Key |-> Never]
    /\ locks = [k \in Key |-> Free]
    /\ frontier = Never

\* Reads from c on see what was written; reads before c are not disturbed.
Publish(contents, c) ==
    /\ view' = [k \in Key |-> [r \in Timestamp |->
           IF k \in DOMAIN contents /\ r >= c /\ r >= frontier
           THEN contents[k] ELSE view[k][r]]]
    /\ last' = [k \in Key |-> IF k \in DOMAIN contents THEN c ELSE last[k]]
    /\ UNCHANGED frontier

HeldBy(k, txn_id, start_ts) ==
    locks[k] # Free /\ locks[k].txn_id = txn_id /\ locks[k].start_ts = start_ts

\* A transaction locks free keys that nobody wrote after it started.
Acquire == \E ks \in SUBSET Key, txn_id \in TxnId, start_ts \in Timestamp :
    /\ \A k \in ks : locks[k] = Free /\ last[k] <= start_ts
    /\ \A k \in ks : HeldBy(k, txn_id, start_ts)' /\ locks'[k] \in Lock
    /\ \A k \in Key \ ks : locks'[k] = locks[k]
    /\ UNCHANGED <<view, last, frontier>>

Release(ks) == locks' = [k \in Key |-> IF k \in ks THEN Free ELSE locks[k]]

\* It commits what its locks hold, all at one timestamp after its start, ...
CommitLocked == \E ks \in SUBSET Key, txn_id \in TxnId, start_ts, c \in Timestamp :
    /\ c > start_ts
    /\ \A k \in ks : HeldBy(k, txn_id, start_ts) /\ c >= locks[k].min_commit_ts
    /\ Publish([k \in ks |-> locks[k].mutation], c)
    /\ Release(ks)

\* ... or it gives up its locks.
GiveUp == \E ks \in SUBSET Key, txn_id \in TxnId, start_ts \in Timestamp :
    /\ \A k \in ks : HeldBy(k, txn_id, start_ts)
    /\ Release(ks)
    /\ UNCHANGED <<view, last, frontier>>

\* A batch without a transaction: free keys, after their newest commits.
CommitDirect == \E ks \in SUBSET Key, c \in Timestamp : \E contents \in [ks -> Content] :
    /\ \A k \in ks : locks[k] = Free /\ c > last[k]
    /\ Publish(contents, c)
    /\ UNCHANGED locks

Raise == \E f \in Timestamp :
    /\ f > frontier
    /\ frontier' = f
    /\ view' = [k \in Key |-> [r \in Timestamp |->
           IF r < f THEN Hidden ELSE view[k][r]]]
    /\ UNCHANGED <<last, locks>>

Next == Acquire \/ CommitLocked \/ GiveUp \/ CommitDirect \/ Raise

Spec == Init /\ [][Next]_snapshotVars
=============================================================================
