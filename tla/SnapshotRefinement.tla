-------------------------- MODULE SnapshotRefinement --------------------------
(***************************************************************************)
(* MvccStore implements SnapshotStore: what a read returns is computed     *)
(* from the versions that garbage collection left, the newest commit is    *)
(* the newest version ever committed, the frontier is the highest safe     *)
(* point used.  Every call maps to one abstract step, and every step of    *)
(* garbage collection to none.                                             *)
(***************************************************************************)
EXTENDS MvccStore

CONSTANT Hidden   \* a read below the watermark, of which nothing is promised

promised == [k \in Key |-> [r \in Timestamp |->
                IF r < watermark THEN Hidden ELSE read(committed[k], r)]]

newest == [k \in Key |-> get_latest_commit_ts(hist[k])]

Snapshot == INSTANCE SnapshotStore WITH
    Content <- Mutation, Absent <- Tombstone, Lock <- Intent, Free <- NoIntent,
    Never <- NoTs,
    view <- promised, last <- newest, locks <- intents, frontier <- watermark

\* The engine with its garbage collector is a snapshot store: reads at or above
\* the safe points change only by commits, each atomic over its keys and newer
\* than every earlier commit of them, and locks are respected until their own
\* transaction commits or aborts; collection changes nothing of this.
ImplementsSnapshotStore == Snapshot!Spec
=============================================================================
