------------------------------ MODULE ApplyLog ------------------------------
(***************************************************************************)
(* The engine under an ordered apply loop that may restart.  An adapter    *)
(* records the operations the engine accepted in a log.  After a crash the *)
(* store is as it was, but how far the log was applied may have been       *)
(* forgotten: the adapter applies a suffix of the log a second time, in    *)
(* order and without idempotency records of its own, and may crash again   *)
(* while it does so.  The log and the restart are the adapter's, external  *)
(* to this crate; the operations are the engine's.                         *)
(***************************************************************************)
EXTENDS MvccEngine

CONSTANTS
    Ops,         \* operations that the adapter submits
    MaxLog,      \* bound: length of the log
    MaxCrashes   \* bound: number of restarts

Op == [kind : {"prewrite_batch"}, txn_id : TxnId, start_ts : Timestamp,
       writes : Seq(Write)]
      \cup [kind : {"commit_batch"}, txn_id : TxnId, start_ts : Timestamp,
            commit_ts : Timestamp, keys : Seq(Key)]
      \cup [kind : {"abort_batch"}, txn_id : TxnId, start_ts : Timestamp,
            keys : Seq(Key)]
      \cup [kind : {"apply_direct_batch"}, commit_ts : Timestamp, writes : Seq(Write)]
      \cup [kind : {"apply_guarded_batch"}, commit_ts : Timestamp,
            guards : Seq(Guard), writes : Seq(Write)]

ASSUME OpsAssumption == Ops \subseteq Op /\ MaxLog \in Nat /\ MaxCrashes \in Nat

VARIABLES
    log,       \* the operations that were accepted, in order
    pos,       \* the next operation to apply; Len(log) + 1: caught up
    expected,  \* ghost: the store when the log was first applied to its end
    crashes    \* how many restarts there were

applyVars == <<store, log, pos, expected, crashes>>

Init ==
    /\ BackendInit
    /\ log = <<>> /\ pos = 1 /\ crashes = 0
    /\ expected = store

CaughtUp == pos > Len(log)

Accepted(op) ==
    \/ /\ op.kind = "prewrite_batch"
       /\ PrewriteBatchResult(op.txn_id, op.start_ts, op.writes) \in {"Ok", "Replay"}
    \/ /\ op.kind = "commit_batch"
       /\ CommitBatchResult(op.txn_id, op.start_ts, op.commit_ts, op.keys) = "Ok"
    \/ /\ op.kind = "abort_batch"
       /\ ~HasDuplicates(op.keys)
    \/ /\ op.kind = "apply_direct_batch"
       /\ DirectBatchResult(op.commit_ts, op.writes) = "Ok"
    \/ /\ op.kind = "apply_guarded_batch"
       /\ GuardedBatchResult(op.commit_ts, op.guards, op.writes) = "Ok"

Apply(op) ==
    \/ /\ op.kind = "prewrite_batch"
       /\ prewrite_batch(op.txn_id, op.start_ts, op.writes)
    \/ /\ op.kind = "commit_batch"
       /\ commit_batch(op.txn_id, op.start_ts, op.commit_ts, op.keys)
    \/ /\ op.kind = "abort_batch"
       /\ abort_batch(op.txn_id, op.start_ts, op.keys)
    \/ /\ op.kind = "apply_direct_batch"
       /\ apply_direct_batch(op.commit_ts, op.writes)
    \/ /\ op.kind = "apply_guarded_batch"
       /\ apply_guarded_batch(op.commit_ts, op.guards, op.writes)

\* External: a transaction that began to commit or to abort locks nothing more.
Proper(op) ==
    op.kind = "prewrite_batch" =>
        \A i \in DOMAIN log : log[i].kind \in {"commit_batch", "abort_batch"} =>
            <<log[i].txn_id, log[i].start_ts>> # <<op.txn_id, op.start_ts>>

\* A new operation; a refused one leaves neither the store nor the log changed.
Execute == \E op \in Ops :
    /\ CaughtUp /\ Len(log) < MaxLog
    /\ Proper(op) /\ Accepted(op)
    /\ Apply(op)
    /\ log' = Append(log, op) /\ pos' = pos + 1
    /\ expected' = store'
    /\ UNCHANGED crashes

Restart == \E p \in 1 .. pos - 1 :
    /\ crashes < MaxCrashes /\ crashes' = crashes + 1
    /\ pos' = p
    /\ UNCHANGED <<store, log, expected>>

Replay ==
    /\ ~CaughtUp
    /\ Apply(log[pos])
    /\ pos' = pos + 1
    /\ UNCHANGED <<log, expected, crashes>>

Next == Execute \/ Restart \/ Replay

Spec == Init /\ [][Next]_applyVars

-----------------------------------------------------------------------------
(* Properties. *)

\* At-least-once application in order is enough: whenever the apply loop has
\* caught up again, versions, intents and the key index are exactly what they
\* were before the crash.  A replayed prewrite of a transaction that was
\* aborted locks its keys again, a replayed batch meets PartialBatchReplay,
\* WriteConflict, KeyLocked or CommitTsTooOld; by the end nothing is left of it.
ReplayConverges == CaughtUp => store = expected
=============================================================================
