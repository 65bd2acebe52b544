----------------------------- MODULE MCApplyLog -----------------------------
(* A small instance of ApplyLog for TLC. *)
EXTENDS ApplyLog

CONSTANTS v, t1, t2

W(k, value) == [key |-> k, value |-> value]

PrewriteOp(txn_id, start_ts, writes) ==
    [kind |-> "prewrite_batch", txn_id |-> txn_id, start_ts |-> start_ts,
     writes |-> writes]
CommitOp(txn_id, start_ts, commit_ts, keys) ==
    [kind |-> "commit_batch", txn_id |-> txn_id, start_ts |-> start_ts,
     commit_ts |-> commit_ts, keys |-> keys]
AbortOp(txn_id, start_ts, keys) ==
    [kind |-> "abort_batch", txn_id |-> txn_id, start_ts |-> start_ts, keys |-> keys]

\* Two transactions that overlap on key 1 and may abort or commit in parts,
\* and a direct and a guarded batch that race with them.
SomeOps ==
    {PrewriteOp(t1, 1, <<W(1, v), W(2, Tombstone)>>),
     PrewriteOp(t1, 1, <<W(1, v)>>),
     CommitOp(t1, 1, 2, <<1, 2>>), CommitOp(t1, 1, 2, <<1>>),
     AbortOp(t1, 1, <<1, 2>>), AbortOp(t1, 1, <<2>>),
     PrewriteOp(t2, 1, <<W(1, Tombstone)>>),
     PrewriteOp(t2, 2, <<W(2, v), W(1, v)>>), CommitOp(t2, 2, 3, <<2>>),
     AbortOp(t2, 2, <<1, 2>>),
     CommitOp(t2, 1, 3, <<1>>), AbortOp(t2, 1, <<1>>),
     [kind |-> "apply_direct_batch", commit_ts |-> 1, writes |-> <<W(2, v)>>],
     [kind |-> "apply_guarded_batch", commit_ts |-> 3,
      guards |-> <<[kind |-> "ExpectedValue", key |-> 1, read_ts |-> 2,
                    expected |-> Tombstone]>>,
      writes |-> <<W(1, v)>>]}
=============================================================================
