----------------------------- MODULE MvccEngine -----------------------------
(***************************************************************************)
(* The operations of MvccEngine (src/engine.rs) except garbage collection. *)
(* The engine takes &mut self: every call is one atomic step.  A call      *)
(* first computes its result from the backend (the early returns, in the   *)
(* order the code takes them) and changes the store only when that is Ok;  *)
(* a rejected call is a disjunct that leaves the store alone.              *)
(*                                                                         *)
(* Timestamps and transaction ids are arguments: the caller chooses them.  *)
(***************************************************************************)
EXTENDS Backend

\* PhysicalWrite; a batch is a sequence of them (a Vec).
Write == [key : Key, value : Mutation]

\* ReadGuard: `expected` is a commit timestamp (or NoTs) for ExpectedVersion,
\* a value (or Tombstone, for logical absence) for ExpectedValue.
Guard == [kind : {"ExpectedVersion"}, key : Key, read_ts : Timestamp,
          expected : Timestamp \cup {NoTs}]
         \cup
         [kind : {"ExpectedValue"}, key : Key, read_ts : Timestamp,
          expected : Mutation]

-----------------------------------------------------------------------------
(* Reads. *)

\* What a row shows at read_ts; an absent key and a tombstone read alike.
read(row, read_ts) ==
    LET ts == get_visible_committed(row, read_ts)
    IN  IF ts = NoTs THEN Tombstone ELSE row[ts]

\* The same with the commit timestamp, which tells an absent key (NoTs) and a
\* tombstone apart.
read_with_version(row, read_ts) ==
    [commit_ts |-> get_visible_committed(row, read_ts), value |-> read(row, read_ts)]

\* A transaction sees its own intent before the committed versions.
read_own_write(k, txn_id, start_ts, read_ts) ==
    IF LockedBy(k, txn_id, start_ts) THEN intents[k].mutation
    ELSE read(committed[k], read_ts)

-----------------------------------------------------------------------------
(* Vectors of keys and of writes. *)

HasDuplicates(vec) == \E i, j \in DOMAIN vec : i # j /\ vec[i] = vec[j]

KeysOf(writes) == [i \in DOMAIN writes |-> writes[i].key]

Elements(vec) == {vec[i] : i \in DOMAIN vec}

\* The write set as a function from its keys (distinct by then) to values.
AsFunction(writes) ==
    [k \in Elements(KeysOf(writes)) |->
        writes[CHOOSE i \in DOMAIN writes : writes[i].key = k].value]

\* The first result of a validation loop that is not in `fine`, else Ok.
FirstError(results, fine) ==
    LET bad == {i \in DOMAIN results : results[i] \notin fine}
    IN  IF bad = {} THEN "Ok" ELSE results[Min(bad)]

-----------------------------------------------------------------------------
(* Prewrite: lock keys with intents. *)

\* Mutant: no write-conflict check.
CheckPrewriteBlind(txn_id, start_ts, k, mutation) ==
    IF ~Locked(k) THEN "Ok"
    ELSE IF intents[k].txn_id # txn_id THEN "KeyLocked"
    ELSE IF intents[k].start_ts # start_ts THEN "IntentAlreadyExists"
    ELSE IF intents[k].mutation # mutation THEN "IntentAlreadyExists"
    ELSE "Replay"

\* The check of one write.  "Replay" is the idempotent Ok of an intent that is
\* already there, "Ok" the permission to create it.
CheckPrewrite(txn_id, start_ts, k, mutation) ==
    IF Locked(k)
    THEN IF intents[k].txn_id # txn_id THEN "KeyLocked"
         ELSE IF intents[k].start_ts # start_ts THEN "IntentAlreadyExists"
         ELSE IF intents[k].mutation # mutation THEN "IntentAlreadyExists"
         ELSE "Replay"
    ELSE IF get_latest_commit_ts(committed[k]) > start_ts THEN "WriteConflict"
    ELSE "Ok"

NewIntent(txn_id, start_ts, mutation, min_commit_ts) ==
    [txn_id |-> txn_id, start_ts |-> start_ts, mutation |-> mutation,
     min_commit_ts |-> min_commit_ts]

prewrite(txn_id, start_ts, k, mutation) ==
    \/ /\ CheckPrewrite(txn_id, start_ts, k, mutation) = "Ok"
       /\ put_intents_batch([j \in {k} |->
              NewIntent(txn_id, start_ts, mutation, NoTs)])
    \/ /\ CheckPrewrite(txn_id, start_ts, k, mutation) # "Ok"
       /\ UNCHANGED store

PrewriteBatchResult(txn_id, start_ts, writes) ==
    LET checks == [i \in DOMAIN writes |->
                     CheckPrewrite(txn_id, start_ts, writes[i].key, writes[i].value)]
        error  == FirstError(checks, {"Ok", "Replay"})
    IN  IF writes = <<>> THEN "EmptyBatch"
        ELSE IF HasDuplicates(KeysOf(writes)) THEN "DuplicateKeyInBatch"
        ELSE IF error # "Ok" THEN error
        ELSE IF Elements(checks) = {"Replay"} THEN "Replay"
        ELSE IF "Replay" \in Elements(checks) THEN "PartialBatchReplay"
        ELSE "Ok"

prewrite_batch(txn_id, start_ts, writes) ==
    \/ /\ PrewriteBatchResult(txn_id, start_ts, writes) = "Ok"
       /\ put_intents_batch([k \in Elements(KeysOf(writes)) |->
              NewIntent(txn_id, start_ts, AsFunction(writes)[k], NoTs)])
    \/ /\ PrewriteBatchResult(txn_id, start_ts, writes) # "Ok"
       /\ UNCHANGED store

\* External: an adapter writes an intent that carries a min_commit_ts through
\* backend_mut(), where prewrite would have accepted it.  The engine checks
\* min_commit_ts on commit but never sets it.
install_intent(txn_id, start_ts, k, mutation, min_commit_ts) ==
    /\ CheckPrewrite(txn_id, start_ts, k, mutation) = "Ok"
    /\ put_intents_batch([j \in {k} |->
           NewIntent(txn_id, start_ts, mutation, min_commit_ts)])

-----------------------------------------------------------------------------
(* Commit: turn intents into versions. *)

CheckOwner(txn_id, start_ts, k) ==
    IF ~Locked(k) THEN "IntentNotFound"
    ELSE IF intents[k].txn_id # txn_id THEN "TxnIdMismatch"
    ELSE IF intents[k].start_ts # start_ts THEN "StartTsMismatch"
    ELSE "Ok"

\* Mutant: min_commit_ts is not enforced.
CheckCommitTsOnly(k, commit_ts) ==
    LET latest == get_latest_commit_ts(committed[k])
    IN  IF commit_ts = latest THEN "DuplicateCommitTimestamp"
        ELSE IF commit_ts < latest THEN "CommitTsTooOld"
        ELSE "Ok"

CheckCommitTs(k, commit_ts) ==
    LET latest == get_latest_commit_ts(committed[k])
    IN  IF commit_ts < intents[k].min_commit_ts THEN "CommitTsTooEarly"
        ELSE IF commit_ts = latest THEN "DuplicateCommitTimestamp"
        ELSE IF commit_ts < latest THEN "CommitTsTooOld"
        ELSE "Ok"

\* Mutant: a commit at or before its start is let through.
CommitResultAnyStart(txn_id, k, start_ts, commit_ts) ==
    IF CheckOwner(txn_id, start_ts, k) # "Ok" THEN CheckOwner(txn_id, start_ts, k)
    ELSE CheckCommitTs(k, commit_ts)

CommitResult(txn_id, k, start_ts, commit_ts) ==
    IF CheckOwner(txn_id, start_ts, k) # "Ok" THEN CheckOwner(txn_id, start_ts, k)
    ELSE IF commit_ts <= start_ts THEN "InvalidCommitTimestamp"
    ELSE CheckCommitTs(k, commit_ts)

\* The versions that the intents on ks become.
IntentVersions(ks) == [k \in ks |-> intents[k].mutation]

commit(txn_id, k, start_ts, commit_ts) ==
    \/ /\ CommitResult(txn_id, k, start_ts, commit_ts) = "Ok"
       /\ commit_intents_batch(IntentVersions({k}), commit_ts, txn_id, start_ts)
    \/ /\ CommitResult(txn_id, k, start_ts, commit_ts) # "Ok"
       /\ UNCHANGED store

\* commit_batch reports CommitTsTooOld for an equal timestamp as well.
CheckCommitKey(txn_id, start_ts, commit_ts, k) ==
    IF CheckOwner(txn_id, start_ts, k) # "Ok" THEN CheckOwner(txn_id, start_ts, k)
    ELSE IF CheckCommitTs(k, commit_ts) = "DuplicateCommitTimestamp"
         THEN "CommitTsTooOld"
    ELSE CheckCommitTs(k, commit_ts)

CommitBatchResult(txn_id, start_ts, commit_ts, keys) ==
    IF keys = <<>> THEN "EmptyBatch"
    ELSE IF HasDuplicates(keys) THEN "DuplicateKeyInBatch"
    ELSE IF commit_ts <= start_ts THEN "InvalidCommitTimestamp"
    ELSE FirstError([i \in DOMAIN keys |->
             CheckCommitKey(txn_id, start_ts, commit_ts, keys[i])], {"Ok"})

commit_batch(txn_id, start_ts, commit_ts, keys) ==
    \/ /\ CommitBatchResult(txn_id, start_ts, commit_ts, keys) = "Ok"
       /\ commit_intents_batch(IntentVersions(Elements(keys)),
                               commit_ts, txn_id, start_ts)
    \/ /\ CommitBatchResult(txn_id, start_ts, commit_ts, keys) # "Ok"
       /\ UNCHANGED store

-----------------------------------------------------------------------------
(* Abort: remove intents; an intent that is not there is not an error. *)

abort(txn_id, k, start_ts) == remove_intents_batch({k}, txn_id, start_ts)

abort_batch(txn_id, start_ts, keys) ==
    \/ /\ ~HasDuplicates(keys)
       /\ remove_intents_batch(Elements(keys), txn_id, start_ts)
    \/ /\ HasDuplicates(keys)
       /\ UNCHANGED store

-----------------------------------------------------------------------------
(* Direct and guarded batches: versions without intents. *)

\* Mutants: locks are ignored; an equal timestamp is accepted.
CheckWriteUnlocked(commit_ts, k) ==
    IF commit_ts <= get_latest_commit_ts(committed[k]) THEN "CommitTsTooOld"
    ELSE "Ok"
CheckWriteEqual(commit_ts, k) ==
    IF Locked(k) THEN "KeyLocked"
    ELSE IF commit_ts < get_latest_commit_ts(committed[k]) THEN "CommitTsTooOld"
    ELSE "Ok"

CheckWrite(commit_ts, k) ==
    IF Locked(k) THEN "KeyLocked"
    ELSE IF commit_ts <= get_latest_commit_ts(committed[k]) THEN "CommitTsTooOld"
    ELSE "Ok"

CheckWrites(commit_ts, writes) ==
    FirstError([i \in DOMAIN writes |-> CheckWrite(commit_ts, writes[i].key)],
               {"Ok"})

DirectBatchResult(commit_ts, writes) ==
    IF writes = <<>> THEN "EmptyBatch"
    ELSE IF HasDuplicates(KeysOf(writes)) THEN "DuplicateKeyInBatch"
    ELSE CheckWrites(commit_ts, writes)

apply_direct_batch(commit_ts, writes) ==
    \/ /\ DirectBatchResult(commit_ts, writes) = "Ok"
       /\ put_committed_batch(AsFunction(writes), commit_ts)
    \/ /\ DirectBatchResult(commit_ts, writes) # "Ok"
       /\ UNCHANGED store

\* Mutant: the guard looks only at the snapshot that was read.
CheckGuardAtSnapshot(commit_ts, guard) ==
    LET row == committed[guard.key]
    IN  IF commit_ts <= guard.read_ts THEN "InvalidCommitTimestamp"
        ELSE IF Locked(guard.key) THEN "KeyLocked"
        ELSE IF /\ guard.kind = "ExpectedVersion"
                /\ get_visible_committed(row, guard.read_ts) # guard.expected
             THEN "GuardFailedVersionMismatch"
        ELSE IF /\ guard.kind = "ExpectedValue"
                /\ read(row, guard.read_ts) # guard.expected
             THEN "GuardFailedValueMismatch"
        ELSE "Ok"

CheckGuard(commit_ts, guard) ==
    LET row == committed[guard.key]
    IN  IF commit_ts <= guard.read_ts THEN "InvalidCommitTimestamp"
        ELSE IF Locked(guard.key) THEN "KeyLocked"
        ELSE IF get_latest_commit_ts(row) > guard.read_ts
             THEN "GuardFailedNewerVersion"
        ELSE IF /\ guard.kind = "ExpectedVersion"
                /\ get_visible_committed(row, guard.read_ts) # guard.expected
             THEN "GuardFailedVersionMismatch"
        ELSE IF /\ guard.kind = "ExpectedValue"
                /\ read(row, guard.read_ts) # guard.expected
             THEN "GuardFailedValueMismatch"
        ELSE "Ok"

GuardedBatchResult(commit_ts, guards, writes) ==
    LET guardError == FirstError([i \in DOMAIN guards |->
                          CheckGuard(commit_ts, guards[i])], {"Ok"})
    IN  IF writes = <<>> THEN "EmptyBatch"
        ELSE IF guards = <<>> THEN "NoReadGuards"
        ELSE IF HasDuplicates(KeysOf(writes)) THEN "DuplicateKeyInBatch"
        ELSE IF guardError # "Ok" THEN guardError
        ELSE CheckWrites(commit_ts, writes)

apply_guarded_batch(commit_ts, guards, writes) ==
    \/ /\ GuardedBatchResult(commit_ts, guards, writes) = "Ok"
       /\ put_committed_batch(AsFunction(writes), commit_ts)
    \/ /\ GuardedBatchResult(commit_ts, guards, writes) # "Ok"
       /\ UNCHANGED store
=============================================================================
