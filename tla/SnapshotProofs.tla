---------------------------- MODULE SnapshotProofs ----------------------------
(***************************************************************************)
(* Safety of MvccStore for every set of keys, values and transactions and  *)
(* every bound.  First its types and its index, which hold whatever the    *)
(* callers do: the nine operations of the engine change the store in four  *)
(* ways only (EngineKinds), garbage collection in one, and each way is     *)
(* shown to preserve the invariants once.  Then snapshot safety: commit    *)
(* order, fresh intents, garbage collection that readers at or above the   *)
(* safe point cannot notice, and repeatable reads; and, from them, that    *)
(* MvccStore implements SnapshotStore.  These hold for callers that keep   *)
(* the contract of the code (Contract) and are proved from one inductive   *)
(* invariant, SInv.                                                        *)
(***************************************************************************)
EXTENDS RowLemmas, SnapshotRefinement

-----------------------------------------------------------------------------
(* Types and index. *)

\* prewrite, prewrite_batch, install_intent.
LocksKeys ==
    \E D \in SUBSET Key, txn_id \in TxnId, start_ts \in Timestamp :
      \E new \in [D -> Intent] :
        /\ \A k \in D : /\ ~Locked(k)
                        /\ get_latest_commit_ts(committed[k]) <= start_ts
                        /\ Allowed(k, start_ts)
                        /\ new[k].txn_id = txn_id /\ new[k].start_ts = start_ts
        /\ put_intents_batch(new)

\* apply_direct_batch, apply_guarded_batch.
WritesVersions ==
    \E D \in SUBSET Key, c \in Timestamp : \E versions \in [D -> Mutation] :
        /\ \A k \in D : /\ ~Locked(k)
                        /\ c > get_latest_commit_ts(committed[k])
                        /\ Allowed(k, c)
        /\ put_committed_batch(versions, c)

\* commit, commit_batch.
CommitsIntents ==
    \E D \in SUBSET Key, c \in Timestamp, txn_id \in TxnId, start_ts \in Timestamp :
        /\ c > start_ts
        /\ \A k \in D : /\ LockedBy(k, txn_id, start_ts)
                        /\ c >= intents[k].min_commit_ts
                        /\ c > get_latest_commit_ts(committed[k])
        /\ commit_intents_batch(IntentVersions(D), c, txn_id, start_ts)

\* abort, abort_batch.
RemovesIntents ==
    \E D \in SUBSET Key, txn_id \in TxnId, start_ts \in Timestamp :
        remove_intents_batch(D, txn_id, start_ts)

(* Every operation of the engine leaves the store alone or changes it in one *)
(* of the four ways above.                                                   *)
LEMMA EngineKinds ==
    ASSUME TypeOK, EngineOp
    PROVE  UNCHANGED store \/ LocksKeys \/ WritesVersions \/ CommitsIntents \/ RemovesIntents
<1>a. BackendTypeOK /\ Batches \subseteq Seq(Write) /\ KeyLists \subseteq Seq(Key)
  BY InputAssumption DEF TypeOK
<1>1. CASE Prewrite
  <2>1. PICK txn_id \in TxnId, start_ts \in Timestamp, k \in Key, m \in Mutation :
            Allowed(k, start_ts) /\ prewrite(txn_id, start_ts, k, m)
    BY <1>1 DEF Prewrite
  <2> DEFINE new == [j \in {k} |-> NewIntent(txn_id, start_ts, m, NoTs)]
  <2>2. CASE CheckPrewrite(txn_id, start_ts, k, m) = "Ok" /\ put_intents_batch(new)
    <3>1. /\ new \in [{k} -> Intent]
          /\ \A j \in {k} : new[j].txn_id = txn_id /\ new[j].start_ts = start_ts
      BY NewIntentType
    <3>2. ~Locked(k) /\ get_latest_commit_ts(committed[k]) <= start_ts
      BY <2>2, PrewriteOk
    <3> HIDE DEF new
    <3>3. LocksKeys
      BY <2>1, <2>2, <3>1, <3>2 DEF LocksKeys
    <3> QED
      BY <3>3
  <2> QED
    BY <2>1, <2>2 DEF prewrite
<1>2. CASE PrewriteBatch
  <2>1. PICK txn_id \in TxnId, start_ts \in Timestamp, writes \in Batches :
            /\ \A k \in Elements(KeysOf(writes)) : Allowed(k, start_ts)
            /\ prewrite_batch(txn_id, start_ts, writes)
    BY <1>2 DEF PrewriteBatch
  <2> DEFINE D == Elements(KeysOf(writes))
             new == [k \in D |-> NewIntent(txn_id, start_ts, AsFunction(writes)[k], NoTs)]
  <2>2. CASE PrewriteBatchResult(txn_id, start_ts, writes) = "Ok" /\ put_intents_batch(new)
    <3>1. D \in SUBSET Key /\ AsFunction(writes) \in [D -> Mutation]
      BY <1>a, BatchTypes
    <3>2. /\ new \in [D -> Intent]
          /\ \A k \in D : new[k].txn_id = txn_id /\ new[k].start_ts = start_ts
      BY <3>1, NewIntentType
    <3>3. \A k \in D : ~Locked(k) /\ get_latest_commit_ts(committed[k]) <= start_ts
      BY <1>a, <2>2, PrewriteBatchOk
    <3>4. \A k \in D : Allowed(k, start_ts)
      BY <2>1
    <3> HIDE DEF new, D
    <3>5. LocksKeys
      BY <2>2, <3>1, <3>2, <3>3, <3>4 DEF LocksKeys
    <3> QED
      BY <3>5
  <2> QED
    BY <2>1, <2>2 DEF prewrite_batch
<1>3. CASE InstallIntent
  <2>1. PICK txn_id \in TxnId, start_ts \in Timestamp, k \in Key, m \in Mutation,
             min \in MinCommits :
            Allowed(k, start_ts) /\ install_intent(txn_id, start_ts, k, m, min)
    BY <1>3 DEF InstallIntent
  <2> DEFINE new == [j \in {k} |-> NewIntent(txn_id, start_ts, m, min)]
  <2>2. /\ new \in [{k} -> Intent]
        /\ \A j \in {k} : new[j].txn_id = txn_id /\ new[j].start_ts = start_ts
    BY NewIntentType, InputAssumption
  <2>3. CheckPrewrite(txn_id, start_ts, k, m) = "Ok" /\ put_intents_batch(new)
    BY <2>1 DEF install_intent
  <2>4. ~Locked(k) /\ get_latest_commit_ts(committed[k]) <= start_ts
    BY <2>3, PrewriteOk
  <2> HIDE DEF new
  <2>5. LocksKeys
    BY <2>1, <2>2, <2>3, <2>4 DEF LocksKeys
  <2> QED
    BY <2>5
<1>4. CASE Commit
  <2>1. PICK txn_id \in TxnId, start_ts \in Timestamp, c \in Timestamp, k \in Key :
            commit(txn_id, k, start_ts, c)
    BY <1>4 DEF Commit
  <2>2. CASE /\ CommitResult(txn_id, k, start_ts, c) = "Ok"
             /\ commit_intents_batch(IntentVersions({k}), c, txn_id, start_ts)
    <3>1. /\ CheckOwner(txn_id, start_ts, k) = "Ok"
          /\ CheckCommitTs(k, c) = "Ok"
          /\ ~(c <= start_ts)
      BY <2>2 DEF CommitResult
    <3>2. c > start_ts
      BY <3>1, TimestampType
    <3>3. CommitsIntents
      BY <1>a, <2>2, <3>1, <3>2, CommitKeyOk DEF CommitsIntents
    <3> QED
      BY <3>3
  <2> QED
    BY <2>1, <2>2 DEF commit
<1>5. CASE CommitBatch
  <2>1. PICK txn_id \in TxnId, start_ts \in Timestamp, c \in Timestamp, keys \in KeyLists :
            commit_batch(txn_id, start_ts, c, keys)
    BY <1>5 DEF CommitBatch
  <2>2. CASE /\ CommitBatchResult(txn_id, start_ts, c, keys) = "Ok"
             /\ commit_intents_batch(IntentVersions(Elements(keys)), c, txn_id, start_ts)
    <3>1. CommitsIntents
      BY <1>a, <2>2, CommitBatchOk, KeyListTypes DEF CommitsIntents
    <3> QED
      BY <3>1
  <2> QED
    BY <2>1, <2>2 DEF commit_batch
<1>6. CASE Abort
  BY <1>6 DEF Abort, abort, RemovesIntents
<1>7. CASE AbortBatch
  <2>1. PICK txn_id \in TxnId, start_ts \in Timestamp, keys \in KeyLists :
            abort_batch(txn_id, start_ts, keys)
    BY <1>7 DEF AbortBatch
  <2> QED
    BY <1>a, <2>1, KeyListTypes DEF abort_batch, RemovesIntents
<1>8. CASE DirectBatch
  <2>1. PICK c \in Timestamp, writes \in Batches :
            /\ \A k \in Elements(KeysOf(writes)) : Allowed(k, c)
            /\ apply_direct_batch(c, writes)
    BY <1>8 DEF DirectBatch
  <2>2. CASE /\ DirectBatchResult(c, writes) = "Ok"
             /\ put_committed_batch(AsFunction(writes), c)
    <3>1. CheckWrites(c, writes) = "Ok"
      BY <2>2 DEF DirectBatchResult
    <3>2. WritesVersions
      BY <1>a, <2>1, <2>2, <3>1, CheckWritesOk, BatchTypes DEF WritesVersions
    <3> QED
      BY <3>2
  <2> QED
    BY <2>1, <2>2 DEF apply_direct_batch
<1>9. CASE GuardedBatch
  <2>1. PICK c \in Timestamp, guards \in GuardLists, writes \in Batches :
            /\ \A k \in Elements(KeysOf(writes)) : Allowed(k, c)
            /\ apply_guarded_batch(c, guards, writes)
    BY <1>9 DEF GuardedBatch
  <2>2. CASE /\ GuardedBatchResult(c, guards, writes) = "Ok"
             /\ put_committed_batch(AsFunction(writes), c)
    <3>1. CheckWrites(c, writes) = "Ok"
      BY <2>2 DEF GuardedBatchResult
    <3>2. WritesVersions
      BY <1>a, <2>1, <2>2, <3>1, CheckWritesOk, BatchTypes DEF WritesVersions
    <3> QED
      BY <3>2
  <2> QED
    BY <2>1, <2>2 DEF apply_guarded_batch
<1> QED
  BY <1>1, <1>2, <1>3, <1>4, <1>5, <1>6, <1>7, <1>8, <1>9 DEF EngineOp

(* An operation of the engine keeps the store well formed. *)
LEMMA EngineStore ==
    ASSUME StoreOK,
           UNCHANGED store \/ LocksKeys \/ WritesVersions \/ CommitsIntents \/ RemovesIntents
    PROVE  StoreOK'
<1>1. CASE LocksKeys
  <2>1. PICK D \in SUBSET Key : \E new \in [D -> Intent] : put_intents_batch(new)
    BY <1>1 DEF LocksKeys
  <2> QED
    BY <2>1, PutIntents
<1>2. CASE WritesVersions
  <2>1. PICK D \in SUBSET Key, c \in Timestamp :
            \E versions \in [D -> Mutation] : put_committed_batch(versions, c)
    BY <1>2 DEF WritesVersions
  <2> QED
    BY <2>1, PutVersions
<1>3. CASE CommitsIntents
  <2>1. PICK D \in SUBSET Key, c \in Timestamp, txn_id \in TxnId, start_ts \in Timestamp :
            /\ \A k \in D : LockedBy(k, txn_id, start_ts)
            /\ commit_intents_batch(IntentVersions(D), c, txn_id, start_ts)
    BY <1>3 DEF CommitsIntents
  <2> QED
    BY <2>1, CommitIntents
<1>4. CASE RemovesIntents
  BY <1>4, RemoveIntents DEF RemovesIntents
<1> QED
  BY <1>1, <1>2, <1>3, <1>4, StoreSame

-----------------------------------------------------------------------------
(* Type correctness, and the exactness of the key index. *)

LEMMA RecordType ==
    ASSUME hist \in [Key -> Row], BackendTypeOK', Record
    PROVE  hist' \in [Key -> Row]
<1>1. committed' \in [Key -> Row]
  BY DEF BackendTypeOK
<1>2. \A k \in Key : [t \in Timestamp |->
          IF committed'[k][t] # NoVersion THEN committed'[k][t] ELSE hist[k][t]] \in Row
  BY <1>1 DEF Row
<1> QED
  BY <1>2 DEF Record

(* The ghosts keep their types when a step observes the store. *)
LEMMA ObserveTypes ==
    ASSUME TypeOK, StoreOK', GcTypeOK', Observe, passes' \in 0 .. MaxPasses,
           failures' \in 0 .. MaxFailures
    PROVE  TypeOK' /\ IndexExact'
<1>1. hist' \in [Key -> Row]
  BY RecordType DEF Observe, StoreOK, TypeOK
<1>2. debt' \in [old : SUBSET Versions, final : SUBSET Versions]
  BY DEF Observe, Owed, TypeOK
<1>3. watermark' \in Timestamp \cup {NoTs}
  BY DEF Observe, TypeOK
<1> QED
  BY <1>1, <1>2, <1>3 DEF TypeOK, StoreOK

(* Every step keeps every type and the exactness of the index. *)
LEMMA TypeAndIndexStep ==
    ASSUME TypeOK, IndexExact, [Next]_vars
    PROVE  TypeOK' /\ IndexExact'
<1>0. StoreOK /\ GcTypeOK /\ hist \in [Key -> Row]
  BY DEF TypeOK, StoreOK
<1>1. CASE Client
  <2>1. EngineOp /\ Observe /\ UNCHANGED gcVars /\ UNCHANGED counters
    BY <1>1 DEF Client
  <2>2. StoreOK'
    BY <1>0, <2>1, EngineKinds, EngineStore
  <2>3. GcTypeOK'
    BY <1>0, <2>1 DEF GcTypeOK, gcVars
  <2>4. passes' \in 0 .. MaxPasses /\ failures' \in 0 .. MaxFailures
    BY <2>1 DEF counters, TypeOK
  <2> QED
    BY <2>1, <2>2, <2>3, <2>4, ObserveTypes
<1>2. CASE Start
  <2>1. PICK safe \in SafePoints, budget \in Budgets, collapse \in Collapses :
            /\ passes < MaxPasses /\ passes' = passes + 1
            /\ StartPass(safe, budget, collapse)
            /\ watermark' = Max({watermark, safe})
            /\ debt' = IF budget.max_keys = 0 \/ budget.max_versions = 0
                       THEN [old |-> {}, final |-> {}]
                       ELSE [old |-> Obsolete(safe),
                             final |-> {v \in FinalTombstones(safe) : collapse}]
            /\ Record
            /\ UNCHANGED failures
    BY <1>2 DEF Start
  <2>2. StoreOK'
    BY <1>0, <2>1 DEF StartPass, StoreOK, BackendTypeOK, IndexExact, Locked,
       TimestampsOf, store
  <2>3. safe \in Timestamp /\ collapse \in BOOLEAN
        /\ budget \in [max_keys : Usize, max_versions : Usize]
    BY InputAssumption
  <2>4. pass' \in Pass /\ call' = NoCall
    BY <2>1, <2>3 DEF StartPass, Pass
  <2>5. hist' \in [Key -> Row]
    BY <1>0, <2>1, <2>2, RecordType DEF StoreOK
  <2>6. watermark' \in Timestamp \cup {NoTs}
    BY <2>1, <2>3, MaxOfTwo, TimestampType DEF TypeOK
  <2>7. debt' \in [old : SUBSET Versions, final : SUBSET Versions]
    BY <2>1 DEF Obsolete, FinalTombstones
  <2>8. passes' \in 0 .. MaxPasses /\ failures' \in 0 .. MaxFailures
    BY <2>1, InputAssumption DEF TypeOK
  <2> QED
    BY <2>2, <2>4, <2>5, <2>6, <2>7, <2>8 DEF TypeOK, StoreOK, GcTypeOK
<1>3. CASE Collect
  <2>1. GcStep /\ Observe /\ UNCHANGED counters
    BY <1>3 DEF Collect
  <2>2. passes' \in 0 .. MaxPasses /\ failures' \in 0 .. MaxFailures
    BY <2>1 DEF counters, TypeOK
  <2> QED
    BY <1>0, <2>1, <2>2, GcStepTypes, ObserveTypes
<1>4. CASE Fail
  <2>1. /\ GcFail /\ Observe /\ failures < MaxFailures /\ failures' = failures + 1
        /\ passes' = passes
    BY <1>4 DEF Fail
  <2>2. passes' \in 0 .. MaxPasses /\ failures' \in 0 .. MaxFailures
    BY <2>1, InputAssumption DEF TypeOK
  <2> QED
    BY <1>0, <2>1, <2>2, GcStepTypes, ObserveTypes
<1>5. CASE UNCHANGED vars
  BY <1>5 DEF vars, store, gcVars, ghosts, counters, TypeOK, BackendTypeOK, GcTypeOK,
     IndexExact, Locked, TimestampsOf
<1> QED
  BY <1>1, <1>2, <1>3, <1>4, <1>5 DEF Next

LEMMA InitTypes ==
    ASSUME Init
    PROVE  TypeOK /\ IndexExact
<1>1. BackendTypeOK
  BY DEF Init, BackendInit, BackendTypeOK, Row
<1>2. IndexExact
  BY DEF Init, BackendInit, IndexExact, Locked, TimestampsOf
<1>3. GcTypeOK
  BY DEF Init, GcInit, GcTypeOK
<1>4. hist \in [Key -> Row]
  BY <1>1 DEF Init, BackendTypeOK
<1> QED
  BY <1>1, <1>2, <1>3, <1>4, InputAssumption DEF Init, TypeOK

(* TypeOK is an invariant. *)
THEOREM TypeInvariant == Spec => []TypeOK
<1>1. Init => TypeOK /\ IndexExact
  BY InitTypes
<1>2. (TypeOK /\ IndexExact) /\ [Next]_vars => (TypeOK /\ IndexExact)'
  BY TypeAndIndexStep
<1> QED
  BY <1>1, <1>2, PTL DEF Spec

(* all_keys_set is exactly the set of keys with an intent or a version: no *)
(* path of the backend leaves a stale key in the index or drops a live one.*)
THEOREM IndexInvariant == Spec => []IndexExact
<1>1. Init => TypeOK /\ IndexExact
  BY InitTypes
<1>2. (TypeOK /\ IndexExact) /\ [Next]_vars => (TypeOK /\ IndexExact)'
  BY TypeAndIndexStep
<1> QED
  BY <1>1, <1>2, PTL DEF Spec

-----------------------------------------------------------------------------
(* The contract and the invariant of snapshot safety. *)

\* What callers owe: they stay above a collapsed tombstone, and do not ask for
\* so large a budget that `limit + 1` overflows.
Contract ==
    /\ TombstoneFence = TRUE
    /\ \A b \in Budgets : b.max_versions < UsizeMax

\* The store holds a part of the history.
CommittedInHist ==
    \A k \in Key, t \in Timestamp :
        committed[k][t] # NoVersion => hist[k][t] = committed[k][t]

\* The running pass works with a safe point and a budget a caller chose.
PassBounded ==
    pass # NoPass => /\ pass.safe_point_ts <= watermark
                     /\ pass.max_versions < UsizeMax

SInv ==
    /\ TypeOK
    /\ IndexExact
    /\ CommittedInHist
    /\ IntentFresh
    /\ VersionsStable
    /\ BudgetRespected
    /\ PassBounded

\* The history of every key grows only above its newest version.
HistGrows ==
    \A k \in Key :
        \/ hist'[k] = hist[k]
        \/ \E c \in Timestamp, m \in Mutation :
              /\ c > get_latest_commit_ts(hist[k])
              /\ hist'[k] = Written(hist[k], c, m)

-----------------------------------------------------------------------------
(* Timestamps against the history. *)

LEMMA HistLatestInt ==
    \A k \in Key : get_latest_commit_ts(hist[k]) \in Int
BY LatestProp, TimestampType

LEMMA LatestWithinHist ==
    ASSUME CommittedInHist, NEW k \in Key
    PROVE  get_latest_commit_ts(committed[k]) <= get_latest_commit_ts(hist[k])
<1> DEFINE a == get_latest_commit_ts(committed[k])
           b == get_latest_commit_ts(hist[k])
<1>1. a \in Timestamp \cup {NoTs} /\ (a # NoTs => committed[k][a] # NoVersion)
  BY LatestProp
<1>2. b \in Timestamp \cup {NoTs} /\ \A t \in Timestamp : hist[k][t] # NoVersion => t <= b
  BY LatestProp
<1> HIDE DEF a, b
<1>3. CASE a = NoTs
  BY <1>2, <1>3, TimestampType DEF a, b
<1>4. CASE a # NoTs
  BY <1>1, <1>2, <1>4 DEF CommittedInHist, a, b
<1> QED
  BY <1>3, <1>4

(* What the engine checks against the store, with the contract, holds       *)
(* against the whole history.                                               *)
LEMMA FreshAgainstHist ==
    ASSUME Contract, NEW k \in Key, NEW ts \in Timestamp, Allowed(k, ts)
    PROVE  /\ ts >= get_latest_commit_ts(committed[k]) => ts >= get_latest_commit_ts(hist[k])
           /\ ts > get_latest_commit_ts(committed[k]) => ts > get_latest_commit_ts(hist[k])
<1>1. get_latest_commit_ts(committed[k]) < get_latest_commit_ts(hist[k])
          => ts > get_latest_commit_ts(hist[k])
  BY DEF Contract, Allowed
<1> QED
  BY <1>1, LatestInt, HistLatestInt, TimestampType

-----------------------------------------------------------------------------
(* What readers see of the store and of the history. *)

SeesSame(now, once, r) ==
    \/ /\ get_visible_committed(now, r) = get_visible_committed(once, r)
       /\ read(now, r) = read(once, r)
    \/ get_visible_committed(now, r) = NoTs /\ read(once, r) = Tombstone

LEMMA StableSees ==
    /\ VersionsStable = \A k \in Key, r \in Timestamp :
           r >= watermark => SeesSame(committed[k], hist[k], r)
    /\ VersionsStable' = \A k \in Key, r \in Timestamp :
           r >= watermark' => SeesSame(committed'[k], hist'[k], r)
BY DEF VersionsStable, read_with_version, SeesSame

(* Readers that see the same versions read the same values. *)
LEMMA StableTransparent ==
    ASSUME VersionsStable
    PROVE  GcTransparent
<1> SUFFICES ASSUME NEW k \in Key, NEW r \in Timestamp, r >= watermark
             PROVE  read(committed[k], r) = read(hist[k], r)
  BY DEF GcTransparent
<1>1. SeesSame(committed[k], hist[k], r)
  BY StableSees
<1> QED
  BY <1>1 DEF SeesSame, read

-----------------------------------------------------------------------------
(* Steps that commit nothing, and steps that commit. *)

(* A step that only drops versions leaves the history alone. *)
LEMMA NoCommit ==
    ASSUME TypeOK, CommittedInHist, Record, committed' \in [Key -> Row],
           \A k \in Key, t \in Timestamp : committed'[k][t] \in {committed[k][t], NoVersion}
    PROVE  hist' = hist /\ CommittedInHist'
<1>1. hist \in [Key -> Row]
  BY DEF TypeOK
<1>2. ASSUME NEW k \in Key
      PROVE  [t \in Timestamp |-> IF committed'[k][t] # NoVersion THEN committed'[k][t]
                                  ELSE hist[k][t]] = hist[k]
  <2>1. \A t \in Timestamp : (IF committed'[k][t] # NoVersion THEN committed'[k][t]
                              ELSE hist[k][t]) = hist[k][t]
    BY DEF CommittedInHist
  <2> QED
    BY <1>1, <2>1 DEF Row
<1>3. hist' = hist
  BY <1>1, <1>2 DEF Record
<1>4. CommittedInHist'
  BY <1>3 DEF CommittedInHist
<1> QED
  BY <1>3, <1>4

(* A step that commits above the history adds the same version to the store *)
(* and to the history, and readers keep agreeing on both.                   *)
LEMMA CommitAbove ==
    ASSUME TypeOK, CommittedInHist, VersionsStable, Record, watermark' = watermark,
           NEW D \in SUBSET Key, NEW c \in Timestamp, NEW versions \in [D -> Mutation],
           \A k \in D : c > get_latest_commit_ts(hist[k]),
           committed' = WithVersions(versions, c)
    PROVE  /\ \A k \in D : hist'[k] = Written(hist[k], c, versions[k])
           /\ \A k \in Key \ D : hist'[k] = hist[k]
           /\ CommittedInHist' /\ VersionsStable' /\ HistGrows
<1>0. BackendTypeOK /\ hist \in [Key -> Row] /\ committed \in [Key -> Row]
      /\ watermark \in Timestamp \cup {NoTs}
  BY DEF TypeOK, BackendTypeOK
<1>1. /\ \A k \in D : committed'[k] = Written(committed[k], c, versions[k])
      /\ \A k \in Key \ D : committed'[k] = committed[k]
  <2> DEFINE rows == WithVersions(versions, c)
  <2>1. /\ \A k \in D : rows[k] = Written(committed[k], c, versions[k])
        /\ \A k \in Key \ D : rows[k] = committed[k]
    BY <1>0, WithVersionsProp
  <2> HIDE DEF rows
  <2>2. committed' = rows
    BY DEF rows
  <2> QED
    BY <2>1, <2>2
<1>2. \A k \in Key : hist'[k] = [t \in Timestamp |->
          IF committed'[k][t] # NoVersion THEN committed'[k][t] ELSE hist[k][t]]
  BY DEF Record
<1>3. ASSUME NEW k \in D
      PROVE  hist'[k] = Written(hist[k], c, versions[k])
  <2>1. versions[k] # NoVersion /\ k \in Key
    BY SentinelAssumption DEF Mutation
  <2>2. \A t \in Timestamp : committed'[k][t] =
            IF t = c THEN versions[k] ELSE committed[k][t]
    <3>1. committed[k] \in Row /\ committed'[k] = Written(committed[k], c, versions[k])
      BY <1>0, <1>1, <2>1
    <3> QED
      BY <3>1, WrittenAt
  <2>3. \A t \in Timestamp : (IF committed'[k][t] # NoVersion THEN committed'[k][t]
                              ELSE hist[k][t]) = IF t = c THEN versions[k] ELSE hist[k][t]
    BY <2>1, <2>2 DEF CommittedInHist
  <2>4. hist[k] \in Row
    BY <1>0, <2>1
  <2>5. Written(hist[k], c, versions[k]) =
            [t \in Timestamp |-> IF t = c THEN versions[k] ELSE hist[k][t]]
    BY <2>4 DEF Written, Row
  <2>6. hist'[k] = [t \in Timestamp |-> IF t = c THEN versions[k] ELSE hist[k][t]]
    BY <1>2, <2>1, <2>3
  <2> QED
    BY <2>5, <2>6
<1>4. ASSUME NEW k \in Key \ D
      PROVE  hist'[k] = hist[k]
  <2>1. \A t \in Timestamp : (IF committed'[k][t] # NoVersion THEN committed'[k][t]
                              ELSE hist[k][t]) = hist[k][t]
    BY <1>1 DEF CommittedInHist
  <2>2. hist[k] \in Row
    BY <1>0
  <2> QED
    BY <1>2, <2>1, <2>2 DEF Row
<1>5. CommittedInHist'
  <2>1. \A k \in Key, t \in Timestamp : committed'[k][t] # NoVersion =>
            hist'[k][t] = committed'[k][t]
    <3> TAKE k \in Key, t \in Timestamp
    <3>1. hist'[k] = [u \in Timestamp |->
              IF committed'[k][u] # NoVersion THEN committed'[k][u] ELSE hist[k][u]]
      BY <1>2
    <3> QED
      BY <3>1
  <2> QED
    BY <2>1 DEF CommittedInHist
<1>6. VersionsStable'
  <2> SUFFICES ASSUME NEW k \in Key, NEW r \in Timestamp, r >= watermark
               PROVE  SeesSame(committed'[k], hist'[k], r)
    BY StableSees
  <2>1. SeesSame(committed[k], hist[k], r)
    BY StableSees
  <2>2. CASE k \in D
    <3>1. c > get_latest_commit_ts(hist[k]) /\ c > get_latest_commit_ts(committed[k])
      BY <2>2, LatestWithinHist, LatestInt, HistLatestInt, TimestampType
    <3>2. committed[k] \in Row /\ hist[k] \in Row /\ versions[k] \in Mutation
      BY <1>0, <2>2
    <3>3. /\ get_visible_committed(committed'[k], r) =
                 IF r >= c THEN c ELSE get_visible_committed(committed[k], r)
          /\ read(committed'[k], r) = IF r >= c THEN versions[k] ELSE read(committed[k], r)
      BY <1>1, <2>2, <3>1, <3>2, ReadAfterWrite
    <3>4. /\ get_visible_committed(hist'[k], r) =
                 IF r >= c THEN c ELSE get_visible_committed(hist[k], r)
          /\ read(hist'[k], r) = IF r >= c THEN versions[k] ELSE read(hist[k], r)
      BY <1>3, <2>2, <3>1, <3>2, ReadAfterWrite
    <3> QED
      BY <2>1, <3>3, <3>4 DEF SeesSame
  <2>3. CASE k \notin D
    BY <1>1, <1>4, <2>1, <2>3
  <2> QED
    BY <2>2, <2>3
<1>7. HistGrows
  BY <1>3, <1>4 DEF HistGrows
<1> QED
  BY <1>3, <1>4, <1>5, <1>6, <1>7

-----------------------------------------------------------------------------
(* Operations of the engine. *)

(* An operation that commits nothing keeps the snapshot invariants if every  *)
(* intent it leaves is fresh.                                                *)
LEMMA KeepsVersions ==
    ASSUME SInv, Record, watermark' = watermark, committed' = committed,
           \A k \in Key : intents'[k] # NoIntent =>
               \/ intents'[k] = intents[k]
               \/ intents'[k].start_ts >= get_latest_commit_ts(hist[k])
    PROVE  CommittedInHist' /\ IntentFresh' /\ VersionsStable' /\ HistGrows
<1>1. committed' \in [Key -> Row] /\ TypeOK /\ CommittedInHist
  BY DEF SInv, TypeOK, BackendTypeOK
<1>2. hist' = hist /\ CommittedInHist'
  BY <1>1, NoCommit
<1>3. IntentFresh'
  BY <1>2 DEF IntentFresh, Locked, SInv
<1>4. VersionsStable'
  BY <1>2 DEF VersionsStable, SInv
<1> QED
  BY <1>2, <1>3, <1>4 DEF HistGrows

(* An operation that commits above the history, and leaves no intent on the  *)
(* keys it committed and no new one elsewhere, keeps them too.               *)
LEMMA KeepsFresh ==
    ASSUME SInv, Record, watermark' = watermark,
           NEW D \in SUBSET Key, NEW c \in Timestamp, NEW versions \in [D -> Mutation],
           \A k \in D : c > get_latest_commit_ts(hist[k]),
           committed' = WithVersions(versions, c),
           \A k \in D : intents'[k] = NoIntent,
           \A k \in Key \ D : intents'[k] = intents[k]
    PROVE  CommittedInHist' /\ IntentFresh' /\ VersionsStable' /\ HistGrows
<1>1. /\ \A k \in Key \ D : hist'[k] = hist[k]
      /\ CommittedInHist' /\ VersionsStable' /\ HistGrows
  BY CommitAbove DEF SInv
<1>2. IntentFresh'
  <2> SUFFICES ASSUME NEW k \in Key, intents'[k] # NoIntent
               PROVE  intents'[k].start_ts >= get_latest_commit_ts(hist'[k])
    BY DEF IntentFresh, Locked
  <2>1. k \in Key \ D
    OBVIOUS
  <2> QED
    BY <1>1, <2>1 DEF IntentFresh, Locked, SInv
<1> QED
  BY <1>1, <1>2

\* What the operations do, seen against the history: lock free keys, ...
Acquires ==
    \E D \in SUBSET Key, txn_id \in TxnId, start_ts \in Timestamp :
        /\ committed' = committed
        /\ \A k \in D : /\ intents[k] = NoIntent
                        /\ start_ts >= get_latest_commit_ts(hist[k])
                        /\ Allowed(k, start_ts)
                        /\ intents'[k] \in Intent
                        /\ intents'[k].txn_id = txn_id
                        /\ intents'[k].start_ts = start_ts
        /\ \A k \in Key \ D : intents'[k] = intents[k]

\* ... release locks of one transaction, ...
Releases ==
    \E D \in SUBSET Key, txn_id \in TxnId, start_ts \in Timestamp :
        /\ committed' = committed
        /\ \A k \in D : LockedBy(k, txn_id, start_ts) /\ intents'[k] = NoIntent
        /\ \A k \in Key \ D : intents'[k] = intents[k]

\* ... or commit versions newer than the history and leave no lock on their keys:
Publishes(D, c, versions) ==
    /\ committed' = WithVersions(versions, c)
    /\ \A k \in D : c > get_latest_commit_ts(hist[k]) /\ intents'[k] = NoIntent
    /\ \A k \in Key \ D : intents'[k] = intents[k]

\* on keys that nobody locked, ...
PublishesDirect ==
    \E D \in SUBSET Key, c \in Timestamp : \E versions \in [D -> Mutation] :
        /\ \A k \in D : intents[k] = NoIntent
        /\ Publishes(D, c, versions)

\* ... or what the locks of one transaction hold.
PublishesLocked ==
    \E D \in SUBSET Key, c \in Timestamp, txn_id \in TxnId, start_ts \in Timestamp :
        /\ c > start_ts
        /\ \A k \in D : /\ LockedBy(k, txn_id, start_ts)
                        /\ c >= intents[k].min_commit_ts
        /\ IntentVersions(D) \in [D -> Mutation]
        /\ Publishes(D, c, IntentVersions(D))

(* With the contract and fresh intents, an operation has no other effect. *)
LEMMA EngineEffects ==
    ASSUME Contract, TypeOK, IntentFresh, EngineOp
    PROVE  \/ committed' = committed /\ intents' = intents
           \/ Acquires \/ Releases \/ PublishesDirect \/ PublishesLocked
<1>0. BackendTypeOK /\ intents \in [Key -> Intent \cup {NoIntent}]
  BY DEF TypeOK, BackendTypeOK
<1>1. CASE UNCHANGED store
  BY <1>1 DEF store
<1>2. CASE LocksKeys
  <2>1. PICK D \in SUBSET Key, txn_id \in TxnId, start_ts \in Timestamp :
          \E new \in [D -> Intent] :
            /\ \A k \in D : /\ ~Locked(k)
                            /\ get_latest_commit_ts(committed[k]) <= start_ts
                            /\ Allowed(k, start_ts)
                            /\ new[k].txn_id = txn_id /\ new[k].start_ts = start_ts
            /\ put_intents_batch(new)
    BY <1>2 DEF LocksKeys
  <2>2. PICK new \in [D -> Intent] :
            /\ \A k \in D : /\ ~Locked(k)
                            /\ get_latest_commit_ts(committed[k]) <= start_ts
                            /\ Allowed(k, start_ts)
                            /\ new[k].txn_id = txn_id /\ new[k].start_ts = start_ts
            /\ put_intents_batch(new)
    BY <2>1
  <2>3. /\ committed' = committed
        /\ intents' = [k \in Key |-> IF k \in D THEN new[k] ELSE intents[k]]
    BY <2>2 DEF put_intents_batch, Overlay
  <2>4. \A k \in D : start_ts >= get_latest_commit_ts(hist[k])
    BY <2>2, FreshAgainstHist, LatestInt, TimestampType
  <2>5. /\ \A k \in D : intents'[k] = new[k] /\ intents[k] = NoIntent
        /\ \A k \in Key \ D : intents'[k] = intents[k]
    BY <2>2, <2>3 DEF Locked
  <2>6. \A k \in D : /\ intents[k] = NoIntent
                    /\ start_ts >= get_latest_commit_ts(hist[k])
                    /\ Allowed(k, start_ts)
                    /\ intents'[k] \in Intent
                    /\ intents'[k].txn_id = txn_id
                    /\ intents'[k].start_ts = start_ts
    BY <2>2, <2>4, <2>5
  <2>7. Acquires
    BY <2>3, <2>5, <2>6 DEF Acquires
  <2> QED
    BY <2>7
<1>3. CASE WritesVersions
  <2>1. PICK D \in SUBSET Key, c \in Timestamp : \E versions \in [D -> Mutation] :
            /\ \A k \in D : /\ ~Locked(k)
                            /\ c > get_latest_commit_ts(committed[k])
                            /\ Allowed(k, c)
            /\ put_committed_batch(versions, c)
    BY <1>3 DEF WritesVersions
  <2>2. PICK versions \in [D -> Mutation] :
            /\ \A k \in D : /\ ~Locked(k)
                            /\ c > get_latest_commit_ts(committed[k])
                            /\ Allowed(k, c)
            /\ put_committed_batch(versions, c)
    BY <2>1
  <2>3. \A k \in D : c > get_latest_commit_ts(hist[k])
    BY <2>2, FreshAgainstHist
  <2>4. committed' = WithVersions(versions, c) /\ intents' = intents
    BY <2>2 DEF put_committed_batch
  <2>5. \A k \in D : intents[k] = NoIntent
    BY <2>2 DEF Locked
  <2>6. PublishesDirect
    BY <2>3, <2>4, <2>5 DEF PublishesDirect, Publishes
  <2> QED
    BY <2>6
<1>4. CASE CommitsIntents
  <2>1. PICK D \in SUBSET Key, c \in Timestamp, txn_id \in TxnId, start_ts \in Timestamp :
            /\ c > start_ts
            /\ \A k \in D : /\ LockedBy(k, txn_id, start_ts)
                            /\ c >= intents[k].min_commit_ts
            /\ commit_intents_batch(IntentVersions(D), c, txn_id, start_ts)
    BY <1>4 DEF CommitsIntents
  <2>2. IntentVersions(D) \in [D -> Mutation] /\ DOMAIN IntentVersions(D) = D
    BY <1>0, <2>1, IntentVersionsType DEF LockedBy
  <2>3. D = {k \in D : LockedBy(k, txn_id, start_ts)}
    BY <2>1
  <2>4. committed' = WithVersions(IntentVersions(D), c) /\ intents' = WithoutIntents(D)
    BY <2>1, <2>2, <2>3 DEF commit_intents_batch
  <2>5. \A k \in D : c > get_latest_commit_ts(hist[k])
    <3> TAKE k \in D
    <3>1. start_ts >= get_latest_commit_ts(hist[k])
      BY <2>1 DEF LockedBy, IntentFresh
    <3> QED
      BY <2>1, <3>1, HistLatestInt, TimestampType
  <2>6. /\ \A k \in D : intents'[k] = NoIntent
        /\ \A k \in Key \ D : intents'[k] = intents[k]
    BY <2>4 DEF WithoutIntents
  <2>7. PublishesLocked
    BY <2>1, <2>2, <2>4, <2>5, <2>6 DEF PublishesLocked, Publishes
  <2> QED
    BY <2>7
<1>5. CASE RemovesIntents
  <2>1. PICK D \in SUBSET Key, txn_id \in TxnId, start_ts \in Timestamp :
            remove_intents_batch(D, txn_id, start_ts)
    BY <1>5 DEF RemovesIntents
  <2> DEFINE gone == {k \in D : LockedBy(k, txn_id, start_ts)}
  <2>2. committed' = committed /\ intents' = WithoutIntents(gone)
    BY <2>1 DEF remove_intents_batch
  <2>3. /\ gone \in SUBSET Key
        /\ \A k \in gone : LockedBy(k, txn_id, start_ts) /\ intents'[k] = NoIntent
        /\ \A k \in Key \ gone : intents'[k] = intents[k]
    BY <2>2 DEF WithoutIntents
  <2> HIDE DEF gone
  <2>4. Releases
    BY <2>2, <2>3 DEF Releases
  <2> QED
    BY <2>4
<1> QED
  BY <1>1, <1>2, <1>3, <1>4, <1>5, EngineKinds

(* An operation of the engine adds to a row at most a version above its *)
(* history.                                                             *)
LEMMA RowsGrow ==
    ASSUME Contract, SInv, EngineOp, NEW k \in Key
    PROVE  \/ committed'[k] = committed[k]
           \/ \E c \in Timestamp, m \in Mutation :
                 /\ c > get_latest_commit_ts(committed[k])
                 /\ c > get_latest_commit_ts(hist[k])
                 /\ committed'[k] = Written(committed[k], c, m)
<1>0. TypeOK /\ IntentFresh /\ CommittedInHist /\ BackendTypeOK
  BY DEF SInv, TypeOK
<1>1. ASSUME NEW D \in SUBSET Key, NEW c \in Timestamp, NEW versions \in [D -> Mutation],
             Publishes(D, c, versions)
      PROVE  \/ committed'[k] = committed[k]
             \/ \E d \in Timestamp, m \in Mutation :
                   /\ d > get_latest_commit_ts(committed[k])
                   /\ d > get_latest_commit_ts(hist[k])
                   /\ committed'[k] = Written(committed[k], d, m)
  <2> DEFINE rows == WithVersions(versions, c)
  <2>1. /\ \A j \in D : rows[j] = Written(committed[j], c, versions[j])
        /\ \A j \in Key \ D : rows[j] = committed[j]
    BY <1>0, WithVersionsProp
  <2> HIDE DEF rows
  <2>2. committed' = rows /\ \A j \in D : c > get_latest_commit_ts(hist[j])
    BY <1>1 DEF Publishes, rows
  <2>3. CASE k \in D
    <3>1. c > get_latest_commit_ts(committed[k])
      BY <1>0, <2>2, <2>3, LatestWithinHist, LatestInt, HistLatestInt, TimestampType
    <3>2. versions[k] \in Mutation
      BY <2>3
    <3> QED
      BY <2>1, <2>2, <2>3, <3>1, <3>2
  <2> QED
    BY <2>1, <2>2, <2>3
<1>2. CASE PublishesDirect
  BY <1>1, <1>2 DEF PublishesDirect
<1>3. CASE PublishesLocked
  BY <1>1, <1>3 DEF PublishesLocked
<1> QED
  BY <1>0, <1>2, <1>3, EngineEffects DEF Acquires, Releases

LEMMA ClientSafe ==
    ASSUME Contract, SInv, EngineOp, Record, watermark' = watermark
    PROVE  CommittedInHist' /\ IntentFresh' /\ VersionsStable' /\ HistGrows
<1>1. CASE committed' = committed /\ intents' = intents
  BY <1>1, KeepsVersions
<1>2. CASE Acquires
  <2>1. /\ committed' = committed
        /\ \A k \in Key : \/ intents'[k] = intents[k]
                          \/ intents'[k].start_ts >= get_latest_commit_ts(hist[k])
    BY <1>2 DEF Acquires
  <2> QED
    BY <2>1, KeepsVersions
<1>3. CASE Releases
  <2>1. /\ committed' = committed
        /\ \A k \in Key : intents'[k] # NoIntent => intents'[k] = intents[k]
    BY <1>3 DEF Releases
  <2> QED
    BY <2>1, KeepsVersions
<1>4. CASE PublishesDirect
  <2>1. PICK D \in SUBSET Key, c \in Timestamp : \E versions \in [D -> Mutation] :
            Publishes(D, c, versions)
    BY <1>4 DEF PublishesDirect
  <2> QED
    BY <2>1, KeepsFresh DEF Publishes
<1>5. CASE PublishesLocked
  <2>1. PICK D \in SUBSET Key, c \in Timestamp :
            /\ IntentVersions(D) \in [D -> Mutation]
            /\ Publishes(D, c, IntentVersions(D))
    BY <1>5 DEF PublishesLocked
  <2> QED
    BY <2>1, KeepsFresh DEF Publishes
<1> QED
  BY <1>1, <1>2, <1>3, <1>4, <1>5, EngineEffects DEF SInv

-----------------------------------------------------------------------------
(* Garbage collection. *)

(* Under the contract the arithmetic of a call does not wrap around. *)
LEMMA LimitBounds ==
    ASSUME SInv, Scanning
    PROVE  /\ Limit \in Nat /\ Limit + call.removed = pass.max_versions
           /\ Wrap(Limit + 1) = Limit + 1
<1>1. pass \in Pass /\ call \in Call
  BY ScanTypes DEF SInv, TypeOK
<1>2. pass # NoPass /\ call # NoCall
  BY <1>1, GcSentinelAssumption
<1>3. call.removed \in Nat /\ pass.max_versions \in Nat
  BY <1>1, UsizeAssumption DEF Pass, Call, Usize
<1>4. call.removed <= pass.max_versions /\ pass.max_versions < UsizeMax
  BY <1>2 DEF SInv, BudgetRespected, PassBounded
<1>5. Limit \in Nat /\ Limit + call.removed = pass.max_versions /\ Limit + 1 <= UsizeMax
  BY <1>3, <1>4, UsizeAssumption DEF Limit
<1>6. \A n \in Nat : n <= UsizeMax => n % (UsizeMax + 1) = n
  BY UsizeAssumption
<1> QED
  BY <1>5, <1>6 DEF Wrap

(* What a call removes never exceeds what is left of its budget. *)
LEMMA PageBounds ==
    ASSUME SInv, Scanning
    PROVE  Cardinality(Removable) \in Nat /\ Cardinality(Removable) <= Limit
BY LimitBounds, ScanTypes, NewestNCard DEF Removable, SInv, TypeOK

(* A page smaller than the limit holds every version older than the keeper. *)
LEMMA PageComplete ==
    ASSUME SInv, Scanning, Cardinality(Page) < Limit
    PROVE  Page = {t \in TimestampsOf(committed[Current]) : t < Keeper}
<1> DEFINE S == {t \in TimestampsOf(committed[Current]) : t < Keeper}
<1>1. Page = NewestN(S, Limit + 1)
  BY LimitBounds DEF Page, get_committed_timestamps_before
<1>2. S \in SUBSET Timestamp
  BY DEF TimestampsOf
<1>3. Limit \in Nat /\ Cardinality(Page) \in Nat
  BY LimitBounds, ScanTypes DEF SInv, TypeOK
<1> HIDE DEF S
<1>4. NewestN(S, Limit + 1) = S
  BY <1>1, <1>2, <1>3, NewestNComplete
<1> QED
  BY <1>1, <1>4 DEF S

(* A removal that no reader at or above the watermark can notice keeps the *)
(* snapshot invariants.                                                    *)
LEMMA RemovalSafe ==
    ASSUME SInv, Record, watermark' = watermark, NEW k \in Key, NEW S,
           remove_committed_versions(k, S),
           Harmless(committed[k], S, watermark)
    PROVE  CommittedInHist' /\ IntentFresh' /\ VersionsStable' /\ HistGrows
<1>1. /\ StoreOK'
      /\ intents' = intents
      /\ committed'[k] = Pruned(committed[k], S)
      /\ \A j \in Key \ {k} : committed'[j] = committed[j]
  BY RemovalStore DEF SInv, TypeOK, StoreOK
<1>2. committed' \in [Key -> Row] /\ TypeOK /\ CommittedInHist
  BY <1>1 DEF StoreOK, BackendTypeOK, SInv
<1>3. \A j \in Key, t \in Timestamp : committed'[j][t] \in {committed[j][t], NoVersion}
  BY <1>1 DEF Pruned
<1>4. hist' = hist /\ CommittedInHist'
  BY <1>2, <1>3, NoCommit
<1>5. IntentFresh'
  BY <1>1, <1>4 DEF IntentFresh, Locked, SInv
<1>6. VersionsStable'
  <2> SUFFICES ASSUME NEW j \in Key, NEW r \in Timestamp, r >= watermark
               PROVE  SeesSame(committed'[j], hist[j], r)
    BY <1>4, StableSees
  <2>1. SeesSame(committed[j], hist[j], r)
    BY StableSees DEF SInv
  <2>2. CASE j = k
    <3> DEFINE new == Pruned(committed[k], S)
    <3>1. \/ /\ get_visible_committed(new, r) = get_visible_committed(committed[k], r)
             /\ read(new, r) = read(committed[k], r)
          \/ /\ get_visible_committed(new, r) = NoTs
             /\ read(committed[k], r) = Tombstone
      BY ReadAfterRemoval
    <3>2. read(committed[k], r) = read(hist[k], r)
      BY <2>2, StableTransparent DEF SInv, GcTransparent
    <3> HIDE DEF new
    <3>3. SeesSame(new, hist[k], r)
      BY <2>1, <2>2, <3>1, <3>2 DEF SeesSame
    <3> QED
      BY <1>1, <2>2, <3>3 DEF new
  <2>3. CASE j # k
    BY <1>1, <2>1, <2>3
  <2> QED
    BY <2>2, <2>3
<1> QED
  BY <1>4, <1>5, <1>6 DEF HistGrows

(* Removing obsolete versions of the key a call is at. *)
LEMMA PruneSafe ==
    ASSUME SInv, Record, watermark' = watermark, Scanning, Keeper # NoTs,
           NEW S, \A t \in S : t < Keeper, remove_committed_versions(Current, S)
    PROVE  CommittedInHist' /\ IntentFresh' /\ VersionsStable' /\ HistGrows
<1>1. pass \in Pass /\ Current \in Key
  BY ScanTypes DEF SInv, TypeOK
<1>2. pass.safe_point_ts \in Timestamp /\ pass.safe_point_ts <= watermark
  BY <1>1, GcSentinelAssumption DEF Pass, PassBounded, SInv
<1>3. watermark \in Int
  BY TimestampType DEF SInv, TypeOK
<1>4. Harmless(committed[Current], S, watermark)
  BY <1>2, <1>3, PruneHarmless DEF Keeper
<1> QED
  BY <1>1, <1>4, RemovalSafe

(* A collapse takes everything that is left of its key. *)
LEMMA CollapseTakesAll ==
    ASSUME SInv, GcCollapse
    PROVE  TimestampsOf(committed[Current]) \subseteq Page \cup {Keeper}
<1> DEFINE row == committed[Current]
<1>0. Scanning /\ Keeper # NoTs /\ IsFinalTombstone /\ Cardinality(Page) < Limit
  BY DEF GcCollapse
<1>1. Page = {t \in TimestampsOf(row) : t < Keeper}
  BY <1>0, PageComplete
<1>2. get_latest_commit_ts(row) = Keeper
  BY <1>0 DEF IsFinalTombstone
<1>3. Keeper \in Timestamp
  BY <1>0, <1>2, LatestProp
<1>4. \A t \in TimestampsOf(row) : t \in Timestamp /\ t <= Keeper
  BY <1>2, LatestProp DEF TimestampsOf
<1>5. \A t \in TimestampsOf(row) : t = Keeper \/ t < Keeper
  BY <1>3, <1>4, TimestampType
<1> QED
  BY <1>1, <1>5

(* Collapsing a final tombstone together with everything older. *)
LEMMA CollapseSafe ==
    ASSUME SInv, Record, watermark' = watermark, GcCollapse
    PROVE  CommittedInHist' /\ IntentFresh' /\ VersionsStable' /\ HistGrows
<1>0. /\ Scanning /\ Keeper # NoTs /\ IsFinalTombstone /\ Cardinality(Page) < Limit
      /\ remove_committed_versions(Current, Page \cup {Keeper})
  BY DEF GcCollapse
<1>1. pass \in Pass /\ Current \in Key
  BY <1>0, ScanTypes DEF SInv, TypeOK
<1>2. pass.safe_point_ts \in Timestamp /\ pass.safe_point_ts <= watermark
  BY <1>1, GcSentinelAssumption DEF Pass, PassBounded, SInv
<1> DEFINE row == committed[Current]
           S == Page \cup {Keeper}
<1>4. row[Keeper] = Tombstone /\ get_latest_commit_ts(row) = Keeper
  BY <1>0 DEF IsFinalTombstone
<1>5. TimestampsOf(row) \subseteq S
  BY CollapseTakesAll
<1>6. Harmless(row, S, watermark)
  <2>1. watermark \in Int
    BY TimestampType DEF SInv, TypeOK
  <2>2. /\ get_visible_committed(row, pass.safe_point_ts) # NoTs
        /\ get_visible_committed(row, pass.safe_point_ts) = get_latest_commit_ts(row)
        /\ row[get_visible_committed(row, pass.safe_point_ts)] = Tombstone
    BY <1>0, <1>4 DEF Keeper
  <2> HIDE DEF S, row
  <2> QED
    BY <1>2, <1>5, <2>1, <2>2, CollapseHarmless
<1> QED
  BY <1>0, <1>1, <1>6, RemovalSafe

(* The state of a call after n more versions were removed within its limit. *)
LEMMA BudgetKept ==
    ASSUME SInv, Scanning, pass' = pass, watermark' = watermark, NEW n \in Nat,
           n <= Limit, Advance(n) \/ Suspend(n)
    PROVE  BudgetRespected' /\ PassBounded'
<1>1. call \in Call /\ Current \in Key
  BY ScanTypes DEF SInv, TypeOK
<1>2. call'.removed = call.removed + n
  BY <1>1, AdvanceType, SuspendType
<1>3. Limit \in Nat /\ Limit + call.removed = pass.max_versions /\ call.removed \in Nat
  BY <1>1, LimitBounds DEF Call
<1>4. call'.removed <= pass.max_versions
  BY <1>2, <1>3
<1>5. PassBounded'
  BY DEF PassBounded, SInv
<1> QED
  BY <1>4, <1>5 DEF BudgetRespected

(* Every step of a call, completed or failed, keeps the snapshot invariants *)
(* and its budget.                                                          *)
LEMMA GcSafe ==
    ASSUME SInv, Record, watermark' = watermark, GcStep \/ GcFail
    PROVE  /\ CommittedInHist' /\ IntentFresh' /\ VersionsStable' /\ HistGrows
           /\ BudgetRespected' /\ PassBounded'
<1> DEFINE Safe == CommittedInHist' /\ IntentFresh' /\ VersionsStable' /\ HistGrows
<1>0. UNCHANGED store => Safe
  <2>1. UNCHANGED store => committed' = committed /\ intents' = intents
    BY DEF store
  <2> QED
    BY <2>1, KeepsVersions
<1>1. TypeOK /\ GcTypeOK /\ BackendTypeOK /\ PassBounded
  BY DEF SInv, TypeOK
<1>2. Scanning => Limit \in Nat
  BY LimitBounds
<1>3. Scanning => \A t \in Removable : t < Keeper
  BY <1>1, ScanTypes
<1> HIDE DEF Safe
<1>4. CASE GcReject
  <2>1. UNCHANGED store /\ call' = NoCall /\ pass' = NoPass
    BY <1>4 DEF GcReject, store
  <2> QED
    BY <1>0, <2>1 DEF Safe, BudgetRespected, PassBounded
<1>5. CASE GcBegin
  <2>1. UNCHANGED store /\ pass' = pass /\ pass # NoPass
    BY <1>5 DEF GcBegin, store
  <2>2. call'.removed = 0
    BY <1>1, <1>5, GcBeginType
  <2>3. pass.max_versions \in Nat
    BY <1>1, <2>1, UsizeAssumption DEF GcTypeOK, Pass, Usize
  <2> QED
    BY <1>0, <1>1, <2>1, <2>2, <2>3 DEF Safe, BudgetRespected, PassBounded
<1>6. CASE GcReturn
  <2>1. /\ UNCHANGED store /\ call' = NoCall /\ pass \in Pass
        /\ pass' = NoPass \/ pass' = [pass EXCEPT !.cursor = call.next]
    BY <1>1, <1>6 DEF GcReturn, GcTypeOK, store
  <2>2. pass # NoPass
    BY <2>1, GcSentinelAssumption
  <2>3. \/ pass' = NoPass
        \/ /\ pass'.safe_point_ts = pass.safe_point_ts
           /\ pass'.max_versions = pass.max_versions
    BY <2>1 DEF Pass
  <2>4. PassBounded'
    BY <1>1, <2>2, <2>3 DEF PassBounded
  <2> QED
    BY <1>0, <2>1, <2>4 DEF Safe, BudgetRespected
<1>7. CASE GcSkip
  <2>1. Scanning /\ Advance(0) /\ UNCHANGED store /\ pass' = pass
    BY <1>7 DEF GcSkip, store
  <2>2. 0 \in Nat /\ 0 <= Limit
    BY <1>2, <2>1
  <2> QED
    BY <1>0, <2>1, <2>2, BudgetKept DEF Safe
<1>8. CASE GcOutOfBudget
  <2>1. Scanning /\ Suspend(0) /\ UNCHANGED store /\ pass' = pass
    BY <1>8 DEF GcOutOfBudget, store
  <2>2. 0 \in Nat /\ 0 <= Limit
    BY <1>2, <2>1
  <2> QED
    BY <1>0, <2>1, <2>2, BudgetKept DEF Safe
<1>9. CASE GcCollapse
  <2>1. /\ Scanning /\ Advance(Cardinality(Page) + 1) /\ pass' = pass
        /\ Cardinality(Page) < Limit
    BY <1>9 DEF GcCollapse
  <2>2. Cardinality(Page) + 1 \in Nat /\ Cardinality(Page) + 1 <= Limit
    BY <1>1, <1>2, <2>1, ScanTypes
  <2>3. BudgetRespected' /\ PassBounded'
    BY <2>1, <2>2, BudgetKept
  <2> QED
    BY <1>9, <2>3, CollapseSafe
<1>10. CASE GcTrimTombstone
  <2>1. /\ Scanning /\ Suspend(Cardinality(Removable)) /\ pass' = pass /\ Keeper # NoTs
        /\ remove_committed_versions(Current, Removable)
    BY <1>10 DEF GcTrimTombstone
  <2>2. BudgetRespected' /\ PassBounded'
    BY <2>1, PageBounds, BudgetKept
  <2> QED
    BY <1>3, <2>1, <2>2, PruneSafe
<1>11. CASE GcPrune
  <2>1. /\ Scanning /\ pass' = pass /\ Keeper # NoTs
        /\ Suspend(Cardinality(Removable)) \/ Advance(Cardinality(Removable))
        /\ remove_committed_versions(Current, Removable)
    BY <1>11 DEF GcPrune
  <2>2. BudgetRespected' /\ PassBounded'
    BY <2>1, PageBounds, BudgetKept
  <2> QED
    BY <1>3, <2>1, <2>2, PruneSafe
<1>12. CASE GcFail
  <2>1. Scanning /\ call' = NoCall /\ pass' = pass
    BY <1>12 DEF GcFail
  <2>2. BudgetRespected' /\ PassBounded'
    BY <1>1, <2>1 DEF BudgetRespected, PassBounded
  <2>3. CASE UNCHANGED store
    BY <1>0, <2>2, <2>3 DEF Safe
  <2>4. CASE ~UNCHANGED store
    <3>1. /\ Keeper # NoTs
          /\ \E n \in 1 .. Cardinality(Removable) - 1 :
                remove_committed_versions(Current, NewestN(Removable, n))
      BY <1>12, <2>4 DEF GcFail
    <3>2. PICK n \in 1 .. Cardinality(Removable) - 1 :
              remove_committed_versions(Current, NewestN(Removable, n))
      BY <3>1
    <3>3. \A t \in NewestN(Removable, n) : t < Keeper
      BY <1>3, <2>1 DEF NewestN
    <3> QED
      BY <2>1, <2>2, <3>1, <3>2, <3>3, PruneSafe
  <2> QED
    BY <2>3, <2>4
<1> QED
  BY <1>4, <1>5, <1>6, <1>7, <1>8, <1>9, <1>10, <1>11, <1>12 DEF GcStep

(* It removes versions of the key it is at, or nothing. *)
LEMMA GcRemoves ==
    ASSUME GcStep \/ GcFail
    PROVE  UNCHANGED store \/ (Scanning /\ \E S : remove_committed_versions(Current, S))
BY DEF GcStep, GcReject, GcBegin, GcSkip, GcOutOfBudget, GcCollapse, GcTrimTombstone,
   GcPrune, GcReturn, GcFail, store

(* What it removes of a row is older than a version it keeps, or it takes   *)
(* the newest version too: then the key is free and the version settled.     *)
LEMMA GcTakes ==
    ASSUME SInv, GcStep \/ GcFail, NEW k \in Key
    PROVE  \/ committed'[k] = committed[k]
           \/ \E keeper \in Timestamp, S \in SUBSET Timestamp :
                 /\ keeper <= watermark /\ committed[k][keeper] # NoVersion
                 /\ \A t \in S : t < keeper
                 /\ committed'[k] = Pruned(committed[k], S)
           \/ ~Locked(k) /\ get_latest_commit_ts(committed[k]) <= watermark
<1>1. TypeOK /\ GcTypeOK /\ BackendTypeOK /\ StoreOK
  BY DEF SInv, TypeOK, StoreOK
<1>2. CASE UNCHANGED store
  BY <1>2 DEF store
<1>3. ASSUME Scanning
      PROVE  /\ Current \in Key /\ watermark \in Int
             /\ Keeper # NoTs => /\ Keeper \in Timestamp /\ Keeper <= watermark
                                /\ committed[Current][Keeper] # NoVersion
             /\ \A t \in Removable : t \in Timestamp /\ t < Keeper
  <2>1. pass \in Pass /\ Current \in Key /\ \A t \in Removable : t < Keeper
    BY <1>1, <1>3, ScanTypes
  <2>2. pass.safe_point_ts \in Timestamp /\ pass.safe_point_ts <= watermark
    BY <2>1, GcSentinelAssumption DEF Pass, PassBounded, SInv
  <2>3. watermark \in Int
    BY <1>1, TimestampType DEF TypeOK
  <2>4. Keeper # NoTs => /\ Keeper \in Timestamp /\ Keeper <= pass.safe_point_ts
                         /\ committed[Current][Keeper] # NoVersion
    BY VisibleProp DEF Keeper
  <2>5. \A t \in Removable : t \in Timestamp
    BY DEF Removable, Page, get_committed_timestamps_before, NewestN, TimestampsOf
  <2> QED
    BY <2>1, <2>2, <2>3, <2>4, <2>5, TimestampType
<1>4. ASSUME Scanning, NEW S, remove_committed_versions(Current, S)
      PROVE  /\ committed'[Current] = Pruned(committed[Current], S)
             /\ \A j \in Key \ {Current} : committed'[j] = committed[j]
  <2> DEFINE c == Current
  <2>1. c \in Key /\ remove_committed_versions(c, S)
    BY <1>3, <1>4
  <2> HIDE DEF c
  <2>2. /\ committed'[c] = Pruned(committed[c], S)
        /\ \A j \in Key \ {c} : committed'[j] = committed[j]
    BY <1>1, <2>1, RemovalStore
  <2> QED
    BY <2>2 DEF c
<1>5. CASE GcCollapse
  <2>1. /\ Scanning /\ Keeper # NoTs /\ IsFinalTombstone
        /\ remove_committed_versions(Current, Page \cup {Keeper})
    BY <1>5 DEF GcCollapse
  <2>2. ~Locked(Current) /\ get_latest_commit_ts(committed[Current]) <= watermark
    BY <1>3, <2>1 DEF IsFinalTombstone
  <2> QED
    BY <1>4, <2>1, <2>2
<1>6. ASSUME Scanning, Keeper # NoTs, NEW S, S \subseteq Removable,
             remove_committed_versions(Current, S)
      PROVE  \/ committed'[k] = committed[k]
             \/ \E keeper \in Timestamp, T \in SUBSET Timestamp :
                   /\ keeper <= watermark /\ committed[k][keeper] # NoVersion
                   /\ \A t \in T : t < keeper
                   /\ committed'[k] = Pruned(committed[k], T)
  <2>1. /\ S \in SUBSET Timestamp /\ \A t \in S : t < Keeper
        /\ Keeper \in Timestamp /\ Keeper <= watermark
        /\ committed[Current][Keeper] # NoVersion
    BY <1>3, <1>6
  <2>2. CASE k = Current
    BY <1>4, <1>6, <2>1, <2>2
  <2>3. CASE k # Current
    BY <1>4, <1>6, <2>3
  <2> QED
    BY <2>2, <2>3
<1>7. ASSUME ~UNCHANGED store, ~GcCollapse
      PROVE  Scanning /\ Keeper # NoTs /\ \E S : /\ S \subseteq Removable
                                                /\ remove_committed_versions(Current, S)
  <2>1. CASE GcTrimTombstone \/ GcPrune
    BY <2>1 DEF GcTrimTombstone, GcPrune
  <2>2. CASE GcFail
    <3>1. PICK n \in 1 .. Cardinality(Removable) - 1 :
              remove_committed_versions(Current, NewestN(Removable, n))
      BY <1>7, <2>2 DEF GcFail
    <3>2. NewestN(Removable, n) \subseteq Removable
      BY DEF NewestN
    <3> QED
      BY <1>7, <2>2, <3>1, <3>2 DEF GcFail
  <2> QED
    BY <1>7, <2>1, <2>2 DEF GcStep, GcReject, GcBegin, GcSkip, GcOutOfBudget, GcReturn, store
<1> QED
  BY <1>2, <1>5, <1>6, <1>7

(* ... so it commits nothing, and touches no lock. *)
LEMMA GcCommitsNothing ==
    ASSUME SInv, Record, GcStep \/ GcFail
    PROVE  hist' = hist /\ intents' = intents
<1>1. TypeOK /\ CommittedInHist /\ StoreOK /\ GcTypeOK
  BY DEF SInv, TypeOK, StoreOK
<1>2. CASE UNCHANGED store
  <2>1. committed' = committed /\ intents' = intents
    BY <1>2 DEF store
  <2>2. committed' \in [Key -> Row]
    BY <1>1, <2>1 DEF StoreOK, BackendTypeOK
  <2> QED
    BY <1>1, <2>1, <2>2, NoCommit
<1>3. ASSUME Scanning, NEW S, remove_committed_versions(Current, S)
      PROVE  hist' = hist /\ intents' = intents
  <2> DEFINE k == Current
  <2>1. k \in Key
    BY <1>1, <1>3, ScanTypes
  <2>2. remove_committed_versions(k, S)
    BY <1>3
  <2> HIDE DEF k
  <2>3. /\ StoreOK'
        /\ intents' = intents
        /\ committed'[k] = Pruned(committed[k], S)
        /\ \A j \in Key \ {k} : committed'[j] = committed[j]
    BY <1>1, <2>1, <2>2, RemovalStore
  <2>4. committed' \in [Key -> Row]
    BY <2>3 DEF StoreOK, BackendTypeOK
  <2>5. \A j \in Key, t \in Timestamp : committed'[j][t] \in {committed[j][t], NoVersion}
    BY <2>3 DEF Pruned
  <2> QED
    BY <1>1, <2>3, <2>4, <2>5, NoCommit
<1> QED
  BY <1>2, <1>3, GcRemoves

(* A pass that starts raises the watermark, and readers above the new one   *)
(* were above the old one.                                                  *)
LEMMA StartSafe ==
    ASSUME Contract, SInv, Start
    PROVE  /\ CommittedInHist' /\ IntentFresh' /\ VersionsStable' /\ HistGrows
           /\ BudgetRespected' /\ PassBounded' /\ watermark <= watermark'
<1>1. PICK safe \in SafePoints, budget \in Budgets, collapse \in Collapses :
          /\ StartPass(safe, budget, collapse)
          /\ watermark' = Max({watermark, safe})
          /\ Record
  BY DEF Start
<1>2. committed' = committed /\ intents' = intents /\ call' = NoCall
  BY <1>1 DEF StartPass, store
<1>3. /\ pass'.safe_point_ts = safe /\ pass'.max_versions = budget.max_versions
      /\ budget.max_versions < UsizeMax
  BY <1>1 DEF StartPass, Contract
<1>4. watermark \in Int /\ safe \in Int
  BY InputAssumption, TimestampType DEF SInv, TypeOK
<1>5. watermark' \in Int /\ watermark <= watermark' /\ safe <= watermark'
  BY <1>1, <1>4, MaxOfTwo
<1>6. TypeOK /\ CommittedInHist /\ committed' \in [Key -> Row]
  BY <1>2 DEF SInv, TypeOK, BackendTypeOK
<1>7. hist' = hist /\ CommittedInHist'
  BY <1>1, <1>2, <1>6, NoCommit
<1>8. IntentFresh'
  BY <1>2, <1>7 DEF IntentFresh, Locked, SInv
<1>9. VersionsStable'
  <2> SUFFICES ASSUME NEW k \in Key, NEW r \in Timestamp, r >= watermark'
               PROVE  SeesSame(committed[k], hist[k], r)
    BY <1>2, <1>7, StableSees
  <2>1. r >= watermark
    BY <1>4, <1>5, TimestampType
  <2> QED
    BY <2>1, StableSees DEF SInv
<1>10. BudgetRespected' /\ PassBounded'
  BY <1>2, <1>3, <1>5 DEF BudgetRespected, PassBounded
<1> QED
  BY <1>5, <1>7, <1>8, <1>9, <1>10 DEF HistGrows

-----------------------------------------------------------------------------
(* The theorems. *)

(* SInv is inductive, the history only grows above its newest versions and  *)
(* the watermark only rises.                                                *)
LEMMA SnapshotStep ==
    ASSUME Contract, SInv, [Next]_vars
    PROVE  SInv' /\ HistGrows /\ watermark <= watermark'
<1>0. watermark \in Int
  BY TimestampType DEF SInv, TypeOK
<1>1. TypeOK' /\ IndexExact'
  BY TypeAndIndexStep DEF SInv
<1> SUFFICES /\ CommittedInHist' /\ IntentFresh' /\ VersionsStable' /\ HistGrows
             /\ BudgetRespected' /\ PassBounded' /\ watermark <= watermark'
  BY <1>1 DEF SInv
<1>2. CASE Client
  <2>1. EngineOp /\ Record /\ watermark' = watermark /\ pass' = pass /\ call' = call
    BY <1>2 DEF Client, Observe, gcVars
  <2>2. BudgetRespected' /\ PassBounded'
    BY <2>1 DEF BudgetRespected, PassBounded, SInv
  <2> QED
    BY <1>0, <2>1, <2>2, ClientSafe
<1>3. CASE Start
  BY <1>3, StartSafe
<1>4. CASE Collect \/ Fail
  <2>1. Record /\ watermark' = watermark /\ (GcStep \/ GcFail)
    BY <1>4 DEF Collect, Fail, Observe
  <2> QED
    BY <1>0, <2>1, GcSafe
<1>5. CASE UNCHANGED vars
  <2>1. /\ committed' = committed /\ intents' = intents /\ pass' = pass /\ call' = call
        /\ hist' = hist /\ watermark' = watermark
    BY <1>5 DEF vars, store, gcVars, ghosts
  <2> QED
    BY <1>0, <2>1 DEF SInv, CommittedInHist, IntentFresh, Locked, VersionsStable,
       BudgetRespected, PassBounded, HistGrows
<1> QED
  BY <1>2, <1>3, <1>4, <1>5 DEF Next

LEMMA SnapshotInit ==
    ASSUME Init
    PROVE  SInv
<1>1. TypeOK /\ IndexExact
  BY InitTypes
<1>2. hist = committed /\ call = NoCall /\ pass = NoPass /\ \A k \in Key : ~Locked(k)
  BY DEF Init, BackendInit, GcInit, Locked
<1> QED
  BY <1>1, <1>2 DEF SInv, CommittedInHist, IntentFresh, VersionsStable, BudgetRespected,
     PassBounded

(* SInv holds in every reachable state. *)
LEMMA SnapshotInvariant ==
    ASSUME Contract
    PROVE  Spec => []SInv
<1>1. Init => SInv
  BY SnapshotInit
<1>2. SInv /\ [Next]_vars => SInv'
  BY SnapshotStep
<1> QED
  BY <1>1, <1>2, PTL DEF Spec

(* First committer wins: while a key is locked, nothing newer than the      *)
(* intent's start_ts is ever committed on it, by any operation.             *)
THEOREM FirstCommitterWins ==
    ASSUME Contract
    PROVE  Spec => []IntentFresh
<1>1. SInv => IntentFresh
  BY DEF SInv
<1> QED
  BY <1>1, SnapshotInvariant, PTL

(* No interleaving of collection passes, partial failures and tombstone     *)
(* collapses changes what a reader at or above the safe points sees.        *)
THEOREM CollectionInvisible ==
    ASSUME Contract
    PROVE  Spec => []GcTransparent
<1>1. SInv => GcTransparent
  BY StableTransparent DEF SInv
<1> QED
  BY <1>1, SnapshotInvariant, PTL

(* A gc_incremental call removes at most max_versions versions, tombstones  *)
(* included, so `max_versions - versions_removed` never underflows.         *)
THEOREM BudgetSafe ==
    ASSUME Contract
    PROVE  Spec => []BudgetRespected
<1>1. SInv => BudgetRespected
  BY DEF SInv
<1> QED
  BY <1>1, SnapshotInvariant, PTL

(* Versions of a key are committed in timestamp order, even across versions *)
(* that garbage collection already removed.                                 *)
THEOREM CommitsInOrder ==
    ASSUME Contract
    PROVE  Spec => CommitOrder
<1>1. ASSUME SInv, [Next]_vars
      PROVE  \A k \in Key, t \in Timestamp :
                 t <= get_latest_commit_ts(hist[k]) => hist'[k][t] = hist[k][t]
  <2> SUFFICES ASSUME NEW k \in Key, NEW t \in Timestamp,
                      t <= get_latest_commit_ts(hist[k])
               PROVE  hist'[k][t] = hist[k][t]
    OBVIOUS
  <2>1. HistGrows
    BY <1>1, SnapshotStep
  <2>2. CASE hist'[k] = hist[k]
    BY <2>2
  <2>3. ASSUME NEW c \in Timestamp, NEW m \in Mutation, c > get_latest_commit_ts(hist[k]),
               hist'[k] = Written(hist[k], c, m)
        PROVE  hist'[k][t] = hist[k][t]
    <3>1. hist[k] \in Row
      BY <1>1 DEF SInv, TypeOK
    <3>2. t # c
      BY <2>3, HistLatestInt, TimestampType
    <3> QED
      BY <2>3, <3>1, <3>2, WrittenAt
  <2> QED
    BY <2>1, <2>2, <2>3 DEF HistGrows
<1> QED
  BY <1>1, SnapshotInvariant, PTL DEF Spec, CommitOrder

(* A snapshot at r never changes once a version at or above r exists, as     *)
(* long as no safe point passes r, whatever is committed or collected; and   *)
(* while a version above r is stored, it keeps reporting the same version.   *)
THEOREM ReadsRepeat ==
    ASSUME Contract
    PROVE  Spec => RepeatableReads
<1>1. ASSUME SInv, [Next]_vars
      PROVE  \A k \in Key, r \in Timestamp :
                 /\ r >= watermark'
                 /\ r <= get_latest_commit_ts(hist[k])
                 => /\ read(committed'[k], r) = read(committed[k], r)
                    /\ r < get_latest_commit_ts(committed[k]) =>
                          read_with_version(committed'[k], r) =
                              read_with_version(committed[k], r)
  <2> SUFFICES ASSUME NEW k \in Key, NEW r \in Timestamp, r >= watermark',
                      r <= get_latest_commit_ts(hist[k])
               PROVE  /\ read(committed'[k], r) = read(committed[k], r)
                      /\ r < get_latest_commit_ts(committed[k]) =>
                            read_with_version(committed'[k], r) =
                                read_with_version(committed[k], r)
    OBVIOUS
  <2>1. SInv' /\ HistGrows /\ watermark <= watermark'
    BY <1>1, SnapshotStep
  <2>2. /\ watermark \in Int /\ watermark' \in Int
        /\ hist[k] \in Row /\ committed[k] \in Row
    BY <1>1, <2>1, TimestampType DEF SInv, TypeOK, BackendTypeOK
  <2>3. r >= watermark
    BY <2>1, <2>2, TimestampType
  <2>4. read(committed[k], r) = read(hist[k], r)
    BY <1>1, <2>3, StableSees DEF SInv, SeesSame, read
  <2>5. read(committed'[k], r) = read(hist'[k], r)
    BY <2>1, StableSees DEF SInv, SeesSame, read
  <2>6. read(hist'[k], r) = read(hist[k], r)
    <3>1. CASE hist'[k] = hist[k]
      BY <3>1
    <3>2. ASSUME NEW c \in Timestamp, NEW m \in Mutation, c > get_latest_commit_ts(hist[k]),
                 hist'[k] = Written(hist[k], c, m)
          PROVE  read(hist'[k], r) = read(hist[k], r)
      <4>1. ~(r >= c)
        BY <3>2, HistLatestInt, TimestampType
      <4> QED
        BY <2>2, <3>2, <4>1, ReadAfterWrite
    <3> QED
      BY <2>1, <3>1, <3>2 DEF HistGrows
  <2>7. ASSUME r < get_latest_commit_ts(committed[k])
        PROVE  get_visible_committed(committed'[k], r) = get_visible_committed(committed[k], r)
    <3>1. CASE committed'[k] = committed[k]
      BY <3>1
    <3>2. CASE EngineOp
      <4>1. ASSUME NEW c \in Timestamp, NEW m \in Mutation,
                   c > get_latest_commit_ts(committed[k]),
                   committed'[k] = Written(committed[k], c, m)
            PROVE  get_visible_committed(committed'[k], r) =
                       get_visible_committed(committed[k], r)
        <5>1. ~(r >= c)
          BY <2>7, <4>1, LatestInt, TimestampType
        <5> QED
          BY <2>2, <4>1, <5>1, ReadAfterWrite
      <4> QED
        BY <1>1, <3>1, <3>2, <4>1, RowsGrow
    <3>3. CASE GcStep \/ GcFail
      <4>1. ASSUME NEW keeper \in Timestamp, NEW S \in SUBSET Timestamp,
                   keeper <= watermark, committed[k][keeper] # NoVersion,
                   \A t \in S : t < keeper, committed'[k] = Pruned(committed[k], S)
            PROVE  get_visible_committed(committed'[k], r) =
                       get_visible_committed(committed[k], r)
        <5>1. r >= keeper
          BY <2>2, <2>3, <4>1, TimestampType
        <5> QED
          BY <4>1, <5>1, OlderGone
      <4>2. ~(get_latest_commit_ts(committed[k]) <= watermark)
        BY <2>2, <2>3, <2>7, LatestInt, TimestampType
      <4> QED
        BY <1>1, <3>1, <3>3, <4>1, <4>2, GcTakes
    <3>4. EngineOp \/ (GcStep \/ GcFail) \/ UNCHANGED store
      BY <1>1 DEF Next, Client, Start, StartPass, Collect, Fail, vars, store
    <3> QED
      BY <3>1, <3>2, <3>3, <3>4 DEF store
  <2>8. read(committed'[k], r) = read(committed[k], r)
    BY <2>4, <2>5, <2>6
  <2> QED
    BY <2>7, <2>8 DEF read_with_version
<1> QED
  BY <1>1, SnapshotInvariant, PTL DEF Spec, RepeatableReads

(* A step leaves the history of a row alone if it leaves the row alone. *)
LEMMA SameRow ==
    ASSUME SInv, Record, NEW k \in Key, committed'[k] = committed[k]
    PROVE  hist'[k] = hist[k]
<1>1. hist[k] \in Row /\ hist'[k] = [t \in Timestamp |->
          IF committed'[k][t] # NoVersion THEN committed'[k][t] ELSE hist[k][t]]
  BY DEF SInv, TypeOK, Record
<1>2. \A t \in Timestamp : (IF committed'[k][t] # NoVersion THEN committed'[k][t]
                            ELSE hist[k][t]) = hist[k][t]
  BY DEF SInv, CommittedInHist
<1> QED
  BY <1>1, <1>2 DEF Row

(* An operation of the engine leaves a key that is locked after it with the  *)
(* row it had, and with the lock it had or one that the contract allows.     *)
LEMMA LocksAllowed ==
    ASSUME Contract, SInv, EngineOp, NEW k \in Key, intents'[k] # NoIntent
    PROVE  /\ committed'[k] = committed[k]
           /\ intents'[k] = intents[k] \/ Allowed(k, intents'[k].start_ts)
<1>0. TypeOK /\ IntentFresh /\ BackendTypeOK
  BY DEF SInv, TypeOK
<1>1. ASSUME NEW D \in SUBSET Key, NEW c \in Timestamp, NEW versions \in [D -> Mutation],
             Publishes(D, c, versions)
      PROVE  committed'[k] = committed[k] /\ intents'[k] = intents[k]
  <2> DEFINE rows == WithVersions(versions, c)
  <2>1. \A j \in Key \ D : rows[j] = committed[j]
    BY <1>0, WithVersionsProp
  <2> HIDE DEF rows
  <2>2. committed' = rows /\ k \in Key \ D /\ intents'[k] = intents[k]
    BY <1>1 DEF Publishes, rows
  <2> QED
    BY <2>1, <2>2
<1>2. CASE PublishesDirect
  BY <1>1, <1>2 DEF PublishesDirect
<1>3. CASE PublishesLocked
  BY <1>1, <1>3 DEF PublishesLocked
<1>4. CASE Acquires
  BY <1>4 DEF Acquires
<1>5. CASE Releases
  BY <1>5 DEF Releases
<1> QED
  BY <1>0, <1>2, <1>3, <1>4, <1>5, EngineEffects

(* No collapse, however it interleaves with the transactions, puts the       *)
(* start_ts of a lock among the timestamps the code forbids its callers.     *)
THEOREM LocksStayUsable ==
    ASSUME Contract
    PROVE  Spec => []LocksUnfenced
<1>1. Init => LocksUnfenced
  BY DEF Init, BackendInit, LocksUnfenced, Locked
<1>2. ASSUME SInv, LocksUnfenced, [Next]_vars
      PROVE  LocksUnfenced'
  <2> DEFINE Usable(k) ==
                 get_latest_commit_ts(committed'[k]) < get_latest_commit_ts(hist'[k])
                     => intents'[k].start_ts > get_latest_commit_ts(hist'[k])
  <2> SUFFICES ASSUME NEW k \in Key, intents'[k] # NoIntent
               PROVE  Usable(k)
    BY DEF LocksUnfenced, Locked, Allowed, Contract
  <2>1. ASSUME hist'[k] = hist[k], Allowed(k, intents'[k].start_ts),
               get_latest_commit_ts(committed'[k]) = get_latest_commit_ts(committed[k])
        PROVE  Usable(k)
    BY <2>1 DEF Allowed, Contract
  <2> HIDE DEF Usable
  <2>2. intents'[k] = intents[k] => Allowed(k, intents'[k].start_ts)
    BY <1>2 DEF LocksUnfenced, Locked
  <2>3. CASE Client
    <3>1. EngineOp /\ Record
      BY <2>3 DEF Client, Observe
    <3>2. committed'[k] = committed[k] /\ Allowed(k, intents'[k].start_ts)
      BY <1>2, <2>2, <3>1, LocksAllowed
    <3>3. hist'[k] = hist[k]
      BY <1>2, <3>1, <3>2, SameRow
    <3> QED
      BY <2>1, <3>2, <3>3
  <2>4. CASE Collect \/ Fail
    <3>1. Record /\ (GcStep \/ GcFail)
      BY <2>4 DEF Collect, Fail, Observe
    <3>2. hist' = hist /\ intents' = intents
      BY <1>2, <3>1, GcCommitsNothing
    <3>3. Locked(k)
      BY <3>2 DEF Locked
    <3>4. get_latest_commit_ts(committed'[k]) = get_latest_commit_ts(committed[k])
      BY <1>2, <3>1, <3>3, GcTakes, OlderGone
    <3> QED
      BY <2>1, <2>2, <3>2, <3>4
  <2>5. CASE Start \/ UNCHANGED vars
    <3>1. committed' = committed /\ intents' = intents /\ (Record \/ hist' = hist)
      BY <2>5 DEF Start, StartPass, vars, store, ghosts
    <3>2. hist'[k] = hist[k]
      BY <1>2, <3>1, SameRow
    <3> QED
      BY <2>1, <2>2, <3>1, <3>2
  <2> QED
    BY <1>2, <2>3, <2>4, <2>5 DEF Next
<1> QED
  BY <1>1, <1>2, SnapshotInvariant, PTL DEF Spec

(* The version that an ExpectedVersion guard compares at a read timestamp at *)
(* or above the safe points stays the same version; a collapse may turn a    *)
(* tombstone into no version, and nothing else ever does.                    *)
THEOREM VersionsKept ==
    ASSUME Contract
    PROVE  Spec => []VersionsStable
<1>1. SInv => VersionsStable
  BY DEF SInv
<1> QED
  BY <1>1, SnapshotInvariant, PTL

(* Whatever commits, collects or fails, a locked key gains a version only by  *)
(* the commit of its own intent, within the bounds the intent carries; the    *)
(* lock is gone and every later reader sees what the transaction itself saw.  *)
THEOREM LocksIsolate ==
    ASSUME Contract
    PROVE  Spec => LockedKeyIsolation
<1>1. ASSUME SInv, [Next]_vars, NEW k \in Key, Locked(k), hist'[k] # hist[k]
      PROVE  LET own == read_own_write(k, intents[k].txn_id, intents[k].start_ts, 0)
             IN  /\ intents'[k] = NoIntent
                 /\ \E c \in Timestamp :
                       /\ c > intents[k].start_ts /\ c >= intents[k].min_commit_ts
                       /\ hist'[k] = [hist[k] EXCEPT ![c] = own]
                       /\ \A r \in Timestamp :
                             r >= c => read(committed'[k], r) = own
  <2>0. /\ TypeOK /\ BackendTypeOK /\ CommittedInHist /\ IntentFresh /\ VersionsStable
        /\ committed \in [Key -> Row] /\ hist \in [Key -> Row]
    BY <1>1 DEF SInv, TypeOK, BackendTypeOK
  <2>1. CASE Client
    <3>1. EngineOp /\ Record /\ watermark' = watermark
      BY <2>1 DEF Client, Observe
    <3>2. ASSUME committed' = committed PROVE FALSE
      BY <1>1, <2>0, <3>1, <3>2, NoCommit
    <3>3. CASE PublishesDirect
      <4>1. PICK D \in SUBSET Key, c \in Timestamp : \E versions \in [D -> Mutation] :
                (\A j \in D : intents[j] = NoIntent) /\ Publishes(D, c, versions)
        BY <3>3 DEF PublishesDirect
      <4>2. PICK versions \in [D -> Mutation] :
                (\A j \in D : intents[j] = NoIntent) /\ Publishes(D, c, versions)
        BY <4>1
      <4>3. \A j \in Key \ D : hist'[j] = hist[j]
        BY <2>0, <3>1, <4>2, CommitAbove DEF Publishes
      <4> QED
        BY <1>1, <4>2, <4>3 DEF Locked
    <3>4. CASE PublishesLocked
      <4>1. PICK D \in SUBSET Key, c \in Timestamp, txn_id \in TxnId,
                 start_ts \in Timestamp :
                /\ c > start_ts
                /\ \A j \in D : /\ LockedBy(j, txn_id, start_ts)
                                /\ c >= intents[j].min_commit_ts
                /\ IntentVersions(D) \in [D -> Mutation]
                /\ Publishes(D, c, IntentVersions(D))
        BY <3>4 DEF PublishesLocked
      <4>2. /\ \A j \in D : hist'[j] = Written(hist[j], c, IntentVersions(D)[j])
            /\ \A j \in Key \ D : hist'[j] = hist[j]
        BY <2>0, <3>1, <4>1, CommitAbove DEF Publishes
      <4>3. k \in D
        BY <1>1, <4>2
      <4> DEFINE own == read_own_write(k, intents[k].txn_id, intents[k].start_ts, 0)
      <4>4. own = intents[k].mutation /\ own = IntentVersions(D)[k] /\ own \in Mutation
        BY <1>1, <4>1, <4>3 DEF read_own_write, LockedBy, IntentVersions
      <4>5. intents[k].start_ts = start_ts /\ intents'[k] = NoIntent
        BY <4>1, <4>3 DEF LockedBy, Publishes
      <4>6. hist'[k] = [hist[k] EXCEPT ![c] = own]
        BY <4>2, <4>3, <4>4 DEF Written
      <4>7. ASSUME NEW r \in Timestamp, r >= c
            PROVE  read(committed'[k], r) = own
        <5>1. committed'[k] = Written(committed[k], c, own)
          <6> DEFINE rows == WithVersions(IntentVersions(D), c)
          <6>1. rows[k] = Written(committed[k], c, IntentVersions(D)[k])
            BY <2>0, <4>1, <4>3, WithVersionsProp
          <6> HIDE DEF rows
          <6>2. committed' = rows
            BY <4>1 DEF Publishes, rows
          <6> QED
            BY <4>4, <6>1, <6>2
        <5>2. c > get_latest_commit_ts(committed[k])
          BY <2>0, <4>1, <4>3, LatestWithinHist, LatestInt, HistLatestInt, TimestampType
             DEF Publishes
        <5> HIDE DEF own
        <5> QED
          BY <2>0, <4>4, <4>7, <5>1, <5>2, ReadAfterWrite
      <4> HIDE DEF own
      <4> QED
        BY <4>1, <4>3, <4>5, <4>6, <4>7 DEF own
    <3> QED
      BY <2>0, <3>1, <3>2, <3>3, <3>4, EngineEffects DEF Acquires, Releases
  <2>2. CASE Start
    <3>1. Record /\ committed' = committed
      BY <2>2 DEF Start, StartPass, store
    <3> QED
      BY <1>1, <2>0, <3>1, NoCommit
  <2>3. CASE Collect \/ Fail
    <3>1. Record /\ (GcStep \/ GcFail)
      BY <2>3 DEF Collect, Fail, Observe
    <3> QED
      BY <1>1, <3>1, GcCommitsNothing
  <2>4. CASE UNCHANGED vars
    BY <1>1, <2>4 DEF vars, ghosts
  <2> QED
    BY <1>1, <2>1, <2>2, <2>3, <2>4 DEF Next
<1>2. SInv /\ [Next]_vars =>
          \A k \in Key : Locked(k) /\ hist'[k] # hist[k] =>
              LET own == read_own_write(k, intents[k].txn_id, intents[k].start_ts, 0)
              IN  /\ intents'[k] = NoIntent
                  /\ \E c \in Timestamp :
                        /\ c > intents[k].start_ts /\ c >= intents[k].min_commit_ts
                        /\ hist'[k] = [hist[k] EXCEPT ![c] = own]
                        /\ \A r \in Timestamp :
                              r >= c => read(committed'[k], r) = own
  BY <1>1
<1> QED
  BY <1>2, SnapshotInvariant, PTL DEF Spec, LockedKeyIsolation

-----------------------------------------------------------------------------
(* MvccStore implements SnapshotStore.  Each effect of an engine operation *)
(* is one abstract step, the start of a pass raises the frontier or is     *)
(* nothing, and every step of garbage collection is nothing.               *)

(* Committing above the history publishes the contents from c on. *)
LEMMA PublishesView ==
    ASSUME SInv, Record, watermark' = watermark,
           NEW D \in SUBSET Key, NEW c \in Timestamp, NEW versions \in [D -> Mutation],
           Publishes(D, c, versions)
    PROVE  Snapshot!Publish(versions, c)
<1>0. /\ TypeOK /\ BackendTypeOK /\ CommittedInHist /\ VersionsStable
      /\ committed \in [Key -> Row] /\ hist \in [Key -> Row]
      /\ DOMAIN versions = D
  BY DEF SInv, TypeOK, BackendTypeOK
<1>1. /\ committed' = WithVersions(versions, c)
      /\ \A k \in D : c > get_latest_commit_ts(hist[k])
  BY DEF Publishes
<1>2. /\ \A k \in D : hist'[k] = Written(hist[k], c, versions[k])
      /\ \A k \in Key \ D : hist'[k] = hist[k]
  BY <1>0, <1>1, CommitAbove
<1>3. /\ \A k \in D : committed'[k] = Written(committed[k], c, versions[k])
      /\ \A k \in Key \ D : committed'[k] = committed[k]
  <2> DEFINE rows == WithVersions(versions, c)
  <2>1. /\ \A k \in D : rows[k] = Written(committed[k], c, versions[k])
        /\ \A k \in Key \ D : rows[k] = committed[k]
    BY <1>0, WithVersionsProp
  <2> HIDE DEF rows
  <2>2. committed' = rows
    BY <1>1 DEF rows
  <2> QED
    BY <2>1, <2>2
<1>4. \A k \in Key : get_latest_commit_ts(hist'[k]) =
          IF k \in D THEN c ELSE get_latest_commit_ts(hist[k])
  <2> TAKE k \in Key
  <2>1. CASE k \in D
    <3>1. hist[k] \in Row /\ versions[k] \in Mutation
      BY <1>0, <2>1
    <3> QED
      BY <1>1, <1>2, <2>1, <3>1, LatestAfterWrite
  <2>2. CASE k \notin D
    BY <1>2, <2>2
  <2> QED
    BY <2>1, <2>2
<1>5. \A k \in Key, r \in Timestamp : read(committed'[k], r) =
          IF k \in D /\ r >= c THEN versions[k] ELSE read(committed[k], r)
  <2> TAKE k \in Key, r \in Timestamp
  <2>1. CASE k \in D
    <3>1. committed[k] \in Row /\ versions[k] \in Mutation
      BY <1>0, <2>1
    <3>2. c > get_latest_commit_ts(committed[k])
      BY <1>0, <1>1, <2>1, LatestWithinHist, LatestInt, HistLatestInt, TimestampType
    <3> QED
      BY <1>3, <2>1, <3>1, <3>2, ReadAfterWrite
  <2>2. CASE k \notin D
    BY <1>3, <2>2
  <2> QED
    BY <2>1, <2>2
<1>6. newest' = [k \in Key |-> IF k \in DOMAIN versions THEN c ELSE newest[k]]
  BY <1>0, <1>4 DEF newest
<1>7. promised' = [k \in Key |-> [r \in Timestamp |->
          IF k \in DOMAIN versions /\ r >= c /\ r >= watermark
          THEN versions[k] ELSE promised[k][r]]]
  <2>1. \A k \in Key, r \in Timestamp :
            (IF r < watermark THEN Hidden ELSE read(committed'[k], r)) =
            IF k \in DOMAIN versions /\ r >= c /\ r >= watermark
            THEN versions[k] ELSE promised[k][r]
    <3> TAKE k \in Key, r \in Timestamp
    <3>1. promised[k][r] = IF r < watermark THEN Hidden ELSE read(committed[k], r)
      BY DEF promised
    <3>2. r < watermark <=> ~(r >= watermark)
      BY <1>0, TimestampType DEF TypeOK
    <3> QED
      BY <1>0, <1>5, <3>1, <3>2
  <2>2. promised' = [k \in Key |-> [r \in Timestamp |->
            IF r < watermark THEN Hidden ELSE read(committed'[k], r)]]
    BY DEF promised
  <2> HIDE DEF promised
  <2> QED
    BY <2>1, <2>2
<1> QED
  BY <1>6, <1>7 DEF Snapshot!Publish

(* A step that neither commits nor starts a pass changes no promised read. *)
LEMMA SamePromises ==
    ASSUME TypeOK, VersionsStable, VersionsStable', hist' = hist, watermark' = watermark
    PROVE  promised' = promised /\ newest' = newest
<1>1. ASSUME NEW k \in Key, NEW r \in Timestamp
      PROVE  (IF r < watermark THEN Hidden ELSE read(committed'[k], r)) =
             (IF r < watermark THEN Hidden ELSE read(committed[k], r))
  <2>1. CASE r < watermark
    BY <2>1
  <2>2. CASE r >= watermark
    <3>1. /\ SeesSame(committed[k], hist[k], r)
          /\ SeesSame(committed'[k], hist[k], r)
      BY <2>2, StableSees
    <3> QED
      BY <3>1 DEF SeesSame, read
  <2> QED
    BY <2>1, <2>2, TimestampType DEF TypeOK
<1>2. promised' = promised
  <2>1. promised' = [k \in Key |-> [r \in Timestamp |->
            IF r < watermark THEN Hidden ELSE read(committed'[k], r)]]
    BY DEF promised
  <2> QED
    BY <1>1, <2>1 DEF promised
<1> QED
  BY <1>2 DEF newest

(* Every operation of the engine is one step of the snapshot store. *)
LEMMA ClientRefines ==
    ASSUME Contract, SInv, SInv', EngineOp, Record, watermark' = watermark
    PROVE  [Snapshot!Next]_(Snapshot!snapshotVars)
<1>0. /\ TypeOK /\ CommittedInHist /\ IntentFresh /\ VersionsStable /\ VersionsStable'
      /\ intents \in [Key -> Intent \cup {NoIntent}]
      /\ intents' \in [Key -> Intent \cup {NoIntent}]
      /\ committed' \in [Key -> Row]
  BY DEF SInv, TypeOK, BackendTypeOK
<1>1. ASSUME committed' = committed
      PROVE  promised' = promised /\ newest' = newest
  <2>1. hist' = hist
    BY <1>0, <1>1, NoCommit
  <2> QED
    BY <1>0, <2>1, SamePromises
<1>2. CASE committed' = committed /\ intents' = intents
  BY <1>1, <1>2 DEF Snapshot!snapshotVars
<1>3. CASE Acquires
  <2>1. PICK D \in SUBSET Key, txn_id \in TxnId, start_ts \in Timestamp :
            /\ committed' = committed
            /\ \A k \in D : /\ intents[k] = NoIntent
                            /\ start_ts >= get_latest_commit_ts(hist[k])
                            /\ Allowed(k, start_ts)
                            /\ intents'[k] \in Intent
                            /\ intents'[k].txn_id = txn_id
                            /\ intents'[k].start_ts = start_ts
            /\ \A k \in Key \ D : intents'[k] = intents[k]
    BY <1>3 DEF Acquires
  <2>2. \A k \in D : newest[k] <= start_ts
    BY <2>1, HistLatestInt, TimestampType DEF newest
  <2>3. \A k \in D : intents'[k] # NoIntent
    BY <2>1, IntentAssumption
  <2>4. \A k \in D : Snapshot!HeldBy(k, txn_id, start_ts)'
    BY <2>1, <2>3 DEF Snapshot!HeldBy
  <2>5. promised' = promised /\ newest' = newest
    BY <1>1, <2>1
  <2>6. Snapshot!Acquire
    BY <2>1, <2>2, <2>4, <2>5 DEF Snapshot!Acquire
  <2> QED
    BY <2>6 DEF Snapshot!Next
<1>4. CASE Releases
  <2>1. PICK D \in SUBSET Key, txn_id \in TxnId, start_ts \in Timestamp :
            /\ committed' = committed
            /\ \A k \in D : LockedBy(k, txn_id, start_ts) /\ intents'[k] = NoIntent
            /\ \A k \in Key \ D : intents'[k] = intents[k]
    BY <1>4 DEF Releases
  <2>2. Snapshot!Release(D)
    BY <1>0, <2>1 DEF Snapshot!Release
  <2>3. Snapshot!GiveUp
    BY <1>1, <2>1, <2>2 DEF Snapshot!GiveUp, Snapshot!HeldBy, LockedBy, Locked
  <2> QED
    BY <2>3 DEF Snapshot!Next
<1>5. CASE PublishesDirect
  <2>1. PICK D \in SUBSET Key, c \in Timestamp : \E versions \in [D -> Mutation] :
            (\A k \in D : intents[k] = NoIntent) /\ Publishes(D, c, versions)
    BY <1>5 DEF PublishesDirect
  <2>2. PICK versions \in [D -> Mutation] :
            (\A k \in D : intents[k] = NoIntent) /\ Publishes(D, c, versions)
    BY <2>1
  <2>3. Snapshot!Publish(versions, c)
    BY <2>2, PublishesView
  <2>4. \A k \in D : intents[k] = NoIntent /\ c > newest[k]
    BY <2>2 DEF newest, Publishes
  <2>5. intents' = intents
    <3>1. \A k \in Key : intents'[k] = intents[k]
      BY <2>2 DEF Publishes
    <3> QED
      BY <1>0, <3>1
  <2>6. Snapshot!CommitDirect
    BY <2>3, <2>4, <2>5 DEF Snapshot!CommitDirect
  <2> QED
    BY <2>6 DEF Snapshot!Next
<1>6. CASE PublishesLocked
  <2>1. PICK D \in SUBSET Key, c \in Timestamp, txn_id \in TxnId, start_ts \in Timestamp :
            /\ c > start_ts
            /\ \A k \in D : /\ LockedBy(k, txn_id, start_ts)
                            /\ c >= intents[k].min_commit_ts
            /\ IntentVersions(D) \in [D -> Mutation]
            /\ Publishes(D, c, IntentVersions(D))
    BY <1>6 DEF PublishesLocked
  <2>2. Snapshot!Publish(IntentVersions(D), c)
    BY <2>1, PublishesView
  <2>3. Snapshot!Release(D)
    BY <1>0, <2>1 DEF Snapshot!Release, Publishes
  <2>4. IntentVersions(D) = [k \in D |-> intents[k].mutation]
    BY DEF IntentVersions
  <2>5. \A k \in D : Snapshot!HeldBy(k, txn_id, start_ts) /\ c >= intents[k].min_commit_ts
    BY <2>1 DEF Snapshot!HeldBy, LockedBy, Locked
  <2>6. Snapshot!CommitLocked
    BY <2>1, <2>2, <2>3, <2>4, <2>5 DEF Snapshot!CommitLocked
  <2> QED
    BY <2>6 DEF Snapshot!Next
<1> QED
  BY <1>0, <1>2, <1>3, <1>4, <1>5, <1>6, EngineEffects

(* A pass with a new highest safe point hides the reads below it. *)
LEMMA StartRefines ==
    ASSUME SInv, SInv', Start
    PROVE  [Snapshot!Next]_(Snapshot!snapshotVars)
<1>0. /\ TypeOK /\ CommittedInHist /\ VersionsStable /\ VersionsStable'
      /\ committed' \in [Key -> Row]
  BY DEF SInv, TypeOK, BackendTypeOK
<1>1. PICK safe \in SafePoints :
          /\ committed' = committed /\ intents' = intents /\ Record
          /\ watermark' = Max({watermark, safe})
  BY DEF Start, StartPass, store
<1>2. hist' = hist
  BY <1>0, <1>1, NoCommit
<1>3. watermark \in Int /\ safe \in Timestamp /\ safe \in Int
  BY <1>0, InputAssumption, TimestampType DEF TypeOK
<1>4. CASE watermark >= safe
  <2>1. watermark' = watermark
    BY <1>1, <1>3, <1>4, MaxOfTwo
  <2> QED
    BY <1>0, <1>1, <1>2, <2>1, SamePromises DEF Snapshot!snapshotVars
<1>5. CASE ~(watermark >= safe)
  <2>1. watermark' = safe /\ safe > watermark
    BY <1>1, <1>3, <1>5, MaxOfTwo
  <2>2. promised' = [k \in Key |-> [r \in Timestamp |->
            IF r < safe THEN Hidden ELSE promised[k][r]]]
    <3>1. promised' = [k \in Key |-> [r \in Timestamp |->
              IF r < safe THEN Hidden ELSE read(committed[k], r)]]
      BY <1>1, <2>1 DEF promised
    <3>2. \A k \in Key, r \in Timestamp :
              (IF r < safe THEN Hidden ELSE read(committed[k], r)) =
              IF r < safe THEN Hidden ELSE promised[k][r]
      BY <1>3, <2>1, TimestampType DEF promised
    <3> HIDE DEF promised
    <3> QED
      BY <3>1, <3>2
  <2>3. newest' = newest
    BY <1>2 DEF newest
  <2>4. Snapshot!Raise
    BY <1>1, <1>3, <2>1, <2>2, <2>3 DEF Snapshot!Raise
  <2> QED
    BY <2>4 DEF Snapshot!Next
<1> QED
  BY <1>4, <1>5

(* The engine with its garbage collector implements the snapshot store: what *)
(* readers at or above the safe points see changes only by commits that are  *)
(* atomic over their keys, newer than every earlier commit of them and made  *)
(* by the holder of the locks, and never by collection.                      *)
THEOREM Refinement ==
    ASSUME Contract
    PROVE  Spec => ImplementsSnapshotStore
<1>1. Init => Snapshot!Init
  <2> SUFFICES ASSUME Init PROVE Snapshot!Init
    OBVIOUS
  <2>1. /\ committed = [k \in Key |-> [t \in Timestamp |-> NoVersion]]
        /\ intents = [k \in Key |-> NoIntent]
        /\ hist = committed /\ watermark = NoTs
    BY DEF Init, BackendInit
  <2>2. \A k \in Key, r \in Timestamp : get_visible_committed(committed[k], r) = NoTs
    BY <2>1, VisibleProp
  <2>3. \A k \in Key : get_latest_commit_ts(hist[k]) = NoTs
    BY <2>1, LatestProp
  <2>4. \A k \in Key, r \in Timestamp :
            (IF r < watermark THEN Hidden ELSE read(committed[k], r)) = Tombstone
    BY <2>1, <2>2, TimestampType DEF read
  <2>5. promised = [k \in Key |-> [r \in Timestamp |-> Tombstone]]
    BY <2>4 DEF promised
  <2>6. newest = [k \in Key |-> NoTs]
    BY <2>3 DEF newest
  <2> QED
    BY <2>1, <2>5, <2>6 DEF Snapshot!Init
<1>2. SInv /\ SInv' /\ [Next]_vars => [Snapshot!Next]_(Snapshot!snapshotVars)
  <2> SUFFICES ASSUME SInv, SInv', [Next]_vars
               PROVE  [Snapshot!Next]_(Snapshot!snapshotVars)
    OBVIOUS
  <2>1. CASE Client
    <3>1. EngineOp /\ Record /\ watermark' = watermark
      BY <2>1 DEF Client, Observe
    <3> QED
      BY <3>1, ClientRefines
  <2>2. CASE Start
    BY <2>2, StartRefines
  <2>3. CASE Collect \/ Fail
    <3>1. Record /\ watermark' = watermark /\ (GcStep \/ GcFail)
      BY <2>3 DEF Collect, Fail, Observe
    <3>2. hist' = hist /\ intents' = intents
      BY <3>1, GcCommitsNothing
    <3>3. TypeOK /\ VersionsStable /\ VersionsStable'
      BY DEF SInv
    <3> QED
      BY <3>1, <3>2, <3>3, SamePromises DEF Snapshot!snapshotVars
  <2>4. CASE UNCHANGED vars
    <3>1. /\ committed' = committed /\ intents' = intents
          /\ hist' = hist /\ watermark' = watermark
      BY <2>4 DEF vars, store, ghosts
    <3> QED
      BY <3>1 DEF Snapshot!snapshotVars, promised, newest
  <2> QED
    BY <2>1, <2>2, <2>3, <2>4 DEF Next
<1> QED
  BY <1>1, <1>2, SnapshotInvariant, PTL DEF Spec, ImplementsSnapshotStore, Snapshot!Spec
=============================================================================
