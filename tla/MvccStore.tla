------------------------------ MODULE MvccStore ------------------------------
(***************************************************************************)
(* The whole engine: transactions, direct and guarded batches, and garbage *)
(* collection passes, interleaved in any order by callers that keep the    *)
(* adapter contract.  Three ghost variables that the code does not have    *)
(* let the properties speak of the past:                                   *)
(*                                                                         *)
(*   hist       every version ever committed, as if nothing was collected; *)
(*   watermark  the highest safe point a pass was started with;            *)
(*   debt       what the current pass owes: of the versions that were      *)
(*              obsolete and the tombstones that were final at its start,  *)
(*              the ones that are still there.                             *)
(***************************************************************************)
EXTENDS IncrementalGc

CONSTANTS
    Batches,      \* write sets that callers submit (sequences of Write)
    KeyLists,     \* key lists that callers commit and abort
    GuardLists,   \* guard lists that callers submit
    MinCommits,   \* minimum commit timestamps that adapters install
    SafePoints,   \* safe points that callers choose
    Budgets,      \* GcBudgets that callers choose
    Collapses,    \* values of collapse_final_tombstones that callers choose
    MaxPasses,    \* bound: how many passes are started
    MaxFailures,  \* bound: how many gc_incremental calls the backend fails
    TombstoneFence \* TRUE: callers stay above a collapsed tombstone
                   \* FALSE: callers stay at or above the safe point

ASSUME InputAssumption ==
    /\ Batches \subseteq Seq(Write)
    /\ KeyLists \subseteq Seq(Key)
    /\ GuardLists \subseteq Seq(Guard)
    /\ MinCommits \subseteq Timestamp
    /\ SafePoints \subseteq Timestamp
    /\ Budgets \subseteq [max_keys : Usize, max_versions : Usize]
    /\ Collapses \subseteq BOOLEAN
    /\ MaxPasses \in Nat /\ MaxFailures \in Nat
    /\ TombstoneFence \in BOOLEAN

VARIABLES hist, watermark, debt, passes, failures

ghosts == <<hist, watermark, debt>>
counters == <<passes, failures>>
vars == <<store, gcVars, ghosts, counters>>

Init ==
    /\ BackendInit
    /\ GcInit
    /\ hist = committed
    /\ watermark = NoTs
    /\ debt = [old |-> {}, final |-> {}]
    /\ passes = 0 /\ failures = 0

-----------------------------------------------------------------------------
(* Ghosts. *)

\* Everything that is committed now is history.
Record ==
    hist' = [k \in Key |-> [t \in Timestamp |->
        IF committed'[k][t] # NoVersion THEN committed'[k][t] ELSE hist[k][t]]]

Versions == {[key |-> k, ts |-> t] : k \in Key, t \in Timestamp}

Obsolete(safe_point_ts) ==
    {v \in Versions :
        /\ committed[v.key][v.ts] # NoVersion
        /\ v.ts < get_visible_committed(committed[v.key], safe_point_ts)}

FinalTombstones(safe_point_ts) ==
    {v \in Versions :
        /\ committed[v.key][v.ts] = Tombstone
        /\ v.ts <= safe_point_ts
        /\ v.ts = get_latest_commit_ts(committed[v.key])
        /\ ~Locked(v.key)}

\* A tombstone that was locked or superseded since is no longer owed.
Owed ==
    debt' = [old |-> {v \in debt.old : committed'[v.key][v.ts] # NoVersion},
             final |-> {v \in debt.final :
                           /\ committed'[v.key][v.ts] # NoVersion
                           /\ v.ts = get_latest_commit_ts(committed'[v.key])
                           /\ intents'[v.key] = NoIntent}]

Observe == Record /\ Owed /\ UNCHANGED watermark

-----------------------------------------------------------------------------
(* Callers. *)

\* The adapter contract of collapse_final_tombstones: once the newest version
\* of k, a tombstone, was collapsed, no operation uses a timestamp at or below
\* it again.  (With TombstoneFence = FALSE, the contract as the documents word
\* it: no operation below the safe point.)
Allowed(k, ts) ==
    IF TombstoneFence
    THEN get_latest_commit_ts(committed[k]) < get_latest_commit_ts(hist[k])
             => ts > get_latest_commit_ts(hist[k])
    ELSE ts >= watermark

Prewrite == \E txn_id \in TxnId, start_ts \in Timestamp, k \in Key, m \in Mutation :
    Allowed(k, start_ts) /\ prewrite(txn_id, start_ts, k, m)

PrewriteBatch == \E txn_id \in TxnId, start_ts \in Timestamp, writes \in Batches :
    /\ \A k \in Elements(KeysOf(writes)) : Allowed(k, start_ts)
    /\ prewrite_batch(txn_id, start_ts, writes)

InstallIntent == \E txn_id \in TxnId, start_ts \in Timestamp, k \in Key,
                    m \in Mutation, min_commit_ts \in MinCommits :
    /\ Allowed(k, start_ts)
    /\ install_intent(txn_id, start_ts, k, m, min_commit_ts)

Commit == \E txn_id \in TxnId, start_ts, commit_ts \in Timestamp, k \in Key :
    commit(txn_id, k, start_ts, commit_ts)

CommitBatch == \E txn_id \in TxnId, start_ts, commit_ts \in Timestamp,
                  keys \in KeyLists :
    commit_batch(txn_id, start_ts, commit_ts, keys)

Abort == \E txn_id \in TxnId, start_ts \in Timestamp, k \in Key :
    abort(txn_id, k, start_ts)

AbortBatch == \E txn_id \in TxnId, start_ts \in Timestamp, keys \in KeyLists :
    abort_batch(txn_id, start_ts, keys)

DirectBatch == \E commit_ts \in Timestamp, writes \in Batches :
    /\ \A k \in Elements(KeysOf(writes)) : Allowed(k, commit_ts)
    /\ apply_direct_batch(commit_ts, writes)

GuardedBatch == \E commit_ts \in Timestamp, guards \in GuardLists,
                   writes \in Batches :
    /\ \A k \in Elements(KeysOf(writes)) : Allowed(k, commit_ts)
    /\ \A g \in Elements(guards) : Allowed(g.key, g.read_ts)
    /\ apply_guarded_batch(commit_ts, guards, writes)

EngineOp ==
    \/ Prewrite
    \/ PrewriteBatch
    \/ InstallIntent
    \/ Commit
    \/ CommitBatch
    \/ Abort
    \/ AbortBatch
    \/ DirectBatch
    \/ GuardedBatch

\* Any operation other than GC, between two gc_incremental calls.
Client == call = NoCall /\ EngineOp /\ UNCHANGED <<gcVars, counters>> /\ Observe

Start == \E safe_point_ts \in SafePoints, budget \in Budgets, collapse \in Collapses :
    /\ passes < MaxPasses /\ passes' = passes + 1
    /\ StartPass(safe_point_ts, budget, collapse)
    /\ watermark' = Max({watermark, safe_point_ts})
    /\ debt' = IF budget.max_keys = 0 \/ budget.max_versions = 0
               THEN [old |-> {}, final |-> {}]
               ELSE [old |-> Obsolete(safe_point_ts),
                     final |-> {v \in FinalTombstones(safe_point_ts) : collapse}]
    /\ Record
    /\ UNCHANGED failures

Collect == GcStep /\ Observe /\ UNCHANGED counters

Fail ==
    /\ failures < MaxFailures /\ failures' = failures + 1
    /\ GcFail
    /\ Observe
    /\ UNCHANGED passes

Next == Client \/ Start \/ Collect \/ Fail

Spec == Init /\ [][Next]_vars

\* gc(), and any adapter that runs a pass to its end, keeps calling
\* gc_incremental until it reports done; a call runs to its return.
FairSpec == Spec /\ WF_vars(Collect)

-----------------------------------------------------------------------------
(* Properties. *)

\* Every variable has its type.
TypeOK ==
    /\ BackendTypeOK
    /\ GcTypeOK
    /\ hist \in [Key -> Row]
    /\ watermark \in Timestamp \cup {NoTs}
    /\ debt \in [old : SUBSET Versions, final : SUBSET Versions]
    /\ passes \in 0 .. MaxPasses /\ failures \in 0 .. MaxFailures

\* First committer wins: no version newer than an intent's start_ts was ever
\* committed on its key, collected ones included, from prewrite until commit
\* or abort.  So the retroactive-commit checks of commit never fire.
IntentFresh ==
    \A k \in Key : Locked(k) =>
        intents[k].start_ts >= get_latest_commit_ts(hist[k])

\* A collapse forbids timestamps at or below the tombstone it took (GcOptions),
\* but never the start_ts of a transaction that holds a lock on the key, which
\* still reads and repeats its prewrite there: the check for an intent, made
\* when the pass reaches the key, sees every lock taken since the pass began.
LocksUnfenced ==
    \A k \in Key : Locked(k) => Allowed(k, intents[k].start_ts)

\* Garbage collection, with every interleaving, partial failure and tombstone
\* collapse, is invisible to a reader at or above the safe points used so far.
GcTransparent ==
    \A k \in Key, r \in Timestamp : r >= watermark =>
        read(committed[k], r) = read(hist[k], r)

\* The version a reader at or above the safe points sees, which an
\* ExpectedVersion guard compares, stays the same version: only a tombstone
\* may be replaced by no version at all, and only by a collapse.
VersionsStable ==
    \A k \in Key, r \in Timestamp : r >= watermark =>
        LET now  == read_with_version(committed[k], r)
            once == read_with_version(hist[k], r)
        IN  now = once \/ (now.commit_ts = NoTs /\ once.value = Tombstone)

\* A call never removes more versions than its budget, so that the
\* subtraction that computes the limit cannot underflow.
BudgetRespected == call # NoCall => call.removed <= pass.max_versions

\* Once a pass reported done, every version that was obsolete when it started
\* is gone, and with collapse every tombstone that was and stayed final,
\* whatever was written, locked or failed between its calls.
PassDoneClean == pass = NoPass => debt.old = {} /\ debt.final = {}

\* Versions of a key are committed in timestamp order: no step changes the
\* history of a key at or below its newest version, collected ones included.
CommitOrder ==
    [][\A k \in Key, t \in Timestamp :
          t <= get_latest_commit_ts(hist[k]) => hist'[k][t] = hist[k][t]]_vars

\* A locked key gains a version only by committing its own intent: after its
\* start_ts, not before its min_commit_ts, and the lock goes in the same step.
\* From then on every reader sees what read_own_write showed the transaction.
LockedKeyIsolation ==
    [][\A k \in Key : Locked(k) /\ hist'[k] # hist[k] =>
          LET own == read_own_write(k, intents[k].txn_id, intents[k].start_ts, 0)
          IN  /\ intents'[k] = NoIntent
              /\ \E c \in Timestamp :
                    /\ c > intents[k].start_ts /\ c >= intents[k].min_commit_ts
                    /\ hist'[k] = [hist[k] EXCEPT ![c] = own]
                    /\ \A r \in Timestamp :
                          r >= c => read(committed'[k], r) = own]_vars

\* Snapshot reads are repeatable: what a read at r returns never changes once
\* a version at or above r exists, as long as no safe point passes r.  Nor does
\* the version it reports while a newer one is stored: a tombstone that is not
\* the newest version is never collapsed (`latest == keeper`).
RepeatableReads ==
    [][\A k \in Key, r \in Timestamp :
          /\ r >= watermark'
          /\ r <= get_latest_commit_ts(hist[k])
          => /\ read(committed'[k], r) = read(committed[k], r)
             /\ r < get_latest_commit_ts(committed[k]) =>
                   read_with_version(committed'[k], r) = read_with_version(committed[k], r)]_vars

\* A pass that was started ends (reports done or is refused), although writers
\* keep working between its calls: every call removes something or moves on.
PassEnds == pass # NoPass ~> pass = NoPass
=============================================================================
