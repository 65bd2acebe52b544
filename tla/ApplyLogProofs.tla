---------------------------- MODULE ApplyLogProofs ----------------------------
(***************************************************************************)
(* Replaying any suffix of the log, any number of times, leaves the store  *)
(* as it was, for every set of operations and every length of the log.     *)
(* Whatever is applied again writes no version, removes no lock that was   *)
(* there, and takes only locks that an abort later in the log removes.     *)
(***************************************************************************)
EXTENDS ApplyLog, RowLemmas

\* The store when the log was first applied to its end.
Rows  == expected[1]
Locks == expected[2]
Index == expected[3]

WrittenKeys(op) ==
    IF op.kind = "commit_batch" THEN Elements(op.keys) ELSE Elements(KeysOf(op.writes))

Holds(lock, txn_id, start_ts) ==
    lock # NoIntent /\ lock.txn_id = txn_id /\ lock.start_ts = start_ts

Aborts(op, k, txn_id, start_ts) ==
    /\ op.kind = "abort_batch"
    /\ op.txn_id = txn_id /\ op.start_ts = start_ts /\ k \in Elements(op.keys)

LogTypes ==
    /\ StoreOK
    /\ log \in Seq(Op) /\ pos \in 1 .. Len(log) + 1

\* Applying an operation again never writes a version.
ExpectedShape ==
    /\ expected = <<Rows, Locks, Index>>
    /\ Rows = committed
    /\ Locks \in [Key -> Intent \cup {NoIntent}]
    /\ Index = {k \in Key : Locks[k] # NoIntent \/ TimestampsOf(Rows[k]) # {}}

\* ... because the versions it wrote are there, or newer ones.
VersionsThere ==
    \A i \in DOMAIN log :
        log[i].kind \in {"commit_batch", "apply_direct_batch", "apply_guarded_batch"} =>
            \E k \in WrittenKeys(log[i]) :
                get_latest_commit_ts(committed[k]) >= log[i].commit_ts

\* Applying an operation again never removes a lock that was there.
LocksKept == \A k \in Key : Locks[k] # NoIntent => intents[k] = Locks[k]

\* ... because an aborted transaction holds no key it gave up.
AbortsFinal ==
    \A i \in DOMAIN log : log[i].kind = "abort_batch" =>
        /\ ~HasDuplicates(log[i].keys)
        /\ \A k \in Elements(log[i].keys) :
               ~Holds(Locks[k], log[i].txn_id, log[i].start_ts)

\* A lock that was not there is going to be removed by an abort still ahead.
StrayLocksAborted ==
    \A k \in Key : intents[k] # NoIntent /\ Locks[k] = NoIntent =>
        \E q \in DOMAIN log :
            q >= pos /\ Aborts(log[q], k, intents[k].txn_id, intents[k].start_ts)

\* ... because a key that was locked is still locked, or was given up later,
\* or a newer version refuses the lock.
PrewritesEnded ==
    \A i \in DOMAIN log : log[i].kind = "prewrite_batch" =>
        \A k \in WrittenKeys(log[i]) :
            \/ Holds(Locks[k], log[i].txn_id, log[i].start_ts)
            \/ get_latest_commit_ts(committed[k]) > log[i].start_ts
            \/ \E q \in DOMAIN log :
                   q > i /\ Aborts(log[q], k, log[i].txn_id, log[i].start_ts)

ReplayInv ==
    /\ LogTypes
    /\ ExpectedShape
    /\ VersionsThere
    /\ LocksKept
    /\ AbortsFinal
    /\ StrayLocksAborted
    /\ PrewritesEnded

-----------------------------------------------------------------------------
(* What an operation does to the store. *)

LEMMA OpTypes ==
    ASSUME NEW op \in Op
    PROVE  /\ op.kind \in {"prewrite_batch", "commit_batch", "abort_batch",
                           "apply_direct_batch", "apply_guarded_batch"}
           /\ op.kind = "prewrite_batch" =>
                 /\ op.txn_id \in TxnId /\ op.start_ts \in Timestamp
                 /\ op.writes \in Seq(Write)
           /\ op.kind = "commit_batch" =>
                 /\ op.txn_id \in TxnId /\ op.start_ts \in Timestamp
                 /\ op.commit_ts \in Timestamp /\ op.keys \in Seq(Key)
           /\ op.kind = "abort_batch" =>
                 /\ op.txn_id \in TxnId /\ op.start_ts \in Timestamp
                 /\ op.keys \in Seq(Key)
           /\ op.kind \in {"apply_direct_batch", "apply_guarded_batch"} =>
                 op.commit_ts \in Timestamp /\ op.writes \in Seq(Write)
BY DEF Op

LEMMA WrittenKeysType ==
    ASSUME NEW op \in Op, op.kind # "abort_batch"
    PROVE  WrittenKeys(op) \in SUBSET Key
<1>1. CASE op.kind = "commit_batch"
  BY <1>1, OpTypes, KeyListTypes DEF WrittenKeys
<1>2. CASE op.kind # "commit_batch"
  <2>1. op.writes \in Seq(Write)
    BY <1>2, OpTypes
  <2> QED
    BY <1>2, <2>1, BatchTypes DEF WrittenKeys
<1> QED
  BY <1>1, <1>2

LEMMA HoldsIsLockedBy ==
    \A k, txn_id, start_ts :
        Holds(intents[k], txn_id, start_ts) <=> LockedBy(k, txn_id, start_ts)
BY DEF Holds, LockedBy, Locked

(* A prewrite changes nothing, or locks all of its keys, which were free and *)
(* had no version newer than its start.                                      *)
LEMMA PrewriteEffect ==
    ASSUME StoreOK, NEW op \in Op, op.kind = "prewrite_batch", Apply(op)
    PROVE  /\ StoreOK' /\ committed' = committed
           /\ \/ UNCHANGED store
              \/ /\ \A k \in WrittenKeys(op) :
                       /\ intents[k] = NoIntent
                       /\ get_latest_commit_ts(committed[k]) <= op.start_ts
                       /\ Holds(intents'[k], op.txn_id, op.start_ts)
                 /\ \A k \in Key \ WrittenKeys(op) : intents'[k] = intents[k]
           /\ Accepted(op) => \A k \in WrittenKeys(op) :
                                 Holds(intents'[k], op.txn_id, op.start_ts)
<1> DEFINE txn_id == op.txn_id
           start_ts == op.start_ts
           writes == op.writes
           D == WrittenKeys(op)
           new == [k \in D |-> NewIntent(txn_id, start_ts, AsFunction(writes)[k], NoTs)]
<1>1. txn_id \in TxnId /\ start_ts \in Timestamp /\ writes \in Seq(Write)
  BY OpTypes
<1>2. D = Elements(KeysOf(writes))
  BY DEF WrittenKeys
<1>3. prewrite_batch(txn_id, start_ts, writes)
  BY DEF Apply
<1>4. CASE PrewriteBatchResult(txn_id, start_ts, writes) = "Ok"
  <2>1. put_intents_batch(new)
    BY <1>2, <1>3, <1>4 DEF prewrite_batch
  <2>2. D \in SUBSET Key /\ AsFunction(writes) \in [D -> Mutation]
    BY <1>1, <1>2, BatchTypes
  <2>3. new \in [D -> Intent]
    BY <1>1, <2>2, NewIntentType
  <2>4. \A k \in D : new[k].txn_id = txn_id /\ new[k].start_ts = start_ts
    BY DEF NewIntent
  <2>5. \A k \in D : ~Locked(k) /\ get_latest_commit_ts(committed[k]) <= start_ts
    BY <1>1, <1>2, <1>4, PrewriteBatchOk
  <2>6. \A k \in D : new[k] # NoIntent
    BY <2>3, IntentAssumption
  <2> HIDE DEF new, D
  <2>7. /\ StoreOK' /\ committed' = committed
        /\ \A k \in D : intents'[k] = new[k]
        /\ \A k \in Key \ D : intents'[k] = intents[k]
    BY <2>1, <2>2, <2>3, PutIntents
  <2>8. \A k \in D : Holds(intents'[k], txn_id, start_ts)
    BY <2>4, <2>6, <2>7 DEF Holds
  <2> QED
    BY <2>5, <2>7, <2>8 DEF Locked, D
<1>5. CASE PrewriteBatchResult(txn_id, start_ts, writes) # "Ok"
  <2>1. UNCHANGED store
    BY <1>3, <1>5 DEF prewrite_batch
  <2>2. StoreOK' /\ committed' = committed /\ intents' = intents
    BY <2>1, StoreSame DEF store
  <2>3. Accepted(op) => PrewriteBatchResult(txn_id, start_ts, writes) = "Replay"
    BY <1>5 DEF Accepted
  <2>4. Accepted(op) => \A k \in D : LockedBy(k, txn_id, start_ts)
    BY <1>1, <1>2, <2>3, PrewriteReplayed
  <2>5. Accepted(op) => \A k \in D : Holds(intents[k], txn_id, start_ts)
    BY <2>4, HoldsIsLockedBy
  <2> QED
    BY <2>1, <2>2, <2>5
<1> QED
  BY <1>4, <1>5

(* A commit that goes through turns locks of the transaction into versions, *)
(* newer than all others of their keys and than its start.                  *)
LEMMA CommitEffect ==
    ASSUME StoreOK, NEW op \in Op, op.kind = "commit_batch", Accepted(op), Apply(op)
    PROVE  /\ StoreOK' /\ WrittenKeys(op) # {}
           /\ \A k \in WrittenKeys(op) :
                 /\ op.commit_ts > get_latest_commit_ts(committed[k])
                 /\ get_latest_commit_ts(committed'[k]) = op.commit_ts
                 /\ op.commit_ts > op.start_ts
                 /\ Holds(intents[k], op.txn_id, op.start_ts)
                 /\ intents'[k] = NoIntent
           /\ \A k \in Key \ WrittenKeys(op) :
                 committed'[k] = committed[k] /\ intents'[k] = intents[k]
<1> DEFINE txn_id == op.txn_id
           start_ts == op.start_ts
           c == op.commit_ts
           keys == op.keys
           D == Elements(keys)
<1>1. /\ txn_id \in TxnId /\ start_ts \in Timestamp /\ c \in Timestamp
      /\ keys \in Seq(Key) /\ WrittenKeys(op) = D
  BY OpTypes DEF WrittenKeys
<1>2. /\ CommitBatchResult(txn_id, start_ts, c, keys) = "Ok"
      /\ commit_intents_batch(IntentVersions(D), c, txn_id, start_ts)
  BY DEF Accepted, Apply, commit_batch
<1>3. keys # <<>>
  BY <1>2 DEF CommitBatchResult
<1>4. D \in SUBSET Key /\ D # {}
  BY <1>1, <1>3, KeyListTypes, SomeElement
<1> HIDE DEF txn_id, start_ts, c, keys
<1>5. /\ c > start_ts
      /\ \A k \in D : /\ LockedBy(k, txn_id, start_ts)
                      /\ c > get_latest_commit_ts(committed[k])
  BY <1>1, <1>2, CommitBatchOk DEF StoreOK
<1> HIDE DEF D
<1>6. /\ StoreOK'
      /\ \A k \in D : /\ intents'[k] = NoIntent
                      /\ committed'[k] = Written(committed[k], c, intents[k].mutation)
                      /\ intents[k].mutation \in Mutation
      /\ \A k \in Key \ D : intents'[k] = intents[k] /\ committed'[k] = committed[k]
  BY <1>1, <1>2, <1>4, <1>5, CommitIntents
<1>7. \A k \in D : get_latest_commit_ts(committed'[k]) = c
  <2> TAKE k \in D
  <2>1. committed[k] \in Row
    BY <1>4 DEF StoreOK, BackendTypeOK
  <2>2. PICK m \in Mutation : committed'[k] = Written(committed[k], c, m)
    BY <1>6
  <2>3. get_latest_commit_ts(Written(committed[k], c, m)) = c
    BY <1>1, <1>5, <2>1, LatestAfterWrite
  <2> QED
    BY <2>2, <2>3
<1>8. \A k \in D : Holds(intents[k], txn_id, start_ts)
  BY <1>5, HoldsIsLockedBy
<1> QED
  BY <1>1, <1>4, <1>5, <1>6, <1>7, <1>8 DEF txn_id, start_ts, c

(* A direct or guarded batch that goes through writes versions newer than all *)
(* others of their keys.                                                      *)
LEMMA WriteEffect ==
    ASSUME StoreOK, NEW op \in Op, Accepted(op), Apply(op),
           op.kind \in {"apply_direct_batch", "apply_guarded_batch"}
    PROVE  /\ StoreOK' /\ WrittenKeys(op) # {} /\ intents' = intents
           /\ \A k \in WrittenKeys(op) :
                 /\ op.commit_ts > get_latest_commit_ts(committed[k])
                 /\ get_latest_commit_ts(committed'[k]) = op.commit_ts
           /\ \A k \in Key \ WrittenKeys(op) : committed'[k] = committed[k]
<1> DEFINE c == op.commit_ts
           writes == op.writes
           D == WrittenKeys(op)
           versions == AsFunction(writes)
<1>1. c \in Timestamp /\ writes \in Seq(Write) /\ D = Elements(KeysOf(writes))
  BY OpTypes DEF WrittenKeys
<1>2. /\ CheckWrites(c, writes) = "Ok" /\ writes # <<>>
      /\ put_committed_batch(versions, c)
  <2>1. CASE op.kind = "apply_direct_batch"
    BY <2>1 DEF Accepted, Apply, apply_direct_batch, DirectBatchResult
  <2>2. CASE op.kind = "apply_guarded_batch"
    BY <2>2 DEF Accepted, Apply, apply_guarded_batch, GuardedBatchResult
  <2> QED
    BY <2>1, <2>2
<1>3. D \in SUBSET Key /\ versions \in [D -> Mutation]
  BY <1>1, BatchTypes
<1>4. D # {}
  <2>1. Len(writes) \in Nat /\ DOMAIN writes = 1 .. Len(writes) /\ Len(writes) # 0
    BY <1>1, <1>2
  <2>2. 1 \in DOMAIN writes
    BY <2>1
  <2> QED
    BY <1>1, <2>2 DEF Elements, KeysOf
<1>5. \A k \in D : c > get_latest_commit_ts(committed[k])
  BY <1>1, <1>2, CheckWritesOk
<1> HIDE DEF c, writes, versions, D
<1>6. /\ StoreOK' /\ intents' = intents
      /\ \A k \in D : committed'[k] = Written(committed[k], c, versions[k])
      /\ \A k \in Key \ D : committed'[k] = committed[k]
  BY <1>1, <1>2, <1>3, PutVersions
<1>7. \A k \in D : get_latest_commit_ts(committed'[k]) = c
  <2> TAKE k \in D
  <2>1. committed[k] \in Row
    BY <1>3 DEF StoreOK, BackendTypeOK
  <2>2. PICK m \in Mutation : committed'[k] = Written(committed[k], c, m)
    BY <1>3, <1>6
  <2>3. get_latest_commit_ts(Written(committed[k], c, m)) = c
    BY <1>1, <1>5, <2>1, LatestAfterWrite
  <2> QED
    BY <2>2, <2>3
<1> QED
  BY <1>4, <1>5, <1>6, <1>7 DEF c, D

(* An abort removes the locks of its transaction on its keys, and no other. *)
LEMMA AbortEffect ==
    ASSUME StoreOK, NEW op \in Op, op.kind = "abort_batch", Apply(op),
           ~HasDuplicates(op.keys)
    PROVE  /\ StoreOK' /\ committed' = committed
           /\ \A k \in Elements(op.keys) :
                 Holds(intents[k], op.txn_id, op.start_ts) => intents'[k] = NoIntent
           /\ \A k \in Key :
                 k \notin Elements(op.keys) \/ ~Holds(intents[k], op.txn_id, op.start_ts)
                     => intents'[k] = intents[k]
<1>1. op.keys \in Seq(Key) /\ Elements(op.keys) \in SUBSET Key
  BY OpTypes, KeyListTypes
<1>2. remove_intents_batch(Elements(op.keys), op.txn_id, op.start_ts)
  BY DEF Apply, abort_batch
<1>3. /\ StoreOK' /\ committed' = committed
      /\ \A k \in Elements(op.keys) :
            LockedBy(k, op.txn_id, op.start_ts) => intents'[k] = NoIntent
      /\ \A k \in Key :
            k \notin Elements(op.keys) \/ ~LockedBy(k, op.txn_id, op.start_ts)
                => intents'[k] = intents[k]
  BY <1>1, <1>2, RemoveIntents
<1> QED
  BY <1>3, HoldsIsLockedBy

(* What an accepted operation does: versions are only added above the others, *)
(* the only new locks are those of a prewrite, and a lock goes only with a     *)
(* newer version or an abort.                                                  *)
LEMMA AcceptedEffect ==
    ASSUME StoreOK, NEW op \in Op, Accepted(op), Apply(op)
    PROVE  /\ StoreOK'
           /\ \A k \in Key :
                 get_latest_commit_ts(committed'[k]) >= get_latest_commit_ts(committed[k])
           /\ \A k \in Key, txn_id \in TxnId, start_ts \in Timestamp :
                 Holds(intents'[k], txn_id, start_ts) =>
                     \/ Holds(intents[k], txn_id, start_ts)
                     \/ /\ op.kind = "prewrite_batch"
                        /\ op.txn_id = txn_id /\ op.start_ts = start_ts
           /\ \A k \in Key, txn_id \in TxnId, start_ts \in Timestamp :
                 Holds(intents[k], txn_id, start_ts) =>
                     \/ Holds(intents'[k], txn_id, start_ts)
                     \/ get_latest_commit_ts(committed'[k]) > start_ts
                     \/ Aborts(op, k, txn_id, start_ts)
           /\ op.kind = "prewrite_batch" =>
                 \A k \in WrittenKeys(op) : Holds(intents'[k], op.txn_id, op.start_ts)
           /\ op.kind = "abort_batch" =>
                 /\ ~HasDuplicates(op.keys)
                 /\ \A k \in Elements(op.keys) :
                        ~Holds(intents'[k], op.txn_id, op.start_ts)
           /\ op.kind \in {"commit_batch", "apply_direct_batch", "apply_guarded_batch"} =>
                 \E k \in WrittenKeys(op) :
                     get_latest_commit_ts(committed'[k]) >= op.commit_ts
<1>0. \A k \in Key : /\ get_latest_commit_ts(committed[k]) \in Int
                     /\ get_latest_commit_ts(committed'[k]) \in Int
  BY LatestProp, TimestampType
<1>1. CASE op.kind = "prewrite_batch"
  <2>1. /\ StoreOK' /\ committed' = committed
        /\ \/ UNCHANGED store
           \/ /\ \A k \in WrittenKeys(op) : /\ intents[k] = NoIntent
                                            /\ Holds(intents'[k], op.txn_id, op.start_ts)
              /\ \A k \in Key \ WrittenKeys(op) : intents'[k] = intents[k]
        /\ \A k \in WrittenKeys(op) : Holds(intents'[k], op.txn_id, op.start_ts)
    BY <1>1, PrewriteEffect
  <2>2. \A k \in Key : \/ intents'[k] = intents[k]
                       \/ /\ intents[k] = NoIntent
                          /\ Holds(intents'[k], op.txn_id, op.start_ts)
    BY <2>1 DEF store
  <2> QED
    BY <1>0, <1>1, <2>1, <2>2 DEF Holds
<1>2. CASE op.kind = "abort_batch"
  <2>1. ~HasDuplicates(op.keys) /\ op.keys \in Seq(Key)
    BY <1>2, OpTypes DEF Accepted
  <2>2. /\ StoreOK' /\ committed' = committed
        /\ \A k \in Elements(op.keys) :
              Holds(intents[k], op.txn_id, op.start_ts) => intents'[k] = NoIntent
        /\ \A k \in Key :
              k \notin Elements(op.keys) \/ ~Holds(intents[k], op.txn_id, op.start_ts)
                  => intents'[k] = intents[k]
    BY <1>2, <2>1, AbortEffect
  <2>3. Elements(op.keys) \in SUBSET Key
    BY <2>1, KeyListTypes
  <2>4. \A k \in Elements(op.keys) : ~Holds(intents'[k], op.txn_id, op.start_ts)
    BY <2>2, <2>3 DEF Holds
  <2>5. \A k \in Key, txn_id \in TxnId, start_ts \in Timestamp :
            Holds(intents'[k], txn_id, start_ts) => Holds(intents[k], txn_id, start_ts)
    BY <2>2, <2>3 DEF Holds
  <2>6. \A k \in Key, txn_id \in TxnId, start_ts \in Timestamp :
            Holds(intents[k], txn_id, start_ts) =>
                Holds(intents'[k], txn_id, start_ts) \/ Aborts(op, k, txn_id, start_ts)
    BY <1>2, <2>2 DEF Holds, Aborts
  <2> QED
    BY <1>0, <1>2, <2>1, <2>2, <2>4, <2>5, <2>6
<1>3. CASE op.kind = "commit_batch"
  <2>1. /\ StoreOK' /\ WrittenKeys(op) # {}
        /\ \A k \in WrittenKeys(op) :
              /\ op.commit_ts > get_latest_commit_ts(committed[k])
              /\ get_latest_commit_ts(committed'[k]) = op.commit_ts
              /\ op.commit_ts > op.start_ts
              /\ Holds(intents[k], op.txn_id, op.start_ts)
              /\ intents'[k] = NoIntent
        /\ \A k \in Key \ WrittenKeys(op) :
              committed'[k] = committed[k] /\ intents'[k] = intents[k]
    BY <1>3, CommitEffect
  <2>2. op.commit_ts \in Int /\ op.start_ts \in Int /\ WrittenKeys(op) \in SUBSET Key
    BY <1>3, OpTypes, TimestampType, WrittenKeysType
  <2>3. \A k \in Key :
            get_latest_commit_ts(committed'[k]) >= get_latest_commit_ts(committed[k])
    BY <1>0, <2>1, <2>2
  <2>4. \A k \in Key, txn_id \in TxnId, start_ts \in Timestamp :
            Holds(intents'[k], txn_id, start_ts) => Holds(intents[k], txn_id, start_ts)
    BY <2>1 DEF Holds
  <2>5. \A k \in Key, txn_id \in TxnId, start_ts \in Timestamp :
            Holds(intents[k], txn_id, start_ts) =>
                \/ Holds(intents'[k], txn_id, start_ts)
                \/ get_latest_commit_ts(committed'[k]) > start_ts
    BY <2>1 DEF Holds
  <2>6. \E k \in WrittenKeys(op) : get_latest_commit_ts(committed'[k]) >= op.commit_ts
    BY <2>1, <2>2
  <2> QED
    BY <1>3, <2>1, <2>3, <2>4, <2>5, <2>6
<1>4. CASE op.kind \in {"apply_direct_batch", "apply_guarded_batch"}
  <2>1. /\ StoreOK' /\ WrittenKeys(op) # {} /\ intents' = intents
        /\ \A k \in WrittenKeys(op) :
              /\ op.commit_ts > get_latest_commit_ts(committed[k])
              /\ get_latest_commit_ts(committed'[k]) = op.commit_ts
        /\ \A k \in Key \ WrittenKeys(op) : committed'[k] = committed[k]
    BY <1>4, WriteEffect
  <2>2. op.commit_ts \in Int /\ WrittenKeys(op) \in SUBSET Key
    BY <1>4, OpTypes, TimestampType, WrittenKeysType
  <2>3. \A k \in Key :
            get_latest_commit_ts(committed'[k]) >= get_latest_commit_ts(committed[k])
    BY <1>0, <2>1, <2>2
  <2>4. \E k \in WrittenKeys(op) : get_latest_commit_ts(committed'[k]) >= op.commit_ts
    BY <2>1, <2>2
  <2> QED
    BY <1>4, <2>1, <2>3, <2>4
<1> QED
  BY <1>1, <1>2, <1>3, <1>4, OpTypes

(* A write that was applied before is refused. *)
LEMMA WriteRefused ==
    ASSUME StoreOK, NEW op \in Op, Apply(op),
           op.kind \in {"commit_batch", "apply_direct_batch", "apply_guarded_batch"},
           \E k \in WrittenKeys(op) : get_latest_commit_ts(committed[k]) >= op.commit_ts
    PROVE  UNCHANGED store
<1>1. PICK k \in WrittenKeys(op) : get_latest_commit_ts(committed[k]) >= op.commit_ts
  OBVIOUS
<1>2. k \in Key /\ op.commit_ts \in Int /\ get_latest_commit_ts(committed[k]) \in Int
  BY <1>1, OpTypes, TimestampType, WrittenKeysType, LatestInt
<1>3. ~Accepted(op)
  <2>1. SUFFICES ASSUME Accepted(op) PROVE FALSE
    OBVIOUS
  <2>2. op.commit_ts > get_latest_commit_ts(committed[k])
    BY <1>1, <2>1, CommitEffect, WriteEffect
  <2> QED
    BY <1>1, <1>2, <2>2
<1> QED
  BY <1>3 DEF Apply, Accepted, commit_batch, apply_direct_batch, apply_guarded_batch

-----------------------------------------------------------------------------
(* The invariant is inductive. *)

LEMMA LogEntries ==
    ASSUME LogTypes
    PROVE  /\ Len(log) \in Nat /\ DOMAIN log = 1 .. Len(log) /\ pos \in Nat
           /\ \A i \in DOMAIN log : log[i] \in Op
BY DEF LogTypes

(* Nothing is left of a replay that has caught up. *)
LEMMA Converged ==
    ASSUME ReplayInv, CaughtUp
    PROVE  store = expected /\ Locks = intents
<1>1. \A k \in Key : intents[k] # NoIntent => Locks[k] # NoIntent
  BY LogEntries DEF ReplayInv, StrayLocksAborted, CaughtUp
<1>2. /\ Locks \in [Key -> Intent \cup {NoIntent}]
      /\ intents \in [Key -> Intent \cup {NoIntent}]
      /\ \A k \in Key : Locks[k] # NoIntent => intents[k] = Locks[k]
  BY DEF ReplayInv, ExpectedShape, LogTypes, StoreOK, BackendTypeOK, LocksKept
<1>3. Locks = intents
  <2> HIDE DEF Locks
  <2>1. \A k \in Key : Locks[k] = intents[k]
    BY <1>1, <1>2
  <2> QED
    BY <1>2, <2>1
<1>4. Index = all_keys_set
  BY <1>3 DEF ReplayInv, ExpectedShape, LogTypes, StoreOK, IndexExact, Locked
<1> QED
  BY <1>3, <1>4 DEF ReplayInv, ExpectedShape, store

LEMMA ExecuteInv ==
    ASSUME ReplayInv, Execute
    PROVE  ReplayInv'
<1>0. /\ LogTypes /\ ExpectedShape /\ VersionsThere /\ AbortsFinal /\ PrewritesEnded
      /\ StoreOK
  BY DEF ReplayInv, LogTypes
<1>1. PICK op \in Ops :
          /\ CaughtUp /\ Proper(op) /\ Accepted(op) /\ Apply(op)
          /\ log' = Append(log, op) /\ pos' = pos + 1 /\ expected' = store'
  BY DEF Execute
<1>2. op \in Op
  BY OpsAssumption
<1>3. store = expected /\ Locks = intents
  BY <1>1, Converged
<1> DEFINE n == Len(log)
<1>4. /\ n \in Nat /\ DOMAIN log = 1 .. n /\ \A i \in 1 .. n : log[i] \in Op
      /\ pos = n + 1
  BY <1>0, <1>1, LogEntries DEF LogTypes, CaughtUp
<1>5. /\ log' \in Seq(Op) /\ Len(log') = n + 1 /\ DOMAIN log' = 1 .. n + 1
      /\ \A i \in 1 .. n : log'[i] = log[i]
      /\ log'[n + 1] = op
  BY <1>0, <1>1, <1>2, <1>4 DEF LogTypes
<1> HIDE DEF n
<1>6. /\ StoreOK'
      /\ \A k \in Key :
            get_latest_commit_ts(committed'[k]) >= get_latest_commit_ts(committed[k])
  BY <1>0, <1>1, <1>2, AcceptedEffect
<1>7. /\ \A k \in Key, txn_id \in TxnId, start_ts \in Timestamp :
             Holds(intents'[k], txn_id, start_ts) =>
                 \/ Holds(intents[k], txn_id, start_ts)
                 \/ /\ op.kind = "prewrite_batch"
                    /\ op.txn_id = txn_id /\ op.start_ts = start_ts
      /\ \A k \in Key, txn_id \in TxnId, start_ts \in Timestamp :
             Holds(intents[k], txn_id, start_ts) =>
                 \/ Holds(intents'[k], txn_id, start_ts)
                 \/ get_latest_commit_ts(committed'[k]) > start_ts
                 \/ Aborts(op, k, txn_id, start_ts)
  BY <1>0, <1>1, <1>2, AcceptedEffect
<1>8. /\ op.kind = "prewrite_batch" =>
             \A k \in WrittenKeys(op) : Holds(intents'[k], op.txn_id, op.start_ts)
      /\ op.kind = "abort_batch" =>
             /\ ~HasDuplicates(op.keys)
             /\ \A k \in Elements(op.keys) :
                    ~Holds(intents'[k], op.txn_id, op.start_ts)
      /\ op.kind \in {"commit_batch", "apply_direct_batch", "apply_guarded_batch"} =>
             \E k \in WrittenKeys(op) :
                 get_latest_commit_ts(committed'[k]) >= op.commit_ts
  BY <1>0, <1>1, <1>2, AcceptedEffect
<1>9. /\ Locks' = intents' /\ expected' = <<committed', intents', all_keys_set'>>
      /\ Rows' = committed' /\ Index' = all_keys_set'
  BY <1>1 DEF store, Locks, Rows, Index
<1>10. \A k \in Key : /\ get_latest_commit_ts(committed[k]) \in Int
                      /\ get_latest_commit_ts(committed'[k]) \in Int
  BY LatestProp, TimestampType
<1>a. LogTypes'
  BY <1>1, <1>4, <1>5, <1>6 DEF LogTypes
<1>b. ExpectedShape'
  BY <1>6, <1>9 DEF ExpectedShape, StoreOK, BackendTypeOK, IndexExact, Locked
<1>c. LocksKept' /\ StrayLocksAborted'
  BY <1>9 DEF LocksKept, StrayLocksAborted
<1>d. VersionsThere'
  <2> SUFFICES ASSUME NEW i \in 1 .. n + 1,
                      log'[i].kind \in {"commit_batch", "apply_direct_batch",
                                        "apply_guarded_batch"}
               PROVE  \E k \in WrittenKeys(log'[i]) :
                          get_latest_commit_ts(committed'[k]) >= log'[i].commit_ts
    BY <1>5 DEF VersionsThere
  <2>1. CASE i = n + 1
    BY <1>5, <1>8, <2>1
  <2>2. CASE i \in 1 .. n
    <3>1. PICK k \in WrittenKeys(log[i]) :
              get_latest_commit_ts(committed[k]) >= log[i].commit_ts
      BY <1>0, <1>4, <1>5, <2>2 DEF VersionsThere
    <3>2. log[i] \in Op /\ log'[i] = log[i]
      BY <1>4, <1>5, <2>2
    <3>3. k \in Key /\ log[i].commit_ts \in Int
      BY <3>1, <3>2, WrittenKeysType, OpTypes, TimestampType
    <3> QED
      BY <1>6, <1>10, <3>1, <3>2, <3>3
  <2> QED
    BY <1>4, <2>1, <2>2
<1>e. AbortsFinal'
  <2> SUFFICES ASSUME NEW i \in 1 .. n + 1, log'[i].kind = "abort_batch"
               PROVE  /\ ~HasDuplicates(log'[i].keys)
                      /\ \A k \in Elements(log'[i].keys) :
                             ~Holds(intents'[k], log'[i].txn_id, log'[i].start_ts)
    BY <1>5, <1>9 DEF AbortsFinal
  <2>1. CASE i = n + 1
    BY <1>5, <1>8, <2>1
  <2>2. CASE i \in 1 .. n
    <3>1. /\ log'[i] = log[i] /\ log[i] \in Op
          /\ ~HasDuplicates(log[i].keys)
          /\ \A k \in Elements(log[i].keys) :
                 ~Holds(intents[k], log[i].txn_id, log[i].start_ts)
      BY <1>0, <1>3, <1>4, <1>5, <2>2 DEF AbortsFinal
    <3>2. /\ log[i].txn_id \in TxnId /\ log[i].start_ts \in Timestamp
          /\ Elements(log[i].keys) \in SUBSET Key
      BY <3>1, OpTypes, KeyListTypes
    <3>3. op.kind = "prewrite_batch" =>
              <<log[i].txn_id, log[i].start_ts>> # <<op.txn_id, op.start_ts>>
      BY <1>1, <1>4, <2>2, <3>1 DEF Proper
    <3> QED
      BY <1>7, <3>1, <3>2, <3>3
  <2> QED
    BY <1>4, <2>1, <2>2
<1>f. PrewritesEnded'
  <2> SUFFICES ASSUME NEW i \in 1 .. n + 1, log'[i].kind = "prewrite_batch",
                      NEW k \in WrittenKeys(log'[i])
               PROVE  \/ Holds(intents'[k], log'[i].txn_id, log'[i].start_ts)
                      \/ get_latest_commit_ts(committed'[k]) > log'[i].start_ts
                      \/ \E q \in 1 .. n + 1 :
                            q > i /\ Aborts(log'[q], k, log'[i].txn_id, log'[i].start_ts)
    BY <1>5, <1>9 DEF PrewritesEnded
  <2>1. CASE i = n + 1
    BY <1>5, <1>8, <2>1
  <2>2. CASE i \in 1 .. n
    <3>1. log'[i] = log[i] /\ log[i] \in Op
      BY <1>4, <1>5, <2>2
    <3>2. log[i].txn_id \in TxnId /\ log[i].start_ts \in Timestamp /\ k \in Key
      BY <3>1, OpTypes, WrittenKeysType
    <3>3. \/ Holds(intents[k], log[i].txn_id, log[i].start_ts)
          \/ get_latest_commit_ts(committed[k]) > log[i].start_ts
          \/ \E q \in 1 .. n :
                q > i /\ Aborts(log[q], k, log[i].txn_id, log[i].start_ts)
      BY <1>0, <1>3, <1>4, <2>2, <3>1 DEF PrewritesEnded
    <3>4. CASE Holds(intents[k], log[i].txn_id, log[i].start_ts)
      <4>1. \/ Holds(intents'[k], log[i].txn_id, log[i].start_ts)
            \/ get_latest_commit_ts(committed'[k]) > log[i].start_ts
            \/ Aborts(op, k, log[i].txn_id, log[i].start_ts)
        BY <1>7, <3>2, <3>4
      <4>2. n + 1 \in 1 .. n + 1 /\ n + 1 > i
        BY <1>4, <2>2
      <4> QED
        BY <1>5, <3>1, <4>1, <4>2
    <3>5. CASE get_latest_commit_ts(committed[k]) > log[i].start_ts
      <4>1. log[i].start_ts \in Int
        BY <3>2, TimestampType
      <4> QED
        BY <1>6, <1>10, <3>1, <3>2, <3>5, <4>1
    <3>6. CASE \E q \in 1 .. n :
                  q > i /\ Aborts(log[q], k, log[i].txn_id, log[i].start_ts)
      <4>1. PICK q \in 1 .. n :
                q > i /\ Aborts(log[q], k, log[i].txn_id, log[i].start_ts)
        BY <3>6
      <4>2. q \in 1 .. n + 1 /\ log'[q] = log[q]
        BY <1>4, <1>5, <4>1
      <4> QED
        BY <3>1, <4>1, <4>2
    <3> QED
      BY <3>3, <3>4, <3>5, <3>6
  <2> QED
    BY <1>4, <2>1, <2>2
<1> QED
  BY <1>a, <1>b, <1>c, <1>d, <1>e, <1>f DEF ReplayInv

LEMMA RestartInv ==
    ASSUME ReplayInv, Restart
    PROVE  ReplayInv'
<1>1. PICK p \in 1 .. pos - 1 : pos' = p
  BY DEF Restart
<1>2. UNCHANGED <<committed, intents, all_keys_set, log, expected>>
  BY DEF Restart, store
<1>3. /\ Len(log) \in Nat /\ DOMAIN log = 1 .. Len(log) /\ pos \in Nat
      /\ LogTypes /\ StrayLocksAborted
  BY LogEntries DEF ReplayInv
<1>4. LogTypes'
  <2>1. pos' \in 1 .. Len(log) + 1
    BY <1>1, <1>3 DEF LogTypes
  <2> QED
    BY <1>2, <1>3, <2>1, StoreSame DEF LogTypes, store
<1>5. StrayLocksAborted'
  <2>1. Locks' = Locks /\ pos' <= pos /\ pos' \in Int
    BY <1>1, <1>2, <1>3 DEF Locks
  <2>2. \A q \in DOMAIN log : q >= pos => q >= pos'
    BY <1>3, <2>1
  <2> QED
    BY <1>2, <1>3, <2>1, <2>2 DEF StrayLocksAborted
<1>6. /\ ExpectedShape' /\ VersionsThere' /\ LocksKept' /\ AbortsFinal'
      /\ PrewritesEnded'
  BY <1>2 DEF ReplayInv, ExpectedShape, VersionsThere, LocksKept, AbortsFinal,
     PrewritesEnded, Rows, Locks, Index
<1> QED
  BY <1>4, <1>5, <1>6 DEF ReplayInv

LEMMA ReplayStepInv ==
    ASSUME ReplayInv, Replay
    PROVE  ReplayInv'
<1>0. /\ LogTypes /\ ExpectedShape /\ VersionsThere /\ LocksKept /\ AbortsFinal
      /\ StrayLocksAborted /\ PrewritesEnded /\ StoreOK
  BY DEF ReplayInv, LogTypes
<1>1. /\ ~CaughtUp /\ Apply(log[pos]) /\ pos' = pos + 1
      /\ log' = log /\ expected' = expected
  BY DEF Replay
<1> DEFINE op == log[pos]
<1>2. /\ Len(log) \in Nat /\ DOMAIN log = 1 .. Len(log) /\ pos \in DOMAIN log
      /\ pos \in Nat /\ op \in Op
  BY <1>0, <1>1, LogEntries DEF CaughtUp, LogTypes
<1>3. Rows' = Rows /\ Locks' = Locks /\ Index' = Index
  BY <1>1 DEF Rows, Locks, Index
<1>4. Locks \in [Key -> Intent \cup {NoIntent}]
      /\ intents \in [Key -> Intent \cup {NoIntent}]
  BY <1>0 DEF ExpectedShape, StoreOK, BackendTypeOK
<1> HIDE DEF op
<1>5. /\ StoreOK' /\ committed' = committed
      /\ LocksKept'
      /\ \A k \in Key :
            \/ intents'[k] = intents[k] /\ ~Aborts(op, k, intents[k].txn_id, intents[k].start_ts)
            \/ Locks[k] # NoIntent
            \/ intents'[k] = NoIntent
            \/ \E q \in DOMAIN log : q >= pos + 1 /\
                  Aborts(log[q], k, intents'[k].txn_id, intents'[k].start_ts)
  <2>1. CASE op.kind = "prewrite_batch"
    <3>1. /\ StoreOK' /\ committed' = committed
          /\ \/ UNCHANGED store
             \/ /\ \A k \in WrittenKeys(op) :
                      /\ intents[k] = NoIntent
                      /\ get_latest_commit_ts(committed[k]) <= op.start_ts
                      /\ Holds(intents'[k], op.txn_id, op.start_ts)
                /\ \A k \in Key \ WrittenKeys(op) : intents'[k] = intents[k]
      BY <1>0, <1>1, <1>2, <2>1, PrewriteEffect DEF op
    <3>2. \A k \in Key : ~Aborts(op, k, intents[k].txn_id, intents[k].start_ts)
      BY <2>1 DEF Aborts
    <3>3. CASE UNCHANGED store
      BY <1>0, <1>3, <3>1, <3>2, <3>3 DEF store, LocksKept
    <3>4. CASE /\ \A k \in WrittenKeys(op) :
                     /\ intents[k] = NoIntent
                     /\ get_latest_commit_ts(committed[k]) <= op.start_ts
                     /\ Holds(intents'[k], op.txn_id, op.start_ts)
               /\ \A k \in Key \ WrittenKeys(op) : intents'[k] = intents[k]
      <4>1. \A k \in WrittenKeys(op) : k \in Key /\ Locks[k] = NoIntent
        BY <1>0, <1>2, <2>1, <3>4, WrittenKeysType DEF LocksKept
      <4>2. \A k \in WrittenKeys(op) : \E q \in DOMAIN log :
                q > pos /\ Aborts(log[q], k, op.txn_id, op.start_ts)
        <5> TAKE k \in WrittenKeys(op)
        <5>1. /\ get_latest_commit_ts(committed[k]) \in Int /\ op.start_ts \in Int
              /\ get_latest_commit_ts(committed[k]) <= op.start_ts
          BY <1>2, <2>1, <3>4, <4>1, LatestInt, OpTypes, TimestampType
        <5>2. \/ Holds(Locks[k], op.txn_id, op.start_ts)
              \/ get_latest_commit_ts(committed[k]) > op.start_ts
              \/ \E q \in DOMAIN log : q > pos /\ Aborts(log[q], k, op.txn_id, op.start_ts)
          BY <1>0, <1>2, <2>1 DEF PrewritesEnded, op
        <5> QED
          BY <4>1, <5>1, <5>2 DEF Holds
      <4>3. \A k \in WrittenKeys(op) : \E q \in DOMAIN log :
                q >= pos + 1 /\ Aborts(log[q], k, intents'[k].txn_id, intents'[k].start_ts)
        BY <1>2, <3>4, <4>2 DEF Holds
      <4>4. LocksKept'
        BY <1>0, <1>3, <3>4, <4>1 DEF LocksKept
      <4> QED
        BY <3>1, <3>2, <3>4, <4>3, <4>4
    <3> QED
      BY <3>1, <3>3, <3>4
  <2>2. CASE op.kind = "abort_batch"
    <3>1. /\ ~HasDuplicates(op.keys)
          /\ \A k \in Elements(op.keys) : ~Holds(Locks[k], op.txn_id, op.start_ts)
      BY <1>0, <1>2, <2>2 DEF AbortsFinal, op
    <3>2. /\ StoreOK' /\ committed' = committed
          /\ \A k \in Elements(op.keys) :
                Holds(intents[k], op.txn_id, op.start_ts) => intents'[k] = NoIntent
          /\ \A k \in Key :
                k \notin Elements(op.keys) \/ ~Holds(intents[k], op.txn_id, op.start_ts)
                    => intents'[k] = intents[k]
      BY <1>0, <1>1, <1>2, <2>2, <3>1, AbortEffect DEF op
    <3>3. LocksKept'
      BY <1>0, <1>3, <3>1, <3>2 DEF LocksKept
    <3>4. \A k \in Key :
              \/ intents'[k] = intents[k]
                 /\ ~Aborts(op, k, intents[k].txn_id, intents[k].start_ts)
              \/ intents'[k] = NoIntent
      BY <3>2 DEF Aborts, Holds
    <3> QED
      BY <3>2, <3>3, <3>4
  <2>3. CASE op.kind \in {"commit_batch", "apply_direct_batch", "apply_guarded_batch"}
    <3>1. \E k \in WrittenKeys(op) : get_latest_commit_ts(committed[k]) >= op.commit_ts
      BY <1>0, <1>2, <2>3 DEF VersionsThere, op
    <3>2. UNCHANGED store
      BY <1>0, <1>1, <1>2, <2>3, <3>1, WriteRefused DEF op
    <3>3. StoreOK'
      BY <1>0, <3>2, StoreSame
    <3>4. \A k \in Key : ~Aborts(op, k, intents[k].txn_id, intents[k].start_ts)
      BY <2>3 DEF Aborts
    <3> QED
      BY <1>0, <1>3, <3>2, <3>3, <3>4 DEF store, LocksKept
  <2> QED
    BY <1>2, <2>1, <2>2, <2>3, OpTypes
<1>6. LogTypes'
  BY <1>0, <1>1, <1>2, <1>5 DEF LogTypes
<1>7. StrayLocksAborted'
  <2> SUFFICES ASSUME NEW k \in Key, intents'[k] # NoIntent, Locks[k] = NoIntent
               PROVE  \E q \in DOMAIN log : q >= pos + 1 /\
                          Aborts(log[q], k, intents'[k].txn_id, intents'[k].start_ts)
    BY <1>1, <1>3 DEF StrayLocksAborted
  <2>1. CASE /\ intents'[k] = intents[k]
             /\ ~Aborts(op, k, intents[k].txn_id, intents[k].start_ts)
    <3>1. PICK q \in DOMAIN log :
              q >= pos /\ Aborts(log[q], k, intents[k].txn_id, intents[k].start_ts)
      BY <1>0, <2>1 DEF StrayLocksAborted
    <3>2. q # pos
      BY <2>1, <3>1 DEF op
    <3>3. q >= pos + 1
      BY <1>2, <3>1, <3>2
    <3> QED
      BY <2>1, <3>1, <3>3
  <2> QED
    BY <1>5, <2>1
<1>8. ExpectedShape' /\ VersionsThere' /\ AbortsFinal' /\ PrewritesEnded'
  BY <1>0, <1>1, <1>3, <1>5 DEF ExpectedShape, VersionsThere, AbortsFinal, PrewritesEnded
<1> QED
  BY <1>5, <1>6, <1>7, <1>8 DEF ReplayInv

LEMMA ReplayInit ==
    ASSUME Init
    PROVE  ReplayInv
<1>1. /\ StoreOK /\ log = <<>> /\ pos = 1
      /\ expected = <<committed, intents, all_keys_set>>
  BY StoreInit DEF Init, store
<1>2. /\ Rows = committed /\ Locks = intents /\ Index = all_keys_set
      /\ DOMAIN log = {} /\ log \in Seq(Op) /\ pos \in 1 .. Len(log) + 1
  BY <1>1 DEF Rows, Locks, Index
<1>3. LogTypes /\ ExpectedShape
  BY <1>1, <1>2 DEF LogTypes, ExpectedShape, StoreOK, BackendTypeOK, IndexExact, Locked
<1>4. VersionsThere /\ AbortsFinal /\ PrewritesEnded
  BY <1>2 DEF VersionsThere, AbortsFinal, PrewritesEnded
<1>5. LocksKept /\ StrayLocksAborted
  BY <1>2 DEF LocksKept, StrayLocksAborted
<1> QED
  BY <1>3, <1>4, <1>5 DEF ReplayInv

LEMMA ReplayNext ==
    ASSUME ReplayInv, [Next]_applyVars
    PROVE  ReplayInv'
<1>1. CASE UNCHANGED applyVars
  <2>1. /\ UNCHANGED <<committed, intents, all_keys_set, log, pos, expected>>
    BY <1>1 DEF applyVars, store
  <2>2. StoreOK'
    BY <2>1, StoreSame DEF ReplayInv, LogTypes, store
  <2> QED
    BY <2>1, <2>2 DEF ReplayInv, LogTypes, ExpectedShape, VersionsThere, LocksKept,
       AbortsFinal, StrayLocksAborted, PrewritesEnded, Rows, Locks, Index
<1> QED
  BY <1>1, ExecuteInv, RestartInv, ReplayStepInv DEF Next

(* At-least-once application in order is enough: whenever the apply loop has *)
(* caught up, however often it restarted and wherever, the versions, the     *)
(* intents and the key index are those of the first application.             *)
THEOREM Replays == Spec => []ReplayConverges
<1>1. Init => ReplayInv
  BY ReplayInit
<1>2. ReplayInv /\ [Next]_applyVars => ReplayInv'
  BY ReplayNext
<1>3. ReplayInv => ReplayConverges
  BY Converged DEF ReplayConverges
<1> QED
  BY <1>1, <1>2, <1>3, PTL DEF Spec
=============================================================================
