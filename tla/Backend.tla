------------------------------- MODULE Backend -------------------------------
(***************************************************************************)
(* The in-memory storage backend (src/backend.rs): the committed versions, *)
(* the intents, the index of known keys, the queries the engine asks and   *)
(* the all-or-nothing transitions it performs.                             *)
(*                                                                         *)
(* A key is a natural number: only the byte order of keys matters.  The    *)
(* BTreeMap (key, timestamp) -> Option<Value> is a row per key: a value, a *)
(* Tombstone (the stored None), or NoVersion (no entry).                   *)
(***************************************************************************)
EXTENDS Integers, Sequences, FiniteSets, FiniteSetsExt

CONSTANTS
    Key,         \* physical keys, ordered as their bytes are
    Value,       \* physical values
    TxnId,       \* transaction identifiers
    MaxTs,       \* bound on timestamps (u128 in the code)
    Tombstone,   \* the stored None: a delete, and what an absent key reads as
    NoVersion,   \* no committed entry at this (key, timestamp)
    NoIntent     \* no intent on this key

ASSUME KeyAssumption == Key \subseteq Nat
ASSUME MaxTsAssumption == MaxTs \in Nat
ASSUME SentinelAssumption ==
    /\ Tombstone \notin Value
    /\ NoVersion \notin Value \cup {Tombstone}

Timestamp == 0 .. MaxTs

\* None of Option<Timestamp> and of Option<Key>: below every real one.
NoTs  == -1
NoKey == -1

\* Mutation, CommittedVersion.value and PhysicalWrite.value: Some(v) or None.
Mutation == Value \cup {Tombstone}

Row == [Timestamp -> Mutation \cup {NoVersion}]

Intent == [txn_id : TxnId, start_ts : Timestamp, mutation : Mutation,
           min_commit_ts : Timestamp \cup {NoTs}]

ASSUME IntentAssumption == NoIntent \notin Intent

VARIABLES
    committed,   \* committed[k][t]: the version of k at timestamp t
    intents,     \* intents[k]: the intent that locks k
    all_keys_set \* the ordered index of known keys

store == <<committed, intents, all_keys_set>>

BackendTypeOK ==
    /\ committed \in [Key -> Row]
    /\ intents \in [Key -> Intent \cup {NoIntent}]
    /\ all_keys_set \subseteq Key

BackendInit ==
    /\ committed = [k \in Key |-> [t \in Timestamp |-> NoVersion]]
    /\ intents = [k \in Key |-> NoIntent]
    /\ all_keys_set = {}

-----------------------------------------------------------------------------
(* Queries. *)

TimestampsOf(row) == {t \in Timestamp : row[t] # NoVersion}

\* The last entry of an ordered range, if the range is not empty.
Newest(S) == IF S = {} THEN NoTs ELSE Max(S)

get_visible_committed(row, read_ts) ==
    Newest({t \in TimestampsOf(row) : t <= read_ts})

get_latest_commit_ts(row) == Newest(TimestampsOf(row))

\* The first n elements in descending, and in ascending, order: take(limit).
NewestN(S, n) == {t \in S : Cardinality({u \in S : u > t}) < n}
FirstN(S, n)  == {k \in S : Cardinality({j \in S : j < k}) < n}

\* Mutant: an inclusive bound, which takes the keeper too.
TimestampsUpTo(row, before_ts, limit) ==
    NewestN({t \in TimestampsOf(row) : t <= before_ts}, limit)

get_committed_timestamps_before(row, before_ts, limit) ==
    NewestN({t \in TimestampsOf(row) : t < before_ts}, limit)

\* An absent start is NoKey, which precedes every key.
keys_from(start, limit) == FirstN({k \in all_keys_set : k >= start}, limit)

Locked(k) == intents[k] # NoIntent

LockedBy(k, txn_id, start_ts) ==
    /\ Locked(k)
    /\ intents[k].txn_id = txn_id
    /\ intents[k].start_ts = start_ts

-----------------------------------------------------------------------------
(* Transitions.  `versions` and `new` are functions on the keys they touch. *)

\* Mutant: the index is never cleaned up.
NeverCleanUp(index, ks, rows, locks) == index

\* A key leaves the index when neither an intent nor a version is left of it.
maybe_remove_from_keys(index, ks, rows, locks) ==
    index \ {k \in ks : locks[k] = NoIntent /\ TimestampsOf(rows[k]) = {}}

Overlay(new, old) ==
    [k \in Key |-> IF k \in DOMAIN new THEN new[k] ELSE old[k]]

put_intents_batch(new) ==
    /\ intents' = Overlay(new, intents)
    /\ all_keys_set' = all_keys_set \cup DOMAIN new
    /\ UNCHANGED committed

WithVersions(versions, commit_ts) ==
    Overlay([k \in DOMAIN versions |->
                [committed[k] EXCEPT ![commit_ts] = versions[k]]], committed)

put_committed_batch(versions, commit_ts) ==
    /\ committed' = WithVersions(versions, commit_ts)
    /\ all_keys_set' = all_keys_set \cup DOMAIN versions
    /\ UNCHANGED intents

WithoutIntents(ks) == [k \in Key |-> IF k \in ks THEN NoIntent ELSE intents[k]]

commit_intents_batch(versions, commit_ts, txn_id, start_ts) ==
    LET gone == {k \in DOMAIN versions : LockedBy(k, txn_id, start_ts)}
    IN  /\ committed' = WithVersions(versions, commit_ts)
        /\ intents' = WithoutIntents(gone)
        /\ all_keys_set' = maybe_remove_from_keys(
               all_keys_set \cup DOMAIN versions, gone, committed', intents')

\* Mutant: an abort removes locks whoever holds them.
RemoveIntentsOfAnyone(ks, txn_id, start_ts) ==
    /\ intents' = WithoutIntents(ks)
    /\ all_keys_set' = maybe_remove_from_keys(all_keys_set, ks, committed, intents')
    /\ UNCHANGED committed

remove_intents_batch(ks, txn_id, start_ts) ==
    LET gone == {k \in ks : LockedBy(k, txn_id, start_ts)}
    IN  /\ intents' = WithoutIntents(gone)
        /\ all_keys_set' =
               maybe_remove_from_keys(all_keys_set, gone, committed, intents')
        /\ UNCHANGED committed

\* A run of remove_committed_version calls on k, or one collapse_tombstone.
remove_committed_versions(k, S) ==
    /\ committed' = [committed EXCEPT ![k] =
           [t \in Timestamp |-> IF t \in S THEN NoVersion ELSE committed[k][t]]]
    /\ all_keys_set' = maybe_remove_from_keys(
           all_keys_set, IF S = {} THEN {} ELSE {k}, committed', intents)
    /\ UNCHANGED intents

-----------------------------------------------------------------------------
(* Properties. *)

\* all_keys_set, which drives the GC scan, holds exactly the keys with an
\* intent or a version: maybe_remove_from_keys is called on every path that
\* can empty a key, and never drops a key that still has something.
IndexExact ==
    all_keys_set = {k \in Key : Locked(k) \/ TimestampsOf(committed[k]) # {}}
=============================================================================
