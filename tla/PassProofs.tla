------------------------------ MODULE PassProofs ------------------------------
(***************************************************************************)
(* Loops over pages of keys that other operations interleave with: a       *)
(* collection pass, and a prefix scan.                                     *)
(*                                                                         *)
(* A collection pass that reports done left nothing behind.  What a pass   *)
(* owes (debt) always lies ahead of it: at or after the cursor, and during *)
(* a call among the keys still to scan or at or after the key to resume    *)
(* at.  Callers must not ask for so many keys that `max_keys + 1`          *)
(* overflows (PagesFit).                                                   *)
(***************************************************************************)
EXTENDS SnapshotProofs, PrefixScan

PagesFit == \A b \in Budgets : b.max_keys < UsizeMax

Debts == debt.old \cup debt.final

\* What is owed is there, and a call that comes to it will find it.
StillObsolete ==
    \A v \in debt.old :
        /\ committed[v.key][v.ts] # NoVersion
        /\ v.ts < get_visible_committed(committed[v.key], pass.safe_point_ts)

StillFinal ==
    \A v \in debt.final :
        /\ pass.collapse
        /\ committed[v.key][v.ts] = Tombstone
        /\ v.ts <= pass.safe_point_ts
        /\ v.ts = get_latest_commit_ts(committed[v.key])
        /\ intents[v.key] = NoIntent

\* A budget of zero is refused, and owes nothing.
PassPayable ==
    /\ pass.max_keys < UsizeMax
    /\ pass.max_keys = 0 \/ pass.max_versions = 0 => Debts = {}

\* Nothing is owed before the cursor.
DebtAhead == \A v \in Debts : v.key >= pass.cursor

\* Nothing is owed on a key that the running call has passed.
DebtInCall ==
    /\ call.next # NoKey => \A k \in call.todo : k < call.next
    /\ \A v \in Debts : \/ v.key \in call.todo
                        \/ call.next # NoKey /\ v.key >= call.next

DebtInv ==
    /\ pass = NoPass => Debts = {}
    /\ pass # NoPass => StillObsolete /\ StillFinal /\ PassPayable /\ DebtAhead
    /\ call # NoCall => DebtInCall

-----------------------------------------------------------------------------
(* What is owed stays collectable until it is collected. *)

LEMMA DebtTypes ==
    ASSUME TypeOK
    PROVE  \A v \in Debts : v.key \in Key /\ v.ts \in Timestamp
<1>1. Debts \in SUBSET Versions
  BY DEF TypeOK, Debts
<1> QED
  BY <1>1 DEF Versions

LEMMA OwedShrinks ==
    ASSUME Owed
    PROVE  /\ \A v \in debt'.old : v \in debt.old /\ committed'[v.key][v.ts] # NoVersion
           /\ \A v \in debt'.final :
                 /\ v \in debt.final
                 /\ committed'[v.key][v.ts] # NoVersion
                 /\ v.ts = get_latest_commit_ts(committed'[v.key])
                 /\ intents'[v.key] = NoIntent
           /\ Debts' \in SUBSET Debts
<1>1. /\ debt'.old = {v \in debt.old : committed'[v.key][v.ts] # NoVersion}
      /\ debt'.final = {v \in debt.final :
                           /\ committed'[v.key][v.ts] # NoVersion
                           /\ v.ts = get_latest_commit_ts(committed'[v.key])
                           /\ intents'[v.key] = NoIntent}
  BY DEF Owed
<1>2. Debts' = debt'.old \cup debt'.final
  BY DEF Debts
<1> QED
  BY <1>1, <1>2 DEF Debts

LEMMA ClientDebt ==
    ASSUME Contract, SInv, EngineOp, Owed, pass' = pass, pass \in Pass,
           StillObsolete, StillFinal
    PROVE  StillObsolete' /\ StillFinal'
<1>0. TypeOK /\ committed \in [Key -> Row] /\ pass.safe_point_ts \in Timestamp
  BY DEF SInv, TypeOK, BackendTypeOK, Pass
<1>1. ASSUME NEW k \in Key, NEW t \in Timestamp, committed[k][t] # NoVersion
      PROVE  /\ committed'[k][t] = committed[k][t]
             /\ t < get_visible_committed(committed[k], pass.safe_point_ts) =>
                    t < get_visible_committed(committed'[k], pass.safe_point_ts)
  <2>1. CASE committed'[k] = committed[k]
    BY <2>1
  <2>2. ASSUME NEW c \in Timestamp, NEW m \in Mutation,
               c > get_latest_commit_ts(committed[k]),
               committed'[k] = Written(committed[k], c, m)
        PROVE  /\ committed'[k][t] = committed[k][t]
               /\ t < get_visible_committed(committed[k], pass.safe_point_ts) =>
                      t < get_visible_committed(committed'[k], pass.safe_point_ts)
    <3>1. committed[k] \in Row
      BY <1>0
    <3>2. t < c
      BY <1>1, <2>2, LatestProp, LatestInt, TimestampType
    <3>3. committed'[k][t] = committed[k][t]
      BY <2>2, <3>1, <3>2, WrittenAt, TimestampType
    <3>4. get_visible_committed(committed'[k], pass.safe_point_ts) =
              IF pass.safe_point_ts >= c THEN c
              ELSE get_visible_committed(committed[k], pass.safe_point_ts)
      BY <1>0, <2>2, <3>1, ReadAfterWrite
    <3> QED
      BY <3>2, <3>3, <3>4
  <2> QED
    BY <2>1, <2>2, RowsGrow
<1>2. StillObsolete'
  <2> SUFFICES ASSUME NEW v \in debt'.old
               PROVE  /\ committed'[v.key][v.ts] # NoVersion
                      /\ v.ts < get_visible_committed(committed'[v.key], pass.safe_point_ts)
    BY DEF StillObsolete
  <2>1. v \in debt.old /\ committed'[v.key][v.ts] # NoVersion
    BY OwedShrinks
  <2>2. v.key \in Key /\ v.ts \in Timestamp
    BY <1>0, <2>1, DebtTypes DEF Debts
  <2>3. /\ committed[v.key][v.ts] # NoVersion
        /\ v.ts < get_visible_committed(committed[v.key], pass.safe_point_ts)
    BY <2>1 DEF StillObsolete
  <2> QED
    BY <1>1, <2>1, <2>2, <2>3
<1>3. StillFinal'
  <2> SUFFICES ASSUME NEW v \in debt'.final
               PROVE  /\ pass.collapse
                      /\ committed'[v.key][v.ts] = Tombstone
                      /\ v.ts <= pass.safe_point_ts
                      /\ v.ts = get_latest_commit_ts(committed'[v.key])
                      /\ intents'[v.key] = NoIntent
    BY DEF StillFinal
  <2>1. /\ v \in debt.final
        /\ v.ts = get_latest_commit_ts(committed'[v.key])
        /\ intents'[v.key] = NoIntent
    BY OwedShrinks
  <2>2. v.key \in Key /\ v.ts \in Timestamp
    BY <1>0, <2>1, DebtTypes DEF Debts
  <2>3. /\ pass.collapse /\ committed[v.key][v.ts] = Tombstone
        /\ v.ts <= pass.safe_point_ts
    BY <2>1 DEF StillFinal
  <2>4. committed[v.key][v.ts] # NoVersion
    BY <2>3, SentinelAssumption
  <2> QED
    BY <1>1, <2>1, <2>2, <2>3, <2>4
<1> QED
  BY <1>2, <1>3

(* A call prunes its key below the keeper, or empties it. *)
LEMMA GcRemovals ==
    ASSUME SInv, GcStep \/ GcFail
    PROVE  \/ UNCHANGED store
           \/ /\ Scanning
              /\ \E S : /\ remove_committed_versions(Current, S)
                        /\ Keeper \notin S \/ TimestampsOf(committed[Current]) \subseteq S
<1>0. Scanning => \A t \in Removable : t < Keeper
  BY ScanTypes DEF SInv, TypeOK
<1>1. Keeper \in Int
  BY VisibleProp, TimestampType DEF Keeper
<1>2. Scanning => Keeper \notin Removable
  BY <1>0, <1>1
<1>3. CASE GcCollapse
  BY <1>3, CollapseTakesAll DEF GcCollapse
<1>4. CASE GcTrimTombstone
  BY <1>2, <1>4 DEF GcTrimTombstone
<1>5. CASE GcPrune
  BY <1>2, <1>5 DEF GcPrune
<1>6. CASE GcFail
  <2>1. CASE UNCHANGED store
    BY <2>1
  <2>2. CASE ~UNCHANGED store
    <3>1. PICK n \in 1 .. Cardinality(Removable) - 1 :
              remove_committed_versions(Current, NewestN(Removable, n))
      BY <1>6, <2>2 DEF GcFail
    <3>2. Scanning /\ Keeper \notin NewestN(Removable, n)
      BY <1>2, <1>6 DEF GcFail, NewestN
    <3> QED
      BY <3>1, <3>2
  <2> QED
    BY <2>1, <2>2
<1>7. CASE GcReject \/ GcBegin \/ GcSkip \/ GcOutOfBudget \/ GcReturn
  BY <1>7 DEF GcReject, GcBegin, GcSkip, GcOutOfBudget, GcReturn, store
<1> QED
  BY <1>3, <1>4, <1>5, <1>6, <1>7 DEF GcStep

LEMMA GcDebt ==
    ASSUME SInv, GcStep \/ GcFail, Owed, pass \in Pass,
           pass'.safe_point_ts = pass.safe_point_ts, pass'.collapse = pass.collapse,
           StillObsolete, StillFinal
    PROVE  StillObsolete' /\ StillFinal'
<1>0. /\ TypeOK /\ StoreOK /\ GcTypeOK /\ committed \in [Key -> Row]
      /\ pass.safe_point_ts \in Timestamp
  BY DEF SInv, TypeOK, StoreOK, BackendTypeOK, Pass
<1> DEFINE safe == pass.safe_point_ts
<1>1. ASSUME NEW k \in Key, NEW t \in Timestamp, committed'[k][t] # NoVersion
      PROVE  /\ committed'[k][t] = committed[k][t]
             /\ t < get_visible_committed(committed[k], safe) =>
                    t < get_visible_committed(committed'[k], safe)
  <2>1. CASE UNCHANGED store
    BY <2>1 DEF store
  <2>2. ASSUME Scanning, NEW S, remove_committed_versions(Current, S),
               Keeper \notin S \/ TimestampsOf(committed[Current]) \subseteq S
        PROVE  /\ committed'[k][t] = committed[k][t]
               /\ t < get_visible_committed(committed[k], safe) =>
                      t < get_visible_committed(committed'[k], safe)
    <3> DEFINE cur == Current
    <3>1. cur \in Key
      BY <1>0, <2>2, ScanTypes
    <3>2. /\ committed'[cur] = Pruned(committed[cur], S)
          /\ \A j \in Key \ {cur} : committed'[j] = committed[j]
      BY <1>0, <2>2, <3>1, RemovalStore
    <3>3. CASE k # cur
      BY <3>2, <3>3
    <3>4. CASE k = cur
      <4> DEFINE row == committed[k]
                 keeper == get_visible_committed(row, safe)
      <4>1. keeper = Keeper
        BY <3>4 DEF Keeper
      <4>2. committed'[k] = Pruned(row, S)
        BY <3>2, <3>4
      <4>3. t \notin S /\ committed'[k][t] = row[t]
        BY <1>1, <4>2 DEF Pruned
      <4>4. keeper \notin S
        BY <1>1, <2>2, <3>4, <4>1, <4>3 DEF TimestampsOf
      <4>5. get_visible_committed(Pruned(row, S), safe) = get_visible_committed(row, safe)
        BY <4>4, KeeperStays
      <4> QED
        BY <4>2, <4>3, <4>5
    <3> QED
      BY <3>3, <3>4
  <2> QED
    BY <2>1, <2>2, GcRemovals
<1>2. StillObsolete'
  <2> SUFFICES ASSUME NEW v \in debt'.old
               PROVE  /\ committed'[v.key][v.ts] # NoVersion
                      /\ v.ts < get_visible_committed(committed'[v.key], safe)
    BY DEF StillObsolete
  <2>1. v \in debt.old /\ committed'[v.key][v.ts] # NoVersion
    BY OwedShrinks
  <2>2. v.key \in Key /\ v.ts \in Timestamp
    BY <1>0, <2>1, DebtTypes DEF Debts
  <2>3. v.ts < get_visible_committed(committed[v.key], safe)
    BY <2>1 DEF StillObsolete
  <2> QED
    BY <1>1, <2>1, <2>2, <2>3
<1>3. StillFinal'
  <2> SUFFICES ASSUME NEW v \in debt'.final
               PROVE  /\ pass.collapse
                      /\ committed'[v.key][v.ts] = Tombstone
                      /\ v.ts <= safe
                      /\ v.ts = get_latest_commit_ts(committed'[v.key])
                      /\ intents'[v.key] = NoIntent
    BY DEF StillFinal
  <2>1. /\ v \in debt.final /\ committed'[v.key][v.ts] # NoVersion
        /\ v.ts = get_latest_commit_ts(committed'[v.key])
        /\ intents'[v.key] = NoIntent
    BY OwedShrinks
  <2>2. v.key \in Key /\ v.ts \in Timestamp
    BY <1>0, <2>1, DebtTypes DEF Debts
  <2>3. /\ pass.collapse /\ committed[v.key][v.ts] = Tombstone
        /\ v.ts <= safe
    BY <2>1 DEF StillFinal
  <2> QED
    BY <1>1, <2>1, <2>2, <2>3
<1> QED
  BY <1>2, <1>3

-----------------------------------------------------------------------------
(* A call moves on from a key only when nothing is owed on it. *)

(* A final tombstone that is owed is recognised when the call reaches it. *)
LEMMA FinalIsSeen ==
    ASSUME TypeOK, StillFinal, NEW v \in debt.final, v.key = Current
    PROVE  Keeper = v.ts /\ Keeper # NoTs /\ IsFinalTombstone
<1> DEFINE row == committed[v.key]
<1>1. v.key \in Key /\ v.ts \in Timestamp
  BY DebtTypes DEF Debts
<1>2. /\ pass.collapse /\ row[v.ts] = Tombstone
      /\ v.ts <= pass.safe_point_ts
      /\ v.ts = get_latest_commit_ts(row)
      /\ intents[v.key] = NoIntent
  BY DEF StillFinal
<1>3. row[v.ts] # NoVersion
  BY <1>2, SentinelAssumption
<1>4. \A t \in Timestamp : row[t] # NoVersion => t <= v.ts
  BY <1>2, LatestProp
<1>5. get_visible_committed(row, pass.safe_point_ts) = v.ts
  <2> HIDE DEF row
  <2> QED
    BY <1>1, <1>2, <1>3, <1>4, VisibleUnique
<1>6. Keeper = v.ts
  BY <1>5 DEF Keeper
<1> QED
  BY <1>1, <1>2, <1>6, TimestampType DEF IsFinalTombstone, Locked

LEMMA SkipOwesNothing ==
    ASSUME SInv, StillObsolete, StillFinal, GcSkip
    PROVE  \A v \in Debts : v.key # Current
<1>0. TypeOK
  BY DEF SInv
<1> DEFINE S == {t \in TimestampsOf(committed[Current]) : t < Keeper}
<1>1. \/ Keeper = NoTs
      \/ get_committed_timestamps_before(committed[Current], Keeper, 1) = {}
         /\ ~IsFinalTombstone
  BY DEF GcSkip
<1>2. ASSUME NEW v \in debt.final, v.key = Current PROVE FALSE
  <2>1. Keeper # NoTs /\ IsFinalTombstone /\ Keeper = v.ts
    BY <1>0, <1>2, FinalIsSeen
  <2> QED
    BY <1>1, <2>1
<1>3. ASSUME NEW v \in debt.old, v.key = Current PROVE FALSE
  <2>1. v.ts \in Timestamp
    BY <1>0, DebtTypes DEF Debts
  <2>2. committed[Current][v.ts] # NoVersion /\ v.ts < Keeper
    BY <1>3 DEF StillObsolete, Keeper
  <2>3. v.ts \in S
    BY <2>1, <2>2 DEF TimestampsOf
  <2>4. Keeper # NoTs
    BY <2>1, <2>2, TimestampType
  <2>5. NewestN(S, 0 + 1) = {}
    BY <1>1, <2>4 DEF get_committed_timestamps_before
  <2>6. S \in SUBSET Timestamp
    BY DEF TimestampsOf
  <2>7. Cardinality(NewestN(S, 0 + 1)) <= 0
    BY <2>5, FS_EmptySet
  <2> HIDE DEF S
  <2>8. NewestN(S, 0 + 1) = S
    BY <2>6, <2>7, NewestNComplete
  <2> QED
    BY <2>3, <2>5, <2>8
<1> QED
  BY <1>2, <1>3 DEF Debts

LEMMA CollapseOwesNothing ==
    ASSUME SInv, GcCollapse, Owed
    PROVE  \A v \in Debts' : v.key # Current
<1>0. TypeOK /\ StoreOK /\ GcTypeOK
  BY DEF SInv, TypeOK, StoreOK
<1> DEFINE k == Current
           S == Page \cup {Keeper}
<1>1. k \in Key
  BY <1>0, ScanTypes DEF GcCollapse
<1>2. committed'[k] = Pruned(committed[k], S)
  BY <1>0, <1>1, RemovalStore DEF GcCollapse
<1>3. TimestampsOf(committed[k]) \subseteq S
  BY CollapseTakesAll
<1> HIDE DEF k, S
<1>4. \A t \in Timestamp : committed'[k][t] = NoVersion
  BY <1>2, <1>3 DEF Pruned, TimestampsOf
<1>5. \A v \in Debts' : /\ v \in Debts /\ committed'[v.key][v.ts] # NoVersion
  BY OwedShrinks DEF Debts
<1>6. \A v \in Debts' : v.key # k
  BY <1>0, <1>4, <1>5, DebtTypes
<1> QED
  BY <1>6 DEF k

LEMMA PruneOwesNothing ==
    ASSUME SInv, StillObsolete, StillFinal, GcPrune, ~HasMore, Owed
    PROVE  \A v \in Debts' : v.key # Current
<1>0. TypeOK /\ StoreOK /\ GcTypeOK /\ Scanning /\ ~IsFinalTombstone
  BY DEF SInv, TypeOK, StoreOK, GcPrune
<1>1. Current \in Key /\ Page \in SUBSET Timestamp /\ Cardinality(Page) \in Nat
  BY <1>0, ScanTypes
<1>2. Limit \in Nat /\ Cardinality(Page) <= Limit
  BY <1>0, <1>1, LimitBounds DEF HasMore
<1>3. Removable = Page
  BY <1>1, <1>2, NewestNAll DEF Removable
<1> DEFINE S == {t \in TimestampsOf(committed[Current]) : t < Keeper}
<1>4. Page = NewestN(S, Limit + 1)
  BY <1>0, LimitBounds DEF Page, get_committed_timestamps_before
<1>5. S \in SUBSET Timestamp
  BY DEF TimestampsOf
<1>6. Page = S
  <2> HIDE DEF S
  <2> QED
    BY <1>2, <1>4, <1>5, NewestNComplete
<1>7. committed'[Current] = Pruned(committed[Current], Removable)
  BY <1>0, <1>1, RemovalStore DEF GcPrune
<1>8. ASSUME NEW v \in debt'.old, v.key = Current PROVE FALSE
  <2>1. v \in debt.old /\ committed'[Current][v.ts] # NoVersion
    BY <1>8, OwedShrinks
  <2>2. v.ts \in Timestamp
    BY <1>0, <2>1, DebtTypes DEF Debts
  <2>3. committed[Current][v.ts] # NoVersion /\ v.ts < Keeper
    BY <1>8, <2>1 DEF StillObsolete, Keeper
  <2>4. v.ts \in Removable
    BY <1>3, <1>6, <2>2, <2>3 DEF TimestampsOf
  <2> QED
    BY <1>7, <2>1, <2>2, <2>4 DEF Pruned
<1>9. ASSUME NEW v \in debt'.final, v.key = Current PROVE FALSE
  BY <1>0, <1>9, OwedShrinks, FinalIsSeen
<1> QED
  BY <1>8, <1>9 DEF Debts

-----------------------------------------------------------------------------
(* Where the debt lies. *)

LEMMA AdvanceFields ==
    ASSUME call \in Call, NEW n \in Nat, Advance(n)
    PROVE  call'.todo = call.todo \ {Current} /\ call'.next = call.next
<1> DEFINE k == Current
<1>1. call' = [call EXCEPT !.todo = @ \ {k}, !.removed = @ + n]
  BY DEF Advance
<1> HIDE DEF k
<1>2. call'.todo = call.todo \ {k} /\ call'.next = call.next
  BY <1>1 DEF Call
<1> QED
  BY <1>2 DEF k

LEMMA SuspendFields ==
    ASSUME call \in Call, NEW n \in Nat, Suspend(n)
    PROVE  call'.todo = {} /\ call'.next = Current
<1> DEFINE k == Current
<1>1. call' = [call EXCEPT !.todo = {}, !.next = k, !.removed = @ + n]
  BY DEF Suspend
<1> HIDE DEF k
<1>2. call'.todo = {} /\ call'.next = k
  BY <1>1 DEF Call
<1> QED
  BY <1>2 DEF k

LEMMA AdvanceAhead ==
    ASSUME call \in Call, NEW n \in Nat, Advance(n), DebtInCall,
           Debts' \in SUBSET Debts, \A v \in Debts' : v.key # Current
    PROVE  DebtInCall'
<1>1. call'.todo = call.todo \ {Current} /\ call'.next = call.next
  BY AdvanceFields
<1>2. call'.next # NoKey => \A k \in call'.todo : k < call'.next
  BY <1>1 DEF DebtInCall
<1>3. \A v \in Debts' : \/ v.key \in call'.todo
                        \/ call'.next # NoKey /\ v.key >= call'.next
  BY <1>1 DEF DebtInCall
<1> QED
  BY <1>2, <1>3 DEF DebtInCall

LEMMA SuspendAhead ==
    ASSUME TypeOK, Scanning, NEW n \in Nat, Suspend(n), DebtInCall,
           Debts' \in SUBSET Debts
    PROVE  DebtInCall'
<1>1. call \in Call /\ Current \in call.todo /\ Current \in Key
  BY ScanTypes DEF TypeOK
<1>2. call'.todo = {} /\ call'.next = Current
  BY <1>1, SuspendFields
<1>3. call.todo \in SUBSET Nat /\ Current \in Nat /\ call.next \in Int
  <2>1. call.todo \in SUBSET Key /\ call.next \in Key \cup {NoKey}
    BY <1>1 DEF Call
  <2>2. NoKey \in Int
    BY DEF NoKey
  <2>3. \A k \in Key : k \in Nat
    BY KeyAssumption
  <2> HIDE DEF NoKey
  <2> QED
    BY <1>1, <2>1, <2>2, <2>3
<1>4. \A k \in call.todo : k >= Current
  BY <1>1, <1>3, MinExists DEF Current
<1>5. Current # NoKey
  BY <1>3 DEF NoKey
<1>6. ASSUME NEW v \in Debts' PROVE v.key >= Current
  <2>1. v.key \in Int
    <3>1. v.key \in Key
      BY <1>6, DebtTypes
    <3>2. v.key \in Nat
      BY <3>1, KeyAssumption
    <3> QED
      BY <3>2
  <2>2. CASE v.key \in call.todo
    BY <1>4, <2>2
  <2>3. CASE call.next # NoKey /\ v.key >= call.next
    <3>1. Current < call.next
      BY <1>1, <2>3 DEF DebtInCall
    <3> QED
      BY <1>3, <2>1, <2>3, <3>1
  <2> QED
    BY <2>2, <2>3 DEF DebtInCall
<1> QED
  BY <1>2, <1>5, <1>6 DEF DebtInCall

(* The page that a call fetches, with the key to resume at, covers every key *)
(* of the index from the cursor on.                                          *)
LEMMA BeginAhead ==
    ASSUME SInv, GcBegin, StillObsolete, StillFinal, PassPayable, DebtAhead,
           Debts' \in SUBSET Debts
    PROVE  DebtInCall'
<1>0. TypeOK /\ BackendTypeOK /\ IndexExact /\ pass \in Pass
  BY DEF SInv, TypeOK, GcTypeOK, GcBegin
<1> DEFINE S == {k \in all_keys_set : k >= pass.cursor}
           n == pass.max_keys
           keys == keys_from(pass.cursor, Wrap(pass.max_keys + 1))
           todo == FirstN(keys, n)
           next == IF keys = todo THEN NoKey ELSE Min(keys \ todo)
<1>1. n \in Nat /\ n < UsizeMax
  BY <1>0, UsizeAssumption DEF Pass, Usize, PassPayable
<1>2. Wrap(n + 1) = n + 1
  <2>1. \A m \in Nat : m <= UsizeMax => m % (UsizeMax + 1) = m
    BY UsizeAssumption
  <2> QED
    BY <1>1, <2>1, UsizeAssumption DEF Wrap
<1>3. keys = FirstN(S, n + 1)
  BY <1>2 DEF keys_from
<1>4. S \in SUBSET Nat
  BY <1>0, KeyAssumption DEF BackendTypeOK
<1>5. call'.todo = todo /\ call'.next = next
  BY DEF GcBegin
<1> HIDE DEF S, n, keys
<1>6. keys \in SUBSET S /\ keys \in SUBSET Nat /\ todo \in SUBSET keys
  BY <1>3, <1>4 DEF FirstN
<1> HIDE DEF todo
<1>7. ASSUME keys # todo
      PROVE  /\ next \in keys \ todo /\ next \in Nat
             /\ \A k \in keys \ todo : next <= k
  <2>1. keys \ todo \in SUBSET Nat /\ keys \ todo # {}
    BY <1>6, <1>7
  <2>2. /\ Min(keys \ todo) \in keys \ todo
        /\ \A k \in keys \ todo : Min(keys \ todo) <= k
    BY <2>1, MinExists
  <2> QED
    BY <1>6, <1>7, <2>2
<1>8. next # NoKey => keys # todo
  OBVIOUS
<1> HIDE DEF next
<1>9. ASSUME next # NoKey, NEW k \in todo PROVE k < next
  <2>1. next \in keys \ todo /\ next \in Nat /\ k \in Nat /\ k # next
    BY <1>6, <1>7, <1>8, <1>9
  <2>2. ~(next < k)
    BY <1>1, <1>6, <1>9, <2>1, FirstNDown DEF todo
  <2> QED
    BY <2>1, <2>2
<1>10. ASSUME NEW k \in S
       PROVE  k \in todo \/ (next # NoKey /\ k >= next)
  <2>1. CASE keys = todo
    <3>1. keys = S
      BY <1>1, <1>3, <1>4, <2>1, FirstNComplete DEF todo
    <3> QED
      BY <2>1, <3>1
  <2>2. CASE keys # todo
    <3>1. next \in keys \ todo /\ next \in Nat /\ next # NoKey /\ k \in Nat
      BY <1>4, <1>7, <2>2 DEF NoKey
    <3>2. CASE k \in keys
      BY <1>7, <2>2, <3>1, <3>2
    <3>3. CASE k \notin keys
      <4>1. n + 1 \in Nat /\ next \in FirstN(S, n + 1)
        BY <1>1, <1>3, <3>1
      <4>2. ~(k < next)
        BY <1>3, <1>4, <3>3, <4>1, FirstNDown
      <4> QED
        BY <3>1, <4>2
    <3> QED
      BY <3>2, <3>3
  <2> QED
    BY <2>1, <2>2
<1>11. \A v \in Debts : v.key \in S
  <2> TAKE v \in Debts
  <2>1. v.key \in Key /\ v.ts \in Timestamp
    BY <1>0, DebtTypes
  <2>2. committed[v.key][v.ts] # NoVersion
    BY SentinelAssumption DEF Debts, StillObsolete, StillFinal
  <2>3. v.key \in all_keys_set
    BY <1>0, <2>1, <2>2 DEF IndexExact, TimestampsOf
  <2> QED
    BY <2>3 DEF DebtAhead, S
<1> QED
  BY <1>5, <1>9, <1>10, <1>11 DEF DebtInCall

-----------------------------------------------------------------------------
(* The debt through every step. *)

(* Between calls, and while a call scans, the caller's arguments stay. *)
LEMMA ArgumentsKept ==
    ASSUME pass' = pass, Debts' \in SUBSET Debts, PassPayable, DebtAhead
    PROVE  PassPayable' /\ DebtAhead'
<1>1. PassPayable'
  BY DEF PassPayable
<1>2. DebtAhead'
  BY DEF DebtAhead
<1> QED
  BY <1>1, <1>2

LEMMA ClientStep ==
    ASSUME Contract, SInv, DebtInv, Client
    PROVE  DebtInv'
<1>1. EngineOp /\ Owed /\ pass' = pass /\ call' = call /\ call = NoCall
  BY DEF Client, Observe, gcVars
<1>2. Debts' \in SUBSET Debts
  BY <1>1, OwedShrinks
<1>3. pass' = NoPass => Debts' = {}
  BY <1>1, <1>2 DEF DebtInv
<1>4. ASSUME pass # NoPass
      PROVE  StillObsolete' /\ StillFinal' /\ PassPayable' /\ DebtAhead'
  <2>1. pass \in Pass /\ StillObsolete /\ StillFinal /\ PassPayable /\ DebtAhead
    BY <1>4 DEF DebtInv, SInv, TypeOK, GcTypeOK
  <2> QED
    BY <1>1, <1>2, <2>1, ClientDebt, ArgumentsKept
<1> QED
  BY <1>1, <1>3, <1>4 DEF DebtInv

(* A pass starts with everything it owes ahead of it. *)
LEMMA StartStep ==
    ASSUME PagesFit, SInv, DebtInv, Start
    PROVE  DebtInv'
<1>1. PICK safe \in SafePoints, budget \in Budgets, collapse \in Collapses :
          /\ StartPass(safe, budget, collapse)
          /\ debt' = IF budget.max_keys = 0 \/ budget.max_versions = 0
                     THEN [old |-> {}, final |-> {}]
                     ELSE [old |-> Obsolete(safe),
                           final |-> {v \in FinalTombstones(safe) : collapse}]
  BY DEF Start
<1>2. /\ call' = NoCall /\ committed' = committed /\ intents' = intents
      /\ pass' = [safe_point_ts |-> safe,
                  max_keys |-> budget.max_keys, max_versions |-> budget.max_versions,
                  collapse |-> collapse, cursor |-> NoKey]
  BY <1>1 DEF StartPass, store
<1>3. /\ pass'.safe_point_ts = safe /\ pass'.max_keys = budget.max_keys
      /\ pass'.max_versions = budget.max_versions
      /\ pass'.collapse = collapse /\ pass'.cursor = NoKey
  BY <1>2
<1>4. /\ debt'.old \in SUBSET Obsolete(safe)
      /\ debt'.final \in SUBSET {v \in FinalTombstones(safe) : collapse}
      /\ budget.max_keys = 0 \/ budget.max_versions = 0 => debt'.old \cup debt'.final = {}
  BY <1>1
<1>5. pass' # NoPass
  <2>1. safe \in Timestamp /\ collapse \in BOOLEAN
        /\ budget \in [max_keys : Usize, max_versions : Usize]
    BY InputAssumption
  <2>2. pass' \in Pass
    BY <1>2, <2>1 DEF Pass
  <2> QED
    BY <2>2, GcSentinelAssumption
<1>6. StillObsolete'
  BY <1>2, <1>3, <1>4 DEF StillObsolete, Obsolete
<1>7. StillFinal'
  BY <1>2, <1>3, <1>4 DEF StillFinal, FinalTombstones, Locked
<1>8. PassPayable'
  BY <1>3, <1>4 DEF PassPayable, PagesFit, Debts
<1>9. DebtAhead'
  <2> SUFFICES ASSUME NEW v \in Debts' PROVE v.key >= NoKey
    BY <1>3 DEF DebtAhead
  <2>1. v \in Versions
    BY <1>4 DEF Debts, Obsolete, FinalTombstones
  <2>2. v.key \in Key
    BY <2>1 DEF Versions
  <2>3. v.key \in Nat
    BY <2>2, KeyAssumption
  <2> QED
    BY <2>3 DEF NoKey
<1> QED
  BY <1>2, <1>5, <1>6, <1>7, <1>8, <1>9 DEF DebtInv

(* While a call scans, what is owed on the current key is paid or the call   *)
(* stops there.                                                              *)
LEMMA ScanStep ==
    ASSUME SInv, DebtInv, Owed,
           GcSkip \/ GcOutOfBudget \/ GcCollapse \/ GcTrimTombstone \/ GcPrune
    PROVE  DebtInv'
<1>0. Scanning /\ pass' = pass
  BY DEF GcSkip, GcOutOfBudget, GcCollapse, GcTrimTombstone, GcPrune
<1>1. /\ TypeOK /\ GcTypeOK /\ pass \in Pass /\ call \in Call
      /\ Cardinality(Page) \in Nat /\ Cardinality(Removable) \in Nat
  BY <1>0, ScanTypes DEF SInv, TypeOK
<1>2. pass # NoPass /\ call # NoCall
  BY <1>1, GcSentinelAssumption
<1>3. StillObsolete /\ StillFinal /\ PassPayable /\ DebtAhead /\ DebtInCall
  BY <1>2 DEF DebtInv
<1>4. Debts' \in SUBSET Debts
  BY OwedShrinks
<1>5. StillObsolete' /\ StillFinal'
  <2>1. GcStep
    BY DEF GcStep
  <2> QED
    BY <1>0, <1>1, <1>3, <2>1, GcDebt
<1>6. PassPayable' /\ DebtAhead'
  BY <1>0, <1>3, <1>4, ArgumentsKept
<1>7. ASSUME NEW n \in Nat, Advance(n), \A v \in Debts' : v.key # Current
      PROVE  DebtInCall'
  BY <1>1, <1>3, <1>4, <1>7, AdvanceAhead
<1>8. ASSUME NEW n \in Nat, Suspend(n)
      PROVE  DebtInCall'
  BY <1>0, <1>1, <1>3, <1>4, <1>8, SuspendAhead
<1>9. DebtInCall'
  <2>1. CASE GcSkip
    <3>1. \A v \in Debts' : v.key # Current
      BY <1>3, <1>4, <2>1, SkipOwesNothing
    <3> QED
      BY <1>7, <2>1, <3>1 DEF GcSkip
  <2>2. CASE GcOutOfBudget
    BY <1>8, <2>2 DEF GcOutOfBudget
  <2>3. CASE GcCollapse
    <3>1. Advance(Cardinality(Page) + 1) /\ Cardinality(Page) + 1 \in Nat
      BY <1>1, <2>3 DEF GcCollapse
    <3> QED
      BY <1>7, <2>3, <3>1, CollapseOwesNothing
  <2>4. CASE GcTrimTombstone
    BY <1>1, <1>8, <2>4 DEF GcTrimTombstone
  <2>5. CASE GcPrune
    <3>1. CASE Suspend(Cardinality(Removable))
      BY <1>1, <1>8, <3>1
    <3>2. CASE ~HasMore /\ Advance(Cardinality(Removable))
      BY <1>1, <1>3, <1>7, <2>5, <3>2, PruneOwesNothing
    <3> QED
      BY <2>5, <3>1, <3>2 DEF GcPrune
  <2> QED
    BY <2>1, <2>2, <2>3, <2>4, <2>5
<1> QED
  BY <1>0, <1>2, <1>5, <1>6, <1>9 DEF DebtInv

(* The other steps of a call. *)
LEMMA CallStep ==
    ASSUME SInv, DebtInv, Owed, GcReject \/ GcBegin \/ GcReturn \/ GcFail
    PROVE  DebtInv'
<1>1. pass # NoPass /\ pass \in Pass
  BY GcSentinelAssumption
     DEF GcReject, GcBegin, GcReturn, GcFail, Scanning, SInv, TypeOK, GcTypeOK
<1>2. StillObsolete /\ StillFinal /\ PassPayable /\ DebtAhead
  BY <1>1 DEF DebtInv
<1>3. Debts' \in SUBSET Debts
  BY OwedShrinks
<1>4. ASSUME pass'.safe_point_ts = pass.safe_point_ts, pass'.collapse = pass.collapse
      PROVE  StillObsolete' /\ StillFinal'
  <2>1. GcStep \/ GcFail
    BY DEF GcStep
  <2> QED
    BY <1>1, <1>2, <1>4, <2>1, GcDebt
<1>5. CASE GcReject
  <2>1. Debts' = {}
    BY <1>2, <1>3, <1>5 DEF GcReject, PassPayable
  <2> QED
    BY <1>5, <2>1 DEF GcReject, DebtInv
<1>6. CASE GcBegin
  <2>1. pass' = pass
    BY <1>6 DEF GcBegin
  <2>2. DebtInCall'
    BY <1>2, <1>3, <1>6, BeginAhead
  <2> QED
    BY <1>1, <1>2, <1>3, <1>4, <2>1, <2>2, ArgumentsKept DEF DebtInv
<1>7. CASE GcReturn
  <2>1. call # NoCall /\ call.todo = {} /\ call' = NoCall
    BY <1>7 DEF GcReturn
  <2>2. \A v \in Debts : call.next # NoKey /\ v.key >= call.next
    BY <2>1 DEF DebtInv, DebtInCall
  <2>3. CASE call.next = NoKey /\ pass' = NoPass
    BY <1>3, <2>1, <2>2, <2>3 DEF DebtInv
  <2>4. CASE call.next # NoKey /\ pass' = [pass EXCEPT !.cursor = call.next]
    <3>1. /\ pass'.safe_point_ts = pass.safe_point_ts /\ pass'.collapse = pass.collapse
          /\ pass'.max_keys = pass.max_keys /\ pass'.max_versions = pass.max_versions
          /\ pass'.cursor = call.next
      BY <1>1, <2>4 DEF Pass
    <3>2. pass' # NoPass
      <4>1. call.next \in Key \cup {NoKey}
        BY <2>1 DEF SInv, TypeOK, GcTypeOK, Call
      <4>2. pass' \in Pass
        BY <1>1, <2>4, <4>1 DEF Pass
      <4> QED
        BY <4>2, GcSentinelAssumption
    <3>3. PassPayable'
      BY <1>2, <1>3, <3>1 DEF PassPayable
    <3>4. DebtAhead'
      BY <1>3, <2>2, <3>1 DEF DebtAhead
    <3> QED
      BY <1>4, <2>1, <3>1, <3>2, <3>3, <3>4 DEF DebtInv
  <2> QED
    BY <1>7, <2>3, <2>4 DEF GcReturn
<1>8. CASE GcFail
  <2>1. pass' = pass /\ call' = NoCall
    BY <1>8 DEF GcFail
  <2> QED
    BY <1>1, <1>2, <1>3, <1>4, <2>1, ArgumentsKept DEF DebtInv
<1> QED
  BY <1>5, <1>6, <1>7, <1>8

LEMMA DebtStep ==
    ASSUME Contract, PagesFit, SInv, DebtInv, [Next]_vars
    PROVE  DebtInv'
<1>1. CASE Client
  BY <1>1, ClientStep
<1>2. CASE Start
  BY <1>2, StartStep
<1>3. CASE Collect \/ Fail
  <2>1. Owed /\ (GcStep \/ GcFail)
    BY <1>3 DEF Collect, Fail, Observe
  <2> QED
    BY <2>1, ScanStep, CallStep DEF GcStep
<1>4. CASE UNCHANGED vars
  <2>1. /\ committed' = committed /\ intents' = intents
        /\ pass' = pass /\ call' = call /\ debt' = debt
    BY <1>4 DEF vars, store, gcVars, ghosts
  <2> QED
    BY <2>1 DEF DebtInv, Debts, StillObsolete, StillFinal, PassPayable, DebtAhead, DebtInCall
<1> QED
  BY <1>1, <1>2, <1>3, <1>4 DEF Next

LEMMA DebtInit ==
    ASSUME Init
    PROVE  DebtInv
BY DEF Init, GcInit, DebtInv, Debts

(* Once a pass reports done, every version that was obsolete and, with        *)
(* collapse_final_tombstones, every tombstone that was and stayed final when  *)
(* it started is gone, whatever ran, was locked or failed between its calls,  *)
(* provided no caller asks for usize::MAX keys per call.                      *)
THEOREM PassLeavesNothing ==
    ASSUME Contract, PagesFit
    PROVE  Spec => []PassDoneClean
<1>1. Init => SInv /\ DebtInv
  BY SnapshotInit, DebtInit
<1>2. (SInv /\ DebtInv) /\ [Next]_vars => (SInv /\ DebtInv)'
  BY SnapshotStep, DebtStep
<1>3. SInv /\ DebtInv => PassDoneClean
  BY DEF DebtInv, Debts, PassDoneClean
<1> QED
  BY <1>1, <1>2, <1>3, PTL DEF Spec

-----------------------------------------------------------------------------
(* A prefix scan that ended is complete, for every set of keys and every   *)
(* page size, whatever clients and collection do between two pages.        *)

\* The scan record, and the page size a scanner chose.
ScanShape ==
    /\ scan = [phase |-> scan.phase, limit |-> scan.limit, start |-> scan.start]
    /\ scan.phase \in {"idle", "paging", "done"}
    /\ scan.phase # "idle" => scan.limit \in Limits

\* A key that had a version all along was returned, or is still ahead.
SteadyAhead ==
    \A k \in steady : \/ k \in seen
                      \/ scan.phase = "paging" /\ k >= ScanStart(scan.start)
                      \/ scan.phase = "idle"

ScanInv ==
    /\ ScanShape
    /\ seen \subseteq Prefixed
    /\ \A k \in steady : k \in Prefixed /\ HasVersion(k)
    /\ SteadyAhead

-----------------------------------------------------------------------------
(* Pages. *)

(* What a page left out lies behind all of it. *)
LEMMA PageIsFirst ==
    ASSUME NEW S \in SUBSET Nat, NEW n \in Nat, NEW x \in S, x \notin FirstN(S, n)
    PROVE  \A k \in FirstN(S, n) : k < x
<1> TAKE k \in FirstN(S, n)
<1>1. k \in S /\ k \in Nat /\ x \in Nat /\ k # x
  BY DEF FirstN
<1>2. ~(x < k)
  BY FirstNDown
<1> QED
  BY <1>1, <1>2

(* A page that is not full is all there is. *)
LEMMA ShortPage ==
    ASSUME NEW S \in SUBSET Nat, NEW n \in Nat, Cardinality(FirstN(S, n)) < n
    PROVE  S \subseteq FirstN(S, n)
<1> DEFINE P == FirstN(S, n)
           M == S \ P
<1> SUFFICES ASSUME M # {} PROVE FALSE
  OBVIOUS
<1>1. PICK x \in M : \A y \in M : x <= y
  BY MinExists
<1>2. x \in S /\ x \in Nat /\ x \notin P
  OBVIOUS
<1>3. \A k \in P : k \in S /\ k < x
  BY <1>2, PageIsFirst DEF FirstN
<1>4. \A j \in S : j < x => j \in P
  BY <1>1, <1>2
<1>5. P = {j \in S : j < x}
  BY <1>3, <1>4
<1> QED
  BY <1>2, <1>5 DEF FirstN

(* The next page starts at or before everything that a full page left out. *)
LEMMA FullPage ==
    ASSUME NEW S \in SUBSET Nat, NEW n \in Nat \ {0}, ~(Cardinality(FirstN(S, n)) < n),
           NEW x \in S, x \notin FirstN(S, n)
    PROVE  Max(FirstN(S, n)) + 1 \in Nat /\ Max(FirstN(S, n)) + 1 <= x
<1> DEFINE P == FirstN(S, n)
<1>1. P \in SUBSET Nat /\ x \in Nat
  BY DEF FirstN
<1>2. \A k \in P : k < x
  BY PageIsFirst
<1>3. P # {}
  BY FS_EmptySet
<1> HIDE DEF P
<1>4. PICK m \in P : \A y \in P : y <= m
  BY <1>1, <1>2, <1>3, GreatestBelow
<1>5. m \in Nat /\ m < x /\ \A y \in P : m >= y /\ (y >= m => y = m)
  BY <1>1, <1>2, <1>4
<1>6. Max(P) = m
  BY <1>4, <1>5 DEF Max
<1>7. m + 1 \in Nat /\ m + 1 <= x
  BY <1>1, <1>5
<1> QED
  BY <1>6, <1>7 DEF P

-----------------------------------------------------------------------------
(* The scan. *)

LEMMA PageInv ==
    ASSUME ScanInv, NextPage
    PROVE  ScanInv'
<1> DEFINE S    == InRange(scan.start)
           n    == scan.limit
           page == FirstN(S, n)
<1>1. /\ scan.phase = "paging" /\ seen' = seen \cup page
      /\ scan' = IF Cardinality(page) < n THEN [scan EXCEPT !.phase = "done"]
                 ELSE [scan EXCEPT !.start = Max(page) + 1]
      /\ steady' = steady /\ committed' = committed
  BY DEF NextPage, keys_from_prefix, vars, store
<1>2. n \in Nat \ {0} /\ n \in Limits
  BY <1>1, PrefixAssumption DEF ScanInv, ScanShape
<1>3. S \in SUBSET Nat /\ page \subseteq Prefixed
  BY KeyAssumption DEF InRange, FirstN
<1>4. \A k \in steady : k \in seen \/ k \in S
  BY <1>1, PrefixAssumption DEF ScanInv, SteadyAhead, InRange
<1>5. \A k \in steady : k \in Prefixed /\ HasVersion(k)'
  BY <1>1 DEF ScanInv, HasVersion
<1>6. seen' \subseteq Prefixed
  BY <1>1, <1>3 DEF ScanInv
<1>7. scan = [phase |-> "paging", limit |-> n, start |-> scan.start]
  BY <1>1 DEF ScanInv, ScanShape
<1> HIDE DEF S, page
<1>8. CASE Cardinality(page) < n
  <2>1. scan' = [phase |-> "done", limit |-> n, start |-> scan.start]
    BY <1>1, <1>7, <1>8
  <2>2. S \subseteq page
    BY <1>2, <1>3, <1>8, ShortPage DEF page
  <2>3. SteadyAhead'
    BY <1>1, <1>4, <2>2 DEF SteadyAhead
  <2>4. ScanShape'
    BY <1>2, <2>1 DEF ScanShape
  <2> QED
    BY <1>1, <1>5, <1>6, <2>3, <2>4 DEF ScanInv
<1>9. CASE ~(Cardinality(page) < n)
  <2>1. scan' = [phase |-> "paging", limit |-> n, start |-> Max(page) + 1]
    BY <1>1, <1>7, <1>9
  <2>2. ASSUME NEW k \in steady, k \notin seen'
        PROVE  k >= ScanStart(scan'.start)
    <3>1. k \in S /\ k \notin page /\ k \in Nat
      BY <1>1, <1>3, <1>4, <2>2
    <3>2. Max(page) + 1 \in Nat /\ Max(page) + 1 <= k
      BY <1>2, <1>3, <1>9, <3>1, FullPage DEF page
    <3>3. scan'.start = Max(page) + 1 /\ Max(page) + 1 # NoKey
      BY <2>1, <3>2 DEF NoKey
    <3>4. ScanStart(scan'.start) = Max(page) + 1
      BY <3>3 DEF ScanStart
    <3> QED
      BY <3>1, <3>2, <3>4
  <2>3. SteadyAhead'
    BY <1>1, <2>1, <2>2 DEF SteadyAhead
  <2>4. ScanShape'
    BY <1>2, <2>1 DEF ScanShape
  <2> QED
    BY <1>1, <1>5, <1>6, <2>3, <2>4 DEF ScanInv
<1> QED
  BY <1>8, <1>9

LEMMA PrefixScanStep ==
    ASSUME ScanInv, [ScanNext]_<<vars, scanVars>>
    PROVE  ScanInv'
<1>1. CASE BeginScan
  <2>1. PICK limit \in Limits :
            /\ scan' = [phase |-> "paging", limit |-> limit, start |-> NoKey]
            /\ steady' = {k \in Prefixed : HasVersion(k)}
            /\ committed' = committed /\ seen' = seen
    BY <1>1 DEF BeginScan, vars, store
  <2>2. Prefixed \in SUBSET Nat /\ Prefixed # {}
    BY KeyAssumption, PrefixAssumption
  <2>3. \A k \in Prefixed : k \in Nat /\ Min(Prefixed) \in Nat /\ Min(Prefixed) <= k
    BY <2>2, MinExists
  <2>4. \A k \in Prefixed : k >= ScanStart(scan'.start)
    BY <2>1, <2>3 DEF ScanStart
  <2>5. ScanShape' /\ SteadyAhead'
    BY <2>1, <2>4 DEF ScanShape, SteadyAhead
  <2> QED
    BY <2>1, <2>5 DEF ScanInv, HasVersion
<1>2. CASE NextPage
  BY <1>2, PageInv
<1>3. CASE Next /\ Beside
  <2>1. /\ steady' = {k \in steady : TimestampsOf(committed'[k]) # {}}
        /\ scan' = scan /\ seen' = seen
    BY <1>3 DEF Beside
  <2> QED
    BY <2>1 DEF ScanInv, ScanShape, SteadyAhead, HasVersion
<1>4. CASE UNCHANGED <<vars, scanVars>>
  BY <1>4 DEF vars, store, scanVars, ScanInv, ScanShape, SteadyAhead, HasVersion
<1> QED
  BY <1>1, <1>2, <1>3, <1>4 DEF ScanNext

(* A scan that ended has seen every key that had a version all along and no *)
(* key without the prefix (keys_from_prefix, called page by page).          *)
THEOREM ScansComplete == ScanSpec => []ScanComplete
<1>1. ScanInit => ScanInv
  BY DEF ScanInit, ScanInv, ScanShape, SteadyAhead
<1>2. ScanInv /\ [ScanNext]_<<vars, scanVars>> => ScanInv'
  BY PrefixScanStep
<1>3. ScanInv => ScanComplete
  BY DEF ScanInv, SteadyAhead, ScanComplete
<1> QED
  BY <1>1, <1>2, <1>3, PTL DEF ScanSpec
=============================================================================
