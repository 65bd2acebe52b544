----------------------------- MODULE LoadProofs -----------------------------
(***************************************************************************)
(* The command-load simulation never panics and loses no update, for every *)
(* number of commands, every set of keys, every delay and every budget of  *)
(* collection.                                                             *)
(***************************************************************************)
EXTENDS CommandLoad, RowLemmas

Pending == [due_op : Nat, key : Key, read_ts : Timestamp, expected_value : Mutation,
            new_value : Counter]

\* Commands that were issued, the one that is running included once it wrote.
Issued == IF phase \in {"commit", "gc", "collecting"} THEN op + 1 ELSE op

\* Every command takes at most two timestamps, a queued increment when it is
\* applied: that many are left.
ClockBounded ==
    /\ next_ts \in Nat /\ next_ts >= 2
    /\ next_ts + 2 * Len(pending) <= 2 + 2 * Issued
    /\ phase = "commit" => next_ts + 2 * Len(pending) <= 1 + 2 * Issued

\* No counter exceeds the number of increments, the queued ones included.
CountersBounded ==
    \A k \in Key : parse_counter(register[k]) + Len(pending) <= Issued

Phases ==
    /\ phase = "load" => /\ op = 0 /\ next_ts = 2 /\ pending = <<>>
                         /\ \A k \in Key : get_latest_commit_ts(committed[k]) = NoTs
    /\ phase \in {"drain", "command", "commit", "gc", "collecting"} => op < Ops
    /\ phase \in {"final", "done"} => op = Ops
    /\ phase = "collecting" => /\ pass # NoPass
                               /\ pass.safe_point_ts <= next_ts - 1
    /\ phase # "collecting" => call = NoCall

\* Every version is older than the clock, and than the start of a transaction.
VersionsOld ==
    \A k \in Key :
        /\ get_latest_commit_ts(committed[k]) <= next_ts - 1
        /\ phase = "commit" => get_latest_commit_ts(committed[k]) <= next_ts - 2

\* Only the transaction between prewrite and commit holds locks.
LocksHeld ==
    /\ phase # "commit" => txn = <<>> /\ \A k \in Key : intents[k] = NoIntent
    /\ phase = "commit" => \E a, b \in Key :
          /\ a # b /\ txn = <<a, b>>
          /\ \A k \in Key : intents[k] = IF k \in {a, b}
                THEN NewIntent(op + 1, next_ts - 1, Text, NoTs) ELSE NoIntent

\* A queued increment read at a past time and adds one to what it read.
QueueOld ==
    /\ pending \in Seq(Pending)
    /\ \A i \in DOMAIN pending :
          /\ pending[i].read_ts < next_ts
          /\ pending[i].new_value = Incremented(pending[i].expected_value)

LoadInv ==
    /\ TypeOK /\ StoreOK
    /\ NeverPanics /\ NoLostUpdate
    /\ ClockBounded /\ CountersBounded
    /\ Phases
    /\ VersionsOld /\ LocksHeld /\ QueueOld

-----------------------------------------------------------------------------
(* Values and timestamps. *)

LEMMA Constants ==
    /\ Ops \in Nat /\ Ops >= 1 /\ MaxTs \in Nat /\ MaxTs >= 2 * Ops + 1
    /\ Text \in Mutation /\ Tombstone \in Mutation /\ Counter \subseteq Mutation
    /\ \A n \in Nat : n <= Ops => n \in Counter
    /\ \A n \in Nat : n < Ops => n + 1 \in TxnId
<1>1. /\ Ops \in Nat \ {0} /\ MaxTs > 2 * Ops /\ Text \in Value \ Nat
      /\ 0 .. Ops \subseteq Value /\ 1 .. Ops \subseteq TxnId
  BY LoadAssumption
<1>2. \A n \in Nat : n <= Ops => n \in 0 .. Ops /\ n # Text
  BY <1>1
<1>3. \A n \in Nat : n < Ops => n + 1 \in 1 .. Ops
  BY <1>1
<1>4. MaxTs \in Nat /\ MaxTs >= 2 * Ops + 1
  BY <1>1, MaxTsAssumption
<1> QED
  BY <1>1, <1>2, <1>3, <1>4 DEF Counter, Mutation

LEMMA ParseType ==
    /\ \A x : parse_counter(x) \in Nat /\ Incremented(x) = parse_counter(x) + 1
    /\ \A n \in Nat : n <= Ops => parse_counter(n) = n
    /\ parse_counter(Text) = 0 /\ parse_counter(0) = 0
<1>1. Counter \subseteq Nat /\ Text \notin Counter
  BY LoadAssumption DEF Counter
<1>2. 0 <= Ops
  BY Constants
<1> QED
  BY <1>1, <1>2, Constants DEF parse_counter, Incremented

LEMMA ReadType ==
    ASSUME NEW row \in Row, NEW r
    PROVE  read(row, r) \in Mutation
<1>1. get_visible_committed(row, r) \in Timestamp \cup {NoTs}
  BY VisibleProp
<1>2. get_visible_committed(row, r) # NoTs =>
          row[get_visible_committed(row, r)] \in Mutation
  BY <1>1, VisibleProp DEF Row
<1> QED
  BY <1>2 DEF read, Mutation

(* The rank of a key numbers the keys from 0 on. *)
LEMMA Ranks ==
    /\ Cardinality(Key) \in Nat /\ Cardinality(Key) >= 1
    /\ \A i \in 1 .. Cardinality(Key) :
          \E k \in Key : Cardinality({j \in Key : j < k}) = i - 1
    /\ \A k \in Key : Cardinality({j \in Key : j < k}) + 1 \in 1 .. Cardinality(Key)
    /\ \A k, l \in Key :
          Cardinality({j \in Key : j < k}) = Cardinality({j \in Key : j < l}) => k = l
<1> DEFINE Below(k) == {j \in Key : j < k}
           n == Cardinality(Key)
           rank == [k \in Key |-> Cardinality(Below(k))]
<1>1. IsFiniteSet(Key) /\ Key # {} /\ Key \subseteq Nat
  BY LoadAssumption, KeyAssumption
<1>2. n \in Nat /\ n # 0
  BY <1>1, FS_CardinalityType, FS_EmptySet
<1>3. \A k \in Key : IsFiniteSet(Below(k)) /\ Cardinality(Below(k)) \in Nat
  BY <1>1, FS_Subset, FS_CardinalityType
<1>4. \A k, l \in Key : k < l => Cardinality(Below(k)) < Cardinality(Below(l))
  <2> SUFFICES ASSUME NEW k \in Key, NEW l \in Key, k < l
               PROVE  Cardinality(Below(k)) < Cardinality(Below(l))
    OBVIOUS
  <2>1. k \in Nat /\ l \in Nat
    BY <1>1
  <2>2. Below(k) \subseteq Below(l)
    <3>1. \A j \in Key : j < k => j < l
      BY <1>1, <2>1
    <3> QED
      BY <3>1
  <2>3. k \in Below(l) /\ k \notin Below(k)
    BY <2>1
  <2>4. Below(k) # Below(l)
    BY <2>3
  <2> HIDE DEF Below
  <2> QED
    BY <1>3, <2>2, <2>4, FS_Subset
<1>5. \A k \in Key : Cardinality(Below(k)) < n
  <2> TAKE k \in Key
  <2>1. Below(k) \subseteq Key /\ k \notin Below(k)
    BY <1>1
  <2>2. Below(k) # Key
    BY <2>1
  <2> HIDE DEF Below
  <2>3. Cardinality(Below(k)) <= n /\ Cardinality(Below(k)) # n
    BY <1>1, <2>1, <2>2, FS_Subset
  <2> QED
    BY <1>2, <1>3, <2>3
<1>6. \A k, l \in Key : Cardinality(Below(k)) = Cardinality(Below(l)) => k = l
  <2> SUFFICES ASSUME NEW k \in Key, NEW l \in Key, k # l
               PROVE  Cardinality(Below(k)) # Cardinality(Below(l))
    OBVIOUS
  <2>1. k < l \/ l < k
    BY <1>1
  <2> HIDE DEF Below
  <2> QED
    BY <1>3, <1>4, <2>1
<1>7. \A k \in Key : Cardinality(Below(k)) \in 0 .. n - 1
  <2> HIDE DEF Below
  <2> QED
    BY <1>2, <1>3, <1>5
<1>8. rank \in Injection(Key, 0 .. n - 1)
  <2> HIDE DEF Below
  <2>1. rank \in [Key -> 0 .. n - 1]
    BY <1>7
  <2> QED
    BY <1>6, <2>1 DEF Injection, IsInjective
<1>9. IsFiniteSet(0 .. n - 1) /\ Cardinality(0 .. n - 1) = n
  BY <1>2, FS_Interval
<1>10. rank \in Surjection(Key, 0 .. n - 1)
  <2> HIDE DEF rank
  <2> QED
    BY <1>8, <1>9, FS_Injection
<1>11. \A i \in 1 .. n : \E k \in Key : Cardinality(Below(k)) = i - 1
  <2> TAKE i \in 1 .. n
  <2>1. i - 1 \in 0 .. n - 1
    BY <1>2
  <2>2. \E k \in Key : rank[k] = i - 1
    <3> HIDE DEF rank
    <3> QED
      BY <1>10, <2>1 DEF Surjection
  <2> HIDE DEF Below
  <2> QED
    BY <2>2
<1>12. \A k \in Key : Cardinality(Below(k)) + 1 \in 1 .. n
  <2> HIDE DEF Below
  <2> QED
    BY <1>2, <1>7
<1>13. n >= 1
  BY <1>2
<1> QED
  BY <1>2, <1>6, <1>11, <1>12, <1>13

(* No timestamp that a command needs is beyond the bound. *)
LEMMA Fits ==
    ASSUME LoadInv
    PROVE  /\ op \in Nat /\ Issued \in Nat /\ Issued <= Ops /\ Len(pending) \in Nat
           /\ next_ts \in Nat /\ next_ts >= 2
           /\ next_ts - 1 \in Timestamp
           /\ phase \in {"command", "commit"} => next_ts \in Timestamp
           /\ pending # <<>> => next_ts \in Timestamp /\ next_ts + 1 \in Timestamp
<1>1. /\ op \in Nat /\ op <= Ops
      /\ phase \in {"load", "drain", "command", "commit", "gc", "collecting",
                    "final", "done"}
      /\ phase \in {"drain", "command", "commit", "gc", "collecting"} => op < Ops
      /\ pending \in Seq(Pending)
  BY Constants DEF LoadInv, TypeOK, Phases, QueueOld
<1>2. Issued \in Nat /\ Issued <= Ops
  BY <1>1, Constants DEF Issued
<1>3. Len(pending) \in Nat /\ (pending # <<>> => Len(pending) >= 1)
  BY <1>1
<1>4. /\ next_ts \in Nat /\ next_ts >= 2
      /\ next_ts + 2 * Len(pending) <= 2 + 2 * Issued
      /\ phase = "commit" => next_ts + 2 * Len(pending) <= 1 + 2 * Issued
      /\ phase = "command" => Issued = op
  BY DEF LoadInv, ClockBounded, Issued
<1>5. next_ts - 1 \in 0 .. MaxTs
  BY <1>2, <1>3, <1>4, Constants
<1>6. phase = "command" => next_ts \in 0 .. MaxTs
  BY <1>1, <1>2, <1>3, <1>4, Constants
<1>7. phase = "commit" => next_ts \in 0 .. MaxTs
  BY <1>2, <1>3, <1>4, Constants
<1>8. pending # <<>> => next_ts \in 0 .. MaxTs /\ next_ts + 1 \in 0 .. MaxTs
  BY <1>2, <1>3, <1>4, Constants
<1> QED
  BY <1>1, <1>2, <1>3, <1>4, <1>5, <1>6, <1>7, <1>8 DEF Timestamp

(* After a command comes a collection, the next command or the end. *)
LEMMA NextCommandPhase ==
    ASSUME LoadInv, op < Ops, NextCommand
    PROVE  /\ phase' \in {"drain", "final"} /\ op' \in 0 .. Ops /\ Issued' = op + 1
           /\ phase' = "drain" => op' < Ops
           /\ phase' = "final" => op' = Ops
BY Fits, Constants DEF NextCommand, Issued

LEMMA AfterCommandPhase ==
    ASSUME LoadInv, phase \in {"command", "commit"}, AfterCommand
    PROVE  /\ phase' \in {"gc", "drain", "final"} /\ op' \in 0 .. Ops /\ Issued' = op + 1
           /\ phase' \in {"gc", "drain"} => op' < Ops
           /\ phase' = "final" => op' = Ops
<1>1. op < Ops /\ op \in Nat
  BY Fits DEF LoadInv, Phases
<1>2. CASE phase' = "gc" /\ UNCHANGED op
  BY <1>1, <1>2, Constants DEF Issued
<1>3. CASE NextCommand
  BY <1>1, <1>3, NextCommandPhase
<1> QED
  BY <1>2, <1>3 DEF AfterCommand

(* What is to be shown at the end of a command. *)
LEMMA CommandEnds ==
    ASSUME LoadInv, phase \in {"command", "commit"}, AfterCommand, UNCHANGED gcVars,
           StoreOK', txn' = <<>>, \A k \in Key : intents'[k] = NoIntent, ~panicked',
           next_ts' \in Nat, next_ts' >= next_ts,
           next_ts' + 2 * Len(pending') <= 4 + 2 * op,
           QueueOld', register' \in [Key -> Mutation],
           \A k \in Key : /\ get_latest_commit_ts(committed'[k]) <= next_ts' - 1
                          /\ read(committed'[k], next_ts' - 1) = register'[k]
                          /\ parse_counter(register'[k]) + Len(pending') <= op + 1,
           panicked' \in BOOLEAN
    PROVE  LoadInv'
<1>1. /\ phase' \in {"gc", "drain", "final"} /\ op' \in 0 .. Ops /\ Issued' = op + 1
      /\ phase' \in {"gc", "drain"} => op' < Ops
      /\ phase' = "final" => op' = Ops
  BY AfterCommandPhase
<1>2. /\ op \in Nat /\ op < Ops /\ next_ts \in Nat /\ next_ts >= 2
      /\ call = NoCall /\ GcTypeOK
  BY Fits DEF LoadInv, Phases, TypeOK
<1>3. Len(pending') \in Nat /\ pending' \in Seq(Pending)
  BY DEF QueueOld
<1>4. ClockBounded' /\ CountersBounded'
  BY <1>1, <1>2, <1>3 DEF ClockBounded, CountersBounded
<1>5. next_ts' \in 2 .. MaxTs + 1
  BY <1>2, <1>3, Constants
<1>6. GcTypeOK' /\ call' = NoCall
  BY <1>2 DEF GcTypeOK, gcVars
<1>7. TypeOK'
  <2>1. /\ BackendTypeOK' /\ txn' \in Seq(Key)
        /\ phase' \in {"load", "drain", "command", "commit", "gc", "collecting",
                       "final", "done"}
    BY <1>1 DEF StoreOK
  <2>2. \A i \in DOMAIN pending' : pending'[i] \in Pending
    BY <1>3
  <2> QED
    BY <1>1, <1>5, <1>6, <2>1, <2>2, Zenon DEF TypeOK, Pending
<1>8. Phases' /\ VersionsOld' /\ LocksHeld'
  BY <1>1, <1>6 DEF Phases, VersionsOld, LocksHeld
<1> QED
  BY <1>4, <1>7, <1>8 DEF LoadInv, NeverPanics, NoLostUpdate

-----------------------------------------------------------------------------
(* What the engine answers. *)

LEMMA NoLocks ==
    ASSUME LoadInv, phase # "commit"
    PROVE  \A k \in Key : intents[k] = NoIntent /\ ~Locked(k)
BY DEF LoadInv, LocksHeld, Locked

(* Writes above the clock to keys that nobody locked are accepted. *)
LEMMA WritesFine ==
    ASSUME LoadInv, phase # "commit", NEW c \in Timestamp, NEW writes \in Seq(Write),
           \A k \in Key : c > get_latest_commit_ts(committed[k])
    PROVE  CheckWrites(c, writes) = "Ok"
<1>1. \A i \in DOMAIN writes : CheckWrite(c, writes[i].key) = "Ok"
  <2> TAKE i \in DOMAIN writes
  <2> DEFINE k == writes[i].key
  <2>1. k \in Key
    BY BatchTypes
  <2>2. ~Locked(k) /\ get_latest_commit_ts(committed[k]) \in Int /\ c \in Int
    BY <2>1, NoLocks, LatestInt, TimestampType
  <2>3. ~(c <= get_latest_commit_ts(committed[k]))
    BY <2>1, <2>2
  <2> QED
    BY <2>2, <2>3 DEF CheckWrite
<1> QED
  BY <1>1 DEF CheckWrites, FirstError

(* A version written at or after the clock is what is read there. *)
LEMMA PublishRows ==
    ASSUME LoadInv, NEW D \in SUBSET Key, NEW versions \in [D -> Mutation],
           NEW c \in Timestamp, c >= next_ts,
           \A k \in D : committed'[k] = Written(committed[k], c, versions[k]),
           \A k \in Key \ D : committed'[k] = committed[k]
    PROVE  /\ \A k \in Key : get_latest_commit_ts(committed'[k]) <= c
           /\ \A k \in D : read(committed'[k], c) = versions[k]
           /\ \A k \in Key \ D : read(committed'[k], c) = register[k]
<1>1. /\ \A k \in D : committed'[k] = Written(committed[k], c, versions[k])
      /\ \A k \in Key \ D : committed'[k] = committed[k]
  OBVIOUS
<1>2. next_ts \in Nat /\ next_ts - 1 \in Timestamp /\ c \in Int
  BY Fits, TimestampType
<1>3. \A k \in Key : /\ committed[k] \in Row
                     /\ get_latest_commit_ts(committed[k]) \in Int
                     /\ get_latest_commit_ts(committed[k]) <= next_ts - 1
                     /\ read(committed[k], next_ts - 1) = register[k]
  BY LatestInt DEF LoadInv, TypeOK, BackendTypeOK, VersionsOld, NoLostUpdate
<1>4. \A k \in Key : /\ c > get_latest_commit_ts(committed[k])
                     /\ get_latest_commit_ts(committed[k]) <= c
  BY <1>2, <1>3
<1>5. ASSUME NEW k \in D
      PROVE  get_latest_commit_ts(committed'[k]) = c /\ read(committed'[k], c) = versions[k]
  <2>1. PICK m \in Mutation : m = versions[k]
    BY <1>5
  <2>2. committed'[k] = Written(committed[k], c, m) /\ committed[k] \in Row
    BY <1>1, <1>3, <2>1
  <2>3. c >= c /\ c > get_latest_commit_ts(committed[k])
    BY <1>2, <1>4
  <2>4. /\ get_latest_commit_ts(Written(committed[k], c, m)) = c
        /\ read(Written(committed[k], c, m), c) = m
    BY <2>2, <2>3, LatestAfterWrite, ReadAfterWrite
  <2> QED
    BY <2>1, <2>2, <2>4
<1>6. \A k \in Key \ D : read(committed'[k], c) = register[k]
  <2> TAKE k \in Key \ D
  <2>1. read(committed[k], c) = read(committed[k], next_ts - 1)
    BY <1>2, <1>3, <1>4, ReadSettled
  <2> QED
    BY <1>1, <1>3, <2>1
<1>7. \A k \in Key : get_latest_commit_ts(committed'[k]) <= c
  BY <1>1, <1>2, <1>4, <1>5
<1> QED
  BY <1>5, <1>6, <1>7

LEMMA Publish ==
    ASSUME LoadInv, NEW D \in SUBSET Key, NEW versions \in [D -> Mutation],
           NEW c \in Timestamp, c >= next_ts, put_committed_batch(versions, c)
    PROVE  /\ StoreOK' /\ intents' = intents
           /\ \A k \in Key : get_latest_commit_ts(committed'[k]) <= c
           /\ \A k \in D : read(committed'[k], c) = versions[k]
           /\ \A k \in Key \ D : read(committed'[k], c) = register[k]
<1>1. /\ StoreOK' /\ intents' = intents
      /\ \A k \in D : committed'[k] = Written(committed[k], c, versions[k])
      /\ \A k \in Key \ D : committed'[k] = committed[k]
  BY PutVersions DEF LoadInv
<1> QED
  BY <1>1, PublishRows

LEMMA QueueKept ==
    ASSUME LoadInv, next_ts' \in Nat, next_ts' >= next_ts, UNCHANGED pending
    PROVE  QueueOld'
<1>1. pending \in Seq(Pending) /\ next_ts \in Nat
  BY Fits DEF LoadInv, QueueOld
<1>2. \A i \in DOMAIN pending : pending[i].read_ts < next_ts'
  <2> TAKE i \in DOMAIN pending
  <2>0. pending[i] \in Pending
    BY <1>1
  <2>1. pending[i].read_ts \in Timestamp
    BY <2>0 DEF Pending
  <2>2. pending[i].read_ts < next_ts /\ pending[i].read_ts \in Int
    BY <2>1, TimestampType DEF LoadInv, QueueOld
  <2> QED
    BY <1>1, <2>2
<1> QED
  BY <1>2 DEF LoadInv, QueueOld

LEMMA Vector ==
    ASSUME NEW n \in Nat, NEW S, NEW vec \in [1 .. n -> S]
    PROVE  vec \in Seq(S)
OBVIOUS

LEMMA SingleWrite ==
    ASSUME NEW k \in Key, NEW m \in Mutation
    PROVE  /\ <<W(k, m)>> \in Seq(Write) /\ <<W(k, m)>> # <<>>
           /\ ~HasDuplicates(KeysOf(<<W(k, m)>>))
           /\ Elements(KeysOf(<<W(k, m)>>)) = {k}
           /\ AsFunction(<<W(k, m)>>) \in [{k} -> Mutation]
           /\ AsFunction(<<W(k, m)>>)[k] = m
<1> DEFINE writes == <<W(k, m)>>
<1>1. W(k, m) \in Write /\ W(k, m).key = k /\ W(k, m).value = m
  BY DEF W, Write
<1>2. /\ writes \in Seq(Write) /\ writes # <<>> /\ DOMAIN writes = {1}
      /\ writes[1].key = k /\ writes[1].value = m
  BY <1>1
<1> HIDE DEF writes
<1>3. ~HasDuplicates(KeysOf(writes))
  BY <1>2 DEF HasDuplicates, KeysOf
<1>4. Elements(KeysOf(writes)) = {k}
  BY <1>2 DEF Elements, KeysOf
<1>5. AsFunction(writes)[k] = m
  BY <1>2, <1>4 DEF AsFunction
<1> QED
  BY <1>2, <1>3, <1>4, <1>5, BatchTypes DEF writes

-----------------------------------------------------------------------------
(* Direct writes: Set, Del and Mset. *)

LEMMA DirectWriteInv ==
    ASSUME LoadInv, NEW writes \in Seq(Write), writes # <<>>,
           ~HasDuplicates(KeysOf(writes)),
           \A i \in DOMAIN writes : writes[i].value \in {Text, Tombstone},
           DirectWrite(writes)
    PROVE  LoadInv'
<1> DEFINE D == Elements(KeysOf(writes))
           versions == AsFunction(writes)
<1>1. phase = "command" /\ ~panicked
  BY DEF DirectWrite, At
<1>2. /\ next_ts \in Timestamp /\ next_ts \in Nat /\ next_ts >= 2
      /\ op \in Nat /\ Len(pending) \in Nat /\ Issued = op
  BY <1>1, Fits DEF Issued
<1>3. D \in SUBSET Key /\ versions \in [D -> Mutation]
  BY BatchTypes
<1>4. \A k \in D : versions[k] \in {Text, Tombstone}
  BY DEF AsFunction, Elements, KeysOf
<1> HIDE DEF D, versions
<1>5. \A k \in Key : next_ts > get_latest_commit_ts(committed[k])
  BY <1>2, LatestInt DEF LoadInv, VersionsOld
<1>6. DirectBatchResult(next_ts, writes) = "Ok"
  BY <1>1, <1>2, <1>5, WritesFine DEF DirectBatchResult
<1>7. ~panicked' /\ panicked' \in BOOLEAN /\ put_committed_batch(versions, next_ts)
  BY <1>6 DEF DirectWrite, Unwrap, apply_direct_batch, versions
<1>8. /\ StoreOK' /\ intents' = intents
      /\ \A k \in Key : get_latest_commit_ts(committed'[k]) <= next_ts
      /\ \A k \in D : read(committed'[k], next_ts) = versions[k]
      /\ \A k \in Key \ D : read(committed'[k], next_ts) = register[k]
  <2>1. next_ts >= next_ts
    BY <1>2
  <2> QED
    BY <1>2, <1>3, <1>7, <2>1, Publish
<1>9. /\ next_ts' = next_ts + 1 /\ next_ts' - 1 = next_ts /\ pending' = pending
      /\ txn' = txn /\ AfterCommand /\ UNCHANGED gcVars
      /\ register' = [k \in Key |-> IF k \in D THEN versions[k] ELSE register[k]]
  BY <1>2 DEF DirectWrite, Overwritten, D, versions
<1>10. register \in [Key -> Mutation] /\ txn = <<>>
  BY <1>1 DEF LoadInv, TypeOK, LocksHeld
<1>11. register' \in [Key -> Mutation]
  BY <1>3, <1>9, <1>10
<1>12. \A k \in Key : intents'[k] = NoIntent
  BY <1>1, <1>8, NoLocks
<1>13. QueueOld'
  BY <1>2, <1>9, QueueKept
<1>14. ASSUME NEW k \in Key
       PROVE  /\ read(committed'[k], next_ts) = register'[k]
              /\ parse_counter(register'[k]) + Len(pending) <= op + 1
  <2>1. /\ parse_counter(register[k]) \in Nat
        /\ parse_counter(register[k]) + Len(pending) <= op
    BY <1>2, ParseType DEF LoadInv, CountersBounded
  <2>2. CASE k \in D
    <3>1. versions[k] \in {Text, Tombstone} /\ register'[k] = versions[k]
      BY <1>4, <1>9, <2>2
    <3>2. parse_counter(Tombstone) = 0
      BY SentinelAssumption DEF parse_counter, Counter
    <3>3. parse_counter(register'[k]) = 0
      BY <3>1, <3>2, ParseType
    <3> QED
      BY <1>2, <1>8, <2>1, <2>2, <3>1, <3>3
  <2>3. CASE k \notin D
    BY <1>2, <1>8, <1>9, <2>1, <2>3
  <2> QED
    BY <2>2, <2>3
<1>15. next_ts + 2 * Len(pending) <= 2 + 2 * op
  BY <1>2 DEF LoadInv, ClockBounded
<1>16. next_ts' \in Nat /\ next_ts' >= next_ts /\ next_ts' + 2 * Len(pending') <= 4 + 2 * op
  BY <1>2, <1>9, <1>15
<1> QED
  BY <1>1, <1>7, <1>8, <1>9, <1>10, <1>11, <1>12, <1>13, <1>14, <1>16, CommandEnds

LEMMA SetInv ==
    ASSUME LoadInv, NEW k \in Key, NEW m \in {Text, Tombstone}, DirectWrite(<<W(k, m)>>)
    PROVE  LoadInv'
<1>1. PICK writes : writes = <<W(k, m)>>
  OBVIOUS
<1>2. m \in Mutation
  BY Constants
<1>3. writes \in Seq(Write) /\ writes # <<>> /\ ~HasDuplicates(KeysOf(writes))
  BY <1>1, <1>2, SingleWrite
<1>4. \A i \in DOMAIN writes : writes[i].value \in {Text, Tombstone}
  BY <1>1 DEF W
<1>5. DirectWrite(writes)
  BY <1>1
<1> QED
  BY <1>3, <1>4, <1>5, DirectWriteInv

LEMMA MsetInv ==
    ASSUME LoadInv, Mset
    PROVE  LoadInv'
<1>1. PICK base \in Key :
          /\ base .. base + MsetLen - 1 \subseteq Key
          /\ DirectWrite([i \in 1 .. MsetLen |-> W(base + i - 1, Text)])
  BY DEF Mset
<1>2. PICK writes : writes = [i \in 1 .. MsetLen |-> W(base + i - 1, Text)]
  OBVIOUS
<1>3. base \in Nat /\ MsetLen \in Nat /\ MsetLen >= 1 /\ Text \in Mutation
  BY KeyAssumption, LoadAssumption, Constants
<1>4. \A i \in 1 .. MsetLen : base + i - 1 \in base .. base + MsetLen - 1
  BY <1>3
<1>5. \A i \in 1 .. MsetLen : /\ writes[i] \in Write
                              /\ writes[i].key = base + i - 1 /\ writes[i].value = Text
  BY <1>1, <1>2, <1>3, <1>4 DEF W, Write
<1>6. DOMAIN writes = 1 .. MsetLen
  BY <1>2
<1>7. writes \in Seq(Write) /\ writes # <<>>
  <2>1. writes \in [1 .. MsetLen -> Write]
    BY <1>2, <1>5, Zenon
  <2>3. writes \in Seq(Write)
    BY <1>3, <2>1, Vector
  <2>2. 1 \in DOMAIN writes
    BY <1>3, <1>6
  <2> QED
    BY <2>2, <2>3
<1>8. ~HasDuplicates(KeysOf(writes))
  <2>1. \A i, j \in 1 .. MsetLen : base + i - 1 = base + j - 1 => i = j
    BY <1>3
  <2> QED
    BY <1>5, <1>6, <2>1 DEF HasDuplicates, KeysOf
<1>9. DirectWrite(writes)
  BY <1>1, <1>2
<1> QED
  BY <1>5, <1>6, <1>7, <1>8, <1>9, DirectWriteInv

-----------------------------------------------------------------------------
(* Increments. *)

(* What an increment that reads now holds. *)
LEMMA PendingIncrType ==
    ASSUME LoadInv, NEW k \in Key, NEW r \in Timestamp, r >= next_ts - 1,
           parse_counter(register[k]) + 1 <= Ops
    PROVE  LET p == PendingIncr(k, r)
           IN  /\ p \in Pending /\ p.key = k /\ p.read_ts = r
               /\ p.expected_value = register[k]
               /\ p.new_value = Incremented(p.expected_value)
               /\ \A due \in Nat : /\ [p EXCEPT !.due_op = due] \in Pending
                                   /\ [p EXCEPT !.due_op = due].read_ts = r
                                   /\ [p EXCEPT !.due_op = due].expected_value = p.expected_value
                                   /\ [p EXCEPT !.due_op = due].new_value = p.new_value
<1>1. /\ committed[k] \in Row /\ get_latest_commit_ts(committed[k]) <= next_ts - 1
      /\ read(committed[k], next_ts - 1) = register[k] /\ register[k] \in Mutation
      /\ get_latest_commit_ts(committed[k]) \in Int
  BY LatestInt DEF LoadInv, TypeOK, BackendTypeOK, VersionsOld, NoLostUpdate
<1>2. next_ts - 1 \in Timestamp /\ op \in Nat /\ next_ts \in Nat /\ r \in Int
  BY Fits, TimestampType
<1>3. get_latest_commit_ts(committed[k]) <= r
  BY <1>1, <1>2
<1>4. read(committed[k], r) = register[k]
  BY <1>1, <1>2, <1>3, ReadSettled
<1>5. Incremented(register[k]) \in Nat /\ Incremented(register[k]) <= Ops
  BY ParseType
<1>6. Incremented(register[k]) \in Counter
  BY <1>5, Constants
<1>7. PendingIncr(k, r) = [due_op |-> op, key |-> k, read_ts |-> r,
          expected_value |-> register[k], new_value |-> Incremented(register[k])]
  BY <1>4 DEF PendingIncr
<1> QED
  BY <1>1, <1>2, <1>6, <1>7 DEF Pending

(* What the engine answers to an increment above the clock. *)
LEMMA IncrAnswer ==
    ASSUME LoadInv, phase # "commit", NEW c \in Timestamp, NEW p \in Pending,
           \A k \in Key : c > get_latest_commit_ts(committed[k]), p.read_ts < c
    PROVE  /\ IncrResult(c, p) \in {"Ok", "GuardFailedNewerVersion",
                                    "GuardFailedValueMismatch"}
           /\ IncrResult(c, p) = "Ok" <=>
                 /\ get_latest_commit_ts(committed[p.key]) <= p.read_ts
                 /\ read(committed[p.key], p.read_ts) = p.expected_value
<1>1. /\ p.key \in Key /\ p.read_ts \in Timestamp /\ p.new_value \in Counter
      /\ p.expected_value \in Mutation
  BY DEF Pending
<1>2. p.new_value \in Mutation
  BY <1>1, Constants
<1>3. PICK writes : writes = <<W(p.key, p.new_value)>>
  OBVIOUS
<1>4. PICK guards : guards = GuardOf(p)
  OBVIOUS
<1>5. writes \in Seq(Write) /\ writes # <<>> /\ ~HasDuplicates(KeysOf(writes))
  BY <1>1, <1>2, <1>3, SingleWrite
<1>6. CheckWrites(c, writes) = "Ok"
  BY <1>5, WritesFine
<1>7. /\ guards # <<>> /\ DOMAIN guards = {1} /\ guards[1].kind = "ExpectedValue"
      /\ guards[1].key = p.key /\ guards[1].read_ts = p.read_ts
      /\ guards[1].expected = p.expected_value
  BY <1>4 DEF GuardOf
<1>8. /\ ~Locked(p.key) /\ get_latest_commit_ts(committed[p.key]) \in Int
      /\ c \in Int /\ p.read_ts \in Int
  BY <1>1, NoLocks, LatestInt, TimestampType
<1>9. ~(c <= p.read_ts)
  BY <1>8
<1> DEFINE answer == CheckGuard(c, guards[1])
<1>10. answer = IF get_latest_commit_ts(committed[p.key]) > p.read_ts
                THEN "GuardFailedNewerVersion"
                ELSE IF read(committed[p.key], p.read_ts) # p.expected_value
                THEN "GuardFailedValueMismatch" ELSE "Ok"
  BY <1>7, <1>8, <1>9 DEF CheckGuard
<1> HIDE DEF answer
<1>11. FirstError([i \in DOMAIN guards |-> CheckGuard(c, guards[i])], {"Ok"}) = answer
  <2> DEFINE results == [i \in DOMAIN guards |-> CheckGuard(c, guards[i])]
             bad == {i \in DOMAIN results : results[i] \notin {"Ok"}}
  <2>1. DOMAIN results = {1} /\ results[1] = answer
    BY <1>7 DEF answer
  <2> HIDE DEF results
  <2>2. answer = "Ok" => FirstError(results, {"Ok"}) = answer
    BY <2>1 DEF FirstError
  <2>3. ASSUME answer # "Ok" PROVE FirstError(results, {"Ok"}) = answer
    <3>1. bad = {1}
      BY <2>1, <2>3
    <3>2. Min(bad) = 1
      <4>1. bad \in SUBSET Nat /\ bad # {}
        BY <3>1
      <4> HIDE DEF bad
      <4>2. Min(bad) \in bad
        BY <4>1, MinExists
      <4> QED
        BY <3>1, <4>2
    <3> QED
      BY <2>1, <3>1, <3>2 DEF FirstError
  <2> QED
    BY <2>2, <2>3 DEF results
<1>12. GuardedBatchResult(c, guards, writes) = answer
  BY <1>5, <1>6, <1>7, <1>11 DEF GuardedBatchResult
<1>13. IncrResult(c, p) = answer
  BY <1>3, <1>4, <1>12 DEF IncrResult
<1> QED
  BY <1>8, <1>10, <1>13

LEMMA FreshIncr ==
    ASSUME LoadInv, phase # "commit", NEW k \in Key, NEW r \in Timestamp, r >= next_ts - 1,
           parse_counter(register[k]) + 1 <= Ops, NEW c \in Timestamp, c > r
    PROVE  IncrResult(c, PendingIncr(k, r)) = "Ok"
<1>1. PICK p : p = PendingIncr(k, r)
  OBVIOUS
<1>2. p \in Pending /\ p.key = k /\ p.read_ts = r /\ p.expected_value = register[k]
  BY <1>1, PendingIncrType
<1>3. next_ts - 1 \in Timestamp /\ next_ts \in Nat /\ r \in Int /\ c \in Int
  BY Fits, TimestampType
<1>4. \A j \in Key : /\ get_latest_commit_ts(committed[j]) \in Int
                     /\ get_latest_commit_ts(committed[j]) <= next_ts - 1
  BY LatestInt DEF LoadInv, VersionsOld
<1>5. \A j \in Key : /\ c > get_latest_commit_ts(committed[j])
                     /\ get_latest_commit_ts(committed[j]) <= r
  BY <1>3, <1>4
<1>6. committed[k] \in Row /\ read(committed[k], next_ts - 1) = register[k]
  BY DEF LoadInv, TypeOK, BackendTypeOK, NoLostUpdate
<1>7. read(committed[k], r) = register[k]
  BY <1>3, <1>4, <1>5, <1>6, ReadSettled
<1>8. r < c
  BY <1>3
<1> QED
  BY <1>1, <1>2, <1>5, <1>7, <1>8, IncrAnswer

(* An increment that the engine accepts adds one to the newest value. *)
LEMMA IncrPublish ==
    ASSUME LoadInv, phase # "commit", NEW c \in Timestamp, c >= next_ts, NEW p \in Pending,
           p.read_ts < c, p.new_value = Incremented(p.expected_value),
           IncrResult(c, p) = "Ok", apply_guarded_incr(c, p)
    PROVE  /\ StoreOK' /\ intents' = intents
           /\ p.key \in Key /\ p.new_value \in Mutation
           /\ p.new_value = Incremented(register[p.key])
           /\ \A k \in Key : get_latest_commit_ts(committed'[k]) <= c
           /\ read(committed'[p.key], c) = p.new_value
           /\ \A k \in Key \ {p.key} : read(committed'[k], c) = register[k]
<1>1. p.key \in Key /\ p.read_ts \in Timestamp /\ p.new_value \in Counter
  BY DEF Pending
<1>2. p.new_value \in Mutation
  BY <1>1, Constants
<1>3. PICK writes : writes = <<W(p.key, p.new_value)>>
  OBVIOUS
<1>4. /\ AsFunction(writes) \in [{p.key} -> Mutation]
      /\ AsFunction(writes)[p.key] = p.new_value
  BY <1>1, <1>2, <1>3, SingleWrite
<1>5. PICK versions \in [{p.key} -> Mutation] : versions = AsFunction(writes)
  BY <1>4
<1>6. put_committed_batch(versions, c)
  BY <1>3, <1>5 DEF apply_guarded_incr, apply_guarded_batch, IncrResult
<1>7. {p.key} \in SUBSET Key /\ versions[p.key] = p.new_value
  BY <1>1, <1>4, <1>5
<1>8. /\ StoreOK' /\ intents' = intents
      /\ \A k \in Key : get_latest_commit_ts(committed'[k]) <= c
      /\ \A k \in {p.key} : read(committed'[k], c) = versions[k]
      /\ \A k \in Key \ {p.key} : read(committed'[k], c) = register[k]
  BY <1>6, <1>7, Publish
<1>9. next_ts - 1 \in Timestamp /\ next_ts \in Nat /\ c \in Int
  BY Fits, TimestampType
<1>10. \A k \in Key : /\ get_latest_commit_ts(committed[k]) \in Int
                      /\ get_latest_commit_ts(committed[k]) <= next_ts - 1
  BY LatestInt DEF LoadInv, VersionsOld
<1>11. \A k \in Key : c > get_latest_commit_ts(committed[k])
  BY <1>9, <1>10
<1>12. /\ get_latest_commit_ts(committed[p.key]) <= p.read_ts
       /\ read(committed[p.key], p.read_ts) = p.expected_value
  BY <1>11, IncrAnswer
<1>13. /\ committed[p.key] \in Row
       /\ read(committed[p.key], next_ts - 1) = register[p.key]
  BY <1>1 DEF LoadInv, TypeOK, BackendTypeOK, NoLostUpdate
<1>14. p.expected_value = register[p.key]
  BY <1>1, <1>9, <1>10, <1>12, <1>13, ReadSettled
<1> QED
  BY <1>1, <1>2, <1>7, <1>8, <1>14

LEMMA IncrImmediateInv ==
    ASSUME LoadInv, IncrImmediate
    PROVE  LoadInv'
<1>1. PICK k \in Key : \E p \in {PendingIncr(k, next_ts - 1)} :
          /\ At("command")
          /\ apply_guarded_incr(next_ts, p)
          /\ Unwrap(IncrResult(next_ts, p))
          /\ next_ts' = next_ts + 1
          /\ register' = [register EXCEPT ![k] = Incremented(@)]
          /\ AfterCommand
          /\ UNCHANGED <<gcVars, pending, txn>>
  BY DEF IncrImmediate
<1>2. PICK p : /\ p = PendingIncr(k, next_ts - 1)
               /\ At("command")
               /\ apply_guarded_incr(next_ts, p)
               /\ Unwrap(IncrResult(next_ts, p))
               /\ next_ts' = next_ts + 1
               /\ register' = [register EXCEPT ![k] = Incremented(@)]
               /\ AfterCommand
               /\ UNCHANGED <<gcVars, pending, txn>>
  BY <1>1
<1>3. phase = "command" /\ ~panicked
  BY <1>2 DEF At
<1>4. /\ next_ts \in Timestamp /\ next_ts - 1 \in Timestamp
      /\ next_ts \in Nat /\ next_ts >= 2
      /\ op \in Nat /\ Len(pending) \in Nat /\ Issued = op /\ Ops \in Nat /\ op < Ops
  BY <1>3, Fits, Constants DEF Issued, LoadInv, Phases
<1>5. \A j \in Key : /\ parse_counter(register[j]) \in Nat
                     /\ parse_counter(register[j]) + Len(pending) <= op
  BY <1>4, ParseType DEF LoadInv, CountersBounded
<1>6. /\ parse_counter(register[k]) + 1 <= Ops /\ next_ts - 1 >= next_ts - 1
      /\ next_ts > next_ts - 1 /\ next_ts - 1 < next_ts /\ next_ts >= next_ts
  BY <1>4, <1>5
<1>7. /\ p \in Pending /\ p.key = k /\ p.read_ts = next_ts - 1
      /\ p.new_value = Incremented(p.expected_value)
  BY <1>2, <1>4, <1>6, PendingIncrType
<1>8. IncrResult(next_ts, p) = "Ok"
  BY <1>2, <1>3, <1>4, <1>6, FreshIncr
<1>9. ~panicked' /\ panicked' \in BOOLEAN
  BY <1>2, <1>8 DEF Unwrap
<1>10. /\ StoreOK' /\ intents' = intents
       /\ p.new_value \in Mutation /\ p.new_value = Incremented(register[k])
       /\ \A j \in Key : get_latest_commit_ts(committed'[j]) <= next_ts
       /\ read(committed'[k], next_ts) = p.new_value
       /\ \A j \in Key \ {k} : read(committed'[j], next_ts) = register[j]
  BY <1>2, <1>3, <1>4, <1>6, <1>7, <1>8, IncrPublish
<1>11. register \in [Key -> Mutation] /\ txn = <<>> /\ txn' = <<>> /\ pending' = pending
  BY <1>2, <1>3 DEF LoadInv, TypeOK, LocksHeld
<1>12. /\ register'[k] = p.new_value /\ \A j \in Key \ {k} : register'[j] = register[j]
       /\ register' \in [Key -> Mutation]
  BY <1>2, <1>10, <1>11
<1>13. next_ts' - 1 = next_ts /\ next_ts' \in Nat /\ next_ts' >= next_ts
  BY <1>2, <1>4
<1>14. QueueOld'
  BY <1>11, <1>13, QueueKept
<1>15. \A j \in Key : intents'[j] = NoIntent
  BY <1>3, <1>10, NoLocks
<1>16. parse_counter(p.new_value) = parse_counter(register[k]) + 1
  BY <1>5, <1>6, <1>10, ParseType
<1>17. ASSUME NEW j \in Key
       PROVE  /\ read(committed'[j], next_ts) = register'[j]
              /\ parse_counter(register'[j]) + Len(pending) <= op + 1
  <2>1. CASE j = k
    BY <1>4, <1>5, <1>10, <1>12, <1>16, <2>1
  <2>2. CASE j # k
    BY <1>4, <1>5, <1>10, <1>12, <2>2
  <2> QED
    BY <2>1, <2>2
<1>18. next_ts + 2 * Len(pending) <= 2 + 2 * op
  BY <1>4 DEF LoadInv, ClockBounded
<1>19. next_ts' + 2 * Len(pending') <= 4 + 2 * op
  BY <1>2, <1>4, <1>11, <1>18
<1>20. UNCHANGED gcVars /\ AfterCommand
  BY <1>2
<1> QED
  BY <1>3, <1>9, <1>10, <1>11, <1>12, <1>13, <1>14, <1>15, <1>17, <1>19, <1>20,
     CommandEnds

LEMMA IncrDelayedInv ==
    ASSUME LoadInv, IncrDelayed
    PROVE  LoadInv'
<1>1. PICK k \in Key, delay \in Delays : \E p \in {PendingIncr(k, next_ts - 1)} :
          /\ At("command")
          /\ pending' = Append(pending, [p EXCEPT !.due_op = op + delay])
          /\ AfterCommand
          /\ UNCHANGED <<store, gcVars, next_ts, txn, panicked, register>>
  BY DEF IncrDelayed
<1>2. phase = "command" /\ ~panicked
  BY <1>1 DEF At
<1> DEFINE p == PendingIncr(k, next_ts - 1)
<1> HIDE DEF p
<1>3. /\ next_ts - 1 \in Timestamp /\ next_ts \in Nat /\ next_ts >= 2
      /\ op \in Nat /\ Len(pending) \in Nat /\ Issued = op /\ Ops \in Nat /\ op < Ops
  BY <1>2, Fits, Constants DEF Issued, LoadInv, Phases
<1>4. \A j \in Key : /\ parse_counter(register[j]) \in Nat
                     /\ parse_counter(register[j]) + Len(pending) <= op
  BY <1>3, ParseType DEF LoadInv, CountersBounded
<1>5. parse_counter(register[k]) + 1 <= Ops /\ next_ts - 1 >= next_ts - 1
  BY <1>3, <1>4
<1>6. op + delay \in Nat
  BY <1>3, LoadAssumption
<1>7. PICK q : /\ q = [p EXCEPT !.due_op = op + delay]
               /\ pending' = Append(pending, q)
  BY <1>1 DEF p
<1>8. /\ q \in Pending /\ q.read_ts = next_ts - 1
      /\ q.new_value = Incremented(q.expected_value)
  BY <1>3, <1>5, <1>6, <1>7, PendingIncrType DEF p
<1>9. pending \in Seq(Pending) /\ pending' = Append(pending, q)
  BY <1>7 DEF LoadInv, QueueOld
<1>10. /\ pending' \in Seq(Pending) /\ Len(pending') = Len(pending) + 1
       /\ \A i \in DOMAIN pending' : i \in DOMAIN pending \/ i = Len(pending) + 1
       /\ \A i \in DOMAIN pending : pending'[i] = pending[i]
       /\ pending'[Len(pending) + 1] = q
  BY <1>8, <1>9
<1>11. /\ next_ts' = next_ts /\ panicked' = panicked /\ register' = register
       /\ txn' = txn /\ committed' = committed /\ intents' = intents
       /\ UNCHANGED store /\ UNCHANGED gcVars /\ AfterCommand
  BY <1>1 DEF store
<1>12. QueueOld'
  <2>1. \A i \in DOMAIN pending : /\ pending[i].read_ts < next_ts
                                  /\ pending[i].new_value = Incremented(pending[i].expected_value)
    BY DEF LoadInv, QueueOld
  <2>2. q.read_ts < next_ts
    BY <1>3, <1>8
  <2>3. \A i \in DOMAIN pending' :
            /\ pending'[i].read_ts < next_ts
            /\ pending'[i].new_value = Incremented(pending'[i].expected_value)
    BY <1>8, <1>10, <2>1, <2>2
  <2> QED
    BY <1>10, <1>11, <2>3 DEF QueueOld
<1>13. StoreOK'
  BY <1>11, StoreSame DEF LoadInv
<1>14. /\ register \in [Key -> Mutation] /\ txn = <<>> /\ panicked' \in BOOLEAN
       /\ \A j \in Key : /\ get_latest_commit_ts(committed[j]) <= next_ts - 1
                         /\ read(committed[j], next_ts - 1) = register[j]
  BY <1>2, <1>11 DEF LoadInv, TypeOK, LocksHeld, VersionsOld, NoLostUpdate
<1>15. \A j \in Key : intents'[j] = NoIntent
  BY <1>2, <1>11, NoLocks
<1>16. next_ts + 2 * Len(pending) <= 2 + 2 * op
  BY <1>3 DEF LoadInv, ClockBounded
<1>17. next_ts' + 2 * Len(pending') <= 4 + 2 * op
  BY <1>3, <1>10, <1>11, <1>16
<1>18. \A j \in Key : parse_counter(register[j]) + Len(pending') <= op + 1
  BY <1>3, <1>4, <1>10
<1>19. next_ts' \in Nat /\ next_ts' >= next_ts
  BY <1>3, <1>11
<1> QED
  BY <1>2, <1>11, <1>12, <1>13, <1>14, <1>15, <1>17, <1>18, <1>19, CommandEnds

LEMMA ReadInv ==
    ASSUME LoadInv, Read
    PROVE  LoadInv'
<1>1. phase = "command" /\ ~panicked
  BY DEF Read, At
<1>2. /\ next_ts \in Nat /\ op \in Nat /\ Len(pending) \in Nat /\ Issued = op
  BY <1>1, Fits DEF Issued
<1>3. /\ next_ts' = next_ts /\ panicked' = panicked /\ register' = register
      /\ txn' = txn /\ committed' = committed /\ intents' = intents /\ pending' = pending
      /\ UNCHANGED store /\ UNCHANGED gcVars /\ AfterCommand
  BY DEF Read, store
<1>4. StoreOK'
  BY <1>3, StoreSame DEF LoadInv
<1>5. /\ register \in [Key -> Mutation] /\ txn = <<>> /\ panicked' \in BOOLEAN
      /\ \A j \in Key : /\ get_latest_commit_ts(committed[j]) <= next_ts - 1
                        /\ read(committed[j], next_ts - 1) = register[j]
  BY <1>1, <1>3 DEF LoadInv, TypeOK, LocksHeld, VersionsOld, NoLostUpdate
<1>6. \A j \in Key : intents'[j] = NoIntent
  BY <1>1, <1>3, NoLocks
<1>7. next_ts + 2 * Len(pending) <= 2 + 2 * op
  BY <1>2 DEF LoadInv, ClockBounded
<1>8. \A j \in Key : /\ parse_counter(register[j]) \in Nat
                     /\ parse_counter(register[j]) + Len(pending) <= op
  BY <1>2, ParseType DEF LoadInv, CountersBounded
<1>9. \A j \in Key : parse_counter(register[j]) + Len(pending') <= op + 1
  BY <1>2, <1>3, <1>8
<1>10. next_ts' \in Nat /\ next_ts' >= next_ts /\ next_ts' + 2 * Len(pending') <= 4 + 2 * op
  BY <1>2, <1>3, <1>7
<1>11. QueueOld'
  BY <1>3, <1>10, QueueKept
<1> QED
  BY <1>1, <1>3, <1>4, <1>5, <1>6, <1>9, <1>10, <1>11, CommandEnds

-----------------------------------------------------------------------------
(* The queue is drained. *)

LEMMA QueueHead ==
    ASSUME LoadInv, pending # <<>>
    PROVE  /\ Head(pending) \in Pending /\ Head(pending).read_ts < next_ts
           /\ Head(pending).new_value = Incremented(Head(pending).expected_value)
           /\ Tail(pending) \in Seq(Pending) /\ Len(Tail(pending)) = Len(pending) - 1
           /\ Len(pending) \in Nat /\ Len(pending) >= 1
           /\ \A i \in DOMAIN Tail(pending) : /\ i + 1 \in DOMAIN pending
                                              /\ Tail(pending)[i] = pending[i + 1]
<1>1. pending \in Seq(Pending)
  BY DEF LoadInv, QueueOld
<1>2. Len(pending) \in Nat /\ Len(pending) >= 1 /\ DOMAIN pending = 1 .. Len(pending)
  BY <1>1
<1>3. Head(pending) = pending[1] /\ 1 \in DOMAIN pending
  BY <1>1, <1>2
<1>4. /\ Tail(pending) \in Seq(Pending) /\ Len(Tail(pending)) = Len(pending) - 1
      /\ DOMAIN Tail(pending) = 1 .. Len(pending) - 1
      /\ \A i \in 1 .. Len(pending) - 1 : Tail(pending)[i] = pending[i + 1]
  BY <1>1, <1>2
<1>5. \A i \in 1 .. Len(pending) - 1 : i + 1 \in DOMAIN pending
  BY <1>2
<1>6. Head(pending) \in Pending
  BY <1>1, <1>3
<1> QED
  BY <1>2, <1>3, <1>4, <1>5, <1>6 DEF LoadInv, QueueOld

(* The increment at the head of the queue is applied, as it was queued or read *)
(* again.                                                                      *)
LEMMA DrainIncr ==
    ASSUME LoadInv, phase \in {"drain", "final"}, pending # <<>>, NEW p \in Pending,
           p.key = Head(pending).key, p.new_value = Incremented(p.expected_value),
           NEW c \in Timestamp, c >= next_ts, c <= next_ts + 1, p.read_ts < c,
           IncrResult(c, p) = "Ok", apply_guarded_incr(c, p), panicked' = FALSE,
           pending' = Tail(pending), next_ts' = c + 1,
           register' = [register EXCEPT ![p.key] = Incremented(@)],
           UNCHANGED <<gcVars, phase, op, txn>>
    PROVE  LoadInv'
<1> DEFINE k == p.key
<1>0. c \in Nat
  BY MaxTsAssumption DEF Timestamp
<1>1. /\ next_ts \in Nat /\ next_ts >= 2 /\ c \in Nat
      /\ op \in Nat /\ Issued = op /\ Ops \in Nat /\ op <= Ops
  BY <1>0, Fits, Constants DEF Issued
<1>2. /\ pending' \in Seq(Pending) /\ Len(pending') = Len(pending) - 1
      /\ Len(pending) \in Nat /\ Len(pending) >= 1
      /\ \A i \in DOMAIN pending' : i + 1 \in DOMAIN pending /\ pending'[i] = pending[i + 1]
  BY QueueHead
<1>3. /\ StoreOK' /\ intents' = intents
      /\ k \in Key /\ p.new_value \in Mutation /\ p.new_value = Incremented(register[k])
      /\ \A j \in Key : get_latest_commit_ts(committed'[j]) <= c
      /\ read(committed'[k], c) = p.new_value
      /\ \A j \in Key \ {k} : read(committed'[j], c) = register[j]
  BY IncrPublish
<1> HIDE DEF k
<1>4. register \in [Key -> Mutation] /\ register' = [register EXCEPT ![k] = Incremented(@)]
  BY DEF LoadInv, TypeOK, k
<1>5. /\ register'[k] = p.new_value /\ \A j \in Key \ {k} : register'[j] = register[j]
      /\ register' \in [Key -> Mutation]
  BY <1>3, <1>4
<1>6. next_ts' - 1 = c /\ next_ts' \in Nat /\ next_ts' >= next_ts /\ next_ts' <= next_ts + 2
  BY <1>1
<1>7. /\ phase' = phase /\ op' = op /\ txn' = txn /\ pass' = pass /\ call' = call
      /\ Issued' = op
  BY <1>1 DEF Issued, gcVars
<1>8. \A j \in Key : /\ parse_counter(register[j]) \in Nat
                     /\ parse_counter(register[j]) + Len(pending) <= op
  BY <1>1, ParseType DEF LoadInv, CountersBounded
<1>9. parse_counter(register[k]) + 1 <= Ops
  BY <1>1, <1>2, <1>3, <1>8
<1>10. parse_counter(p.new_value) = parse_counter(register[k]) + 1
  BY <1>3, <1>8, <1>9, ParseType
<1>11. ASSUME NEW j \in Key
       PROVE  /\ read(committed'[j], c) = register'[j]
              /\ parse_counter(register'[j]) + Len(pending') <= op
  <2>1. CASE j = k
    BY <1>1, <1>2, <1>3, <1>5, <1>8, <1>10, <2>1
  <2>2. CASE j # k
    BY <1>1, <1>2, <1>3, <1>5, <1>8, <2>2
  <2> QED
    BY <2>1, <2>2
<1>12. NoLostUpdate' /\ CountersBounded'
  BY <1>6, <1>7, <1>11 DEF NoLostUpdate, CountersBounded
<1>13. ClockBounded'
  <2>1. next_ts + 2 * Len(pending) <= 2 + 2 * op
    BY <1>1 DEF LoadInv, ClockBounded
  <2>2. next_ts' + 2 * Len(pending') <= 2 + 2 * op
    BY <1>1, <1>2, <1>6, <2>1
  <2>3. next_ts' >= 2 /\ phase' # "commit"
    BY <1>1, <1>6, <1>7
  <2> QED
    BY <1>6, <1>7, <2>2, <2>3 DEF ClockBounded
<1>14. QueueOld'
  <2>1. ASSUME NEW i \in DOMAIN pending'
        PROVE  /\ pending'[i].read_ts < next_ts'
               /\ pending'[i].new_value = Incremented(pending'[i].expected_value)
    <3>1. PICK q \in Pending : q = pending'[i]
      BY <1>2
    <3>2. q.read_ts < next_ts /\ q.new_value = Incremented(q.expected_value)
      BY <1>2, <3>1 DEF LoadInv, QueueOld
    <3>3. q.read_ts \in Int
      BY TimestampType DEF Pending
    <3> QED
      BY <1>1, <1>6, <3>1, <3>2, <3>3
  <2> QED
    BY <1>2, <2>1 DEF QueueOld
<1>15. TypeOK'
  <2>1. BackendTypeOK' /\ GcTypeOK'
    BY <1>3, <1>7 DEF StoreOK, LoadInv, TypeOK, GcTypeOK
  <2>2. \A i \in DOMAIN pending' : pending'[i] \in Pending
    BY <1>2
  <2>3. next_ts' \in 2 .. MaxTs + 1
    BY <1>1, <1>6, MaxTsAssumption, TimestampType
  <2>4. /\ phase' \in {"load", "drain", "command", "commit", "gc", "collecting",
                       "final", "done"}
        /\ op' \in 0 .. Ops /\ txn' \in Seq(Key) /\ panicked' \in BOOLEAN
    BY <1>7 DEF LoadInv, TypeOK
  <2> QED
    BY <1>5, <2>1, <2>2, <2>3, <2>4, Zenon DEF TypeOK, Pending
<1>16. Phases' /\ VersionsOld' /\ LocksHeld'
  BY <1>3, <1>6, <1>7 DEF LoadInv, Phases, VersionsOld, LocksHeld
<1> QED
  BY <1>3, <1>12, <1>13, <1>14, <1>15, <1>16 DEF LoadInv, NeverPanics

LEMMA ApplyPendingInv ==
    ASSUME LoadInv, phase \in {"drain", "final"}, pending # <<>>,
           NEW retried, GuardFailures \subseteq retried, "Ok" \notin retried,
           ApplyPending(retried)
    PROVE  LoadInv'
<1>1. PICK p : p = Head(pending)
  OBVIOUS
<1>2. /\ pending' = Tail(pending)
      /\ register' = [register EXCEPT ![p.key] = Incremented(@)]
      /\ UNCHANGED <<gcVars, phase, op, txn>>
      /\ \/ /\ IncrResult(next_ts, p) \notin retried
            /\ apply_guarded_incr(next_ts, p)
            /\ Unwrap(IncrResult(next_ts, p))
            /\ next_ts' = next_ts + 1
         \/ /\ IncrResult(next_ts, p) \in retried
            /\ retry_incr(p.key, RetryReadTs(p), next_ts + 1)
            /\ next_ts' = next_ts + 2
  BY <1>1 DEF ApplyPending
<1>3. /\ p \in Pending /\ p.read_ts < next_ts /\ p.new_value = Incremented(p.expected_value)
      /\ Len(pending) \in Nat /\ Len(pending) >= 1 /\ p.key \in Key
  BY <1>1, QueueHead DEF Pending
<1>4. /\ next_ts \in Timestamp /\ next_ts + 1 \in Timestamp /\ next_ts \in Nat
      /\ op \in Nat /\ op <= Ops /\ Ops \in Nat /\ Issued = op
  BY Fits, Constants DEF Issued
<1>5. \A k \in Key : next_ts > get_latest_commit_ts(committed[k])
  BY <1>4, LatestInt DEF LoadInv, VersionsOld
<1>6. /\ next_ts >= next_ts /\ next_ts <= next_ts + 1 /\ next_ts + 1 > next_ts
      /\ next_ts + 1 >= next_ts /\ next_ts >= next_ts - 1 /\ next_ts < next_ts + 1
      /\ next_ts + 1 <= next_ts + 1
      /\ next_ts + 2 = (next_ts + 1) + 1
  BY <1>4
<1>7. CASE /\ IncrResult(next_ts, p) \notin retried
           /\ apply_guarded_incr(next_ts, p)
           /\ Unwrap(IncrResult(next_ts, p))
           /\ next_ts' = next_ts + 1
  <2>1. IncrResult(next_ts, p) = "Ok"
    BY <1>3, <1>4, <1>5, <1>7, IncrAnswer DEF GuardFailures
  <2>2. panicked' = FALSE
    BY <1>7, <2>1 DEF Unwrap
  <2> QED
    BY <1>1, <1>2, <1>3, <1>4, <1>6, <1>7, <2>1, <2>2, DrainIncr
<1>8. CASE /\ IncrResult(next_ts, p) \in retried
           /\ retry_incr(p.key, RetryReadTs(p), next_ts + 1)
           /\ next_ts' = next_ts + 2
  <2>1. PICK q : /\ q = PendingIncr(p.key, next_ts)
                 /\ apply_guarded_incr(next_ts + 1, q)
                 /\ Unwrap(IncrResult(next_ts + 1, q))
    BY <1>8 DEF retry_incr, RetryReadTs
  <2>2. /\ parse_counter(register[p.key]) \in Nat
        /\ parse_counter(register[p.key]) + Len(pending) <= op
    BY <1>3, <1>4, ParseType DEF LoadInv, CountersBounded
  <2>3. parse_counter(register[p.key]) + 1 <= Ops
    BY <1>3, <1>4, <2>2
  <2>4. /\ q \in Pending /\ q.key = p.key /\ q.read_ts = next_ts
        /\ q.new_value = Incremented(q.expected_value)
    BY <1>3, <1>4, <1>6, <2>1, <2>3, PendingIncrType
  <2>5. IncrResult(next_ts + 1, q) = "Ok"
    BY <1>3, <1>4, <1>6, <2>1, <2>3, FreshIncr
  <2>6. panicked' = FALSE
    BY <2>1, <2>5 DEF Unwrap
  <2>7. PICK c \in Timestamp : c = next_ts + 1
    BY <1>4
  <2>8. /\ c >= next_ts /\ c <= next_ts + 1 /\ q.read_ts < c /\ next_ts' = c + 1
        /\ IncrResult(c, q) = "Ok" /\ apply_guarded_incr(c, q) /\ q.key = Head(pending).key
        /\ register' = [register EXCEPT ![q.key] = Incremented(@)]
    BY <1>1, <1>2, <1>6, <1>8, <2>1, <2>4, <2>5, <2>7
  <2> QED
    BY <1>2, <2>4, <2>6, <2>8, DrainIncr
<1> QED
  BY <1>2, <1>7, <1>8

LEMMA DrainInv ==
    ASSUME LoadInv, DrainDue \/ DrainFinal
    PROVE  LoadInv'
<1>1. CASE DrainDue
  BY <1>1, ApplyPendingInv DEF DrainDue, At, GuardFailures
<1>2. CASE DrainFinal
  <2>1. GuardFailures \subseteq BatchErrors /\ "Ok" \notin BatchErrors
    BY DEF BatchErrors, GuardFailures
  <2> QED
    BY <1>2, <2>1, ApplyPendingInv DEF DrainFinal, At
<1> QED
  BY <1>1, <1>2

-----------------------------------------------------------------------------
(* Transactions. *)

LEMMA TwoWrites ==
    ASSUME NEW a \in Key, NEW b \in Key, a # b
    PROVE  LET writes == <<W(a, Text), W(b, Text)>>
           IN  /\ writes \in Seq(Write) /\ writes # <<>> /\ DOMAIN writes = {1, 2}
               /\ ~HasDuplicates(KeysOf(writes))
               /\ Elements(KeysOf(writes)) = {a, b}
               /\ \A i \in DOMAIN writes : writes[i].key \in {a, b} /\ writes[i].value = Text
               /\ \A k \in {a, b} : AsFunction(writes)[k] = Text
<1> DEFINE writes == <<W(a, Text), W(b, Text)>>
<1>1. /\ W(a, Text) \in Write /\ W(a, Text).key = a /\ W(a, Text).value = Text
      /\ W(b, Text) \in Write /\ W(b, Text).key = b /\ W(b, Text).value = Text
  BY Constants DEF W, Write
<1>2. /\ writes \in Seq(Write) /\ writes # <<>> /\ DOMAIN writes = {1, 2}
      /\ writes[1].key = a /\ writes[1].value = Text
      /\ writes[2].key = b /\ writes[2].value = Text
  BY <1>1
<1> HIDE DEF writes
<1>3. ~HasDuplicates(KeysOf(writes))
  BY <1>2 DEF HasDuplicates, KeysOf
<1>4. Elements(KeysOf(writes)) = {a, b}
  BY <1>2 DEF Elements, KeysOf
<1>5. \A i \in DOMAIN writes : writes[i].key \in {a, b} /\ writes[i].value = Text
  BY <1>2
<1>6. \A k \in {a, b} : \E i \in DOMAIN writes : writes[i].key = k
  BY <1>2
<1>7. \A k \in {a, b} : AsFunction(writes)[k] = Text
  BY <1>4, <1>5, <1>6 DEF AsFunction
<1> QED
  BY <1>2, <1>3, <1>4, <1>5, <1>7 DEF writes

(* A prewrite above the clock is accepted, and locks both keys. *)
LEMMA PrewriteFine ==
    ASSUME LoadInv, phase = "command", NEW a \in Key, NEW b \in Key, a # b,
           NEW writes, writes = <<W(a, Text), W(b, Text)>>
    PROVE  PrewriteBatchResult(op + 1, next_ts, writes) = "Ok"
<1>1. /\ writes # <<>> /\ DOMAIN writes = {1, 2} /\ ~HasDuplicates(KeysOf(writes))
      /\ \A i \in DOMAIN writes : writes[i].key \in {a, b}
  BY TwoWrites
<1>2. \A k \in Key : CheckPrewrite(op + 1, next_ts, k, Text) = "Ok"
  <2> TAKE k \in Key
  <2>1. ~Locked(k)
    BY NoLocks
  <2>2. /\ get_latest_commit_ts(committed[k]) \in Int /\ next_ts \in Nat
        /\ get_latest_commit_ts(committed[k]) <= next_ts - 1
    BY Fits, LatestInt DEF LoadInv, VersionsOld
  <2>3. ~(get_latest_commit_ts(committed[k]) > next_ts)
    BY <2>2
  <2> QED
    BY <2>1, <2>3 DEF CheckPrewrite
<1> DEFINE checks == [i \in DOMAIN writes |->
                         CheckPrewrite(op + 1, next_ts, writes[i].key, writes[i].value)]
<1>3. DOMAIN checks = {1, 2} /\ \A i \in DOMAIN checks : checks[i] = "Ok"
  <2>1. \A i \in DOMAIN writes : writes[i].key \in Key /\ writes[i].value = Text
    BY TwoWrites
  <2> QED
    BY <1>1, <1>2, <2>1
<1> HIDE DEF checks
<1>4. FirstError(checks, {"Ok", "Replay"}) = "Ok"
  BY <1>3 DEF FirstError
<1>5. Elements(checks) = {"Ok"}
  BY <1>3 DEF Elements
<1>6. Elements(checks) # {"Replay"} /\ "Replay" \notin Elements(checks)
  BY <1>5
<1> QED
  BY <1>1, <1>4, <1>6 DEF PrewriteBatchResult, checks

LEMMA TxnPrewriteInv ==
    ASSUME LoadInv, TxnPrewrite
    PROVE  LoadInv'
<1>1. PICK a \in Key, b \in Key : \E writes \in {<<W(a, Text), W(b, Text)>>} :
          /\ At("command") /\ a # b
          /\ prewrite_batch(op + 1, next_ts, writes)
          /\ Unwrap(PrewriteBatchResult(op + 1, next_ts, writes))
          /\ txn' = <<a, b>>
          /\ next_ts' = next_ts + 1
          /\ phase' = "commit"
          /\ UNCHANGED <<gcVars, op, pending, register>>
  BY DEF TxnPrewrite
<1>2. PICK writes :
          /\ writes = <<W(a, Text), W(b, Text)>>
          /\ prewrite_batch(op + 1, next_ts, writes)
          /\ Unwrap(PrewriteBatchResult(op + 1, next_ts, writes))
  BY <1>1
<1>3. /\ phase = "command" /\ ~panicked /\ a # b /\ txn' = <<a, b>>
      /\ next_ts' = next_ts + 1 /\ phase' = "commit"
      /\ pass' = pass /\ call' = call /\ op' = op /\ pending' = pending
      /\ register' = register
  BY <1>1 DEF At, gcVars
<1>4. /\ next_ts \in Timestamp /\ next_ts - 1 \in Timestamp /\ next_ts \in Nat /\ next_ts >= 2
      /\ op \in Nat /\ op < Ops /\ Len(pending) \in Nat /\ Issued = op /\ Issued' = op + 1
      /\ Ops \in Nat /\ op + 1 \in TxnId
  BY <1>3, Fits, Constants DEF Issued, LoadInv, Phases
<1>5. PrewriteBatchResult(op + 1, next_ts, writes) = "Ok"
  BY <1>2, <1>3, PrewriteFine
<1>6. panicked' = FALSE
  BY <1>2, <1>5 DEF Unwrap
<1> DEFINE lock == NewIntent(op + 1, next_ts, Text, NoTs)
           new  == [k \in {a, b} |-> lock]
<1>7. lock \in Intent
  BY <1>4, Constants, NewIntentType
<1>8. put_intents_batch(new)
  <2>1. Elements(KeysOf(writes)) = {a, b} /\ \A k \in {a, b} : AsFunction(writes)[k] = Text
    BY <1>2, <1>3, TwoWrites
  <2> QED
    BY <1>2, <1>5, <2>1 DEF prewrite_batch
<1>9. new \in [{a, b} -> Intent] /\ \A k \in {a, b} : new[k] = lock
  BY <1>7
<1>10. {a, b} \in SUBSET Key /\ StoreOK
  BY DEF LoadInv
<1> HIDE DEF new, lock
<1>11. /\ StoreOK' /\ committed' = committed
       /\ \A k \in {a, b} : intents'[k] = lock
       /\ \A k \in Key \ {a, b} : intents'[k] = intents[k]
  BY <1>8, <1>9, <1>10, PutIntents
<1>12. \A k \in Key : intents'[k] = IF k \in {a, b} THEN lock ELSE NoIntent
  BY <1>3, <1>11, NoLocks
<1>13. next_ts' - 1 = next_ts /\ next_ts' - 2 = next_ts - 1 /\ next_ts' \in Nat
       /\ next_ts' >= next_ts
  BY <1>3, <1>4
<1>14. LocksHeld'
  <2>1. lock = NewIntent(op' + 1, next_ts' - 1, Text, NoTs)
    BY <1>3, <1>13 DEF lock
  <2>2. \A k \in Key : intents'[k] = IF k \in {a, b}
            THEN NewIntent(op' + 1, next_ts' - 1, Text, NoTs) ELSE NoIntent
    BY <1>12, <2>1
  <2> QED
    BY <1>3, <2>2 DEF LocksHeld
<1>15. \A k \in Key : /\ get_latest_commit_ts(committed[k]) \in Int
                      /\ get_latest_commit_ts(committed[k]) <= next_ts - 1
                      /\ committed[k] \in Row
                      /\ read(committed[k], next_ts - 1) = register[k]
  BY LatestInt DEF LoadInv, TypeOK, BackendTypeOK, VersionsOld, NoLostUpdate
<1>16. \A k \in Key : get_latest_commit_ts(committed[k]) <= next_ts
  BY <1>4, <1>15
<1>17. \A k \in Key : read(committed[k], next_ts) = register[k]
  BY <1>4, <1>15, <1>16, ReadSettled
<1>18. VersionsOld' /\ NoLostUpdate'
  BY <1>3, <1>11, <1>13, <1>15, <1>16, <1>17 DEF VersionsOld, NoLostUpdate
<1>19. ClockBounded'
  <2>1. next_ts + 2 * Len(pending) <= 2 + 2 * op
    BY <1>4 DEF LoadInv, ClockBounded
  <2>2. next_ts' >= 2 /\ next_ts' + 2 * Len(pending') <= 1 + 2 * (op + 1)
        /\ next_ts' + 2 * Len(pending') <= 2 + 2 * (op + 1)
    BY <1>3, <1>4, <2>1
  <2> QED
    BY <1>4, <1>13, <2>2 DEF ClockBounded
<1>20. CountersBounded'
  <2>1. \A k \in Key : /\ parse_counter(register[k]) \in Nat
                       /\ parse_counter(register[k]) + Len(pending) <= op
    BY <1>4, ParseType DEF LoadInv, CountersBounded
  <2>2. \A k \in Key : parse_counter(register[k]) + Len(pending) <= op + 1
    BY <1>4, <2>1
  <2> QED
    BY <1>3, <1>4, <2>2 DEF CountersBounded
<1>21. QueueOld'
  BY <1>3, <1>13, QueueKept
<1>22. Phases'
  BY <1>3, <1>4 DEF LoadInv, Phases
<1>23. TypeOK'
  <2>1. BackendTypeOK' /\ GcTypeOK'
    BY <1>3, <1>11 DEF StoreOK, LoadInv, TypeOK, GcTypeOK
  <2>2. next_ts' \in 2 .. MaxTs + 1
    BY <1>3, <1>4, MaxTsAssumption, TimestampType
  <2>3. /\ \A i \in DOMAIN pending' :
              pending'[i] \in [due_op : Nat, key : Key, read_ts : Timestamp,
                               expected_value : Mutation, new_value : Counter]
        /\ op' \in 0 .. Ops /\ register' \in [Key -> Mutation]
    BY <1>3 DEF LoadInv, TypeOK
  <2>4. /\ panicked' \in BOOLEAN
        /\ phase' \in {"load", "drain", "command", "commit", "gc", "collecting",
                       "final", "done"}
    BY <1>3, <1>6
  <2>5. txn' \in Seq(Key)
    <3>1. <<a, b>> \in Seq(Key)
      OBVIOUS
    <3> QED
      BY <1>3, <3>1
  <2> QED
    BY <2>1, <2>2, <2>3, <2>4, <2>5, Zenon DEF TypeOK
<1> QED
  BY <1>6, <1>11, <1>14, <1>18, <1>19, <1>20, <1>21, <1>22, <1>23 DEF LoadInv, NeverPanics

(* The commit of a transaction that holds its locks is accepted. *)
LEMMA CommitFine ==
    ASSUME LoadInv, phase = "commit", NEW a \in Key, NEW b \in Key, a # b, txn = <<a, b>>,
           \A k \in {a, b} : intents[k] = NewIntent(op + 1, next_ts - 1, Text, NoTs)
    PROVE  /\ CommitBatchResult(op + 1, next_ts - 1, next_ts, txn) = "Ok"
           /\ Elements(txn) = {a, b}
           /\ \A k \in {a, b} : /\ LockedBy(k, op + 1, next_ts - 1)
                                /\ intents[k].mutation = Text
<1>1. /\ next_ts \in Nat /\ next_ts >= 2 /\ next_ts - 1 \in Timestamp /\ op \in Nat
      /\ op + 1 \in TxnId
  BY Fits, Constants DEF LoadInv, Phases
<1>2. PICK lock : lock = NewIntent(op + 1, next_ts - 1, Text, NoTs)
  OBVIOUS
<1>3. /\ lock \in Intent /\ lock # NoIntent /\ lock.txn_id = op + 1
      /\ lock.start_ts = next_ts - 1 /\ lock.mutation = Text /\ lock.min_commit_ts = NoTs
  BY <1>1, <1>2, Constants, NewIntentType, IntentFields, IntentAssumption
<1>4. \A k \in {a, b} : intents[k] = lock
  BY <1>2
<1>5. \A k \in {a, b} : LockedBy(k, op + 1, next_ts - 1) /\ intents[k].mutation = Text
  BY <1>3, <1>4 DEF LockedBy, Locked
<1>6. \A k \in {a, b} : CheckCommitKey(op + 1, next_ts - 1, next_ts, k) = "Ok"
  <2> TAKE k \in {a, b}
  <2>1. CheckOwner(op + 1, next_ts - 1, k) = "Ok"
    BY <1>3, <1>4 DEF CheckOwner, Locked
  <2>2. /\ get_latest_commit_ts(committed[k]) \in Int
        /\ get_latest_commit_ts(committed[k]) <= next_ts - 2
    BY LatestInt DEF LoadInv, VersionsOld
  <2>3. /\ ~(next_ts < NoTs) /\ next_ts # get_latest_commit_ts(committed[k])
        /\ ~(next_ts < get_latest_commit_ts(committed[k]))
    BY <1>1, <2>2 DEF NoTs
  <2>4. CheckCommitTs(k, next_ts) = "Ok"
    BY <1>3, <1>4, <2>3 DEF CheckCommitTs
  <2> QED
    BY <2>1, <2>4 DEF CheckCommitKey
<1>7. txn # <<>> /\ DOMAIN txn = {1, 2} /\ txn[1] = a /\ txn[2] = b
  OBVIOUS
<1>8. ~HasDuplicates(txn) /\ Elements(txn) = {a, b}
  BY <1>7 DEF HasDuplicates, Elements
<1> DEFINE checks == [i \in DOMAIN txn |->
                         CheckCommitKey(op + 1, next_ts - 1, next_ts, txn[i])]
<1>9. DOMAIN checks = {1, 2} /\ \A i \in DOMAIN checks : checks[i] = "Ok"
  BY <1>6, <1>7
<1> HIDE DEF checks
<1>10. FirstError(checks, {"Ok"}) = "Ok"
  BY <1>9 DEF FirstError
<1>11. ~(next_ts <= next_ts - 1)
  BY <1>1
<1>12. CommitBatchResult(op + 1, next_ts - 1, next_ts, txn) = "Ok"
  BY <1>7, <1>8, <1>10, <1>11 DEF CommitBatchResult, checks
<1> QED
  BY <1>5, <1>8, <1>12

LEMMA TxnCommitInv ==
    ASSUME LoadInv, TxnCommit
    PROVE  LoadInv'
<1>1. phase = "commit" /\ ~panicked
  BY DEF TxnCommit, At
<1>2. PICK a \in Key, b \in Key :
          /\ a # b /\ txn = <<a, b>>
          /\ \A k \in Key : intents[k] = IF k \in {a, b}
                THEN NewIntent(op + 1, next_ts - 1, Text, NoTs) ELSE NoIntent
  BY <1>1 DEF LoadInv, LocksHeld
<1>3. \A k \in {a, b} : intents[k] = NewIntent(op + 1, next_ts - 1, Text, NoTs)
  BY <1>2
<1>4. /\ CommitBatchResult(op + 1, next_ts - 1, next_ts, txn) = "Ok"
      /\ Elements(txn) = {a, b}
      /\ \A k \in {a, b} : LockedBy(k, op + 1, next_ts - 1) /\ intents[k].mutation = Text
  BY <1>1, <1>2, <1>3, CommitFine
<1>5. /\ next_ts \in Timestamp /\ next_ts \in Nat /\ next_ts >= 2
      /\ op \in Nat /\ Len(pending) \in Nat /\ Issued = op + 1 /\ next_ts >= next_ts
  BY <1>1, Fits DEF Issued
<1>6. ~panicked' /\ panicked' \in BOOLEAN
  BY <1>4 DEF TxnCommit, Unwrap
<1>7. commit_intents_batch(IntentVersions({a, b}), next_ts, op + 1, next_ts - 1)
  BY <1>4 DEF TxnCommit, commit_batch
<1>8. {a, b} \in SUBSET Key /\ StoreOK
  BY DEF LoadInv
<1>9. /\ StoreOK'
      /\ \A k \in {a, b} : /\ intents'[k] = NoIntent
                           /\ committed'[k] = Written(committed[k], next_ts, intents[k].mutation)
      /\ \A k \in Key \ {a, b} : intents'[k] = intents[k] /\ committed'[k] = committed[k]
  BY <1>4, <1>5, <1>7, <1>8, CommitIntents
<1> DEFINE versions == [k \in {a, b} |-> Text]
<1>10. versions \in [{a, b} -> Mutation] /\ \A k \in {a, b} : versions[k] = Text
  BY Constants
<1> HIDE DEF versions
<1>11. \A k \in {a, b} : committed'[k] = Written(committed[k], next_ts, versions[k])
  BY <1>4, <1>9, <1>10
<1>12. /\ \A k \in Key : get_latest_commit_ts(committed'[k]) <= next_ts
       /\ \A k \in {a, b} : read(committed'[k], next_ts) = versions[k]
       /\ \A k \in Key \ {a, b} : read(committed'[k], next_ts) = register[k]
  BY <1>5, <1>8, <1>9, <1>10, <1>11, PublishRows
<1>13. /\ next_ts' = next_ts + 1 /\ next_ts' - 1 = next_ts /\ pending' = pending
       /\ txn' = <<>> /\ AfterCommand /\ UNCHANGED gcVars
       /\ register' = [k \in Key |-> IF k \in {a, b} THEN Text ELSE register[k]]
  BY <1>4, <1>5 DEF TxnCommit
<1>14. register' \in [Key -> Mutation]
  BY <1>13, Constants DEF LoadInv, TypeOK
<1>15. \A k \in Key : intents'[k] = NoIntent
  BY <1>2, <1>9
<1>16. next_ts' \in Nat /\ next_ts' >= next_ts
  BY <1>5, <1>13
<1>17. QueueOld'
  BY <1>13, <1>16, QueueKept
<1>18. ASSUME NEW k \in Key
       PROVE  /\ read(committed'[k], next_ts) = register'[k]
              /\ parse_counter(register'[k]) + Len(pending) <= op + 1
  <2>1. /\ parse_counter(register[k]) \in Nat
        /\ parse_counter(register[k]) + Len(pending) <= op + 1
    BY <1>5, ParseType DEF LoadInv, CountersBounded
  <2>2. CASE k \in {a, b}
    <3>1. register'[k] = Text /\ parse_counter(register'[k]) = 0
      BY <1>13, <2>2, ParseType
    <3> QED
      BY <1>5, <1>10, <1>12, <2>1, <2>2, <3>1
  <2>3. CASE k \notin {a, b}
    BY <1>12, <1>13, <2>1, <2>3
  <2> QED
    BY <2>2, <2>3
<1>19. next_ts + 2 * Len(pending) <= 1 + 2 * (op + 1)
  BY <1>1, <1>5 DEF LoadInv, ClockBounded
<1>20. next_ts' + 2 * Len(pending') <= 4 + 2 * op
  BY <1>5, <1>13, <1>19
<1> QED
  BY <1>1, <1>6, <1>9, <1>12, <1>13, <1>14, <1>15, <1>16, <1>17, <1>18, <1>20, CommandEnds

-----------------------------------------------------------------------------
(* Steps that write nothing, and collection. *)

\* Where the loop may be when no transaction is open.
Settled == {"drain", "command", "gc", "collecting", "final", "done"}

LEMMA DataKept ==
    ASSUME LoadInv, phase # "commit", phase' \in Settled, op' \in 0 .. Ops, Issued' = Issued,
           UNCHANGED <<next_ts, pending, txn, panicked, register>>,
           StoreOK', intents' = intents, GcTypeOK', Phases',
           \A k \in Key : /\ get_latest_commit_ts(committed'[k]) <= next_ts - 1
                          /\ read(committed'[k], next_ts - 1) = register[k]
    PROVE  LoadInv'
<1>1. /\ next_ts' = next_ts /\ pending' = pending /\ txn' = txn /\ panicked' = panicked
      /\ register' = register
  OBVIOUS
<1>2. phase' # "commit"
  BY DEF Settled
<1>3. NeverPanics' /\ NoLostUpdate' /\ VersionsOld' /\ LocksHeld' /\ QueueOld'
  BY <1>1, <1>2 DEF LoadInv, NeverPanics, NoLostUpdate, VersionsOld, LocksHeld, QueueOld
<1>4. ClockBounded' /\ CountersBounded'
  BY <1>1, <1>2 DEF LoadInv, ClockBounded, CountersBounded
<1>5. TypeOK'
  <2>1. /\ BackendTypeOK' /\ GcTypeOK'
        /\ phase' \in {"load", "drain", "command", "commit", "gc", "collecting",
                       "final", "done"}
    BY DEF StoreOK, Settled
  <2>2. /\ next_ts' \in 2 .. MaxTs + 1
        /\ \A i \in DOMAIN pending' :
              pending'[i] \in [due_op : Nat, key : Key, read_ts : Timestamp,
                               expected_value : Mutation, new_value : Counter]
        /\ txn' \in Seq(Key) /\ panicked' \in BOOLEAN
        /\ register' \in [Key -> Mutation]
    BY <1>1 DEF LoadInv, TypeOK
  <2> QED
    BY <2>1, <2>2, Zenon DEF TypeOK
<1> QED
  BY <1>3, <1>4, <1>5 DEF LoadInv

LEMMA StoreKept ==
    ASSUME LoadInv, UNCHANGED store
    PROVE  /\ StoreOK' /\ intents' = intents
           /\ \A k \in Key : /\ get_latest_commit_ts(committed'[k]) <= next_ts - 1
                             /\ read(committed'[k], next_ts - 1) = register[k]
BY StoreSame DEF LoadInv, store, VersionsOld, NoLostUpdate

LEMMA DrainedInv ==
    ASSUME LoadInv, Drained \/ Finish
    PROVE  LoadInv'
<1>1. /\ UNCHANGED <<store, gcVars, op, next_ts, pending, txn, panicked, register>>
      /\ UNCHANGED store /\ pass' = pass /\ call' = call /\ op' = op
      /\ \/ phase = "drain" /\ phase' = "command"
         \/ phase = "final" /\ phase' = "done"
  BY DEF Drained, Finish, At, gcVars
<1>2. phase # "commit" /\ phase' \in Settled /\ Issued' = Issued
  BY <1>1 DEF Settled, Issued
<1>3. op' \in 0 .. Ops /\ GcTypeOK'
  BY <1>1 DEF LoadInv, TypeOK, GcTypeOK
<1>4. Phases'
  BY <1>1 DEF LoadInv, Phases
<1> QED
  BY <1>1, <1>2, <1>3, <1>4, StoreKept, DataKept

LEMMA GcCallInv ==
    ASSUME LoadInv, GcCall
    PROVE  LoadInv'
<1>1. /\ phase = "gc" /\ phase' = "collecting" /\ op' = op /\ UNCHANGED store
      /\ call = NoCall /\ call' = NoCall
      /\ UNCHANGED <<next_ts, pending, txn, panicked, register>>
  BY DEF GcCall, At
<1>2. phase # "commit" /\ phase' \in Settled /\ Issued' = Issued
  BY <1>1 DEF Settled, Issued
<1>3. op' \in 0 .. Ops /\ op < Ops /\ pass \in Pass \cup {NoPass}
  BY <1>1 DEF LoadInv, TypeOK, GcTypeOK, Phases
<1> DEFINE safe == IF next_ts > Retention THEN next_ts - Retention ELSE 0
           cursor == IF pass = NoPass THEN NoKey ELSE pass.cursor
<1>4. safe \in Timestamp /\ safe <= next_ts - 1
  <2>1. /\ next_ts \in Nat /\ next_ts >= 2 /\ next_ts - 1 \in 0 .. MaxTs
        /\ Retention \in Nat \ {0} /\ MaxTs \in Nat
    BY Fits, LoadAssumption, MaxTsAssumption DEF Timestamp
  <2> QED
    BY <2>1 DEF Timestamp
<1>5. cursor \in Key \cup {NoKey}
  BY <1>3 DEF Pass
<1>6. pass' = [safe_point_ts |-> safe, max_keys |-> GcMaxKeys, max_versions |-> GcMaxVersions,
               collapse |-> FALSE, cursor |-> cursor]
  BY DEF GcCall
<1> HIDE DEF safe, cursor
<1>7. pass' \in Pass /\ pass'.safe_point_ts = safe
  BY <1>4, <1>5, <1>6, LoadAssumption DEF Pass
<1>8. pass' # NoPass
  BY <1>7, GcSentinelAssumption
<1>9. GcTypeOK'
  BY <1>1, <1>7 DEF GcTypeOK
<1>10. Phases'
  BY <1>1, <1>3, <1>4, <1>7, <1>8 DEF Phases
<1> QED
  BY <1>1, <1>2, <1>3, <1>9, <1>10, StoreKept, DataKept

(* What a call removes no reader at the clock sees. *)
LEMMA GcPruneReads ==
    ASSUME LoadInv, phase = "collecting", GcPrune
    PROVE  /\ intents' = intents
           /\ \A k \in Key : /\ get_latest_commit_ts(committed'[k]) <= next_ts - 1
                             /\ read(committed'[k], next_ts - 1) = register[k]
<1>1. PICK k : k = Current
  OBVIOUS
<1>2. PICK S : S = Removable
  OBVIOUS
<1>3. Scanning /\ Keeper # NoTs /\ remove_committed_versions(k, S)
  BY <1>1, <1>2 DEF GcPrune
<1>4. GcTypeOK /\ StoreOK
  BY DEF LoadInv, TypeOK
<1>5. k \in Key /\ pass \in Pass /\ \A t \in S : t < Keeper
  BY <1>1, <1>2, <1>3, <1>4, ScanTypes
<1>6. /\ StoreOK' /\ intents' = intents
      /\ committed'[k] = Pruned(committed[k], S)
      /\ \A j \in Key \ {k} : committed'[j] = committed[j]
  BY <1>3, <1>4, <1>5, RemovalStore
<1>7. /\ pass.safe_point_ts \in Timestamp /\ pass.safe_point_ts <= next_ts - 1
      /\ next_ts \in Nat /\ next_ts - 1 \in Timestamp /\ next_ts - 1 \in Int
  BY <1>5, Fits, TimestampType DEF LoadInv, Phases, Pass
<1>8. Keeper = get_visible_committed(committed[k], pass.safe_point_ts)
  BY <1>1 DEF Keeper
<1>9. Harmless(committed[k], S, next_ts - 1)
  BY <1>3, <1>5, <1>7, <1>8, PruneHarmless
<1>10. read(Pruned(committed[k], S), next_ts - 1) = read(committed[k], next_ts - 1)
  <2>1. next_ts - 1 >= next_ts - 1
    BY <1>7
  <2> QED
    BY <1>7, <1>9, <2>1, ReadAfterRemoval
<1>11. \A j \in Key : /\ get_latest_commit_ts(committed[j]) <= next_ts - 1
                      /\ read(committed[j], next_ts - 1) = register[j]
                      /\ get_latest_commit_ts(committed[j]) \in Int
  BY LatestInt DEF LoadInv, VersionsOld, NoLostUpdate
<1>12. get_latest_commit_ts(Pruned(committed[k], S)) <= next_ts - 1
  <2> DEFINE row == Pruned(committed[k], S)
             latest == get_latest_commit_ts(row)
  <2>1. \A t \in Timestamp : row[t] # NoVersion => committed[k][t] # NoVersion
    BY DEF Pruned
  <2> HIDE DEF row
  <2>2. latest \in Timestamp \cup {NoTs} /\ (latest # NoTs => row[latest] # NoVersion)
    BY LatestProp
  <2> HIDE DEF latest
  <2>3. CASE latest = NoTs
    BY <1>7, <2>3, TimestampType DEF latest, row
  <2>4. CASE latest # NoTs
    <3>1. latest \in Timestamp /\ committed[k][latest] # NoVersion
      BY <2>1, <2>2, <2>4
    <3>2. latest <= get_latest_commit_ts(committed[k]) /\ latest \in Int
      BY <3>1, LatestProp, TimestampType
    <3>3. latest <= next_ts - 1
      BY <1>5, <1>7, <1>11, <3>2
    <3> QED
      BY <3>3 DEF latest, row
  <2> QED
    BY <2>3, <2>4
<1>13. ASSUME NEW j \in Key
       PROVE  /\ get_latest_commit_ts(committed'[j]) <= next_ts - 1
              /\ read(committed'[j], next_ts - 1) = register[j]
  <2>1. CASE j = k
    BY <1>6, <1>10, <1>11, <1>12, <2>1
  <2>2. CASE j # k
    BY <1>6, <1>11, <2>2
  <2> QED
    BY <2>1, <2>2
<1> QED
  BY <1>6, <1>13

LEMMA GcRunInv ==
    ASSUME LoadInv, GcRun
    PROVE  LoadInv'
<1>1. /\ phase = "collecting" /\ phase' = phase /\ op' = op
      /\ UNCHANGED <<next_ts, pending, txn, panicked, register>>
      /\ GcBegin \/ GcSkip \/ GcOutOfBudget \/ GcPrune
  BY DEF GcRun, At, loadVars
<1>2. phase # "commit" /\ phase' \in Settled /\ Issued' = Issued
  BY <1>1 DEF Settled, Issued
<1>3. StoreOK' /\ GcTypeOK'
  BY <1>1, GcStepTypes DEF LoadInv, TypeOK, GcStep
<1>4. pass' = pass
  BY <1>1 DEF GcBegin, GcSkip, GcOutOfBudget, GcPrune
<1>5. op' \in 0 .. Ops
  BY <1>1 DEF LoadInv, TypeOK
<1>6. Phases'
  BY <1>1, <1>4 DEF LoadInv, Phases
<1>7. /\ intents' = intents
      /\ \A k \in Key : /\ get_latest_commit_ts(committed'[k]) <= next_ts - 1
                        /\ read(committed'[k], next_ts - 1) = register[k]
  <2>1. CASE GcPrune
    BY <1>1, <2>1, GcPruneReads
  <2>2. CASE UNCHANGED store
    BY <2>2, StoreKept
  <2> QED
    BY <1>1, <2>1, <2>2 DEF GcBegin, GcSkip, GcOutOfBudget
<1> QED
  BY <1>1, <1>2, <1>3, <1>5, <1>6, <1>7, DataKept

LEMMA GcDoneInv ==
    ASSUME LoadInv, GcDone
    PROVE  LoadInv'
<1>1. /\ phase = "collecting" /\ NextCommand /\ GcReturn /\ UNCHANGED store /\ call' = NoCall
      /\ UNCHANGED <<next_ts, pending, txn, panicked, register>>
  BY DEF GcDone, At, GcReturn
<1>2. op < Ops
  BY <1>1 DEF LoadInv, Phases
<1>3. /\ phase' \in {"drain", "final"} /\ op' \in 0 .. Ops /\ Issued' = op + 1
      /\ phase' = "drain" => op' < Ops
      /\ phase' = "final" => op' = Ops
  BY <1>1, <1>2, NextCommandPhase
<1>4. phase # "commit" /\ phase' \in Settled /\ Issued' = Issued
  BY <1>1, <1>3 DEF Settled, Issued
<1>5. GcTypeOK'
  BY <1>1, GcStepTypes DEF LoadInv, TypeOK, GcStep
<1>6. Phases'
  BY <1>1, <1>3 DEF Phases
<1> QED
  BY <1>1, <1>3, <1>4, <1>5, <1>6, StoreKept, DataKept

-----------------------------------------------------------------------------
(* The first batch. *)

Initial == [i \in 1 .. Cardinality(Key) |->
               W(CHOOSE k \in Key : Cardinality({j \in Key : j < k}) = i - 1, 0)]

(* It writes every key, once. *)
LEMMA InitialBatch ==
    /\ Initial \in Seq(Write) /\ Initial # <<>> /\ ~HasDuplicates(KeysOf(Initial))
    /\ Elements(KeysOf(Initial)) = Key
    /\ \A k \in Key : AsFunction(Initial)[k] = 0
<1> DEFINE n == Cardinality(Key)
           rank(k) == Cardinality({j \in Key : j < k})
           nth(i) == CHOOSE k \in Key : rank(k) = i - 1
<1>1. /\ n \in Nat /\ n >= 1
      /\ \A i \in 1 .. n : \E k \in Key : rank(k) = i - 1
      /\ \A k \in Key : rank(k) + 1 \in 1 .. n
      /\ \A k, l \in Key : rank(k) = rank(l) => k = l
  BY Ranks
<1>2. \A k \in Key : rank(k) \in Int
  <2>1. \A k \in Key : IsFiniteSet({j \in Key : j < k})
    BY LoadAssumption, FS_Subset
  <2> QED
    BY <2>1, FS_CardinalityType
<1>3. \A i \in 1 .. n : Initial[i] = W(nth(i), 0)
  BY DEF Initial
<1>4. Initial = [i \in 1 .. n |-> Initial[i]]
  BY DEF Initial
<1> HIDE DEF n, rank
<1>5. \A i \in 1 .. n : nth(i) \in Key /\ rank(nth(i)) = i - 1
  BY <1>1
<1> HIDE DEF nth
<1>6. 0 \in Mutation
  BY Constants, ParseType
<1>7. \A i \in 1 .. n : /\ Initial[i] \in Write /\ Initial[i].key = nth(i)
                        /\ Initial[i].value = 0
  <2>1. \A k \in Key : W(k, 0) \in Write /\ W(k, 0).key = k /\ W(k, 0).value = 0
    BY <1>6 DEF W, Write
  <2> QED
    BY <1>3, <1>5, <2>1, Zenon
<1>8. Initial \in [1 .. n -> Write] /\ DOMAIN Initial = 1 .. n
  BY <1>4, <1>7, Zenon
<1>9. Initial \in Seq(Write)
  BY <1>1, <1>8, Vector
<1>10. Initial # <<>>
  <2>1. 1 \in DOMAIN Initial
    BY <1>1, <1>8
  <2> QED
    BY <2>1
<1>11. ~HasDuplicates(KeysOf(Initial))
  <2>1. \A i, j \in 1 .. n : nth(i) = nth(j) => i - 1 = j - 1
    BY <1>5
  <2>2. \A i, j \in 1 .. n : nth(i) = nth(j) => i = j
    BY <1>1, <2>1
  <2> QED
    BY <1>7, <1>8, <2>2 DEF HasDuplicates, KeysOf
<1>12. ASSUME NEW k \in Key PROVE \E i \in 1 .. n : nth(i) = k
  <2>1. PICK i \in 1 .. n : i = rank(k) + 1
    BY <1>1
  <2>2. rank(k) = i - 1
    BY <1>2, <2>1
  <2>3. rank(nth(i)) = rank(k) /\ nth(i) \in Key
    BY <1>5, <2>2
  <2> QED
    BY <1>1, <2>3
<1>13. Elements(KeysOf(Initial)) = Key
  BY <1>5, <1>7, <1>8, <1>12 DEF Elements, KeysOf
<1>14. \A k \in Key : AsFunction(Initial)[k] = 0
  <2>1. \A k \in Key : \E i \in DOMAIN Initial : Initial[i].key = k
    BY <1>7, <1>8, <1>12
  <2> QED
    BY <1>7, <1>8, <1>13, <2>1 DEF AsFunction
<1> QED
  BY <1>9, <1>10, <1>11, <1>13, <1>14

LEMMA LoadStep ==
    ASSUME LoadInv, Load
    PROVE  LoadInv'
<1>1. /\ At("load")
      /\ apply_direct_batch(1, Initial)
      /\ Unwrap(DirectBatchResult(1, Initial))
      /\ register' = [k \in Key |-> 0]
      /\ phase' = "drain"
      /\ UNCHANGED <<gcVars, op, next_ts, pending, txn>>
  BY DEF Load, Initial
<1>2. /\ phase = "load" /\ ~panicked /\ op = 0 /\ next_ts = 2 /\ pending = <<>>
      /\ txn = <<>> /\ call = NoCall
      /\ \A k \in Key : get_latest_commit_ts(committed[k]) = NoTs
  BY <1>1 DEF At, LoadInv, Phases, LocksHeld
<1>3. /\ phase' = "drain" /\ op' = 0 /\ next_ts' = 2 /\ pending' = <<>> /\ txn' = <<>>
      /\ pass' = pass /\ call' = NoCall
  BY <1>1, <1>2 DEF gcVars
<1>4. 1 \in Timestamp /\ 0 \in Mutation /\ 0 < Ops
  BY Constants, ParseType DEF Timestamp
<1>5. PICK c \in Timestamp : c = 1
  BY <1>4
<1>6. \A k \in Key : c > get_latest_commit_ts(committed[k])
  BY <1>2, <1>5 DEF NoTs
<1>7. DirectBatchResult(c, Initial) = "Ok"
  BY <1>2, <1>5, <1>6, InitialBatch, WritesFine DEF DirectBatchResult
<1>8. panicked' = FALSE
  BY <1>1, <1>5, <1>7 DEF Unwrap
<1>9. AsFunction(Initial) \in [Key -> Mutation]
  BY InitialBatch, BatchTypes
<1>10. put_committed_batch(AsFunction(Initial), c)
  BY <1>1, <1>5, <1>7 DEF apply_direct_batch
<1>11. /\ StoreOK' /\ intents' = intents
       /\ \A k \in Key : committed'[k] = Written(committed[k], c, AsFunction(Initial)[k])
  <2>1. Key \in SUBSET Key /\ StoreOK
    BY DEF LoadInv
  <2>2. PICK versions \in [Key -> Mutation] : versions = AsFunction(Initial)
    BY <1>9
  <2> QED
    BY <1>10, <2>1, <2>2, PutVersions
<1>12. ASSUME NEW k \in Key
       PROVE  get_latest_commit_ts(committed'[k]) = 1 /\ read(committed'[k], 1) = 0
  <2>1. committed'[k] = Written(committed[k], c, 0) /\ committed[k] \in Row
    BY <1>11, InitialBatch DEF LoadInv, TypeOK, BackendTypeOK
  <2>2. c >= c
    BY <1>5
  <2>3. /\ get_latest_commit_ts(Written(committed[k], c, 0)) = c
        /\ read(Written(committed[k], c, 0), c) = 0
    BY <1>4, <1>6, <2>1, <2>2, LatestAfterWrite, ReadAfterWrite
  <2> QED
    BY <1>5, <2>1, <2>3
<1>13. Len(pending') = 0 /\ Issued' = 0 /\ pending' \in Seq(Pending) /\ DOMAIN pending' = {}
  BY <1>3 DEF Issued
<1>14. ClockBounded' /\ CountersBounded'
  <2>1. \A k \in Key : parse_counter(register'[k]) = 0
    BY <1>1, ParseType
  <2> QED
    BY <1>3, <1>13, <2>1 DEF ClockBounded, CountersBounded
<1>15. NoLostUpdate' /\ VersionsOld'
  BY <1>1, <1>3, <1>12 DEF NoLostUpdate, VersionsOld
<1>16. LocksHeld'
  BY <1>2, <1>3, <1>11, NoLocks DEF LocksHeld
<1>17. QueueOld'
  BY <1>13 DEF QueueOld
<1>18. Phases'
  BY <1>3, <1>4 DEF Phases
<1>19. TypeOK'
  <2>1. BackendTypeOK' /\ GcTypeOK'
    BY <1>2, <1>3, <1>11 DEF StoreOK, LoadInv, TypeOK, GcTypeOK
  <2>2. op' \in 0 .. Ops /\ next_ts' \in 2 .. MaxTs + 1
    BY <1>3, Constants
  <2>3. register' \in [Key -> Mutation]
    BY <1>1, <1>4
  <2>4. /\ panicked' \in BOOLEAN
        /\ phase' \in {"load", "drain", "command", "commit", "gc", "collecting",
                       "final", "done"}
    BY <1>3, <1>8
  <2>5. txn' \in Seq(Key)
    BY <1>3
  <2> QED
    BY <1>13, <2>1, <2>2, <2>3, <2>4, <2>5, Zenon DEF TypeOK
<1> QED
  BY <1>8, <1>11, <1>14, <1>15, <1>16, <1>17, <1>18, <1>19 DEF LoadInv, NeverPanics

-----------------------------------------------------------------------------
(* The invariant. *)

LEMMA LoadInit ==
    ASSUME Init
    PROVE  LoadInv
<1>1. /\ phase = "load" /\ op = 0 /\ next_ts = 2 /\ pending = <<>> /\ txn = <<>>
      /\ panicked = FALSE /\ register = [k \in Key |-> Tombstone]
      /\ pass = NoPass /\ call = NoCall /\ BackendInit
  BY DEF Init, GcInit
<1>2. StoreOK /\ GcTypeOK
  BY <1>1, StoreInit DEF GcTypeOK
<1>3. \A k \in Key : /\ intents[k] = NoIntent
                     /\ \A t \in Timestamp : committed[k][t] = NoVersion
  BY <1>1 DEF BackendInit
<1>4. \A k \in Key : TimestampsOf(committed[k]) = {}
  BY <1>3 DEF TimestampsOf
<1>5. \A k \in Key : /\ get_latest_commit_ts(committed[k]) = NoTs
                     /\ read(committed[k], 1) = Tombstone
  BY <1>4 DEF get_latest_commit_ts, get_visible_committed, Newest, read
<1>6. Len(pending) = 0 /\ Issued = 0 /\ pending \in Seq(Pending) /\ DOMAIN pending = {}
  BY <1>1 DEF Issued
<1>7. parse_counter(Tombstone) = 0
  BY SentinelAssumption DEF parse_counter, Counter
<1>8. ClockBounded /\ CountersBounded /\ QueueOld
  BY <1>1, <1>6, <1>7 DEF ClockBounded, CountersBounded, QueueOld
<1>9. Phases /\ LocksHeld
  BY <1>1, <1>3, <1>5 DEF Phases, LocksHeld
<1>10. VersionsOld /\ NoLostUpdate
  BY <1>1, <1>5 DEF VersionsOld, NoLostUpdate, NoTs
<1>11. TypeOK
  <2>1. op \in 0 .. Ops /\ next_ts \in 2 .. MaxTs + 1
    BY <1>1, Constants
  <2>2. register \in [Key -> Mutation]
    BY <1>1, Constants
  <2>3. /\ BackendTypeOK /\ panicked \in BOOLEAN
        /\ phase \in {"load", "drain", "command", "commit", "gc", "collecting",
                      "final", "done"}
    BY <1>1, <1>2 DEF StoreOK
  <2>4. txn \in Seq(Key)
    BY <1>1
  <2> QED
    BY <1>2, <1>6, <2>1, <2>2, <2>3, <2>4, Zenon DEF TypeOK
<1> QED
  BY <1>1, <1>2, <1>8, <1>9, <1>10, <1>11 DEF LoadInv, NeverPanics

LEMMA LoadNext ==
    ASSUME LoadInv, [Next]_vars
    PROVE  LoadInv'
<1>1. CASE Load
  BY <1>1, LoadStep
<1>2. CASE DrainDue \/ DrainFinal
  BY <1>2, DrainInv
<1>3. CASE Drained \/ Finish
  BY <1>3, DrainedInv
<1>4. CASE Read
  BY <1>4, ReadInv
<1>5. CASE Set
  BY <1>5, SetInv DEF Set
<1>6. CASE Del
  BY <1>6, SetInv DEF Del
<1>7. CASE Mset
  BY <1>7, MsetInv
<1>8. CASE IncrDelayed
  BY <1>8, IncrDelayedInv
<1>9. CASE IncrImmediate
  BY <1>9, IncrImmediateInv
<1>10. CASE TxnPrewrite
  BY <1>10, TxnPrewriteInv
<1>11. CASE TxnCommit
  BY <1>11, TxnCommitInv
<1>12. CASE GcCall
  BY <1>12, GcCallInv
<1>13. CASE GcRun
  BY <1>13, GcRunInv
<1>14. CASE GcDone
  BY <1>14, GcDoneInv
<1>15. CASE UNCHANGED vars
  <2>1. /\ UNCHANGED <<committed, intents, all_keys_set>> /\ UNCHANGED <<pass, call>>
        /\ UNCHANGED <<phase, op, next_ts, pending, txn, panicked, register>>
    BY <1>15 DEF vars, store, gcVars, loadVars
  <2>2. StoreOK' /\ BackendTypeOK'
    BY <2>1, StoreSame DEF LoadInv, store, StoreOK
  <2>3. Issued' = Issued /\ GcTypeOK' /\ Phases'
    BY <2>1 DEF Issued, LoadInv, TypeOK, GcTypeOK, Phases
  <2>4. NeverPanics' /\ NoLostUpdate' /\ VersionsOld' /\ LocksHeld' /\ QueueOld'
    BY <2>1 DEF LoadInv, NeverPanics, NoLostUpdate, VersionsOld, LocksHeld, QueueOld
  <2>5. ClockBounded' /\ CountersBounded'
    BY <2>1, <2>3 DEF LoadInv, ClockBounded, CountersBounded
  <2>6. TypeOK'
    BY <2>1, <2>2, <2>3 DEF LoadInv, TypeOK
  <2> QED
    BY <2>2, <2>3, <2>4, <2>5, <2>6 DEF LoadInv
<1> QED
  BY <1>1, <1>2, <1>3, <1>4, <1>5, <1>6, <1>7, <1>8, <1>9, <1>10, <1>11, <1>12, <1>13,
     <1>14, <1>15 DEF Next

(* The invariant of the simulation: the conjuncts of LoadInv together. *)
THEOREM LoadInvariant == Spec => []LoadInv
BY LoadInit, LoadNext, PTL DEF Spec

(* Every variable of the simulation keeps its type: no timestamp passes the  *)
(* bound, no transaction id and no counter leaves its set, and the index of  *)
(* keys and the state of a collection stay well formed.                      *)
THEOREM LoadTypes == Spec => []TypeOK
<1>1. LoadInv => TypeOK
  BY DEF LoadInv
<1> QED
  BY <1>1, LoadInvariant, PTL

(* No unwrap() of run_simulation meets an error: no direct write, increment, *)
(* retry, prewrite or commit is refused, whatever ran before it.             *)
THEOREM LoadNeverPanics == Spec => []NeverPanics
<1>1. LoadInv => NeverPanics
  BY DEF LoadInv
<1> QED
  BY <1>1, LoadInvariant, PTL

(* No update is lost: however long an increment was delayed and whatever was *)
(* written or collected meanwhile, every key holds what the commands, each   *)
(* applied once to the newest value, make of it.                             *)
THEOREM LoadLosesNothing == Spec => []NoLostUpdate
<1>1. LoadInv => NoLostUpdate
  BY DEF LoadInv
<1> QED
  BY <1>1, LoadInvariant, PTL
=============================================================================
