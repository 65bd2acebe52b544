------------------------------ MODULE RmwProofs ------------------------------
(***************************************************************************)
(* No update is lost: the clients of RmwClients, for every number of       *)
(* clients, every set of keys and every mixture of the two ways to write,  *)
(* when the apply loop gives out commit timestamps.                        *)
(***************************************************************************)
EXTENDS RmwClients, RowLemmas

Begun == {c \in TxnId : client[c].state # "idle"}

\* What client c writes on k.  A request holds what the client read when it
\* began; the proof shows that a read at its start_ts still returns that.
Update(c, k) == CounterOf(read(committed[k], client[c].start_ts)) + 1

Types ==
    /\ BackendTypeOK
    /\ client \in [TxnId -> [state : {"idle", "prewriting", "committing", "committed",
                                      "aborted", "writing"},
                             start_ts : Timestamp \cup {NoTs}, keys : Seq(Key)]]
    /\ done \in SUBSET Begun

\* Time has passed every start and every version, and every tick was a client
\* that began or an update that was accepted.
Times ==
    /\ clock = Cardinality(Begun) + Cardinality(done)
    /\ \A c \in Begun : client[c].start_ts \in Timestamp /\ client[c].start_ts <= clock
    /\ \A k \in Key : get_latest_commit_ts(committed[k]) <= clock

\* What clients want to write are values.
Fits == \A c \in Begun : \A k \in Elements(client[c].keys) : Update(c, k) \in Value

\* What client c sends, and in which states it may have done so.
Sent(m, c) ==
    \/ /\ m.kind = "prewrite_batch"
       /\ client[c].state \in {"prewriting", "committing", "committed", "aborted"}
       /\ m.content.writes = Increments(client[c].keys, client[c].start_ts)
    \/ /\ m.kind = "commit_batch"
       /\ client[c].state \in {"committing", "committed"}
    \/ /\ m.kind = "abort_batch"
       /\ client[c].state = "aborted"
       /\ m.content.keys = client[c].keys
    \/ /\ m.kind = "apply_guarded_batch"
       /\ client[c].state = "writing"
       /\ m.content.writes = Increments(client[c].keys, client[c].start_ts)
       /\ m.content.guards = Guards(client[c].keys, client[c].start_ts)

Asked == \A m \in requests : \E c \in TxnId : m.txn_id = c /\ Sent(m, c)

\* A lock is that of a client whose update is still to come, on one of its
\* keys, with its update, and nothing was committed there since it began.
Owned == \A k \in Key, c \in TxnId :
    Locked(k) /\ intents[k].txn_id = c =>
        /\ c \in Begun \ done
        /\ client[c].state # "writing"
        /\ k \in Elements(client[c].keys)
        /\ intents[k] = NewIntent(c, client[c].start_ts, Update(c, k), NoTs)
        /\ get_latest_commit_ts(committed[k]) <= client[c].start_ts

\* A client that was told that its prewrite succeeded holds all its locks
\* until its commit is applied, unless it gave up.
Held == \A c \in TxnId \ done :
    /\ Answered(c, "prewrite_batch", TRUE)
    /\ client[c].state \in {"prewriting", "committing", "committed"}
    => /\ client[c].keys # <<>> /\ ~HasDuplicates(client[c].keys)
       /\ \A k \in Elements(client[c].keys) : LockedBy(k, c, client[c].start_ts)

\* A prewrite is answered after its client began; a commit is sent after its
\* prewrite succeeded, and answered after it was applied.
Told == \A c \in TxnId :
    /\ Answered(c, "prewrite_batch", TRUE) => c \in Begun
    /\ client[c].state \in {"committing", "committed"} => Answered(c, "prewrite_batch", TRUE)
    /\ \A ok \in BOOLEAN : Answered(c, "commit_batch", ok) => c \in done
    /\ client[c].state = "committed" => c \in done

\* An accepted update is in no doubt, and above its start on each of its keys.
Settled == \A c \in done :
    /\ client[c].state \in {"committing", "committed", "writing"}
    /\ \A k \in Elements(client[c].keys) :
          get_latest_commit_ts(committed[k]) > client[c].start_ts

RmwInv ==
    /\ Types /\ Times /\ Fits /\ Asked /\ Owned /\ Held /\ Told /\ Settled
    /\ EveryUpdateCounts

-----------------------------------------------------------------------------
(* Time, reads and counters. *)

LEMMA ClockFits ==
    ASSUME Types, Times
    PROVE  /\ clock \in Nat /\ clock + 1 \in Timestamp
           /\ IsFiniteSet(Begun) /\ IsFiniteSet(done)
           /\ Cardinality(Begun) \in Nat /\ Cardinality(done) \in Nat
           /\ \A c \in TxnId \ done : Cardinality(done) + 1 <= Cardinality(TxnId)
<1>1. /\ Begun \subseteq TxnId /\ done \subseteq TxnId
      /\ IsFiniteSet(TxnId) /\ Cardinality(TxnId) \in Nat
  BY ClientsAssumption, FS_CardinalityType DEF Types, Begun
<1>2. /\ IsFiniteSet(Begun) /\ Cardinality(Begun) <= Cardinality(TxnId)
      /\ IsFiniteSet(done) /\ Cardinality(done) <= Cardinality(TxnId)
  BY <1>1, FS_Subset
<1>3. Cardinality(Begun) \in Nat /\ Cardinality(done) \in Nat
  BY <1>2, FS_CardinalityType
<1>4. clock \in Nat /\ clock + 1 \in Timestamp
  BY <1>1, <1>2, <1>3, ClientsAssumption, MaxTsAssumption DEF Times, Timestamp
<1>5. ASSUME NEW c \in TxnId \ done PROVE Cardinality(done) + 1 <= Cardinality(TxnId)
  <2>1. done \cup {c} \subseteq TxnId
    BY <1>1
  <2>2. Cardinality(done \cup {c}) <= Cardinality(TxnId)
    BY <1>1, <2>1, FS_Subset
  <2> QED
    BY <1>2, <2>2, FS_AddElement
<1> QED
  BY <1>2, <1>3, <1>4, <1>5

LEMMA CounterType ==
    ASSUME NEW row \in Row, NEW r
    PROVE  /\ CounterOf(read(row, r)) \in Nat
           /\ \A v \in Value : CounterOf(v) = v
<1>1. get_visible_committed(row, r) \in Timestamp \cup {NoTs}
  BY VisibleProp
<1>2. get_visible_committed(row, r) # NoTs =>
          row[get_visible_committed(row, r)] \in Mutation
  BY <1>1, VisibleProp DEF Row
<1>3. read(row, r) \in Mutation
  BY <1>2 DEF read, Mutation
<1>4. Value \subseteq Nat
  BY ClientsAssumption, FS_CardinalityType
<1> QED
  BY <1>3, <1>4, SentinelAssumption DEF CounterOf, Mutation

(* A write at clock + 1 changes no read at or before the clock. *)
LEMMA WriteIsLater ==
    ASSUME Types, Times, NEW k \in Key, NEW v \in Value
    PROVE  LET row == Written(committed[k], clock + 1, v)
           IN  /\ row \in Row
               /\ get_latest_commit_ts(row) = clock + 1
               /\ \A r \in Timestamp : r <= clock => read(row, r) = read(committed[k], r)
               /\ read(row, clock + 1) = v
<1> DEFINE c == clock + 1
<1>1. committed[k] \in Row /\ v \in Mutation
  BY DEF Types, BackendTypeOK, Mutation
<1>2. c \in Timestamp /\ clock \in Nat
  BY ClockFits
<1>3. get_latest_commit_ts(committed[k]) <= clock
  BY DEF Times
<1>4. get_latest_commit_ts(committed[k]) \in Int
  BY LatestInt
<1>5. c > get_latest_commit_ts(committed[k])
  BY <1>2, <1>3, <1>4
<1>6. \A r \in Timestamp : r <= clock => ~(r >= c)
  BY <1>2, TimestampType
<1>7. c >= c
  BY <1>2
<1> HIDE DEF c
<1>8. Written(committed[k], c, v) \in Row
  BY <1>1, <1>2 DEF Written, Row
<1>9. get_latest_commit_ts(Written(committed[k], c, v)) = c
  BY <1>1, <1>2, <1>5, LatestAfterWrite
<1>10. \A r \in Timestamp : read(Written(committed[k], c, v), r) =
           IF r >= c THEN v ELSE read(committed[k], r)
  BY <1>1, <1>2, <1>5, ReadAfterWrite
<1> QED
  BY <1>2, <1>6, <1>7, <1>8, <1>9, <1>10 DEF c

(* The batch that a client sends. *)
LEMMA IncrementsType ==
    ASSUME Types, Times, Fits, NEW c \in Begun
    PROVE  LET keys   == client[c].keys
               writes == Increments(keys, client[c].start_ts)
           IN  /\ writes \in Seq(Write)
               /\ KeysOf(writes) = keys
               /\ writes = <<>> <=> keys = <<>>
               /\ DOMAIN writes = DOMAIN keys
               /\ \A i \in DOMAIN keys : writes[i] = [key |-> keys[i], value |-> Update(c, keys[i])]
               /\ AsFunction(writes) = [k \in Elements(keys) |-> Update(c, k)]
<1> DEFINE keys   == client[c].keys
           writes == Increments(keys, client[c].start_ts)
<1>1. keys \in Seq(Key)
  BY DEF Types, Begun
<1>2. /\ Len(keys) \in Nat /\ DOMAIN keys = 1 .. Len(keys)
      /\ Elements(keys) \in SUBSET Key
      /\ \A i \in DOMAIN keys : keys[i] \in Elements(keys)
  BY <1>1 DEF Elements
<1>3. writes = [i \in DOMAIN keys |-> [key |-> keys[i], value |-> Update(c, keys[i])]]
  BY DEF Increments, Update
<1>4. \A i \in DOMAIN keys : Update(c, keys[i]) \in Value
  BY <1>2 DEF Fits
<1> HIDE DEF keys, writes
<1>5. \A i \in DOMAIN keys : writes[i] \in Write
  BY <1>2, <1>3, <1>4 DEF Write, Mutation
<1>6. writes \in Seq(Write) /\ DOMAIN writes = DOMAIN keys
  BY <1>2, <1>3, <1>5
<1>7. KeysOf(writes) = keys
  BY <1>1, <1>2, <1>3 DEF KeysOf
<1>8. writes = <<>> <=> keys = <<>>
  BY <1>1, <1>2, <1>6
<1>9. ASSUME NEW k \in Elements(keys)
      PROVE  writes[CHOOSE i \in DOMAIN writes : writes[i].key = k].value = Update(c, k)
  <2>1. \E i \in DOMAIN writes : writes[i].key = k
    BY <1>3 DEF Elements
  <2>2. \A i \in DOMAIN writes : writes[i].key = k => writes[i].value = Update(c, k)
    BY <1>3
  <2> QED
    BY <2>1, <2>2
<1>10. AsFunction(writes) = [k \in Elements(keys) |-> Update(c, k)]
  BY <1>7, <1>9 DEF AsFunction
<1> QED
  BY <1>3, <1>6, <1>7, <1>8, <1>10 DEF keys, writes

-----------------------------------------------------------------------------
(* An accepted update. *)

\* The apply loop accepts the update of c: on each of its keys a version at
\* clock + 1, and no lock of c is left.
Accepts(c) ==
    /\ c \in Begun \ done
    /\ client[c].state \in {"committing", "writing"}
    /\ \A k \in Elements(client[c].keys) :
          get_latest_commit_ts(committed[k]) <= client[c].start_ts
    /\ committed' = [k \in Key |->
          IF k \in Elements(client[c].keys)
          THEN Written(committed[k], clock + 1, Update(c, k)) ELSE committed[k]]
    /\ BackendTypeOK'
    /\ \A k \in Key : Locked(k)' => /\ intents'[k] = intents[k]
                                    /\ intents[k].txn_id # c
                                    /\ k \notin Elements(client[c].keys)
    /\ \A k \in Key : Locked(k) /\ intents[k].txn_id # c => intents'[k] = intents[k]
    /\ clock' = clock + 1
    /\ done' = done \cup {c}
    /\ \E kind \in {"commit_batch", "apply_guarded_batch"} :
          replies' = replies \cup {[txn_id |-> c, kind |-> kind, ok |-> TRUE]}
    /\ UNCHANGED <<client, requests>>

(* Nothing that a client has read changes. *)
LEMMA AcceptFrozen ==
    ASSUME RmwInv, NEW c, Accepts(c)
    PROVE  /\ \A k \in Elements(client[c].keys) :
                 /\ k \in Key /\ Update(c, k) \in Value
                 /\ committed'[k] = Written(committed[k], clock + 1, Update(c, k))
                 /\ get_latest_commit_ts(committed'[k]) = clock + 1
                 /\ read(committed'[k], clock + 1) = Update(c, k)
           /\ \A k \in Key : k \notin Elements(client[c].keys) => committed'[k] = committed[k]
           /\ \A k \in Key : get_latest_commit_ts(committed'[k]) >=
                                 get_latest_commit_ts(committed[k])
           /\ \A k \in Key, r \in Timestamp :
                 r <= clock => read(committed'[k], r) = read(committed[k], r)
<1>1. Types /\ Times /\ Fits
  BY DEF RmwInv
<1>2. c \in Begun /\ client[c].keys \in Seq(Key) /\ Elements(client[c].keys) \in SUBSET Key
  BY <1>1 DEF Accepts, Types, Begun, Elements
<1>3. \A k \in Elements(client[c].keys) : k \in Key /\ Update(c, k) \in Value
  BY <1>1, <1>2 DEF Fits
<1>4. \A k \in Key : committed'[k] = IF k \in Elements(client[c].keys)
          THEN Written(committed[k], clock + 1, Update(c, k)) ELSE committed[k]
  BY DEF Accepts
<1>5. \A k \in Elements(client[c].keys) :
          /\ get_latest_commit_ts(committed'[k]) = clock + 1
          /\ read(committed'[k], clock + 1) = Update(c, k)
          /\ \A r \in Timestamp : r <= clock => read(committed'[k], r) = read(committed[k], r)
  BY <1>1, <1>3, <1>4, WriteIsLater
<1>6. \A k \in Key : /\ get_latest_commit_ts(committed[k]) <= clock
                     /\ get_latest_commit_ts(committed[k]) \in Int
  BY <1>1, LatestInt DEF Times
<1>7. clock \in Int
  BY <1>1, ClockFits
<1>8. ASSUME NEW k \in Key
      PROVE  get_latest_commit_ts(committed'[k]) >= get_latest_commit_ts(committed[k])
  <2>1. CASE k \in Elements(client[c].keys)
    BY <1>5, <1>6, <1>7, <2>1
  <2>2. CASE k \notin Elements(client[c].keys)
    BY <1>4, <1>6, <2>2
  <2> QED
    BY <2>1, <2>2
<1> QED
  BY <1>3, <1>4, <1>5, <1>8

(* The accepted client is counted, and exactly once. *)
LEMMA AcceptCounts ==
    ASSUME RmwInv, NEW c, Accepts(c)
    PROVE  EveryUpdateCounts'
<1>1. Types /\ Times /\ EveryUpdateCounts
  BY DEF RmwInv
<1>2. /\ c \in Begun \ done /\ c \in TxnId /\ client' = client /\ clock' = clock + 1
      /\ done' = done \cup {c} /\ clock \in Nat /\ clock + 1 \in Timestamp
      /\ clock \in Timestamp /\ IsFiniteSet(done)
  BY <1>1, ClockFits, MaxTsAssumption DEF Accepts, Begun, Timestamp
<1> DEFINE Of(k, S) == {d \in S : k \in Elements(client[d].keys)}
<1>3. SUFFICES ASSUME NEW k \in Key
               PROVE  CounterOf(read(committed'[k], clock + 1)) = Cardinality(Of(k, done'))
  BY <1>2 DEF EveryUpdateCounts
<1>4. CounterOf(read(committed[k], clock)) = Cardinality(Of(k, done))
  BY <1>1 DEF EveryUpdateCounts
<1>5. committed[k] \in Row /\ get_latest_commit_ts(committed[k]) <= clock
  BY <1>1 DEF Types, BackendTypeOK, Times
<1>6. get_latest_commit_ts(committed[k]) \in Int
  BY LatestInt
<1>7. CASE k \in Elements(client[c].keys)
  <2>1. client[c].start_ts \in Timestamp /\ client[c].start_ts <= clock
    BY <1>1, <1>2 DEF Times
  <2>2. get_latest_commit_ts(committed[k]) <= client[c].start_ts
    BY <1>7 DEF Accepts
  <2>3. read(committed[k], client[c].start_ts) = read(committed[k], clock)
    BY <1>2, <1>5, <2>1, <2>2, ReadSettled
  <2>4. Update(c, k) = Cardinality(Of(k, done)) + 1
    BY <1>4, <2>3 DEF Update
  <2>5. read(committed'[k], clock + 1) = Update(c, k) /\ Update(c, k) \in Value
    BY <1>7, AcceptFrozen
  <2>6. CounterOf(Update(c, k)) = Update(c, k)
    BY <1>5, <2>5, CounterType
  <2>7. Of(k, done') = Of(k, done) \cup {c} /\ c \notin Of(k, done)
    BY <1>2, <1>7
  <2>8. IsFiniteSet(Of(k, done))
    BY <1>2, FS_Subset
  <2> HIDE DEF Of
  <2>9. Cardinality(Of(k, done')) = Cardinality(Of(k, done)) + 1
    BY <2>7, <2>8, FS_AddElement
  <2> QED
    BY <2>4, <2>5, <2>6, <2>9
<1>8. CASE k \notin Elements(client[c].keys)
  <2>1. committed'[k] = committed[k]
    BY <1>8, AcceptFrozen
  <2>2. get_latest_commit_ts(committed[k]) <= clock + 1
    BY <1>2, <1>5, <1>6
  <2>3. read(committed[k], clock + 1) = read(committed[k], clock)
    BY <1>2, <1>5, <2>2, ReadSettled
  <2>4. Of(k, done') = Of(k, done)
    BY <1>2, <1>8
  <2> QED
    BY <1>4, <2>1, <2>3, <2>4
<1> QED
  BY <1>7, <1>8

LEMMA AcceptInv ==
    ASSUME RmwInv, NEW c, Accepts(c)
    PROVE  RmwInv'
<1>1. Types /\ Times /\ Fits /\ Asked /\ Owned /\ Held /\ Told /\ Settled
  BY DEF RmwInv
<1>2. /\ c \in Begun \ done /\ c \in TxnId /\ clock' = clock + 1
      /\ done' = done \cup {c} /\ done \subseteq Begun
      /\ clock \in Nat /\ clock + 1 \in Timestamp
      /\ IsFiniteSet(done) /\ Cardinality(done) \in Nat /\ Cardinality(Begun) \in Nat
  BY <1>1, ClockFits DEF Accepts, Begun, Types
<1>3. client' = client /\ requests' = requests /\ Begun' = Begun
  BY DEF Accepts, Begun
<1>4. \A d \in Begun : /\ d \in TxnId
                       /\ client[d].start_ts \in Timestamp /\ client[d].start_ts <= clock
                       /\ client[d].keys \in Seq(Key)
                       /\ Elements(client[d].keys) \subseteq Key
  BY <1>1 DEF Times, Types, Begun, Elements
<1>5. \A k \in Key, r \in Timestamp :
          r <= clock => read(committed'[k], r) = read(committed[k], r)
  BY AcceptFrozen
<1>6. \A d \in Begun, k \in Key : Update(d, k)' = Update(d, k)
  BY <1>3, <1>4, <1>5 DEF Update
<1>7. Types'
  BY <1>1, <1>2, <1>3 DEF Types, Accepts
<1>8. Times'
  <2>1. Cardinality(done') = Cardinality(done) + 1
    BY <1>2, FS_AddElement
  <2>2. clock' = Cardinality(Begun') + Cardinality(done')
    BY <1>1, <1>2, <1>3, <2>1 DEF Times
  <2>3. ASSUME NEW d \in Begun'
        PROVE  client'[d].start_ts \in Timestamp /\ client'[d].start_ts <= clock'
    <3>1. client[d].start_ts \in Timestamp /\ client[d].start_ts <= clock
      BY <1>3, <1>4
    <3> QED
      BY <1>2, <1>3, <3>1, TimestampType
  <2>4. ASSUME NEW k \in Key
        PROVE  get_latest_commit_ts(committed'[k]) <= clock'
    <3>1. get_latest_commit_ts(committed'[k]) \in {clock + 1, get_latest_commit_ts(committed[k])}
      BY AcceptFrozen
    <3>2. get_latest_commit_ts(committed[k]) <= clock /\ get_latest_commit_ts(committed[k]) \in Int
      BY <1>1, LatestInt DEF Times
    <3> QED
      BY <1>2, <3>1, <3>2
  <2> QED
    BY <2>2, <2>3, <2>4 DEF Times
<1>9. Fits'
  BY <1>1, <1>3, <1>4, <1>6 DEF Fits
<1>10. Asked'
  <2>1. \A d \in Begun : /\ Increments(client[d].keys, client[d].start_ts)' =
                               Increments(client[d].keys, client[d].start_ts)
                         /\ Guards(client[d].keys, client[d].start_ts)' =
                               Guards(client[d].keys, client[d].start_ts)
    <3> TAKE d \in Begun
    <3>1. \A i \in DOMAIN client[d].keys :
              read(committed'[client[d].keys[i]], client[d].start_ts) =
              read(committed[client[d].keys[i]], client[d].start_ts)
      BY <1>4, <1>5
    <3> QED
      BY <1>3, <3>1 DEF Increments, Guards
  <2>2. ASSUME NEW m, NEW d \in TxnId, Sent(m, d) PROVE Sent(m, d)'
    <3>1. d \in Begun
      BY <2>2 DEF Sent, Begun
    <3> QED
      BY <1>3, <2>1, <2>2, <3>1 DEF Sent
  <2> QED
    BY <1>1, <1>3, <2>2 DEF Asked
<1>11. Owned'
  <2> SUFFICES ASSUME NEW k \in Key, NEW d \in TxnId, Locked(k)', intents'[k].txn_id = d
               PROVE  /\ d \in Begun' \ done'
                      /\ client'[d].state # "writing"
                      /\ k \in Elements(client'[d].keys)
                      /\ intents'[k] = NewIntent(d, client'[d].start_ts, Update(d, k)', NoTs)
                      /\ get_latest_commit_ts(committed'[k]) <= client'[d].start_ts
    BY DEF Owned
  <2>1. intents'[k] = intents[k] /\ intents[k].txn_id # c /\ k \notin Elements(client[c].keys)
    BY DEF Accepts
  <2>2. Locked(k) /\ committed'[k] = committed[k]
    BY <2>1, AcceptFrozen DEF Locked
  <2> QED
    BY <1>1, <1>2, <1>3, <1>6, <2>1, <2>2 DEF Owned
<1>12. \A d, kind, ok : Answered(d, kind, ok)' =>
           Answered(d, kind, ok) \/ (d = c /\ kind # "prewrite_batch")
  BY DEF Answered, Accepts
<1>13. \A d, kind, ok : Answered(d, kind, ok) => Answered(d, kind, ok)'
  BY DEF Answered, Accepts
<1>14. Held'
  <2> SUFFICES ASSUME NEW d \in TxnId \ done', Answered(d, "prewrite_batch", TRUE)',
                      client'[d].state \in {"prewriting", "committing", "committed"}
               PROVE  /\ client'[d].keys # <<>> /\ ~HasDuplicates(client'[d].keys)
                      /\ \A k \in Elements(client'[d].keys) :
                            LockedBy(k, d, client[d].start_ts)'
    BY DEF Held
  <2>1. d \in TxnId \ done /\ d # c /\ Answered(d, "prewrite_batch", TRUE)
    BY <1>2, <1>12
  <2>2. /\ client[d].keys # <<>> /\ ~HasDuplicates(client[d].keys)
        /\ \A k \in Elements(client[d].keys) : LockedBy(k, d, client[d].start_ts)
    BY <1>1, <1>3, <2>1 DEF Held
  <2>3. Elements(client[d].keys) \subseteq Key
    BY <1>3, <1>4, <2>1 DEF Begun
  <2>4. \A k \in Elements(client[d].keys) : intents'[k] = intents[k]
    BY <2>1, <2>2, <2>3 DEF LockedBy, Accepts
  <2> QED
    BY <1>3, <2>2, <2>4 DEF LockedBy, Locked
<1>15. Told'
  BY <1>1, <1>2, <1>3, <1>12, <1>13 DEF Told
<1>16. Settled'
  <2> SUFFICES ASSUME NEW d \in done'
               PROVE  /\ client'[d].state \in {"committing", "committed", "writing"}
                      /\ \A k \in Elements(client'[d].keys) :
                            get_latest_commit_ts(committed'[k]) > client'[d].start_ts
    BY DEF Settled
  <2>1. CASE d = c
    <3>1. client[c].start_ts <= clock /\ client[c].start_ts \in Int
      BY <1>2, <1>4, TimestampType
    <3>2. clock + 1 > client[c].start_ts
      BY <1>2, <3>1
    <3> QED
      BY <1>3, <2>1, <3>2, AcceptFrozen DEF Accepts
  <2>2. CASE d \in done
    <3>1. d \in Begun /\ Elements(client[d].keys) \subseteq Key
          /\ client[d].start_ts \in Int
      BY <1>2, <1>4, <2>2, TimestampType
    <3>2. ASSUME NEW k \in Elements(client[d].keys)
          PROVE  get_latest_commit_ts(committed'[k]) > client[d].start_ts
      <4>1. get_latest_commit_ts(committed[k]) > client[d].start_ts
        BY <1>1, <2>2 DEF Settled
      <4>2. get_latest_commit_ts(committed'[k]) >= get_latest_commit_ts(committed[k])
        BY <3>1, AcceptFrozen
      <4>3. /\ get_latest_commit_ts(committed[k]) \in Int
            /\ get_latest_commit_ts(committed'[k]) \in Int
        BY <3>1, LatestProp, TimestampType
      <4> QED
        BY <3>1, <4>1, <4>2, <4>3
    <3> QED
      BY <1>1, <1>3, <2>2, <3>2 DEF Settled
  <2> QED
    BY <1>2, <2>1, <2>2
<1> QED
  BY <1>7, <1>8, <1>9, <1>10, <1>11, <1>14, <1>15, <1>16, AcceptCounts DEF RmwInv

-----------------------------------------------------------------------------
(* Deliveries. *)

(* A delivery that stores no version and moves no clock has to keep only what *)
(* is said of locks and answers.                                              *)
LEMMA QuietInv ==
    ASSUME RmwInv, UNCHANGED <<committed, clock, client, requests, done>>,
           BackendTypeOK', Owned', Held', Told'
    PROVE  RmwInv'
<1>1. Types /\ Times /\ Fits /\ Asked /\ Settled /\ EveryUpdateCounts
  BY DEF RmwInv
<1>2. Begun' = Begun
  BY DEF Begun
<1>3. Types' /\ Times'
  BY <1>1, <1>2 DEF Types, Times
<1>4. Fits' /\ Asked' /\ Settled' /\ EveryUpdateCounts'
  BY <1>1, <1>2 DEF Fits, Update, Asked, Sent, Increments, Guards, Settled, EveryUpdateCounts
<1> QED
  BY <1>3, <1>4 DEF RmwInv

(* A request that is refused, and does not tell its client that it holds *)
(* its locks.                                                            *)
LEMMA RefusedInv ==
    ASSUME RmwInv, UNCHANGED <<store, clock, client, requests, done>>,
           \A d \in TxnId :
              Answered(d, "prewrite_batch", TRUE)' <=> Answered(d, "prewrite_batch", TRUE),
           \A d \in TxnId, ok \in BOOLEAN :
              Answered(d, "commit_batch", ok)' => Answered(d, "commit_batch", ok) \/ d \in done
    PROVE  RmwInv'
<1>1. BackendTypeOK /\ Owned /\ Held /\ Told
  BY DEF RmwInv, Types
<1>2. BackendTypeOK' /\ Owned'
  BY <1>1 DEF BackendTypeOK, store, Owned, Locked, Begun, Update
<1>3. Held'
  <2>1. \A k, d, t : LockedBy(k, d, t)' <=> LockedBy(k, d, t)
    BY DEF LockedBy, Locked, store
  <2> SUFFICES ASSUME NEW d \in TxnId \ done, Answered(d, "prewrite_batch", TRUE)',
                      client[d].state \in {"prewriting", "committing", "committed"}
               PROVE  /\ client[d].keys # <<>> /\ ~HasDuplicates(client[d].keys)
                      /\ \A k \in Elements(client[d].keys) :
                            LockedBy(k, d, client[d].start_ts)'
    BY DEF Held
  <2> QED
    BY <1>1, <2>1 DEF Held
<1>4. Told'
  <2>1. Begun' = Begun
    BY DEF Begun
  <2> QED
    BY <1>1, <2>1 DEF Told
<1> QED
  BY <1>2, <1>3, <1>4, QuietInv DEF store

LEMMA DeliverPrewriteInv ==
    ASSUME RmwInv, DeliverPrewrite
    PROVE  RmwInv'
<1>1. Types /\ Times /\ Fits /\ Asked /\ Owned /\ Held /\ Told /\ Settled
  BY DEF RmwInv
<1>2. PICK m \in requests :
          /\ m.kind = "prewrite_batch"
          /\ prewrite_batch(m.txn_id, client[m.txn_id].start_ts, m.content.writes)
          /\ Reply(m, PrewriteBatchResult(m.txn_id, client[m.txn_id].start_ts, m.content.writes)
                          \in {"Ok", "Replay"})
          /\ UNCHANGED <<clock, client, requests, done>>
  BY DEF DeliverPrewrite
<1> DEFINE c        == m.txn_id
           start_ts == client[c].start_ts
           keys     == client[c].keys
           writes   == Increments(keys, start_ts)
           result   == PrewriteBatchResult(c, start_ts, writes)
<1>3. /\ c \in TxnId /\ m.content.writes = writes
      /\ client[c].state \in {"prewriting", "committing", "committed", "aborted"}
  BY <1>1, <1>2 DEF Asked, Sent
<1>4. c \in Begun /\ start_ts \in Timestamp /\ keys \in Seq(Key) /\ Elements(keys) \subseteq Key
  BY <1>1, <1>3 DEF Begun, Times, Types, Elements
<1>5. /\ writes \in Seq(Write) /\ KeysOf(writes) = keys
      /\ writes = <<>> <=> keys = <<>>
      /\ AsFunction(writes) = [k \in Elements(keys) |-> Update(c, k)]
  BY <1>1, <1>4, IncrementsType
<1>6. replies' = replies \cup {[txn_id |-> c, kind |-> "prewrite_batch",
                                ok |-> result \in {"Ok", "Replay"}]}
  BY <1>2, <1>3 DEF Reply
<1>7. prewrite_batch(c, start_ts, writes) /\ UNCHANGED <<clock, client, requests, done>>
  BY <1>2, <1>3
<1> HIDE DEF c, start_ts, keys, writes, result
<1>8. \A d \in TxnId : d # c =>
          (Answered(d, "prewrite_batch", TRUE)' <=> Answered(d, "prewrite_batch", TRUE))
  BY <1>6 DEF Answered
<1>9. Told'
  <2>1. Begun' = Begun
    BY <1>7 DEF Begun
  <2>2. /\ Answered(c, "prewrite_batch", TRUE) => Answered(c, "prewrite_batch", TRUE)'
        /\ \A d \in TxnId, ok \in BOOLEAN :
              Answered(d, "commit_batch", ok)' <=> Answered(d, "commit_batch", ok)
    BY <1>6 DEF Answered
  <2> QED
    BY <1>1, <1>4, <1>7, <1>8, <2>1, <2>2 DEF Told
<1>10. CASE result \notin {"Ok", "Replay"}
  <2>1. UNCHANGED store
    BY <1>7, <1>10 DEF prewrite_batch, result
  <2>2. \A d \in TxnId :
            Answered(d, "prewrite_batch", TRUE)' <=> Answered(d, "prewrite_batch", TRUE)
    BY <1>6, <1>10 DEF Answered
  <2>3. \A d \in TxnId, ok \in BOOLEAN :
            Answered(d, "commit_batch", ok)' => Answered(d, "commit_batch", ok)
    BY <1>6 DEF Answered
  <2> QED
    BY <1>7, <2>1, <2>2, <2>3, RefusedInv
<1>11. CASE result = "Replay"
  <2>1. UNCHANGED store
    BY <1>7, <1>11 DEF prewrite_batch, result
  <2>2. BackendTypeOK' /\ Owned'
    BY <1>1, <1>7, <2>1 DEF Types, BackendTypeOK, store, Owned, Locked, Begun, Update
  <2>3. /\ keys # <<>> /\ ~HasDuplicates(keys)
        /\ \A k \in Elements(keys) : LockedBy(k, c, start_ts)
    BY <1>5, <1>11, PrewriteReplayed DEF result
  <2>4. Held'
    <3>1. \A k, d, t : LockedBy(k, d, t)' <=> LockedBy(k, d, t)
      BY <2>1 DEF LockedBy, Locked, store
    <3> SUFFICES ASSUME NEW d \in TxnId \ done, Answered(d, "prewrite_batch", TRUE)',
                        client[d].state \in {"prewriting", "committing", "committed"}
                 PROVE  /\ client[d].keys # <<>> /\ ~HasDuplicates(client[d].keys)
                        /\ \A k \in Elements(client[d].keys) :
                              LockedBy(k, d, client[d].start_ts)'
      BY <1>7 DEF Held
    <3>2. CASE d = c
      BY <1>7, <2>3, <3>1, <3>2 DEF keys, start_ts
    <3>3. CASE d # c
      BY <1>1, <1>7, <1>8, <3>1, <3>3 DEF Held
    <3> QED
      BY <3>2, <3>3
  <2> QED
    BY <1>7, <1>9, <2>1, <2>2, <2>4, QuietInv DEF store
<1>12. CASE result = "Ok"
  <2> DEFINE new == [k \in Elements(keys) |-> NewIntent(c, start_ts, Update(c, k), NoTs)]
  <2>1. keys # <<>> /\ ~HasDuplicates(keys)
    BY <1>5, <1>12 DEF result, PrewriteBatchResult
  <2>2. \A k \in Elements(keys) : ~Locked(k) /\ get_latest_commit_ts(committed[k]) <= start_ts
    BY <1>4, <1>5, <1>12, PrewriteBatchOk DEF result
  <2>3. put_intents_batch(new)
    <3>1. put_intents_batch([k \in Elements(keys) |->
              NewIntent(c, start_ts, AsFunction(writes)[k], NoTs)])
      BY <1>5, <1>7, <1>12 DEF prewrite_batch, result
    <3>2. [k \in Elements(keys) |-> NewIntent(c, start_ts, AsFunction(writes)[k], NoTs)] = new
      BY <1>5
    <3> QED
      BY <3>1, <3>2
  <2>4. \A k \in Key : intents'[k] = IF k \in Elements(keys) THEN new[k] ELSE intents[k]
    BY <2>3 DEF put_intents_batch, Overlay
  <2>5. committed' = committed /\ all_keys_set' = all_keys_set \cup Elements(keys)
    BY <2>3 DEF put_intents_batch
  <2>6. \A k \in Elements(keys) : /\ new[k] = NewIntent(c, start_ts, Update(c, k), NoTs)
                                  /\ new[k] \in Intent /\ new[k] # NoIntent
                                  /\ new[k].txn_id = c /\ new[k].start_ts = start_ts
    <3>1. \A k \in Elements(keys) : Update(c, k) \in Mutation
      BY <1>1, <1>4 DEF Fits, keys, Mutation
    <3> QED
      BY <1>3, <1>4, <3>1, NewIntentType, IntentAssumption
  <2>7. intents' = [k \in Key |-> IF k \in Elements(keys) THEN new[k] ELSE intents[k]]
    BY <2>3 DEF put_intents_batch, Overlay
  <2> HIDE DEF new
  <2>8. BackendTypeOK'
    BY <1>1, <1>4, <2>5, <2>6, <2>7 DEF Types, BackendTypeOK
  <2>9. c \notin done
    <3>1. PICK k : k \in Elements(keys)
      BY <1>4, <2>1, SomeElement
    <3>2. get_latest_commit_ts(committed[k]) \in Int /\ start_ts \in Int
      BY <1>4, <3>1, LatestInt, TimestampType
    <3>3. c \in done => get_latest_commit_ts(committed[k]) > start_ts
      BY <1>1, <3>1 DEF Settled, keys, start_ts
    <3> QED
      BY <2>2, <3>1, <3>2, <3>3
  <2>10. Begun' = Begun /\ \A d, k : Update(d, k)' = Update(d, k)
    BY <1>7, <2>5 DEF Begun, Update
  <2>11. Owned'
    <3> SUFFICES ASSUME NEW k \in Key, NEW d \in TxnId, Locked(k)', intents'[k].txn_id = d
                 PROVE  /\ d \in Begun' \ done'
                        /\ client'[d].state # "writing"
                        /\ k \in Elements(client'[d].keys)
                        /\ intents'[k] = NewIntent(d, client'[d].start_ts, Update(d, k)', NoTs)
                        /\ get_latest_commit_ts(committed'[k]) <= client'[d].start_ts
      BY DEF Owned
    <3>1. CASE k \in Elements(keys)
      <4>1. d = c /\ intents'[k] = NewIntent(c, start_ts, Update(c, k), NoTs)
        BY <2>4, <2>6, <3>1
      <4> QED
        BY <1>3, <1>4, <1>7, <2>2, <2>5, <2>9, <2>10, <3>1, <4>1 DEF keys, start_ts
    <3>2. CASE k \notin Elements(keys)
      <4>1. intents'[k] = intents[k] /\ Locked(k)
        BY <2>4, <3>2 DEF Locked
      <4> QED
        BY <1>1, <1>7, <2>5, <2>10, <4>1 DEF Owned
    <3> QED
      BY <3>1, <3>2
  <2>12. Held'
    <3> SUFFICES ASSUME NEW d \in TxnId \ done, Answered(d, "prewrite_batch", TRUE)',
                        client[d].state \in {"prewriting", "committing", "committed"}
                 PROVE  /\ client[d].keys # <<>> /\ ~HasDuplicates(client[d].keys)
                        /\ \A k \in Elements(client[d].keys) :
                              LockedBy(k, d, client[d].start_ts)'
      BY <1>7 DEF Held
    <3>1. CASE d = c
      BY <1>4, <1>7, <2>1, <2>4, <2>6, <3>1 DEF LockedBy, Locked, keys, start_ts
    <3>2. CASE d # c
      <4>1. /\ client[d].keys # <<>> /\ ~HasDuplicates(client[d].keys)
            /\ \A k \in Elements(client[d].keys) : LockedBy(k, d, client[d].start_ts)
        BY <1>1, <1>8, <3>2 DEF Held
      <4>2. Elements(client[d].keys) \subseteq Key
        BY <1>1 DEF Types, Elements
      <4>3. \A k \in Elements(client[d].keys) : intents'[k] = intents[k]
        BY <2>2, <2>4, <4>1, <4>2 DEF LockedBy
      <4> QED
        BY <1>7, <4>1, <4>3 DEF LockedBy, Locked
    <3> QED
      BY <3>1, <3>2
  <2> QED
    BY <1>7, <1>9, <2>5, <2>8, <2>11, <2>12, QuietInv
<1> QED
  BY <1>10, <1>11, <1>12

LEMMA DeliverAbortInv ==
    ASSUME RmwInv, DeliverAbort
    PROVE  RmwInv'
<1>1. Types /\ Times /\ Asked /\ Owned /\ Held /\ Told
  BY DEF RmwInv
<1>2. PICK m \in requests :
          /\ m.kind = "abort_batch"
          /\ abort_batch(m.txn_id, client[m.txn_id].start_ts, m.content.keys)
          /\ Reply(m, TRUE)
          /\ UNCHANGED <<clock, client, requests, done>>
  BY DEF DeliverAbort
<1> DEFINE c == m.txn_id
           start_ts == client[c].start_ts
<1>3. c \in TxnId /\ client[c].state = "aborted"
  BY <1>1, <1>2 DEF Asked, Sent
<1>4. replies' = replies \cup {[txn_id |-> c, kind |-> "abort_batch", ok |-> TRUE]}
  BY <1>2 DEF Reply
<1>5. committed' = committed /\ all_keys_set' \subseteq all_keys_set
  BY <1>2 DEF abort_batch, remove_intents_batch, maybe_remove_from_keys, store
<1>6. /\ \A k \in Key : \/ intents'[k] = intents[k]
                        \/ intents'[k] = NoIntent /\ LockedBy(k, c, start_ts)
      /\ intents' \in [Key -> Intent \cup {NoIntent}]
  <2>1. CASE UNCHANGED store
    BY <1>1, <2>1 DEF store, Types, BackendTypeOK
  <2>2. CASE remove_intents_batch(Elements(m.content.keys), c, start_ts)
    <3> DEFINE gone == {k \in Elements(m.content.keys) : LockedBy(k, c, start_ts)}
    <3>1. intents' = [k \in Key |-> IF k \in gone THEN NoIntent ELSE intents[k]]
      BY <2>2 DEF remove_intents_batch, WithoutIntents
    <3>2. \A k \in gone : LockedBy(k, c, start_ts)
      OBVIOUS
    <3> HIDE DEF gone
    <3> QED
      BY <1>1, <3>1, <3>2 DEF Types, BackendTypeOK
  <2> QED
    BY <1>2, <2>1, <2>2 DEF abort_batch
<1> HIDE DEF c, start_ts
<1>7. BackendTypeOK'
  BY <1>1, <1>5, <1>6 DEF Types, BackendTypeOK
<1>8. \A k \in Key : Locked(k)' => intents'[k] = intents[k] /\ Locked(k)
  BY <1>6 DEF Locked
<1>9. Owned'
  <2>1. Begun' = Begun /\ \A d, k : Update(d, k)' = Update(d, k)
    BY <1>2, <1>5 DEF Begun, Update
  <2> QED
    BY <1>1, <1>2, <1>5, <1>8, <2>1 DEF Owned
<1>10. \A d \in TxnId, kind \in {"prewrite_batch", "commit_batch"}, ok \in BOOLEAN :
           Answered(d, kind, ok)' <=> Answered(d, kind, ok)
  BY <1>4 DEF Answered
<1>11. Told'
  <2>1. Begun' = Begun
    BY <1>2 DEF Begun
  <2> QED
    BY <1>1, <1>2, <1>10, <2>1 DEF Told
<1>12. Held'
  <2> SUFFICES ASSUME NEW d \in TxnId \ done, Answered(d, "prewrite_batch", TRUE)',
                      client[d].state \in {"prewriting", "committing", "committed"}
               PROVE  /\ client[d].keys # <<>> /\ ~HasDuplicates(client[d].keys)
                      /\ \A k \in Elements(client[d].keys) :
                            LockedBy(k, d, client[d].start_ts)'
    BY <1>2 DEF Held
  <2>1. d # c
    BY <1>3
  <2>2. /\ client[d].keys # <<>> /\ ~HasDuplicates(client[d].keys)
        /\ \A k \in Elements(client[d].keys) : LockedBy(k, d, client[d].start_ts)
    BY <1>1, <1>10 DEF Held
  <2>3. Elements(client[d].keys) \subseteq Key
    BY <1>1 DEF Types, Elements
  <2>4. \A k \in Elements(client[d].keys) : intents'[k] = intents[k]
    BY <1>6, <2>1, <2>2, <2>3 DEF LockedBy
  <2> QED
    BY <1>2, <2>2, <2>4 DEF LockedBy, Locked
<1> QED
  BY <1>2, <1>5, <1>7, <1>9, <1>11, <1>12, QuietInv

(* The time at which the apply loop applies an update. *)
LEMMA AppliedAt ==
    ASSUME Types, Times, CommitAtApply = TRUE, NEW m
    PROVE  /\ ApplyTs(m) = clock + 1
           /\ Max({clock, ApplyTs(m)}) = clock + 1
<1>1. clock \in Nat
  BY ClockFits
<1>2. ApplyTs(m) = clock + 1
  BY DEF ApplyTs
<1>3. clock \in Int /\ clock + 1 \in Int /\ ~(clock >= clock + 1)
  BY <1>1
<1> QED
  BY <1>2, <1>3, MaxOfTwo

(* A client that prewrote and did not give up commits: its locks are there. *)
LEMMA CommitGoesThrough ==
    ASSUME RmwInv, NEW c \in TxnId \ done, client[c].state \in {"committing", "committed"}
    PROVE  /\ client[c].state = "committing"
           /\ \A k \in Elements(client[c].keys) :
                 /\ k \in Key /\ LockedBy(k, c, client[c].start_ts)
                 /\ intents[k].mutation = Update(c, k)
                 /\ get_latest_commit_ts(committed[k]) <= client[c].start_ts
           /\ CommitBatchResult(c, client[c].start_ts, clock + 1, client[c].keys) = "Ok"
<1> DEFINE keys == client[c].keys
           start_ts == client[c].start_ts
           checks == [i \in DOMAIN keys |-> CheckCommitKey(c, start_ts, clock + 1, keys[i])]
<1>1. Types /\ Times /\ Owned /\ Held /\ Told
  BY DEF RmwInv
<1>2. /\ client[c].state = "committing" /\ c \in Begun
      /\ keys # <<>> /\ ~HasDuplicates(keys)
      /\ \A k \in Elements(keys) : LockedBy(k, c, start_ts)
  BY <1>1 DEF Told, Held, Begun
<1>3. keys \in Seq(Key) /\ Elements(keys) \subseteq Key
  BY <1>1 DEF Types, Elements
<1>4. \A k \in Elements(keys) :
          /\ intents[k] = NewIntent(c, start_ts, Update(c, k), NoTs)
          /\ get_latest_commit_ts(committed[k]) <= start_ts
  BY <1>1, <1>2, <1>3 DEF Owned, LockedBy
<1>5. /\ start_ts \in Int /\ start_ts <= clock /\ clock \in Nat
      /\ start_ts >= 0
  BY <1>1, <1>2, ClockFits, TimestampType DEF Times
<1>6. ~(clock + 1 <= start_ts)
  BY <1>5
<1>7. ASSUME NEW k \in Elements(keys)
      PROVE  CheckCommitKey(c, start_ts, clock + 1, k) = "Ok"
  <2>1. intents[k].min_commit_ts = NoTs
    BY <1>4, IntentFields
  <2>2. get_latest_commit_ts(committed[k]) <= start_ts /\ get_latest_commit_ts(committed[k]) \in Int
    BY <1>3, <1>4, LatestInt
  <2>3. /\ ~(clock + 1 < NoTs)
        /\ clock + 1 # get_latest_commit_ts(committed[k])
        /\ ~(clock + 1 < get_latest_commit_ts(committed[k]))
    BY <1>5, <2>2 DEF NoTs
  <2>4. CheckCommitTs(k, clock + 1) = "Ok"
    BY <2>1, <2>3 DEF CheckCommitTs
  <2>5. CheckOwner(c, start_ts, k) = "Ok"
    BY <1>2 DEF CheckOwner, LockedBy
  <2> QED
    BY <2>4, <2>5 DEF CheckCommitKey
<1>8. \A i \in DOMAIN checks : checks[i] = "Ok"
  BY <1>7 DEF Elements
<1>9. FirstError(checks, {"Ok"}) = "Ok"
  <2> HIDE DEF checks
  <2> QED
    BY <1>8 DEF FirstError
<1>10. CommitBatchResult(c, start_ts, clock + 1, keys) = "Ok"
  BY <1>2, <1>6, <1>9 DEF CommitBatchResult
<1>11. \A k \in Elements(keys) : intents[k].mutation = Update(c, k)
  BY <1>4, IntentFields
<1> QED
  BY <1>2, <1>3, <1>4, <1>10, <1>11

LEMMA DeliverCommitInv ==
    ASSUME RmwInv, CommitAtApply = TRUE, DeliverCommit
    PROVE  RmwInv'
<1>1. Types /\ Times /\ Fits /\ Asked /\ Owned
  BY DEF RmwInv
<1>2. PICK m \in requests :
          /\ m.kind = "commit_batch"
          /\ commit_batch(m.txn_id, client[m.txn_id].start_ts, ApplyTs(m), client[m.txn_id].keys)
          /\ IF CommitBatchResult(m.txn_id, client[m.txn_id].start_ts, ApplyTs(m),
                                  client[m.txn_id].keys) = "Ok"
             THEN Accept(m) ELSE Refuse(m)
          /\ UNCHANGED <<client, requests>>
  BY DEF DeliverCommit
<1> DEFINE c == m.txn_id
           start_ts == client[c].start_ts
           keys == client[c].keys
           now == clock + 1
<1>3. /\ c \in TxnId /\ client[c].state \in {"committing", "committed"}
  BY <1>1, <1>2 DEF Asked, Sent
<1>4. /\ c \in Begun /\ start_ts \in Timestamp /\ keys \in Seq(Key)
      /\ Elements(keys) \in SUBSET Key /\ now \in Timestamp
  BY <1>1, <1>3, ClockFits DEF Begun, Times, Types, Elements
<1>5. /\ commit_batch(c, start_ts, now, keys)
      /\ IF CommitBatchResult(c, start_ts, now, keys) = "Ok" THEN Accept(m) ELSE Refuse(m)
  BY <1>1, <1>2, AppliedAt
<1>6. CASE c \in done
  <2>1. CommitBatchResult(c, start_ts, now, keys) # "Ok"
    <3> SUFFICES ASSUME CommitBatchResult(c, start_ts, now, keys) = "Ok" PROVE FALSE
      OBVIOUS
    <3>1. keys # <<>>
      BY DEF CommitBatchResult
    <3>2. PICK k : k \in Elements(keys)
      BY <1>4, <3>1, SomeElement
    <3> HIDE DEF c, start_ts, keys, now
    <3>3. LockedBy(k, c, start_ts)
      BY <1>1, <1>4, <3>2, CommitBatchOk DEF Types
    <3> QED
      BY <1>1, <1>3, <1>4, <1>6, <3>2, <3>3 DEF Owned, LockedBy
  <2>2. UNCHANGED store /\ Refuse(m)
    BY <1>5, <2>1 DEF commit_batch
  <2>3. replies' = replies \cup {[txn_id |-> c, kind |-> "commit_batch", ok |-> FALSE]}
    BY <1>2, <2>2 DEF Refuse, Reply
  <2>4. \A d \in TxnId :
            Answered(d, "prewrite_batch", TRUE)' <=> Answered(d, "prewrite_batch", TRUE)
    BY <2>3 DEF Answered
  <2>5. \A d \in TxnId, ok \in BOOLEAN :
            Answered(d, "commit_batch", ok)' => Answered(d, "commit_batch", ok) \/ d \in done
    BY <1>6, <2>3 DEF Answered
  <2> QED
    BY <1>2, <2>2, <2>4, <2>5, RefusedInv DEF Refuse
<1>7. CASE c \notin done
  <2>1. /\ client[c].state = "committing"
        /\ \A k \in Elements(keys) : /\ k \in Key /\ LockedBy(k, c, start_ts)
                                     /\ intents[k].mutation = Update(c, k)
                                     /\ get_latest_commit_ts(committed[k]) <= start_ts
        /\ CommitBatchResult(c, start_ts, now, keys) = "Ok"
    BY <1>3, <1>7, CommitGoesThrough
  <2>2. commit_intents_batch(IntentVersions(Elements(keys)), now, c, start_ts) /\ Accept(m)
    BY <1>5, <2>1 DEF commit_batch
  <2>3. /\ clock' = now /\ done' = done \cup {c}
        /\ replies' = replies \cup {[txn_id |-> c, kind |-> "commit_batch", ok |-> TRUE]}
    BY <1>1, <1>2, <2>2, AppliedAt DEF Accept, Reply
  <2> DEFINE versions == IntentVersions(Elements(keys))
             gone == {k \in Elements(keys) : LockedBy(k, c, start_ts)}
  <2>4. /\ versions \in [Elements(keys) -> Mutation]
        /\ \A k \in Elements(keys) : versions[k] = Update(c, k)
    <3>1. \A k \in Elements(keys) : Locked(k)
      BY <2>1 DEF LockedBy
    <3>2. versions \in [Elements(keys) -> Mutation]
      BY <1>1, <1>4, <3>1, IntentVersionsType DEF Types
    <3> QED
      BY <2>1, <3>2 DEF IntentVersions
  <2>5. gone = Elements(keys)
    BY <2>1
  <2>6. /\ committed' = WithVersions(versions, now)
        /\ intents' = [k \in Key |-> IF k \in Elements(keys) THEN NoIntent ELSE intents[k]]
        /\ all_keys_set' \subseteq all_keys_set \cup Elements(keys)
    <3>1. DOMAIN versions = Elements(keys)
      BY <2>4
    <3>2. {k \in DOMAIN versions : LockedBy(k, c, start_ts)} = Elements(keys)
      BY <2>5, <3>1
    <3> HIDE DEF versions, c, start_ts, keys, now
    <3> QED
      BY <2>2, <3>1, <3>2 DEF commit_intents_batch, WithoutIntents, maybe_remove_from_keys,
                              versions
  <2>7. /\ WithVersions(versions, now) \in [Key -> Row]
        /\ \A k \in Elements(keys) :
              WithVersions(versions, now)[k] = Written(committed[k], now, versions[k])
        /\ \A k \in Key \ Elements(keys) : WithVersions(versions, now)[k] = committed[k]
    <3> HIDE DEF versions, c, start_ts, keys, now
    <3> QED
      BY <1>1, <1>4, <2>4, WithVersionsProp DEF Types
  <2>8. committed' = [k \in Key |-> IF k \in Elements(keys)
                          THEN Written(committed[k], now, Update(c, k)) ELSE committed[k]]
    <3> HIDE DEF versions, c, start_ts, keys, now
    <3> QED
      BY <2>4, <2>6, <2>7
  <2>9. BackendTypeOK'
    <3> HIDE DEF versions, c, start_ts, keys, now
    <3> QED
      BY <1>1, <1>4, <2>6, <2>7 DEF Types, BackendTypeOK
  <2>10. \A k \in Key : Locked(k)' => /\ intents'[k] = intents[k]
                                      /\ intents[k].txn_id # c
                                      /\ k \notin Elements(keys)
    BY <1>1, <1>3, <2>6 DEF Locked, Owned
  <2>11. \A k \in Key : Locked(k) /\ intents[k].txn_id # c => intents'[k] = intents[k]
    BY <2>1, <2>6 DEF LockedBy
  <2>12. Accepts(c)
    BY <1>2, <1>4, <1>7, <2>1, <2>3, <2>8, <2>9, <2>10, <2>11 DEF Accepts
  <2> QED
    BY <2>12, AcceptInv
<1> QED
  BY <1>6, <1>7

LEMMA DeliverGuardedInv ==
    ASSUME RmwInv, CommitAtApply = TRUE, DeliverGuarded
    PROVE  RmwInv'
<1>1. Types /\ Times /\ Fits /\ Asked /\ Owned /\ Settled
  BY DEF RmwInv
<1>2. PICK m \in requests :
          /\ m.kind = "apply_guarded_batch"
          /\ apply_guarded_batch(ApplyTs(m), m.content.guards, m.content.writes)
          /\ IF GuardedBatchResult(ApplyTs(m), m.content.guards, m.content.writes) = "Ok"
             THEN Accept(m) ELSE Refuse(m)
          /\ UNCHANGED <<client, requests>>
  BY DEF DeliverGuarded
<1> DEFINE c == m.txn_id
           start_ts == client[c].start_ts
           keys == client[c].keys
           writes == Increments(keys, start_ts)
           guards == Guards(keys, start_ts)
           now == clock + 1
<1>3. /\ c \in TxnId /\ client[c].state = "writing"
      /\ m.content.writes = writes /\ m.content.guards = guards
  BY <1>1, <1>2 DEF Asked, Sent
<1>4. /\ c \in Begun /\ start_ts \in Timestamp /\ keys \in Seq(Key)
      /\ Elements(keys) \in SUBSET Key /\ now \in Timestamp
  BY <1>1, <1>3, ClockFits DEF Begun, Times, Types, Elements
<1>5. /\ apply_guarded_batch(now, guards, writes)
      /\ IF GuardedBatchResult(now, guards, writes) = "Ok" THEN Accept(m) ELSE Refuse(m)
  BY <1>1, <1>2, <1>3, AppliedAt
<1>6. /\ writes \in Seq(Write) /\ KeysOf(writes) = keys
      /\ writes = <<>> <=> keys = <<>>
      /\ AsFunction(writes) = [k \in Elements(keys) |-> Update(c, k)]
  BY <1>1, <1>4, IncrementsType
<1>7. /\ DOMAIN guards = DOMAIN keys
      /\ \A i \in DOMAIN keys : guards[i].key = keys[i] /\ guards[i].read_ts = start_ts
  BY DEF Guards
<1> HIDE DEF c, start_ts, keys, writes, guards, now
<1>8. CASE GuardedBatchResult(now, guards, writes) # "Ok"
  <2>1. UNCHANGED store /\ Refuse(m)
    BY <1>5, <1>8 DEF apply_guarded_batch
  <2>2. replies' = replies \cup {[txn_id |-> c, kind |-> "apply_guarded_batch", ok |-> FALSE]}
    BY <1>2, <2>1 DEF Refuse, Reply, c
  <2>3. \A d \in TxnId, kind \in {"prewrite_batch", "commit_batch"}, ok \in BOOLEAN :
            Answered(d, kind, ok)' <=> Answered(d, kind, ok)
    BY <2>2 DEF Answered
  <2> QED
    BY <1>2, <2>1, <2>3, RefusedInv DEF Refuse
<1>9. CASE GuardedBatchResult(now, guards, writes) = "Ok"
  <2> DEFINE checks == [i \in DOMAIN guards |-> CheckGuard(now, guards[i])]
  <2>1. writes # <<>> /\ FirstError(checks, {"Ok"}) = "Ok" /\ CheckWrites(now, writes) = "Ok"
    BY <1>9 DEF GuardedBatchResult
  <2>2. \A i \in DOMAIN keys : CheckGuard(now, guards[i]) = "Ok"
    <3>1. DOMAIN checks = 1 .. Len(keys) /\ Len(keys) \in Nat
      BY <1>4, <1>7
    <3>2. \A i \in DOMAIN checks : checks[i] \in {"Ok"}
      <4> HIDE DEF checks
      <4> QED
        BY <2>1, <3>1, FirstErrorOk
    <3> QED
      BY <1>7, <3>2
  <2>3. \A k \in Elements(keys) : ~(get_latest_commit_ts(committed[k]) > start_ts)
    BY <1>7, <2>2 DEF CheckGuard, Elements
  <2>4. \A k \in Elements(keys) : /\ k \in Key /\ get_latest_commit_ts(committed[k]) <= start_ts
                                  /\ ~Locked(k)
    BY <1>4, <1>6, <2>1, <2>3, LatestInt, TimestampType, CheckWritesOk
  <2>5. c \notin done
    <3>1. PICK k : k \in Elements(keys)
      BY <1>4, <1>6, <2>1, SomeElement
    <3> QED
      BY <1>1, <2>3, <3>1 DEF Settled, keys, start_ts
  <2>6. put_committed_batch(AsFunction(writes), now) /\ Accept(m)
    BY <1>5, <1>9 DEF apply_guarded_batch
  <2>7. /\ clock' = now /\ done' = done \cup {c}
        /\ replies' = replies \cup {[txn_id |-> c, kind |-> "apply_guarded_batch", ok |-> TRUE]}
    BY <1>1, <1>2, <2>6, AppliedAt DEF Accept, Reply, c, now
  <2> DEFINE versions == AsFunction(writes)
  <2>8. versions \in [Elements(keys) -> Mutation]
    BY <1>1, <1>4, <1>6 DEF Fits, Mutation, keys
  <2>9. /\ committed' = WithVersions(versions, now) /\ intents' = intents
        /\ all_keys_set' = all_keys_set \cup Elements(keys)
    BY <2>6, <2>8 DEF put_committed_batch
  <2>10. \A k \in Elements(keys) : versions[k] = Update(c, k)
    BY <1>6
  <2> HIDE DEF versions
  <2>11. /\ WithVersions(versions, now) \in [Key -> Row]
         /\ \A k \in Elements(keys) :
               WithVersions(versions, now)[k] = Written(committed[k], now, versions[k])
         /\ \A k \in Key \ Elements(keys) : WithVersions(versions, now)[k] = committed[k]
    <3>1. BackendTypeOK
      BY <1>1 DEF Types
    <3> QED
      BY <1>4, <2>8, <3>1, WithVersionsProp
  <2>12. committed' = [k \in Key |-> IF k \in Elements(keys)
                           THEN Written(committed[k], now, Update(c, k)) ELSE committed[k]]
    BY <2>9, <2>10, <2>11
  <2>13. BackendTypeOK'
    BY <1>1, <1>4, <2>9, <2>11 DEF Types, BackendTypeOK
  <2>14. \A k \in Key : Locked(k)' => /\ intents'[k] = intents[k]
                                      /\ intents[k].txn_id # c
                                      /\ k \notin Elements(keys)
    BY <1>1, <1>3, <2>4, <2>9 DEF Locked, Owned
  <2>15. Accepts(c)
    BY <1>2, <1>3, <1>4, <2>4, <2>5, <2>7, <2>9, <2>12, <2>13, <2>14
       DEF Accepts, keys, start_ts, now
  <2> QED
    BY <2>15, AcceptInv
<1> QED
  BY <1>8, <1>9

-----------------------------------------------------------------------------
(* Clients. *)

LEMMA CommitTsUnset ==
    ASSUME CommitAtApply = TRUE, NEW t \in Nat
    PROVE  CommitTs(t) = NoTs /\ Max({t, CommitTs(t)}) = t
<1>1. CommitTs(t) = NoTs
  BY DEF CommitTs
<1>2. t \in Int /\ NoTs \in Int /\ t >= NoTs
  BY DEF NoTs
<1> QED
  BY <1>1, <1>2, MaxOfTwo

(* A client that has begun goes to another state. *)
LEMMA StateChange ==
    ASSUME RmwInv, NEW c \in Begun,
           NEW s \in {"prewriting", "committing", "committed", "aborted", "writing"},
           client' = [client EXCEPT ![c].state = s], UNCHANGED <<store, clock, done>>
    PROVE  /\ Begun' = Begun
           /\ \A d \in TxnId : /\ client'[d].keys = client[d].keys
                               /\ client'[d].start_ts = client[d].start_ts
                               /\ client'[d].state = IF d = c THEN s ELSE client[d].state
           /\ Types' /\ Times' /\ Fits' /\ EveryUpdateCounts'
           /\ s # "writing" => Owned'
<1>1. Types /\ Times /\ Fits /\ EveryUpdateCounts /\ Owned
  BY DEF RmwInv
<1>2. /\ c \in TxnId /\ client[c].state # "idle" /\ committed' = committed
      /\ intents' = intents /\ all_keys_set' = all_keys_set
  BY DEF Begun, store
<1>3. \A d \in TxnId : /\ client'[d].keys = client[d].keys
                       /\ client'[d].start_ts = client[d].start_ts
                       /\ client'[d].state = IF d = c THEN s ELSE client[d].state
  BY <1>1, <1>2 DEF Types
<1>4. Begun' = Begun
  BY <1>2, <1>3 DEF Begun
<1>5. Types'
  BY <1>1, <1>2, <1>4 DEF Types, BackendTypeOK
<1>6. Times'
  BY <1>1, <1>2, <1>3, <1>4 DEF Times, Begun
<1>7. \A d \in TxnId, k \in Key : Update(d, k)' = Update(d, k)
  BY <1>2, <1>3 DEF Update
<1>8. Fits'
  <2>1. \A d \in Begun : d \in TxnId /\ Elements(client[d].keys) \subseteq Key
    BY <1>1 DEF Begun, Types, Elements
  <2> QED
    BY <1>1, <1>3, <1>4, <1>7, <2>1 DEF Fits
<1>9. EveryUpdateCounts'
  <2>1. \A d \in done : d \in TxnId
    BY <1>1 DEF Types, Begun
  <2>2. \A k \in Key : {d \in done : k \in Elements(client'[d].keys)} =
                       {d \in done : k \in Elements(client[d].keys)}
    BY <1>3, <2>1
  <2> QED
    BY <1>1, <1>2, <2>2 DEF EveryUpdateCounts
<1>10. s # "writing" => Owned'
  BY <1>1, <1>2, <1>3, <1>4, <1>7 DEF Owned, Locked
<1> QED
  BY <1>3, <1>4, <1>5, <1>6, <1>8, <1>9, <1>10

(* ... and the requests it sent before fit its new state, if it only goes on. *)
LEMMA SentStays ==
    ASSUME RmwInv, NEW c \in Begun,
           NEW s \in {"committing", "committed", "aborted"},
           client' = [client EXCEPT ![c].state = s], UNCHANGED <<store, clock, done>>,
           client[c].state = "prewriting" \/ (client[c].state = "committing" /\ s = "committed"),
           NEW m, NEW d \in TxnId, Sent(m, d)
    PROVE  Sent(m, d)'
<1>1. committed' = committed
  BY DEF store
<1>2. /\ client'[d].keys = client[d].keys
      /\ client'[d].start_ts = client[d].start_ts
      /\ client'[d].state = IF d = c THEN s ELSE client[d].state
  <2>1. s \in {"prewriting", "committing", "committed", "aborted", "writing"}
    OBVIOUS
  <2> QED
    BY <2>1, StateChange
<1>3. /\ Increments(client[d].keys, client[d].start_ts)' =
            Increments(client[d].keys, client[d].start_ts)
      /\ Guards(client[d].keys, client[d].start_ts)' =
            Guards(client[d].keys, client[d].start_ts)
  BY <1>1, <1>2 DEF Increments, Guards
<1> QED
  BY <1>2, <1>3 DEF Sent

LEMMA SendCommitInv ==
    ASSUME RmwInv, CommitAtApply = TRUE, SendCommit
    PROVE  RmwInv'
<1>1. Types /\ Times /\ Asked /\ Held /\ Told /\ Settled
  BY DEF RmwInv
<1>2. PICK c \in TxnId :
          /\ client[c].state = "prewriting" /\ Answered(c, "prewrite_batch", TRUE)
          /\ Send(c, "commit_batch", [commit_ts |-> CommitTs(clock)])
          /\ clock' = Max({clock, CommitTs(clock)})
          /\ client' = [client EXCEPT ![c].state = "committing"]
          /\ UNCHANGED <<store, replies, done>>
  BY DEF SendCommit
<1>3. c \in Begun /\ clock' = clock
  BY <1>1, <1>2, ClockFits, CommitTsUnset DEF Begun
<1>4. /\ Begun' = Begun
      /\ Types' /\ Times' /\ Fits' /\ EveryUpdateCounts' /\ Owned'
      /\ \A d \in TxnId : /\ client'[d].keys = client[d].keys
                          /\ client'[d].start_ts = client[d].start_ts
                          /\ client'[d].state = IF d = c THEN "committing" ELSE client[d].state
  BY <1>2, <1>3, StateChange
<1>5. Asked'
  <2>1. \A m, d : d \in TxnId /\ Sent(m, d) => Sent(m, d)'
    BY <1>2, <1>3, SentStays
  <2>0. PICK new : new = [txn_id |-> c, kind |-> "commit_batch",
                          content |-> [commit_ts |-> CommitTs(clock)]]
    OBVIOUS
  <2>2. requests' = requests \cup {new}
    BY <1>2, <2>0 DEF Send
  <2>3. new.txn_id = c /\ Sent(new, c)'
    BY <1>2, <1>4, <2>0 DEF Sent
  <2> QED
    BY <1>1, <2>1, <2>2, <2>3 DEF Asked
<1>6. /\ \A k, d, t : LockedBy(k, d, t)' <=> LockedBy(k, d, t)
      /\ \A d, kind, ok : Answered(d, kind, ok)' <=> Answered(d, kind, ok)
  BY <1>2 DEF LockedBy, Locked, store, Answered
<1>7. Held'
  <2> SUFFICES ASSUME NEW d \in TxnId \ done, Answered(d, "prewrite_batch", TRUE)',
                      client'[d].state \in {"prewriting", "committing", "committed"}
               PROVE  /\ client'[d].keys # <<>> /\ ~HasDuplicates(client'[d].keys)
                      /\ \A k \in Elements(client'[d].keys) :
                            LockedBy(k, d, client[d].start_ts)'
    BY <1>2 DEF Held
  <2>1. client[d].state \in {"prewriting", "committing", "committed"}
    BY <1>2, <1>4
  <2> QED
    BY <1>1, <1>4, <1>6, <2>1 DEF Held
<1>8. Told'
  <2> SUFFICES ASSUME NEW d \in TxnId
               PROVE  /\ Answered(d, "prewrite_batch", TRUE) => d \in Begun
                      /\ client'[d].state \in {"committing", "committed"} =>
                            Answered(d, "prewrite_batch", TRUE)
                      /\ \A ok \in BOOLEAN : Answered(d, "commit_batch", ok) => d \in done
                      /\ client'[d].state = "committed" => d \in done
    BY <1>2, <1>4 DEF Told, Answered
  <2>1. client'[d].state = IF d = c THEN "committing" ELSE client[d].state
    BY <1>4
  <2>2. /\ Answered(d, "prewrite_batch", TRUE) => d \in Begun
        /\ client[d].state \in {"committing", "committed"} =>
               Answered(d, "prewrite_batch", TRUE)
        /\ \A ok \in BOOLEAN : Answered(d, "commit_batch", ok) => d \in done
        /\ client[d].state = "committed" => d \in done
    BY <1>1 DEF Told
  <2>3. CASE d # c
    <3>1. client'[d].state = client[d].state
      BY <2>1, <2>3
    <3> QED
      BY <2>2, <3>1
  <2>4. CASE d = c
    <3>1. client'[d].state = "committing"
      BY <2>1, <2>4
    <3> QED
      BY <1>2, <2>2, <2>4, <3>1
  <2> QED
    BY <2>3, <2>4
<1>9. Settled'
  <2>1. \A d \in done : d \in TxnId
    BY <1>1 DEF Types, Begun
  <2> QED
    BY <1>1, <1>2, <1>4, <2>1 DEF Settled, store
<1> QED
  BY <1>4, <1>5, <1>7, <1>8, <1>9 DEF RmwInv

LEMMA SendAbortInv ==
    ASSUME RmwInv, SendAbort
    PROVE  RmwInv'
<1>1. Types /\ Asked /\ Held /\ Told /\ Settled
  BY DEF RmwInv
<1>2. PICK c \in TxnId :
          /\ client[c].state = "prewriting"
          /\ Send(c, "abort_batch", [keys |-> client[c].keys])
          /\ client' = [client EXCEPT ![c].state = "aborted"]
          /\ UNCHANGED <<store, clock, replies, done>>
  BY DEF SendAbort
<1>3. c \in Begun
  BY <1>2 DEF Begun
<1>4. /\ Begun' = Begun
      /\ Types' /\ Times' /\ Fits' /\ EveryUpdateCounts' /\ Owned'
      /\ \A d \in TxnId : /\ client'[d].keys = client[d].keys
                          /\ client'[d].start_ts = client[d].start_ts
                          /\ client'[d].state = IF d = c THEN "aborted" ELSE client[d].state
  BY <1>2, <1>3, StateChange
<1>5. Asked'
  <2>1. \A m, d : d \in TxnId /\ Sent(m, d) => Sent(m, d)'
    BY <1>2, <1>3, SentStays
  <2>0. PICK new : new = [txn_id |-> c, kind |-> "abort_batch",
                          content |-> [keys |-> client[c].keys]]
    OBVIOUS
  <2>2. requests' = requests \cup {new}
    BY <1>2, <2>0 DEF Send
  <2>3. new.txn_id = c /\ Sent(new, c)'
    BY <1>2, <1>4, <2>0 DEF Sent
  <2> QED
    BY <1>1, <2>1, <2>2, <2>3 DEF Asked
<1>6. /\ \A k, d, t : LockedBy(k, d, t)' <=> LockedBy(k, d, t)
      /\ \A d, kind, ok : Answered(d, kind, ok)' <=> Answered(d, kind, ok)
  BY <1>2 DEF LockedBy, Locked, store, Answered
<1>7. Held'
  <2> SUFFICES ASSUME NEW d \in TxnId \ done, Answered(d, "prewrite_batch", TRUE)',
                      client'[d].state \in {"prewriting", "committing", "committed"}
               PROVE  /\ client'[d].keys # <<>> /\ ~HasDuplicates(client'[d].keys)
                      /\ \A k \in Elements(client'[d].keys) :
                            LockedBy(k, d, client[d].start_ts)'
    BY <1>2 DEF Held
  <2>1. client[d].state \in {"prewriting", "committing", "committed"}
    BY <1>2, <1>4
  <2> QED
    BY <1>1, <1>4, <1>6, <2>1 DEF Held
<1>8. Told'
  <2> SUFFICES ASSUME NEW d \in TxnId
               PROVE  /\ Answered(d, "prewrite_batch", TRUE) => d \in Begun
                      /\ client'[d].state \in {"committing", "committed"} =>
                            Answered(d, "prewrite_batch", TRUE)
                      /\ \A ok \in BOOLEAN : Answered(d, "commit_batch", ok) => d \in done
                      /\ client'[d].state = "committed" => d \in done
    BY <1>2, <1>4 DEF Told, Answered
  <2>1. client'[d].state = IF d = c THEN "aborted" ELSE client[d].state
    BY <1>4
  <2>2. /\ Answered(d, "prewrite_batch", TRUE) => d \in Begun
        /\ client[d].state \in {"committing", "committed"} =>
               Answered(d, "prewrite_batch", TRUE)
        /\ \A ok \in BOOLEAN : Answered(d, "commit_batch", ok) => d \in done
        /\ client[d].state = "committed" => d \in done
    BY <1>1 DEF Told
  <2>3. CASE d # c
    <3>1. client'[d].state = client[d].state
      BY <2>1, <2>3
    <3> QED
      BY <2>2, <3>1
  <2>4. CASE d = c
    <3>1. client'[d].state = "aborted"
      BY <2>1, <2>4
    <3> QED
      BY <1>2, <2>2, <2>4, <3>1
  <2> QED
    BY <2>3, <2>4
<1>9. Settled'
  <2>1. \A d \in done : d \in TxnId /\ d # c
    BY <1>1, <1>2 DEF Types, Begun, Settled
  <2> QED
    BY <1>1, <1>2, <1>4, <2>1 DEF Settled, store
<1> QED
  BY <1>4, <1>5, <1>7, <1>8, <1>9 DEF RmwInv

LEMMA CommitAnsweredInv ==
    ASSUME RmwInv, CommitAnswered
    PROVE  RmwInv'
<1>1. Types /\ Asked /\ Held /\ Told /\ Settled
  BY DEF RmwInv
<1>2. PICK c \in TxnId :
          /\ client[c].state = "committing"
          /\ Answered(c, "commit_batch", TRUE) \/ Answered(c, "commit_batch", FALSE)
          /\ client' = [client EXCEPT ![c].state = "committed"]
          /\ UNCHANGED <<store, clock, requests, replies, done>>
  BY DEF CommitAnswered
<1>3. c \in Begun /\ c \in done
  BY <1>1, <1>2 DEF Begun, Told
<1>4. /\ Begun' = Begun
      /\ Types' /\ Times' /\ Fits' /\ EveryUpdateCounts' /\ Owned'
      /\ \A d \in TxnId : /\ client'[d].keys = client[d].keys
                          /\ client'[d].start_ts = client[d].start_ts
                          /\ client'[d].state = IF d = c THEN "committed" ELSE client[d].state
  BY <1>2, <1>3, StateChange
<1>5. Asked'
  <2>1. \A m, d : d \in TxnId /\ Sent(m, d) => Sent(m, d)'
    BY <1>2, <1>3, SentStays
  <2> QED
    BY <1>1, <1>2, <2>1 DEF Asked
<1>6. /\ \A k, d, t : LockedBy(k, d, t)' <=> LockedBy(k, d, t)
      /\ \A d, kind, ok : Answered(d, kind, ok)' <=> Answered(d, kind, ok)
  BY <1>2 DEF LockedBy, Locked, store, Answered
<1>7. Held'
  <2> SUFFICES ASSUME NEW d \in TxnId \ done, Answered(d, "prewrite_batch", TRUE)',
                      client'[d].state \in {"prewriting", "committing", "committed"}
               PROVE  /\ client'[d].keys # <<>> /\ ~HasDuplicates(client'[d].keys)
                      /\ \A k \in Elements(client'[d].keys) :
                            LockedBy(k, d, client[d].start_ts)'
    BY <1>2 DEF Held
  <2>1. client[d].state \in {"prewriting", "committing", "committed"}
    BY <1>2, <1>4
  <2> QED
    BY <1>1, <1>4, <1>6, <2>1 DEF Held
<1>8. Told'
  BY <1>1, <1>2, <1>3, <1>4 DEF Told, Answered
<1>9. Settled'
  <2>1. \A d \in done : d \in TxnId
    BY <1>1 DEF Types, Begun
  <2> QED
    BY <1>1, <1>2, <1>4, <2>1 DEF Settled, store
<1> QED
  BY <1>4, <1>5, <1>7, <1>8, <1>9 DEF RmwInv

(* A client takes a timestamp, reads and sends its first request. *)
LEMMA Starts ==
    ASSUME RmwInv, NEW c \in TxnId, client[c].state = "idle", NEW keys \in Seq(Key),
           NEW s \in {"prewriting", "writing"},
           client' = [client EXCEPT ![c] =
                         [state |-> s, start_ts |-> clock + 1, keys |-> keys]],
           clock' = clock + 1, UNCHANGED <<store, replies, done>>,
           NEW m, m.txn_id = c, Sent(m, c)', requests' = requests \cup {m}
    PROVE  RmwInv'
<1>1. Types /\ Times /\ Fits /\ Asked /\ Owned /\ Held /\ Told /\ Settled /\ EveryUpdateCounts
  BY DEF RmwInv
<1>2. /\ committed' = committed /\ intents' = intents /\ all_keys_set' = all_keys_set
      /\ replies' = replies /\ done' = done
  BY DEF store
<1>3. /\ clock \in Nat /\ clock + 1 \in Timestamp /\ clock \in Timestamp
      /\ IsFiniteSet(Begun) /\ IsFiniteSet(done)
      /\ Cardinality(Begun) \in Nat /\ Cardinality(done) \in Nat
  BY <1>1, ClockFits, MaxTsAssumption DEF Timestamp
<1>4. c \notin Begun /\ c \notin done /\ done \subseteq Begun
  BY <1>1 DEF Begun, Types
<1>5. /\ client'[c].state = s /\ client'[c].start_ts = clock + 1 /\ client'[c].keys = keys
      /\ \A d \in TxnId : d # c => client'[d] = client[d]
  BY <1>1 DEF Types
<1>6. Begun' = Begun \cup {c}
  BY <1>5 DEF Begun
<1>7. \A d \in Begun : d \in TxnId /\ d # c /\ client'[d] = client[d]
  BY <1>4, <1>5 DEF Begun
<1>8. Types'
  <2>1. [state |-> s, start_ts |-> clock + 1, keys |-> keys] \in
            [state : {"idle", "prewriting", "committing", "committed", "aborted", "writing"},
             start_ts : Timestamp \cup {NoTs}, keys : Seq(Key)]
    BY <1>3
  <2> QED
    BY <1>1, <1>2, <1>4, <1>6, <2>1 DEF Types, BackendTypeOK
<1>9. Times'
  <2>1. Cardinality(Begun') = Cardinality(Begun) + 1
    BY <1>3, <1>4, <1>6, FS_AddElement
  <2>2. clock' = Cardinality(Begun') + Cardinality(done')
    BY <1>1, <1>2, <1>3, <2>1 DEF Times
  <2>3. ASSUME NEW d \in Begun'
        PROVE  client'[d].start_ts \in Timestamp /\ client'[d].start_ts <= clock'
    <3>1. CASE d = c
      BY <1>3, <1>5, <3>1
    <3>2. CASE d # c
      <4>1. client[d].start_ts \in Timestamp /\ client[d].start_ts <= clock
        BY <1>1, <1>6, <3>2 DEF Times
      <4>2. client'[d] = client[d]
        BY <1>6, <1>7, <3>2
      <4>3. client[d].start_ts \in Int /\ clock \in Int
        BY <1>3, <4>1, TimestampType
      <4>4. client[d].start_ts <= clock + 1
        BY <4>1, <4>3
      <4> QED
        BY <4>1, <4>2, <4>4
    <3> QED
      BY <3>1, <3>2
  <2>4. ASSUME NEW k \in Key
        PROVE  get_latest_commit_ts(committed'[k]) <= clock'
    <3>1. get_latest_commit_ts(committed[k]) <= clock /\ get_latest_commit_ts(committed[k]) \in Int
      BY <1>1, LatestInt DEF Times
    <3> QED
      BY <1>2, <1>3, <3>1
  <2> QED
    BY <2>2, <2>3, <2>4 DEF Times
<1>10. \A k \in Key : read(committed[k], clock + 1) = read(committed[k], clock)
  <2> TAKE k \in Key
  <2>1. committed[k] \in Row /\ get_latest_commit_ts(committed[k]) <= clock
    BY <1>1 DEF Types, BackendTypeOK, Times
  <2>2. get_latest_commit_ts(committed[k]) <= clock + 1
    BY <1>3, <2>1, LatestInt
  <2> QED
    BY <1>3, <2>1, <2>2, ReadSettled
<1>11. \A d \in Begun, k \in Key : Update(d, k)' = Update(d, k)
  BY <1>2, <1>7 DEF Update
<1>12. Fits'
  <2> SUFFICES ASSUME NEW d \in Begun', NEW k \in Elements(client'[d].keys)
               PROVE  Update(d, k)' \in Value
    BY DEF Fits
  <2>1. CASE d = c
    <3>1. k \in Key
      BY <1>5, <2>1 DEF Elements
    <3>2. Update(c, k)' = CounterOf(read(committed[k], clock)) + 1
      BY <1>2, <1>5, <1>10, <3>1 DEF Update
    <3> DEFINE S == {e \in done : k \in Elements(client[e].keys)}
    <3>3. CounterOf(read(committed[k], clock)) = Cardinality(S)
      BY <1>1, <3>1 DEF EveryUpdateCounts
    <3>4. /\ S \subseteq done
          /\ Cardinality(done) + 1 <= Cardinality(TxnId)
      BY <1>1, <1>4, ClockFits
    <3> HIDE DEF S
    <3>5. Cardinality(S) <= Cardinality(done) /\ Cardinality(S) \in Nat
      BY <1>3, <3>4, FS_Subset, FS_CardinalityType
    <3>6. Cardinality(TxnId) \in Nat
      BY ClientsAssumption, FS_CardinalityType
    <3> QED
      BY <1>3, <2>1, <3>2, <3>3, <3>4, <3>5, <3>6, ClientsAssumption
  <2>2. CASE d # c
    <3>1. d \in Begun /\ client'[d] = client[d]
      BY <1>6, <1>7, <2>2
    <3>2. k \in Key
      BY <1>1, <3>1 DEF Types, Begun, Elements
    <3> QED
      BY <1>1, <1>11, <3>1, <3>2 DEF Fits
  <2> QED
    BY <2>1, <2>2
<1>13. Asked'
  <2>1. ASSUME NEW n, NEW d \in TxnId, Sent(n, d) PROVE Sent(n, d)'
    <3>1. d # c
      BY <2>1 DEF Sent
    <3>2. client'[d] = client[d]
      BY <1>5, <3>1
    <3>3. /\ Increments(client[d].keys, client[d].start_ts)' =
                Increments(client[d].keys, client[d].start_ts)
          /\ Guards(client[d].keys, client[d].start_ts)' =
                Guards(client[d].keys, client[d].start_ts)
      BY <1>2, <3>2 DEF Increments, Guards
    <3> QED
      BY <2>1, <3>2, <3>3 DEF Sent
  <2> QED
    BY <1>1, <2>1 DEF Asked
<1>14. Owned'
  BY <1>1, <1>2, <1>6, <1>7, <1>11 DEF Owned, Locked
<1>15. /\ \A k, d, t : LockedBy(k, d, t)' <=> LockedBy(k, d, t)
       /\ \A d, kind, ok : Answered(d, kind, ok)' <=> Answered(d, kind, ok)
  BY <1>2 DEF LockedBy, Locked, Answered
<1>16. Held'
  <2> SUFFICES ASSUME NEW d \in TxnId \ done, Answered(d, "prewrite_batch", TRUE)',
                      client'[d].state \in {"prewriting", "committing", "committed"}
               PROVE  /\ client'[d].keys # <<>> /\ ~HasDuplicates(client'[d].keys)
                      /\ \A k \in Elements(client'[d].keys) :
                            LockedBy(k, d, client[d].start_ts)'
    BY <1>2 DEF Held
  <2>1. d # c
    BY <1>1, <1>4, <1>15 DEF Told
  <2>2. client'[d] = client[d]
    BY <1>5, <2>1
  <2> QED
    BY <1>1, <1>15, <2>2 DEF Held
<1>17. Told'
  <2> SUFFICES ASSUME NEW d \in TxnId
               PROVE  /\ Answered(d, "prewrite_batch", TRUE) => d \in Begun'
                      /\ client'[d].state \in {"committing", "committed"} =>
                            Answered(d, "prewrite_batch", TRUE)
                      /\ \A ok \in BOOLEAN : Answered(d, "commit_batch", ok) => d \in done
                      /\ client'[d].state = "committed" => d \in done
    BY <1>2 DEF Told, Answered
  <2>1. /\ Answered(d, "prewrite_batch", TRUE) => d \in Begun
        /\ client[d].state \in {"committing", "committed"} =>
               Answered(d, "prewrite_batch", TRUE)
        /\ \A ok \in BOOLEAN : Answered(d, "commit_batch", ok) => d \in done
        /\ client[d].state = "committed" => d \in done
    BY <1>1 DEF Told
  <2>2. CASE d # c
    <3>1. client'[d].state = client[d].state
      BY <1>5, <2>2
    <3> QED
      BY <1>6, <2>1, <3>1
  <2>3. CASE d = c
    <3>1. client'[d].state \notin {"committing", "committed"}
      BY <1>5, <2>3
    <3> QED
      BY <1>6, <2>1, <3>1
  <2> QED
    BY <2>2, <2>3
<1>18. Settled'
  BY <1>1, <1>2, <1>4, <1>7 DEF Settled
<1>19. EveryUpdateCounts'
  <2>1. \A k \in Key : {d \in done : k \in Elements(client'[d].keys)} =
                       {d \in done : k \in Elements(client[d].keys)}
    BY <1>4, <1>7
  <2> QED
    BY <1>1, <1>2, <1>10, <2>1 DEF EveryUpdateCounts
<1> QED
  BY <1>8, <1>9, <1>12, <1>13, <1>14, <1>16, <1>17, <1>18, <1>19 DEF RmwInv

LEMMA BeginInv ==
    ASSUME RmwInv, CommitAtApply = TRUE, Begin
    PROVE  RmwInv'
<1>1. Types /\ Times /\ clock \in Nat
  BY ClockFits DEF RmwInv
<1>2. PICK c \in TxnId, keys \in KeyLists :
          /\ client[c].state = "idle"
          /\ \/ /\ Send(c, "prewrite_batch", [writes |-> Increments(keys, clock + 1)])
                /\ client' = [client EXCEPT ![c] =
                       [state |-> "prewriting", start_ts |-> clock + 1, keys |-> keys]]
                /\ clock' = clock + 1
             \/ /\ Send(c, "apply_guarded_batch",
                        [writes |-> Increments(keys, clock + 1),
                         guards |-> Guards(keys, clock + 1),
                         commit_ts |-> CommitTs(clock + 1)])
                /\ client' = [client EXCEPT ![c] =
                       [state |-> "writing", start_ts |-> clock + 1, keys |-> keys]]
                /\ clock' = Max({clock + 1, CommitTs(clock + 1)})
          /\ UNCHANGED <<store, replies, done>>
  BY DEF Begin
<1>3. keys \in Seq(Key) /\ committed' = committed
  BY <1>2, ClientsAssumption DEF store
<1>4. CASE /\ Send(c, "prewrite_batch", [writes |-> Increments(keys, clock + 1)])
           /\ client' = [client EXCEPT ![c] =
                  [state |-> "prewriting", start_ts |-> clock + 1, keys |-> keys]]
           /\ clock' = clock + 1
  <2>1. PICK m : m = [txn_id |-> c, kind |-> "prewrite_batch",
                      content |-> [writes |-> Increments(keys, clock + 1)]]
    OBVIOUS
  <2>2. client'[c] = [state |-> "prewriting", start_ts |-> clock + 1, keys |-> keys]
    BY <1>1, <1>4 DEF Types
  <2>3. Increments(client[c].keys, client[c].start_ts)' = Increments(keys, clock + 1)
    BY <1>3, <2>2 DEF Increments
  <2>4. Sent(m, c)'
    BY <2>1, <2>2, <2>3 DEF Sent
  <2>5. requests' = requests \cup {m} /\ m.txn_id = c
    BY <1>4, <2>1 DEF Send
  <2> QED
    BY <1>2, <1>3, <1>4, <2>4, <2>5, Starts
<1>5. CASE /\ Send(c, "apply_guarded_batch",
                   [writes |-> Increments(keys, clock + 1),
                    guards |-> Guards(keys, clock + 1),
                    commit_ts |-> CommitTs(clock + 1)])
           /\ client' = [client EXCEPT ![c] =
                  [state |-> "writing", start_ts |-> clock + 1, keys |-> keys]]
           /\ clock' = Max({clock + 1, CommitTs(clock + 1)})
  <2>1. PICK m : m = [txn_id |-> c, kind |-> "apply_guarded_batch",
                      content |-> [writes |-> Increments(keys, clock + 1),
                                   guards |-> Guards(keys, clock + 1),
                                   commit_ts |-> CommitTs(clock + 1)]]
    OBVIOUS
  <2>2. client'[c] = [state |-> "writing", start_ts |-> clock + 1, keys |-> keys]
    BY <1>1, <1>5 DEF Types
  <2>3. /\ Increments(client[c].keys, client[c].start_ts)' = Increments(keys, clock + 1)
        /\ Guards(client[c].keys, client[c].start_ts)' = Guards(keys, clock + 1)
    BY <1>3, <2>2 DEF Increments, Guards
  <2>4. Sent(m, c)'
    BY <2>1, <2>2, <2>3 DEF Sent
  <2>5. requests' = requests \cup {m} /\ m.txn_id = c
    BY <1>5, <2>1 DEF Send
  <2>6. clock' = clock + 1
    BY <1>1, <1>5, CommitTsUnset
  <2> QED
    BY <1>2, <1>3, <1>5, <2>4, <2>5, <2>6, Starts
<1> QED
  BY <1>2, <1>4, <1>5

-----------------------------------------------------------------------------
(* The theorems. *)

LEMMA RmwInit ==
    ASSUME Init
    PROVE  RmwInv
<1>1. /\ committed = [k \in Key |-> [t \in Timestamp |-> NoVersion]]
      /\ intents = [k \in Key |-> NoIntent] /\ all_keys_set = {}
      /\ clock = 0 /\ client = [c \in TxnId |-> Idle]
      /\ requests = {} /\ replies = {} /\ done = {}
  BY DEF Init, BackendInit
<1>2. \A c \in TxnId : client[c] = Idle /\ client[c].state = "idle"
  BY <1>1 DEF Idle
<1>3. Begun = {} /\ Cardinality(Begun) = 0 /\ Cardinality(done) = 0
  BY <1>1, <1>2, FS_EmptySet DEF Begun
<1>4. Idle \in [state : {"idle", "prewriting", "committing", "committed", "aborted", "writing"},
                start_ts : Timestamp \cup {NoTs}, keys : Seq(Key)]
  BY DEF Idle
<1>5. Types
  BY <1>1, <1>3, <1>4 DEF Types, BackendTypeOK, Row
<1>6. \A k \in Key : TimestampsOf(committed[k]) = {}
  BY <1>1 DEF TimestampsOf
<1>7. \A k \in Key : \A t : /\ get_latest_commit_ts(committed[k]) = NoTs
                            /\ read(committed[k], t) = Tombstone
  BY <1>6 DEF get_latest_commit_ts, Newest, read, get_visible_committed
<1>8. Times
  BY <1>1, <1>3, <1>7, TimestampType DEF Times
<1>9. EveryUpdateCounts
  <2>1. \A k \in Key : {c \in done : k \in Elements(client[c].keys)} = {}
    BY <1>1
  <2> QED
    BY <1>7, <2>1, FS_EmptySet DEF EveryUpdateCounts, CounterOf
<1>10. Fits /\ Asked /\ Owned /\ Settled
  BY <1>1, <1>3 DEF Fits, Asked, Owned, Settled, Locked
<1>11. Held /\ Told
  BY <1>1, <1>2 DEF Held, Told, Answered
<1> QED
  BY <1>5, <1>8, <1>9, <1>10, <1>11 DEF RmwInv

LEMMA RmwStep ==
    ASSUME RmwInv, CommitAtApply = TRUE, [Next]_vars
    PROVE  RmwInv'
<1>1. CASE Next
  BY <1>1, BeginInv, SendCommitInv, SendAbortInv, CommitAnsweredInv, DeliverPrewriteInv,
     DeliverCommitInv, DeliverAbortInv, DeliverGuardedInv DEF Next
<1>2. CASE UNCHANGED vars
  <2>1. UNCHANGED <<store, clock, client, requests, replies, done>>
    BY <1>2 DEF vars
  <2>2. /\ \A d \in TxnId : Answered(d, "prewrite_batch", TRUE)' <=>
               Answered(d, "prewrite_batch", TRUE)
        /\ \A d \in TxnId, ok \in BOOLEAN :
              Answered(d, "commit_batch", ok)' => Answered(d, "commit_batch", ok)
    BY <2>1 DEF Answered
  <2> QED
    BY <2>1, <2>2, RefusedInv
<1> QED
  BY <1>1, <1>2

LEMMA RmwInvariant ==
    ASSUME CommitAtApply = TRUE
    PROVE  Spec => []RmwInv
<1>1. Init => RmwInv
  BY RmwInit
<1>2. RmwInv /\ [Next]_vars => RmwInv'
  BY RmwStep
<1> QED
  BY <1>1, <1>2, PTL DEF Spec

(* No update is lost and none counts twice, whichever of the two ways each   *)
(* client writes, and however its requests are lost, repeated and overtaken. *)
THEOREM NoUpdateLost ==
    ASSUME CommitAtApply = TRUE
    PROVE  Spec => []EveryUpdateCounts
<1>1. RmwInv => EveryUpdateCounts
  BY DEF RmwInv
<1> QED
  BY <1>1, RmwInvariant, PTL

(* Any answer to a commit, an error too, means that the commit took effect. *)
THEOREM CommitsFinal ==
    ASSUME CommitAtApply = TRUE
    PROVE  Spec => []CommitIsFinal
<1>1. RmwInv => CommitIsFinal
  BY DEF RmwInv, Told, CommitIsFinal
<1> QED
  BY <1>1, RmwInvariant, PTL

(* A client whose update was accepted holds no lock, and no late copy of its *)
(* prewrite takes one again.                                                 *)
THEOREM CommittedUnlocked ==
    ASSUME CommitAtApply = TRUE
    PROVE  Spec => []CommittedHoldsNoLock
<1>1. RmwInv => CommittedHoldsNoLock
  BY DEF RmwInv, Types, Begun, Owned, CommittedHoldsNoLock, LockedBy
<1> QED
  BY <1>1, RmwInvariant, PTL
=============================================================================
