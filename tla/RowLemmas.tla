------------------------------ MODULE RowLemmas ------------------------------
(***************************************************************************)
(* Facts about the operators the model is built from: maxima and minima,   *)
(* the queries of Backend on a row, what a write, a removal and a          *)
(* tombstone collapse do to a read, what the engine's checks establish     *)
(* when they succeed, what each transition of the backend changes, and the *)
(* types of a collection step.                                             *)
(***************************************************************************)
EXTENDS IncrementalGc, FiniteSetTheorems, TLAPS

(* Every non-empty set of naturals has a least element, and Min is it. *)
LEMMA MinExists ==
    ASSUME NEW S \in SUBSET Nat, S # {}
    PROVE  Min(S) \in S /\ \A y \in S : Min(S) <= y
<1> DEFINE Below(x) == {y \in S : y < x}
           T == {Below(x) : x \in S}
<1>0. \A z \in S : z \in Nat
  OBVIOUS
<1>1. \A x \in S : Below(x) \in FiniteSubsetsOf(Nat)
  <2> TAKE x \in S
  <2>1. IsFiniteSet(Below(x))
    BY FS_BoundedSetOfNaturals
  <2> QED
    BY <2>1 DEF FiniteSubsetsOf
<1>2. T \subseteq FiniteSubsetsOf(Nat) /\ T # {}
  BY <1>1
<1>3. PICK m \in T : \A b \in T : ~(<<b, m>> \in StrictSubsetOrdering(Nat))
  <2> HIDE DEF T
  <2> QED
    BY <1>2, FS_StrictSubsetOrderingWellFounded, WFMin
<1>4. PICK x \in S : m = Below(x)
  OBVIOUS
<1>5. ASSUME NEW y \in S, y < x PROVE FALSE
  <2>0. x \in Nat /\ y \in Nat
    BY <1>0
  <2>1. y \in Below(x) /\ y \notin Below(y)
    BY <1>5, <2>0
  <2>a. \A z \in S : z < y => z < x
    BY <1>0, <1>5, <2>0
  <2>b. Below(y) \subseteq Below(x)
    BY <2>a
  <2>2. <<Below(y), Below(x)>> \in StrictSubsetOrdering(Nat)
    BY <1>0, <2>1, <2>b DEF StrictSubsetOrdering
  <2> QED
    BY <2>2, <1>3, <1>4
<1>6. \A y \in S : x <= y
  BY <1>0, <1>5
<1> QED
  BY <1>6 DEF Min

(* Every non-empty set of timestamps has a greatest element: Max. *)
LEMMA MaxExists ==
    ASSUME NEW S \in SUBSET Timestamp, S # {}
    PROVE  Max(S) \in S /\ \A y \in S : y <= Max(S)
<1> DEFINE D == {MaxTs - y : y \in S}
<1>0. \A y \in S : y \in Int /\ 0 <= y /\ y <= MaxTs
  BY MaxTsAssumption DEF Timestamp
<1>1. D \in SUBSET Nat /\ D # {}
  BY <1>0, MaxTsAssumption
<1>2. Min(D) \in D /\ \A d \in D : Min(D) <= d
  BY <1>1, MinExists
<1>3. PICK x \in S : Min(D) = MaxTs - x
  BY <1>2
<1>4. \A y \in S : x >= y
  <2> TAKE y \in S
  <2>1. MaxTs - x <= MaxTs - y
    BY <1>2, <1>3
  <2> QED
    BY <1>0, <2>1, MaxTsAssumption
<1>5. Max(S) \in S /\ \A y \in S : Max(S) >= y
  BY <1>4 DEF Max
<1> QED
  BY <1>0, <1>5

(* The code's max of two numbers. *)
LEMMA MaxOfTwo ==
    ASSUME NEW a \in Int, NEW b \in Int
    PROVE  Max({a, b}) = IF a >= b THEN a ELSE b
<1>1. CASE a >= b
  <2>1. \A y \in {a, b} : a >= y
    BY <1>1
  <2>2. \A x \in {a, b} : (\A y \in {a, b} : x >= y) => x = a
    BY <1>1
  <2> QED
    BY <1>1, <2>1, <2>2 DEF Max
<1>2. CASE ~(a >= b)
  <2>1. \A y \in {a, b} : b >= y
    BY <1>2
  <2>2. \A x \in {a, b} : (\A y \in {a, b} : x >= y) => x = b
    BY <1>2
  <2> QED
    BY <1>2, <2>1, <2>2 DEF Max
<1> QED
  BY <1>1, <1>2

(* NoTs lies below every timestamp. *)
LEMMA TimestampType ==
    /\ \A t \in Timestamp : t \in Int /\ 0 <= t /\ t <= MaxTs
    /\ NoTs = -1 /\ NoTs \notin Timestamp
BY MaxTsAssumption DEF Timestamp, NoTs

(* Newest is the greatest element of a set of timestamps, NoTs if it is empty. *)
LEMMA NewestProp ==
    ASSUME NEW S \in SUBSET Timestamp
    PROVE  /\ Newest(S) \in S \cup {NoTs}
           /\ \A t \in S : t <= Newest(S)
<1>1. CASE S = {}
  BY <1>1 DEF Newest
<1>2. CASE S # {}
  BY <1>2, MaxExists DEF Newest
<1> QED
  BY <1>1, <1>2

(* get_latest_commit_ts returns a version that is there and none is newer. *)
LEMMA LatestProp ==
    ASSUME NEW row
    PROVE  LET latest == get_latest_commit_ts(row)
           IN  /\ latest \in Timestamp \cup {NoTs}
               /\ latest # NoTs => row[latest] # NoVersion
               /\ \A t \in Timestamp : row[t] # NoVersion => t <= latest
<1> DEFINE S == TimestampsOf(row)
<1>1. S \in SUBSET Timestamp
  BY DEF TimestampsOf
<1>2. Newest(S) \in S \cup {NoTs} /\ \A t \in S : t <= Newest(S)
  BY <1>1, NewestProp
<1> QED
  BY <1>2 DEF get_latest_commit_ts, TimestampsOf

(* get_visible_committed returns a version at or below read_ts, and every *)
(* other one at or below read_ts is older.                                *)
LEMMA VisibleProp ==
    ASSUME NEW row, NEW r
    PROVE  LET seen == get_visible_committed(row, r)
           IN  /\ seen \in Timestamp \cup {NoTs}
               /\ seen # NoTs => seen <= r /\ row[seen] # NoVersion
               /\ \A t \in Timestamp : row[t] # NoVersion /\ t <= r => t <= seen
<1> DEFINE S == {t \in TimestampsOf(row) : t <= r}
<1>1. S \in SUBSET Timestamp
  BY DEF TimestampsOf
<1>2. Newest(S) \in S \cup {NoTs} /\ \A t \in S : t <= Newest(S)
  BY <1>1, NewestProp
<1> QED
  BY <1>2 DEF get_visible_committed, TimestampsOf

(* ... and it is the only timestamp with these properties. *)
LEMMA VisibleUnique ==
    ASSUME NEW row, NEW r, NEW x \in Timestamp \cup {NoTs},
           x # NoTs => x <= r /\ row[x] # NoVersion,
           \A t \in Timestamp : row[t] # NoVersion /\ t <= r => t <= x
    PROVE  get_visible_committed(row, r) = x
<1> DEFINE seen == get_visible_committed(row, r)
<1>1. /\ seen \in Timestamp \cup {NoTs}
      /\ seen # NoTs => seen <= r /\ row[seen] # NoVersion
      /\ \A t \in Timestamp : row[t] # NoVersion /\ t <= r => t <= seen
  BY VisibleProp
<1> HIDE DEF seen
<1>2. x <= seen \/ x = NoTs
  BY <1>1
<1>3. seen <= x \/ seen = NoTs
  BY <1>1
<1>4. seen = x
  BY <1>1, <1>2, <1>3, TimestampType
<1> QED
  BY <1>4 DEF seen

(* Two rows read alike at r when the second has the version the first shows *)
(* and none between it and r.                                              *)
LEMMA ReadSame ==
    ASSUME NEW a, NEW b, NEW r,
           LET seen == get_visible_committed(a, r)
           IN  /\ seen # NoTs => b[seen] = a[seen]
               /\ \A t \in Timestamp : t > seen /\ t <= r => b[t] = NoVersion
    PROVE  /\ get_visible_committed(b, r) = get_visible_committed(a, r)
           /\ read(b, r) = read(a, r)
<1> DEFINE seen == get_visible_committed(a, r)
<1>1. /\ seen \in Timestamp \cup {NoTs}
      /\ seen # NoTs => seen <= r /\ a[seen] # NoVersion
  BY VisibleProp
<1>2. \A t \in Timestamp : b[t] # NoVersion /\ t <= r => t <= seen
  BY <1>1, TimestampType
<1>3. get_visible_committed(b, r) = seen
  BY <1>1, <1>2, VisibleUnique
<1> QED
  BY <1>3 DEF read

Written(row, c, m) == [row EXCEPT ![c] = m]

LEMMA WrittenAt ==
    ASSUME NEW row \in Row, NEW c \in Timestamp, NEW m, NEW t \in Timestamp
    PROVE  Written(row, c, m)[t] = IF t = c THEN m ELSE row[t]
BY DEF Written, Row

(* A write above every version of a row shows from its timestamp on. *)
LEMMA ReadAfterWrite ==
    ASSUME NEW row \in Row, NEW c \in Timestamp, NEW m \in Mutation,
           c > get_latest_commit_ts(row), NEW r \in Timestamp
    PROVE  /\ get_visible_committed(Written(row, c, m), r) =
                  IF r >= c THEN c ELSE get_visible_committed(row, r)
           /\ read(Written(row, c, m), r) = IF r >= c THEN m ELSE read(row, r)
<1> DEFINE new == Written(row, c, m)
<1>1. new[c] = m /\ \A t \in Timestamp : t # c => new[t] = row[t]
  BY DEF Row, Written
<1>2. m # NoVersion
  BY SentinelAssumption DEF Mutation
<1>3. \A t \in Timestamp : row[t] # NoVersion => t < c
  BY LatestProp, TimestampType
<1> HIDE DEF new
<1>4. CASE r >= c
  <2>1. \A t \in Timestamp : new[t] # NoVersion => t <= c
    BY <1>1, <1>3, TimestampType
  <2>2. get_visible_committed(new, r) = c
    BY <1>1, <1>2, <1>4, <2>1, VisibleUnique, TimestampType
  <2>3. read(new, r) = m
    BY <1>1, <2>2, TimestampType DEF read
  <2> QED
    BY <1>4, <2>2, <2>3 DEF new
<1>5. CASE r < c
  <2> DEFINE seen == get_visible_committed(row, r)
  <2>1. /\ seen \in Timestamp \cup {NoTs}
        /\ seen # NoTs => seen <= r
        /\ \A t \in Timestamp : row[t] # NoVersion /\ t <= r => t <= seen
    BY VisibleProp
  <2> HIDE DEF seen
  <2>2. seen # NoTs => new[seen] = row[seen]
    BY <1>1, <1>5, <2>1, TimestampType
  <2>3. \A t \in Timestamp : t > seen /\ t <= r => new[t] = NoVersion
    BY <1>1, <1>5, <2>1, TimestampType
  <2>4. /\ get_visible_committed(new, r) = get_visible_committed(row, r)
        /\ read(new, r) = read(row, r)
    BY <2>2, <2>3, ReadSame DEF seen
  <2> QED
    BY <1>5, <2>4, TimestampType DEF new
<1> QED
  BY <1>4, <1>5, TimestampType

(* ... and is the newest version. *)
LEMMA LatestAfterWrite ==
    ASSUME NEW row \in Row, NEW c \in Timestamp, NEW m \in Mutation,
           c > get_latest_commit_ts(row)
    PROVE  get_latest_commit_ts(Written(row, c, m)) = c
<1> DEFINE new == Written(row, c, m)
           latest == get_latest_commit_ts(new)
<1>1. \A t \in Timestamp : new[t] = IF t = c THEN m ELSE row[t]
  BY WrittenAt
<1>2. m # NoVersion
  BY SentinelAssumption DEF Mutation
<1>3. \A t \in Timestamp : row[t] # NoVersion => t < c
  BY LatestProp, TimestampType
<1>4. /\ latest \in Timestamp \cup {NoTs}
      /\ latest # NoTs => new[latest] # NoVersion
      /\ \A t \in Timestamp : new[t] # NoVersion => t <= latest
  BY LatestProp
<1> HIDE DEF new, latest
<1>5. latest \in Timestamp /\ c <= latest
  BY <1>1, <1>2, <1>4, TimestampType
<1>6. latest = c
  BY <1>1, <1>3, <1>4, <1>5, TimestampType
<1> QED
  BY <1>6 DEF new, latest

-----------------------------------------------------------------------------
(* Pages: NewestN and FirstN. *)

LEMMA FiniteTimestamps ==
    ASSUME NEW S \in SUBSET Timestamp
    PROVE  IsFiniteSet(S) /\ Cardinality(S) \in Nat
<1>1. IsFiniteSet(Timestamp)
  BY FS_Interval, MaxTsAssumption DEF Timestamp
<1>2. IsFiniteSet(S)
  BY <1>1, FS_Subset
<1> QED
  BY <1>2, FS_CardinalityType

(* A page of n timestamps has at most n elements. *)
LEMMA NewestNCard ==
    ASSUME NEW S \in SUBSET Timestamp, NEW n \in Nat
    PROVE  /\ NewestN(S, n) \in SUBSET S
           /\ Cardinality(NewestN(S, n)) \in Nat
           /\ Cardinality(NewestN(S, n)) <= n
<1> DEFINE N == NewestN(S, n)
<1>1. N \in SUBSET S /\ N \in SUBSET Timestamp
  BY DEF NewestN
<1>2. IsFiniteSet(N) /\ Cardinality(N) \in Nat
  BY <1>1, FiniteTimestamps
<1>3. CASE N = {}
  BY <1>1, <1>2, <1>3, FS_EmptySet
<1>4. CASE N # {}
  <2>1. \A z \in N : z \in Nat
    BY <1>1, TimestampType
  <2>2. PICK x \in N : \A y \in N : x <= y
    BY <1>4, <2>1, MinExists
  <2> DEFINE U == {u \in S : u > x}
  <2>3. Cardinality(U) < n
    BY <2>2 DEF NewestN
  <2>4. IsFiniteSet(U) /\ Cardinality(U) \in Nat
    BY FiniteTimestamps
  <2>5. IsFiniteSet(U \cup {x}) /\ Cardinality(U \cup {x}) = Cardinality(U) + 1
    <3>1. x \notin U
      BY <2>1, <2>2
    <3> QED
      BY <2>4, <3>1, FS_AddElement
  <2>6. N \in SUBSET (U \cup {x})
    <3>1. \A y \in N : y = x \/ y > x
      BY <2>1, <2>2
    <3>2. \A y \in N : y \in S
      BY <1>1
    <3> QED
      BY <3>1, <3>2
  <2>7. Cardinality(N) <= Cardinality(U \cup {x})
    BY <2>5, <2>6, FS_Subset
  <2> QED
    BY <1>1, <1>2, <2>3, <2>4, <2>5, <2>7
<1> QED
  BY <1>3, <1>4

(* A page of n + 1 that comes back with at most n elements is everything. *)
LEMMA NewestNComplete ==
    ASSUME NEW S \in SUBSET Timestamp, NEW n \in Nat,
           Cardinality(NewestN(S, n + 1)) <= n
    PROVE  NewestN(S, n + 1) = S
<1> DEFINE N == NewestN(S, n + 1)
           M == S \ N
<1>1. N \in SUBSET S
  BY DEF NewestN
<1> SUFFICES ASSUME M # {} PROVE FALSE
  BY <1>1
<1>2. PICK x \in M : \A y \in M : y <= x
  BY MaxExists
<1> DEFINE U == {u \in S : u > x}
<1>3. IsFiniteSet(U) /\ Cardinality(U) \in Nat /\ IsFiniteSet(N) /\ Cardinality(N) \in Nat
  BY <1>1, FiniteTimestamps
<1>4. ~(Cardinality(U) < n + 1)
  BY <1>2 DEF NewestN
<1>5. U \in SUBSET N
  <2>1. \A u \in S : u \in Int
    BY TimestampType
  <2> SUFFICES ASSUME NEW u \in S, u > x, u \notin N PROVE FALSE
    OBVIOUS
  <2> QED
    BY <1>2, <2>1
<1>6. Cardinality(U) <= Cardinality(N)
  BY <1>3, <1>5, FS_Subset
<1> QED
  BY <1>3, <1>4, <1>6

(* A page of n that could hold everything does. *)
LEMMA NewestNAll ==
    ASSUME NEW S \in SUBSET Timestamp, NEW n \in Nat, Cardinality(S) <= n
    PROVE  NewestN(S, n) = S
<1> SUFFICES ASSUME NEW t \in S
             PROVE  Cardinality({u \in S : u > t}) < n
  BY DEF NewestN
<1> DEFINE U == {u \in S : u > t}
<1>1. IsFiniteSet(S) /\ Cardinality(S) \in Nat
  BY FiniteTimestamps
<1>2. t \notin U
  BY TimestampType
<1>3. U \in SUBSET S /\ U # S
  BY <1>2
<1>4. Cardinality(U) \in Nat /\ Cardinality(U) < Cardinality(S)
  BY <1>1, <1>3, FS_Subset, FiniteTimestamps
<1> QED
  BY <1>1, <1>4

(* A page of keys in ascending order has no gap: it holds every key below   *)
(* one that it holds.                                                       *)
LEMMA FirstNDown ==
    ASSUME NEW S \in SUBSET Nat, NEW n \in Nat, NEW k \in FirstN(S, n),
           NEW j \in S, j < k
    PROVE  j \in FirstN(S, n)
<1> DEFINE A == {i \in S : i < j}
           B == {i \in S : i < k}
<1>0. k \in S /\ Cardinality(B) < n
  BY DEF FirstN
<1>1. IsFiniteSet(B)
  BY <1>0, FS_BoundedSetOfNaturals
<1>2. A \in SUBSET B
  <2>1. \A i \in S : i < j => i < k
    BY <1>0
  <2> QED
    BY <2>1
<1>3. /\ Cardinality(A) \in Nat /\ Cardinality(B) \in Nat
      /\ Cardinality(A) <= Cardinality(B)
  BY <1>1, <1>2, FS_Subset, FS_CardinalityType
<1>4. Cardinality(A) < n
  BY <1>0, <1>3
<1> QED
  BY <1>4 DEF FirstN

(* Every non-empty set of naturals below x has a greatest element. *)
LEMMA GreatestBelow ==
    ASSUME NEW S \in SUBSET Nat, NEW x \in Nat, S # {}, \A y \in S : y < x
    PROVE  \E m \in S : \A y \in S : y <= m
<1> DEFINE D == {x - y : y \in S}
<1>1. D \in SUBSET Nat /\ D # {}
  OBVIOUS
<1>2. Min(D) \in D /\ \A d \in D : Min(D) <= d
  BY <1>1, MinExists
<1>3. PICK m \in S : Min(D) = x - m
  BY <1>2
<1>4. \A y \in S : y <= m
  <2> TAKE y \in S
  <2>1. x - m <= x - y
    BY <1>2, <1>3
  <2> QED
    BY <2>1
<1> QED
  BY <1>4

(* One key more than n is asked for: a page that the first n keys of it make *)
(* up entirely is the last.                                                  *)
LEMMA FirstNComplete ==
    ASSUME NEW S \in SUBSET Nat, NEW n \in Nat,
           FirstN(FirstN(S, n + 1), n) = FirstN(S, n + 1)
    PROVE  FirstN(S, n + 1) = S
<1> DEFINE K == FirstN(S, n + 1)
           M == S \ K
<1>1. K \in SUBSET S
  BY DEF FirstN
<1> SUFFICES ASSUME M # {} PROVE FALSE
  BY <1>1
<1>2. PICK x \in M : \A y \in M : x <= y
  BY MinExists
<1>3. \A k \in K : k < x
  <2> SUFFICES ASSUME NEW k \in K, ~(k < x) PROVE FALSE
    OBVIOUS
  <2>1. k \in S /\ x \in S /\ x \notin K /\ k # x
    BY <1>1
  <2>2. x < k
    BY <2>1
  <2>3. x \in FirstN(S, n + 1)
    BY <2>1, <2>2, FirstNDown
  <2> QED
    BY <2>1, <2>3
<1>4. K = {j \in S : j < x}
  <2>1. \A j \in S : j < x => j \in K
    BY <1>2
  <2> QED
    BY <1>1, <1>3, <2>1
<1>5. ~(Cardinality(K) < n + 1)
  <2>1. ~(Cardinality({j \in S : j < x}) < n + 1)
    BY DEF FirstN
  <2> HIDE DEF K
  <2> QED
    BY <1>4, <2>1
<1>6. IsFiniteSet(K) /\ Cardinality(K) \in Nat
  <2>1. x \in Nat /\ K \in SUBSET Nat
    BY <1>1
  <2> HIDE DEF K, M
  <2>2. \A k \in K : k <= x
    BY <1>3, <2>1
  <2>3. IsFiniteSet(K)
    BY <2>1, <2>2, FS_BoundedSetOfNaturals
  <2> QED
    BY <2>3, FS_CardinalityType
<1> HIDE DEF K
<1>7. K # {}
  BY <1>5, FS_EmptySet
<1>8. PICK m \in K : \A y \in K : y <= m
  BY <1>1, <1>3, <1>7, GreatestBelow
<1> DEFINE L == {j \in K : j < m}
<1>9. L = K \ {m}
  <2>1. \A j \in K : j \in Nat
    BY <1>1
  <2> QED
    BY <1>8, <2>1
<1>10. Cardinality(L) = Cardinality(K) - 1
  BY <1>6, <1>9, FS_RemoveElement
<1>11. Cardinality(L) < n
  <2>1. m \in FirstN(K, n)
    BY DEF K
  <2> QED
    BY <2>1 DEF FirstN
<1> QED
  BY <1>5, <1>6, <1>10, <1>11

-----------------------------------------------------------------------------
(* Removing versions. *)

Pruned(row, S) == [t \in Timestamp |-> IF t \in S THEN NoVersion ELSE row[t]]

\* What every reader at or above w sees of a row stays, or it is a tombstone
\* and nothing that this reader could see instead stays.
Harmless(row, S, w) ==
    \A r \in Timestamp : r >= w =>
        LET seen == get_visible_committed(row, r)
        IN  \/ seen \notin S
            \/ /\ row[seen] = Tombstone
               /\ \A t \in TimestampsOf(row) : t <= r => t \in S

(* What a safe point shows stays what it shows, if it is not removed itself. *)
LEMMA KeeperStays ==
    ASSUME NEW row, NEW S, NEW safe, get_visible_committed(row, safe) \notin S
    PROVE  get_visible_committed(Pruned(row, S), safe) = get_visible_committed(row, safe)
<1> DEFINE keeper == get_visible_committed(row, safe)
<1>1. /\ keeper \in Timestamp \cup {NoTs}
      /\ \A u \in Timestamp : row[u] # NoVersion /\ u <= safe => u <= keeper
  BY VisibleProp
<1>2. keeper \notin S
  OBVIOUS
<1> HIDE DEF keeper
<1>3. keeper # NoTs => Pruned(row, S)[keeper] = row[keeper]
  BY <1>1, <1>2 DEF Pruned
<1>4. \A u \in Timestamp : u > keeper /\ u <= safe => Pruned(row, S)[u] = NoVersion
  BY <1>1, TimestampType DEF Pruned
<1> QED
  BY <1>3, <1>4, ReadSame DEF keeper

(* Removing versions older than a stored one leaves alone what readers at or *)
(* above that one see, and the newest version.                               *)
LEMMA OlderGone ==
    ASSUME NEW row, NEW keeper \in Timestamp, row[keeper] # NoVersion,
           NEW S, \A t \in S : t < keeper
    PROVE  /\ \A r \in Timestamp : r >= keeper =>
                 get_visible_committed(Pruned(row, S), r) = get_visible_committed(row, r)
           /\ get_latest_commit_ts(Pruned(row, S)) = get_latest_commit_ts(row)
<1>1. ASSUME NEW r \in Timestamp, r >= keeper
      PROVE  get_visible_committed(Pruned(row, S), r) = get_visible_committed(row, r)
  <2> DEFINE seen == get_visible_committed(row, r)
  <2>1. seen \in Timestamp \cup {NoTs} /\ keeper <= seen
    BY <1>1, VisibleProp
  <2> HIDE DEF seen
  <2>2. seen \notin S
    BY <2>1, TimestampType
  <2> QED
    BY <2>2, KeeperStays DEF seen
<1>2. MaxTs \in Timestamp /\ MaxTs >= keeper
  BY MaxTsAssumption DEF Timestamp
<1>3. ASSUME NEW any
      PROVE  get_latest_commit_ts(any) = get_visible_committed(any, MaxTs)
  <2>1. {t \in TimestampsOf(any) : t <= MaxTs} = TimestampsOf(any)
    BY DEF TimestampsOf, Timestamp
  <2> QED
    BY <2>1 DEF get_latest_commit_ts, get_visible_committed
<1> QED
  BY <1>1, <1>2, <1>3

(* A harmless removal changes no read, and no version that is seen, except *)
(* that a tombstone may become no version at all.                          *)
LEMMA ReadAfterRemoval ==
    ASSUME NEW row, NEW S, NEW w, NEW r \in Timestamp, r >= w, Harmless(row, S, w)
    PROVE  LET new == Pruned(row, S)
           IN  \/ /\ get_visible_committed(new, r) = get_visible_committed(row, r)
                  /\ read(new, r) = read(row, r)
               \/ /\ get_visible_committed(new, r) = NoTs
                  /\ read(row, r) = Tombstone /\ read(new, r) = Tombstone
<1> DEFINE seen == get_visible_committed(row, r)
           new == Pruned(row, S)
<1>1. /\ seen \in Timestamp \cup {NoTs}
      /\ seen # NoTs => seen <= r /\ row[seen] # NoVersion
      /\ \A t \in Timestamp : row[t] # NoVersion /\ t <= r => t <= seen
  BY VisibleProp
<1>2. \/ seen \notin S
      \/ row[seen] = Tombstone /\ \A t \in TimestampsOf(row) : t <= r => t \in S
  BY DEF Harmless
<1>a. read(row, r) = IF seen = NoTs THEN Tombstone ELSE row[seen]
  BY DEF read
<1> HIDE DEF seen
<1>3. \A t \in Timestamp : t > seen /\ t <= r => new[t] = NoVersion
  BY <1>1, TimestampType DEF Pruned
<1>4. CASE seen = NoTs \/ seen \notin S
  <2>1. seen # NoTs => new[seen] = row[seen]
    BY <1>1, <1>4 DEF Pruned
  <2> HIDE DEF new
  <2>2. /\ get_visible_committed(new, r) = get_visible_committed(row, r)
        /\ read(new, r) = read(row, r)
    BY <1>3, <2>1, ReadSame DEF seen
  <2> QED
    BY <2>2 DEF new
<1>5. CASE seen # NoTs /\ seen \in S
  <2>1. row[seen] = Tombstone /\ \A t \in TimestampsOf(row) : t <= r => t \in S
    BY <1>2, <1>5
  <2>2. \A t \in Timestamp : t <= r => new[t] = NoVersion
    BY <2>1 DEF Pruned, TimestampsOf
  <2> HIDE DEF new
  <2>3. get_visible_committed(new, r) = NoTs
    BY <2>2, VisibleUnique
  <2>4. read(row, r) = Tombstone /\ read(new, r) = Tombstone
    BY <1>a, <1>5, <2>1, <2>3 DEF read
  <2> QED
    BY <2>3, <2>4 DEF new
<1> QED
  BY <1>4, <1>5

(* Removing versions older than the keeper of a safe point is harmless to  *)
(* readers at or above the safe point.                                     *)
LEMMA PruneHarmless ==
    ASSUME NEW row, NEW safe \in Timestamp, NEW w \in Int, safe <= w, NEW S,
           get_visible_committed(row, safe) # NoTs,
           \A t \in S : t < get_visible_committed(row, safe)
    PROVE  Harmless(row, S, w)
<1> DEFINE keeper == get_visible_committed(row, safe)
<1>1. keeper \in Timestamp /\ keeper <= safe /\ row[keeper] # NoVersion
  BY VisibleProp
<1>2. \A t \in S : t < keeper
  OBVIOUS
<1> HIDE DEF keeper
<1> SUFFICES ASSUME NEW r \in Timestamp, r >= w
             PROVE  get_visible_committed(row, r) \notin S
  BY DEF Harmless
<1> DEFINE seen == get_visible_committed(row, r)
<1>3. /\ seen \in Timestamp \cup {NoTs}
      /\ \A t \in Timestamp : row[t] # NoVersion /\ t <= r => t <= seen
  BY VisibleProp
<1> HIDE DEF seen
<1>4. keeper <= seen
  BY <1>1, <1>3, TimestampType
<1>5. seen \notin S
  BY <1>1, <1>2, <1>3, <1>4, TimestampType
<1> QED
  BY <1>5 DEF seen

(* Removing a final tombstone and every older version is harmless too: both *)
(* before and after, the key reads as absent.                               *)
LEMMA CollapseHarmless ==
    ASSUME NEW row, NEW safe \in Timestamp, NEW w \in Int, safe <= w, NEW S,
           get_visible_committed(row, safe) # NoTs,
           get_visible_committed(row, safe) = get_latest_commit_ts(row),
           row[get_visible_committed(row, safe)] = Tombstone,
           TimestampsOf(row) \subseteq S
    PROVE  Harmless(row, S, w)
<1> DEFINE keeper == get_visible_committed(row, safe)
<1>1. /\ keeper \in Timestamp /\ keeper <= safe /\ row[keeper] # NoVersion
      /\ row[keeper] = Tombstone
  BY VisibleProp
<1>2. \A t \in Timestamp : row[t] # NoVersion => t <= keeper
  BY LatestProp
<1> HIDE DEF keeper
<1> SUFFICES ASSUME NEW r \in Timestamp, r >= w
             PROVE  row[get_visible_committed(row, r)] = Tombstone
  BY DEF Harmless
<1>3. get_visible_committed(row, r) = keeper
  BY <1>1, <1>2, VisibleUnique, TimestampType
<1> QED
  BY <1>1, <1>3

-----------------------------------------------------------------------------
(* Validation loops. *)

(* FirstError returns something fine only if every result is fine. *)
LEMMA FirstErrorOk ==
    ASSUME NEW results, NEW n \in Nat, DOMAIN results = 1 .. n,
           NEW fine, FirstError(results, fine) \in fine
    PROVE  \A i \in DOMAIN results : results[i] \in fine
<1> DEFINE bad == {i \in DOMAIN results : results[i] \notin fine}
<1>1. CASE bad = {}
  BY <1>1
<1>2. CASE bad # {}
  <2>1. bad \in SUBSET Nat
    OBVIOUS
  <2>2. Min(bad) \in bad
    BY <1>2, <2>1, MinExists
  <2>3. results[Min(bad)] \in fine
    BY <1>2 DEF FirstError
  <2> QED
    BY <2>2, <2>3
<1> QED
  BY <1>1, <1>2

-----------------------------------------------------------------------------
(* What a successful validation establishes. *)

LEMMA LatestInt ==
    \A k \in Key : get_latest_commit_ts(committed[k]) \in Int
BY LatestProp, TimestampType

LEMMA PrewriteOk ==
    ASSUME NEW txn_id, NEW start_ts \in Timestamp, NEW k \in Key, NEW m,
           CheckPrewrite(txn_id, start_ts, k, m) = "Ok"
    PROVE  ~Locked(k) /\ get_latest_commit_ts(committed[k]) <= start_ts
<1>1. ~Locked(k) /\ ~(get_latest_commit_ts(committed[k]) > start_ts)
  BY DEF CheckPrewrite
<1> QED
  BY <1>1, LatestInt, TimestampType

LEMMA NewIntentType ==
    ASSUME NEW txn_id \in TxnId, NEW start_ts \in Timestamp, NEW m \in Mutation,
           NEW min \in Timestamp \cup {NoTs}
    PROVE  /\ NewIntent(txn_id, start_ts, m, min) \in Intent
           /\ NewIntent(txn_id, start_ts, m, min).txn_id = txn_id
           /\ NewIntent(txn_id, start_ts, m, min).start_ts = start_ts
BY DEF NewIntent, Intent

(* The keys and values of a batch. *)
LEMMA BatchTypes ==
    ASSUME NEW writes \in Seq(Write)
    PROVE  /\ Len(writes) \in Nat
           /\ DOMAIN writes = 1 .. Len(writes)
           /\ \A i \in DOMAIN writes : writes[i].key \in Key /\ writes[i].value \in Mutation
           /\ Elements(KeysOf(writes)) = {writes[i].key : i \in DOMAIN writes}
           /\ Elements(KeysOf(writes)) \in SUBSET Key
           /\ AsFunction(writes) \in [Elements(KeysOf(writes)) -> Mutation]
<1>1. Len(writes) \in Nat /\ DOMAIN writes = 1 .. Len(writes)
  OBVIOUS
<1>2. \A i \in DOMAIN writes : writes[i] \in Write
  BY <1>1
<1>3. \A i \in DOMAIN writes : writes[i].key \in Key /\ writes[i].value \in Mutation
  BY <1>2 DEF Write
<1>4. Elements(KeysOf(writes)) = {writes[i].key : i \in DOMAIN writes}
  BY DEF Elements, KeysOf
<1>5. Elements(KeysOf(writes)) \in SUBSET Key
  BY <1>3, <1>4
<1>6. ASSUME NEW k \in Elements(KeysOf(writes))
      PROVE  writes[CHOOSE i \in DOMAIN writes : writes[i].key = k].value \in Mutation
  BY <1>3, <1>4
<1>7. AsFunction(writes) \in [Elements(KeysOf(writes)) -> Mutation]
  BY <1>6 DEF AsFunction
<1> QED
  BY <1>1, <1>3, <1>4, <1>5, <1>7

LEMMA KeyListTypes ==
    ASSUME NEW keys \in Seq(Key)
    PROVE  /\ Len(keys) \in Nat /\ DOMAIN keys = 1 .. Len(keys)
           /\ Elements(keys) \in SUBSET Key
           /\ \A k \in Elements(keys) : \E i \in DOMAIN keys : keys[i] = k
BY DEF Elements

LEMMA PrewriteBatchOk ==
    ASSUME NEW txn_id, NEW start_ts \in Timestamp, NEW writes \in Seq(Write),
           PrewriteBatchResult(txn_id, start_ts, writes) = "Ok"
    PROVE  \A k \in Elements(KeysOf(writes)) :
               ~Locked(k) /\ get_latest_commit_ts(committed[k]) <= start_ts
<1> DEFINE checks == [i \in DOMAIN writes |->
                        CheckPrewrite(txn_id, start_ts, writes[i].key, writes[i].value)]
<1>1. FirstError(checks, {"Ok", "Replay"}) = "Ok" /\ "Replay" \notin Elements(checks)
  BY DEF PrewriteBatchResult
<1>2. DOMAIN checks = 1 .. Len(writes) /\ Len(writes) \in Nat
  BY BatchTypes
<1>3. \A i \in DOMAIN checks : checks[i] \in {"Ok", "Replay"}
  <2> HIDE DEF checks
  <2> QED
    BY <1>1, <1>2, FirstErrorOk
<1>4. \A i \in DOMAIN writes : checks[i] = "Ok"
  BY <1>1, <1>3 DEF Elements
<1>5. \A i \in DOMAIN writes : /\ ~Locked(writes[i].key)
                               /\ get_latest_commit_ts(committed[writes[i].key]) <= start_ts
  BY <1>4, BatchTypes, PrewriteOk
<1> QED
  BY <1>5, BatchTypes

LEMMA CheckWritesOk ==
    ASSUME NEW c \in Timestamp, NEW writes \in Seq(Write), CheckWrites(c, writes) = "Ok"
    PROVE  \A k \in Elements(KeysOf(writes)) :
               ~Locked(k) /\ c > get_latest_commit_ts(committed[k])
<1> DEFINE checks == [i \in DOMAIN writes |-> CheckWrite(c, writes[i].key)]
<1>1. FirstError(checks, {"Ok"}) = "Ok"
  BY DEF CheckWrites
<1>2. DOMAIN checks = 1 .. Len(writes) /\ Len(writes) \in Nat
  BY BatchTypes
<1>3. \A i \in DOMAIN checks : checks[i] \in {"Ok"}
  <2> HIDE DEF checks
  <2> QED
    BY <1>1, <1>2, FirstErrorOk
<1>4. \A i \in DOMAIN writes : CheckWrite(c, writes[i].key) = "Ok"
  BY <1>3
<1>5. \A i \in DOMAIN writes : /\ ~Locked(writes[i].key)
                               /\ ~(c <= get_latest_commit_ts(committed[writes[i].key]))
  BY <1>4 DEF CheckWrite
<1> QED
  BY <1>5, BatchTypes, LatestInt, TimestampType

(* The ownership and timestamp checks that commit and commit_batch share. *)
LEMMA CommitKeyOk ==
    ASSUME NEW txn_id, NEW start_ts, NEW c \in Timestamp, NEW k \in Key,
           CheckOwner(txn_id, start_ts, k) = "Ok", CheckCommitTs(k, c) = "Ok", BackendTypeOK
    PROVE  /\ LockedBy(k, txn_id, start_ts)
           /\ c >= intents[k].min_commit_ts
           /\ c > get_latest_commit_ts(committed[k])
<1>1. LockedBy(k, txn_id, start_ts)
  BY DEF CheckOwner, LockedBy
<1>2. intents[k].min_commit_ts \in Int
  BY <1>1, TimestampType DEF LockedBy, Locked, BackendTypeOK, Intent
<1>3. /\ ~(c < intents[k].min_commit_ts)
      /\ c # get_latest_commit_ts(committed[k])
      /\ ~(c < get_latest_commit_ts(committed[k]))
  BY DEF CheckCommitTs
<1> QED
  BY <1>1, <1>2, <1>3, LatestInt, TimestampType

LEMMA CommitBatchOk ==
    ASSUME NEW txn_id, NEW start_ts \in Timestamp, NEW c \in Timestamp,
           NEW keys \in Seq(Key), BackendTypeOK,
           CommitBatchResult(txn_id, start_ts, c, keys) = "Ok"
    PROVE  /\ c > start_ts
           /\ \A k \in Elements(keys) :
                 /\ LockedBy(k, txn_id, start_ts)
                 /\ c >= intents[k].min_commit_ts
                 /\ c > get_latest_commit_ts(committed[k])
<1> DEFINE checks == [i \in DOMAIN keys |-> CheckCommitKey(txn_id, start_ts, c, keys[i])]
<1>1. FirstError(checks, {"Ok"}) = "Ok" /\ ~(c <= start_ts)
  BY DEF CommitBatchResult
<1>2. DOMAIN checks = 1 .. Len(keys) /\ Len(keys) \in Nat
  BY KeyListTypes
<1>3. \A i \in DOMAIN checks : checks[i] \in {"Ok"}
  <2> HIDE DEF checks
  <2> QED
    BY <1>1, <1>2, FirstErrorOk
<1>4. \A i \in DOMAIN keys : CheckCommitKey(txn_id, start_ts, c, keys[i]) = "Ok"
  BY <1>3
<1>5. \A i \in DOMAIN keys : /\ CheckOwner(txn_id, start_ts, keys[i]) = "Ok"
                             /\ CheckCommitTs(keys[i], c) = "Ok"
  BY <1>4 DEF CheckCommitKey
<1>6. \A k \in Elements(keys) : /\ k \in Key
                                /\ CheckOwner(txn_id, start_ts, k) = "Ok"
                                /\ CheckCommitTs(k, c) = "Ok"
  BY <1>5, KeyListTypes
<1>7. c > start_ts
  BY <1>1, TimestampType
<1> QED
  BY <1>6, <1>7, CommitKeyOk

-----------------------------------------------------------------------------
(* What a transition stores. *)

LEMMA WithVersionsProp ==
    ASSUME NEW D \in SUBSET Key, NEW versions \in [D -> Mutation], NEW c \in Timestamp,
           BackendTypeOK
    PROVE  /\ WithVersions(versions, c) \in [Key -> Row]
           /\ \A k \in D : /\ WithVersions(versions, c)[k] =
                                 Written(committed[k], c, versions[k])
                           /\ TimestampsOf(WithVersions(versions, c)[k]) # {}
           /\ \A k \in Key \ D : WithVersions(versions, c)[k] = committed[k]
<1> DEFINE rows == WithVersions(versions, c)
<1>1. DOMAIN versions = D
  OBVIOUS
<1>2. rows = [k \in Key |-> IF k \in D THEN Written(committed[k], c, versions[k])
                            ELSE committed[k]]
  BY <1>1 DEF WithVersions, Overlay, Written
<1>3. \A k \in Key : committed[k] \in Row
  BY DEF BackendTypeOK
<1>4. \A k \in D : /\ Written(committed[k], c, versions[k]) \in Row
                   /\ Written(committed[k], c, versions[k])[c] # NoVersion
  BY <1>3, SentinelAssumption DEF Row, Mutation, Written
<1>5. rows \in [Key -> Row]
  BY <1>2, <1>3, <1>4
<1>6. \A k \in D : rows[k] = Written(committed[k], c, versions[k])
  BY <1>2
<1>7. \A k \in D : TimestampsOf(rows[k]) # {}
  BY <1>4, <1>6 DEF TimestampsOf
<1>8. \A k \in Key \ D : rows[k] = committed[k]
  BY <1>2
<1> QED
  BY <1>5, <1>6, <1>7, <1>8

LEMMA IntentVersionsType ==
    ASSUME BackendTypeOK, NEW D \in SUBSET Key, \A k \in D : Locked(k)
    PROVE  IntentVersions(D) \in [D -> Mutation]
BY DEF BackendTypeOK, Locked, IntentVersions, Intent

(* From its newest version on, a row reads the same at every time. *)
LEMMA ReadSettled ==
    ASSUME NEW row \in Row, NEW r \in Timestamp, NEW s \in Timestamp,
           get_latest_commit_ts(row) <= r, get_latest_commit_ts(row) <= s
    PROVE  read(row, r) = read(row, s)
<1> DEFINE latest == get_latest_commit_ts(row)
<1>1. /\ latest \in Timestamp \cup {NoTs}
      /\ latest # NoTs => row[latest] # NoVersion
      /\ \A t \in Timestamp : row[t] # NoVersion => t <= latest
  BY LatestProp
<1>2. latest <= r /\ latest <= s
  OBVIOUS
<1> HIDE DEF latest
<1>3. get_visible_committed(row, r) = latest
  BY <1>1, <1>2, VisibleUnique, TimestampType
<1>4. get_visible_committed(row, s) = latest
  BY <1>1, <1>2, VisibleUnique, TimestampType
<1> QED
  BY <1>3, <1>4 DEF read

LEMMA SomeElement ==
    ASSUME NEW keys \in Seq(Key), keys # <<>>
    PROVE  \E k : k \in Elements(keys)
<1>1. Len(keys) \in Nat /\ DOMAIN keys = 1 .. Len(keys) /\ Len(keys) # 0
  OBVIOUS
<1>2. 1 \in DOMAIN keys
  BY <1>1
<1> QED
  BY <1>2 DEF Elements

LEMMA PrewriteReplayed ==
    ASSUME NEW txn_id, NEW start_ts, NEW writes \in Seq(Write),
           PrewriteBatchResult(txn_id, start_ts, writes) = "Replay"
    PROVE  /\ writes # <<>> /\ ~HasDuplicates(KeysOf(writes))
           /\ \A k \in Elements(KeysOf(writes)) : LockedBy(k, txn_id, start_ts)
<1> DEFINE checks == [i \in DOMAIN writes |->
                        CheckPrewrite(txn_id, start_ts, writes[i].key, writes[i].value)]
           error  == FirstError(checks, {"Ok", "Replay"})
<1>1. DOMAIN checks = 1 .. Len(writes) /\ Len(writes) \in Nat
  BY BatchTypes
<1>2. writes # <<>> /\ ~HasDuplicates(KeysOf(writes))
  BY DEF PrewriteBatchResult
<1>3. (error # "Ok" /\ error = "Replay") \/ Elements(checks) = {"Replay"}
  BY <1>2 DEF PrewriteBatchResult
<1>4. error = "Replay" => error = "Ok"
  <2> SUFFICES ASSUME error = "Replay" PROVE error = "Ok"
    OBVIOUS
  <2> HIDE DEF checks
  <2>1. \A i \in DOMAIN checks : checks[i] \in {"Ok", "Replay"}
    BY <1>1, FirstErrorOk
  <2> QED
    BY <2>1 DEF FirstError
<1>5. \A i \in DOMAIN writes : checks[i] = "Replay"
  BY <1>3, <1>4 DEF Elements
<1>6. \A i \in DOMAIN writes : LockedBy(writes[i].key, txn_id, start_ts)
  BY <1>5 DEF CheckPrewrite, LockedBy
<1> QED
  BY <1>2, <1>6, BatchTypes

LEMMA IntentFields ==
    ASSUME NEW txn_id, NEW start_ts, NEW m, NEW min
    PROVE  /\ NewIntent(txn_id, start_ts, m, min).mutation = m
           /\ NewIntent(txn_id, start_ts, m, min).min_commit_ts = min
BY DEF NewIntent

-----------------------------------------------------------------------------
(* The transitions of the backend.  Each keeps the types and the exactness *)
(* of the key index, and touches the rows and locks it names only.         *)

StoreOK == BackendTypeOK /\ IndexExact

LEMMA StoreInit ==
    ASSUME BackendInit
    PROVE  StoreOK
BY DEF BackendInit, StoreOK, BackendTypeOK, IndexExact, Locked, TimestampsOf, Row

LEMMA StoreSame ==
    ASSUME StoreOK, UNCHANGED store
    PROVE  StoreOK'
BY DEF StoreOK, BackendTypeOK, IndexExact, Locked, TimestampsOf, store

LEMMA PutIntents ==
    ASSUME StoreOK, NEW D \in SUBSET Key, NEW new \in [D -> Intent], put_intents_batch(new)
    PROVE  /\ StoreOK'
           /\ committed' = committed
           /\ \A k \in D : intents'[k] = new[k]
           /\ \A k \in Key \ D : intents'[k] = intents[k]
<1>1. /\ intents' = [k \in Key |-> IF k \in D THEN new[k] ELSE intents[k]]
      /\ all_keys_set' = all_keys_set \cup D
      /\ committed' = committed
  BY DEF put_intents_batch, Overlay
<1>2. \A k \in D : new[k] # NoIntent
  BY IntentAssumption
<1>3. BackendTypeOK'
  BY <1>1 DEF StoreOK, BackendTypeOK
<1>4. IndexExact'
  BY <1>1, <1>2 DEF StoreOK, IndexExact, Locked
<1> QED
  BY <1>1, <1>3, <1>4 DEF StoreOK

LEMMA PutVersions ==
    ASSUME StoreOK, NEW D \in SUBSET Key, NEW versions \in [D -> Mutation],
           NEW c \in Timestamp, put_committed_batch(versions, c)
    PROVE  /\ StoreOK'
           /\ intents' = intents
           /\ \A k \in D : committed'[k] = Written(committed[k], c, versions[k])
           /\ \A k \in Key \ D : committed'[k] = committed[k]
<1> DEFINE rows == WithVersions(versions, c)
<1>1. /\ committed' = rows
      /\ all_keys_set' = all_keys_set \cup D
      /\ intents' = intents
  BY DEF put_committed_batch
<1>2. /\ rows \in [Key -> Row]
      /\ \A k \in D : rows[k] = Written(committed[k], c, versions[k])
      /\ \A k \in D : TimestampsOf(rows[k]) # {}
      /\ \A k \in Key \ D : rows[k] = committed[k]
  BY WithVersionsProp DEF StoreOK
<1> HIDE DEF rows
<1>3. BackendTypeOK'
  BY <1>1, <1>2 DEF StoreOK, BackendTypeOK
<1>4. IndexExact'
  BY <1>1, <1>2 DEF StoreOK, IndexExact, Locked
<1> QED
  BY <1>1, <1>2, <1>3, <1>4 DEF StoreOK

LEMMA CommitIntents ==
    ASSUME StoreOK, NEW D \in SUBSET Key, NEW c \in Timestamp, NEW txn_id, NEW start_ts,
           \A k \in D : LockedBy(k, txn_id, start_ts),
           commit_intents_batch(IntentVersions(D), c, txn_id, start_ts)
    PROVE  /\ StoreOK'
           /\ \A k \in D : /\ intents'[k] = NoIntent
                           /\ committed'[k] = Written(committed[k], c, intents[k].mutation)
                           /\ intents[k].mutation \in Mutation
           /\ \A k \in Key \ D : intents'[k] = intents[k] /\ committed'[k] = committed[k]
<1> DEFINE rows == WithVersions(IntentVersions(D), c)
<1>1. /\ IntentVersions(D) \in [D -> Mutation] /\ DOMAIN IntentVersions(D) = D
      /\ \A k \in D : IntentVersions(D)[k] = intents[k].mutation
  BY IntentVersionsType DEF StoreOK, LockedBy, IntentVersions
<1>2. D = {k \in D : LockedBy(k, txn_id, start_ts)}
  OBVIOUS
<1>3. /\ committed' = rows
      /\ intents' = WithoutIntents(D)
      /\ all_keys_set' = maybe_remove_from_keys(all_keys_set \cup D, D, committed', intents')
  BY <1>1, <1>2 DEF commit_intents_batch
<1>4. /\ rows \in [Key -> Row]
      /\ \A k \in D : rows[k] = Written(committed[k], c, IntentVersions(D)[k])
      /\ \A k \in D : TimestampsOf(rows[k]) # {}
      /\ \A k \in Key \ D : rows[k] = committed[k]
  BY <1>1, WithVersionsProp DEF StoreOK
<1> HIDE DEF rows
<1>5. all_keys_set' = all_keys_set \cup D
  BY <1>3, <1>4 DEF maybe_remove_from_keys
<1>6. /\ intents' \in [Key -> Intent \cup {NoIntent}]
      /\ \A k \in D : intents'[k] = NoIntent
      /\ \A k \in Key \ D : intents'[k] = intents[k]
  BY <1>3 DEF WithoutIntents, StoreOK, BackendTypeOK
<1>7. BackendTypeOK'
  BY <1>3, <1>4, <1>5, <1>6 DEF StoreOK, BackendTypeOK
<1>8. IndexExact'
  BY <1>3, <1>4, <1>5, <1>6 DEF StoreOK, IndexExact, Locked
<1> QED
  BY <1>1, <1>3, <1>4, <1>6, <1>7, <1>8 DEF StoreOK

LEMMA RemoveIntents ==
    ASSUME StoreOK, NEW D \in SUBSET Key, NEW txn_id, NEW start_ts,
           remove_intents_batch(D, txn_id, start_ts)
    PROVE  /\ StoreOK'
           /\ committed' = committed
           /\ \A k \in D : LockedBy(k, txn_id, start_ts) => intents'[k] = NoIntent
           /\ \A k \in Key : k \notin D \/ ~LockedBy(k, txn_id, start_ts)
                                 => intents'[k] = intents[k]
<1> DEFINE gone == {k \in D : LockedBy(k, txn_id, start_ts)}
<1>1. /\ intents' = WithoutIntents(gone)
      /\ all_keys_set' = maybe_remove_from_keys(all_keys_set, gone, committed, intents')
      /\ committed' = committed
  BY DEF remove_intents_batch
<1>2. gone \in SUBSET Key /\ \A k \in gone : Locked(k)
  BY DEF LockedBy
<1>3. \A k \in Key : (k \in gone) = (k \in D /\ LockedBy(k, txn_id, start_ts))
  OBVIOUS
<1> HIDE DEF gone
<1>4. /\ intents' \in [Key -> Intent \cup {NoIntent}]
      /\ \A k \in Key \ gone : intents'[k] = intents[k]
      /\ \A k \in gone : intents'[k] = NoIntent
  BY <1>1, <1>2 DEF WithoutIntents, StoreOK, BackendTypeOK
<1>5. all_keys_set' = all_keys_set \ {k \in gone : TimestampsOf(committed[k]) = {}}
  BY <1>1, <1>4 DEF maybe_remove_from_keys
<1>6. BackendTypeOK'
  BY <1>1, <1>4, <1>5 DEF StoreOK, BackendTypeOK
<1>7. IndexExact'
  BY <1>1, <1>2, <1>4, <1>5 DEF StoreOK, IndexExact, Locked
<1> QED
  BY <1>1, <1>3, <1>4, <1>6, <1>7 DEF StoreOK

(* The removals of garbage collection. *)
LEMMA RemovalStore ==
    ASSUME StoreOK, NEW k \in Key, NEW S, remove_committed_versions(k, S)
    PROVE  /\ StoreOK'
           /\ intents' = intents
           /\ committed'[k] = Pruned(committed[k], S)
           /\ \A j \in Key \ {k} : committed'[j] = committed[j]
<1>1. /\ committed' = [committed EXCEPT ![k] = Pruned(committed[k], S)]
      /\ intents' = intents
      /\ all_keys_set' = maybe_remove_from_keys(
             all_keys_set, IF S = {} THEN {} ELSE {k}, committed', intents)
  BY DEF remove_committed_versions, Pruned
<1>2. committed \in [Key -> Row] /\ committed[k] \in Row
  BY DEF StoreOK, BackendTypeOK
<1>3. Pruned(committed[k], S) \in Row
  BY <1>2 DEF Pruned, Row
<1>4. /\ committed' \in [Key -> Row]
      /\ committed'[k] = Pruned(committed[k], S)
      /\ \A j \in Key \ {k} : committed'[j] = committed[j]
  BY <1>1, <1>2, <1>3
<1>5. BackendTypeOK'
  BY <1>1, <1>4 DEF maybe_remove_from_keys, StoreOK, BackendTypeOK
<1>6. IndexExact'
  <2>1. CASE S = {}
    <3>1. TimestampsOf(committed'[k]) = TimestampsOf(committed[k])
      BY <1>4, <2>1 DEF Pruned, TimestampsOf
    <3>2. all_keys_set' = all_keys_set
      BY <1>1, <2>1 DEF maybe_remove_from_keys
    <3> QED
      BY <1>1, <1>4, <3>1, <3>2 DEF StoreOK, IndexExact, Locked
  <2>2. CASE S # {}
    <3>1. TimestampsOf(committed'[k]) \subseteq TimestampsOf(committed[k])
      BY <1>4 DEF Pruned, TimestampsOf
    <3>2. all_keys_set' = all_keys_set \
              {j \in {k} : intents[j] = NoIntent /\ TimestampsOf(committed'[j]) = {}}
      BY <1>1, <2>2 DEF maybe_remove_from_keys
    <3> QED
      BY <1>1, <1>4, <3>1, <3>2 DEF StoreOK, IndexExact, Locked
  <2> QED
    BY <2>1, <2>2
<1> QED
  BY <1>1, <1>4, <1>5, <1>6 DEF StoreOK

-----------------------------------------------------------------------------
(* The steps of garbage collection. *)

(* The loop variable is a key, and a page holds timestamps older than the  *)
(* keeper.                                                                 *)
LEMMA ScanTypes ==
    ASSUME GcTypeOK, Scanning
    PROVE  /\ pass \in Pass /\ call \in Call
           /\ Current \in call.todo /\ Current \in Key
           /\ Page \in SUBSET Timestamp /\ Removable \in SUBSET Page
           /\ \A t \in Page : t < Keeper
           /\ Cardinality(Page) \in Nat /\ Cardinality(Removable) \in Nat
<1>1. pass \in Pass /\ call \in Call /\ call.todo # {}
  BY DEF Scanning, GcTypeOK
<1>2. call.todo \in SUBSET Key
  BY <1>1 DEF Call
<1>3. Current \in call.todo
  BY <1>1, <1>2, MinExists, KeyAssumption DEF Current
<1>4. Page \in SUBSET Timestamp /\ \A t \in Page : t < Keeper
  BY DEF Page, get_committed_timestamps_before, NewestN, TimestampsOf
<1>5. Removable \in SUBSET Page
  BY DEF Removable, NewestN
<1>6. Cardinality(Page) \in Nat /\ Cardinality(Removable) \in Nat
  BY <1>4, <1>5, FiniteTimestamps
<1> QED
  BY <1>1, <1>2, <1>3, <1>4, <1>5, <1>6

LEMMA AdvanceType ==
    ASSUME call \in Call, NEW n \in Nat, Advance(n)
    PROVE  call' \in Call /\ call'.removed = call.removed + n
<1> DEFINE k == Current
<1>1. call' = [call EXCEPT !.todo = @ \ {k}, !.removed = @ + n]
  BY DEF Advance
<1>2. call.todo \ {k} \in SUBSET Key /\ call.removed + n \in Nat
  BY DEF Call
<1> HIDE DEF k
<1> QED
  BY <1>1, <1>2 DEF Call

LEMMA SuspendType ==
    ASSUME call \in Call, Current \in Key, NEW n \in Nat, Suspend(n)
    PROVE  call' \in Call /\ call'.removed = call.removed + n
<1> DEFINE k == Current
<1>1. call' = [call EXCEPT !.todo = {}, !.next = k, !.removed = @ + n]
  BY DEF Suspend
<1>2. k \in Key /\ call.removed + n \in Nat
  BY DEF Call
<1> HIDE DEF k
<1> QED
  BY <1>1, <1>2 DEF Call

LEMMA GcBeginType ==
    ASSUME BackendTypeOK, GcTypeOK, GcBegin
    PROVE  GcTypeOK' /\ call' # NoCall /\ call'.removed = 0
<1> DEFINE keys == keys_from(pass.cursor, Wrap(pass.max_keys + 1))
           todo == FirstN(keys, pass.max_keys)
           next == IF keys = todo THEN NoKey ELSE Min(keys \ todo)
<1>1. keys \in SUBSET Key
  BY DEF keys_from, FirstN, BackendTypeOK
<1>2. todo \in SUBSET keys
  BY DEF FirstN
<1> HIDE DEF keys, todo
<1>3. next \in Key \cup {NoKey}
  <2>1. CASE keys = todo
    BY <2>1
  <2>2. CASE keys # todo
    <3>1. keys \ todo \in SUBSET Nat /\ keys \ todo # {}
      BY <1>1, <1>2, <2>2, KeyAssumption
    <3>2. Min(keys \ todo) \in keys \ todo
      BY <3>1, MinExists
    <3> QED
      BY <1>1, <2>2, <3>2
  <2> QED
    BY <2>1, <2>2
<1>4. call' = [todo |-> todo, next |-> next, removed |-> 0] /\ pass' = pass /\ pass # NoPass
  BY DEF GcBegin, keys, todo
<1> HIDE DEF next
<1>5. call' \in Call
  BY <1>1, <1>2, <1>3, <1>4 DEF Call
<1>6. call' # NoCall
  BY <1>5, GcSentinelAssumption
<1> QED
  BY <1>4, <1>5, <1>6 DEF GcTypeOK

(* A step of garbage collection keeps the store and its own state well typed. *)
LEMMA GcStepTypes ==
    ASSUME StoreOK, GcTypeOK, GcStep \/ GcFail
    PROVE  StoreOK' /\ GcTypeOK'
<1>0. UNCHANGED store => StoreOK'
  BY DEF StoreOK, BackendTypeOK, IndexExact, Locked, TimestampsOf, store
<1>1. CASE GcReject
  BY <1>0, <1>1 DEF GcReject, GcTypeOK
<1>2. CASE GcBegin
  <2>1. UNCHANGED store
    BY <1>2 DEF GcBegin, store
  <2> QED
    BY <1>0, <1>2, <2>1, GcBeginType DEF StoreOK
<1>3. CASE GcReturn
  <2>1. UNCHANGED store /\ call' = NoCall
    BY <1>3 DEF GcReturn, store
  <2>2. pass \in Pass /\ call \in Call
    BY <1>3 DEF GcReturn, GcTypeOK
  <2>3. pass' = NoPass \/ pass' \in Pass
    BY <1>3, <2>2 DEF GcReturn, Pass, Call
  <2> QED
    BY <1>0, <2>1, <2>3 DEF GcTypeOK
<1>4. ASSUME Scanning, pass' = pass, call' \in Call, UNCHANGED store \/
             \E S : remove_committed_versions(Current, S)
      PROVE  StoreOK' /\ GcTypeOK'
  <2>1. StoreOK'
    BY <1>0, <1>4, ScanTypes, RemovalStore
  <2>2. GcTypeOK'
    BY <1>4, ScanTypes, GcSentinelAssumption DEF GcTypeOK
  <2> QED
    BY <2>1, <2>2
<1>5. CASE GcSkip
  <2>1. Scanning /\ Advance(0) /\ UNCHANGED store /\ pass' = pass
    BY <1>5 DEF GcSkip, store
  <2> QED
    BY <1>4, <2>1, ScanTypes, AdvanceType
<1>6. CASE GcOutOfBudget
  <2>1. Scanning /\ Suspend(0) /\ UNCHANGED store /\ pass' = pass
    BY <1>6 DEF GcOutOfBudget, store
  <2> QED
    BY <1>4, <2>1, ScanTypes, SuspendType
<1>7. CASE GcCollapse
  <2>1. /\ Scanning /\ Advance(Cardinality(Page) + 1) /\ pass' = pass
        /\ remove_committed_versions(Current, Page \cup {Keeper})
    BY <1>7 DEF GcCollapse
  <2>2. Cardinality(Page) + 1 \in Nat
    BY <2>1, ScanTypes
  <2> QED
    BY <1>4, <2>1, <2>2, ScanTypes, AdvanceType
<1>8. CASE GcTrimTombstone
  <2>1. /\ Scanning /\ Suspend(Cardinality(Removable)) /\ pass' = pass
        /\ remove_committed_versions(Current, Removable)
    BY <1>8 DEF GcTrimTombstone
  <2> QED
    BY <1>4, <2>1, ScanTypes, SuspendType
<1>9. CASE GcPrune
  <2>1. /\ Scanning /\ pass' = pass
        /\ Suspend(Cardinality(Removable)) \/ Advance(Cardinality(Removable))
        /\ remove_committed_versions(Current, Removable)
    BY <1>9 DEF GcPrune
  <2> QED
    BY <1>4, <2>1, ScanTypes, SuspendType, AdvanceType
<1>10. CASE GcFail
  <2>1. /\ Scanning /\ call' = NoCall /\ pass' = pass
        /\ UNCHANGED store \/ \E S : remove_committed_versions(Current, S)
    BY <1>10 DEF GcFail
  <2>2. StoreOK'
    BY <1>0, <2>1, ScanTypes, RemovalStore
  <2>3. GcTypeOK'
    BY <2>1 DEF GcTypeOK
  <2> QED
    BY <2>2, <2>3
<1> QED
  BY <1>1, <1>2, <1>3, <1>5, <1>6, <1>7, <1>8, <1>9, <1>10 DEF GcStep
=============================================================================
