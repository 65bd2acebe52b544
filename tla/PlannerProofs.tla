---------------------------- MODULE PlannerProofs ----------------------------
(***************************************************************************)
(* Plans of plan_key_gc stay safe to apply, at any time and more than      *)
(* once, and a job that applied a complete plan left nothing behind.       *)
(*                                                                         *)
(* A plan is described by the history, which only grows above its newest   *)
(* version: what a plan names stays shadowed in the history by a version   *)
(* at or below the safe points, and VersionsStable (in SInv) carries that  *)
(* over to what is left in the store.                                      *)
(***************************************************************************)
EXTENDS SnapshotProofs, KeyGcPlanner

PlannerTypeOK ==
    /\ job \in Job \cup {NoJob}
    /\ plan \in Plan \cup {NoPlan}
    /\ applied \in Plan \cup {NoPlan}
    /\ owed \in SUBSET Timestamp

\* What a plan removes was committed once, and a reader at w never needs it: it
\* sees a newer version, or the tombstone that the plan collapses together with
\* everything older.
Shadowed(p, rows, past, w) ==
    LET c == p.collapse_tombstone
    IN  /\ \A t \in p.versions_to_remove :
              /\ past[p.key][t] # NoVersion
              /\ t < get_visible_committed(past[p.key], w)
        /\ c # NoTs =>
              /\ c <= w
              /\ past[p.key][c] = Tombstone
              /\ \A t \in TimestampsOf(rows[p.key]) : t < c => t \in p.versions_to_remove

\* The running job works with a safe point that readers stay above.
PlanInv ==
    /\ SInv
    /\ PlannerTypeOK
    /\ job # NoJob => job.safe_point_ts <= watermark
    /\ plan # NoPlan => Shadowed(plan, committed, hist, watermark)
    /\ applied # NoPlan => Shadowed(applied, committed, hist, watermark)

\* A version that was removed never returns: what is committed later is newer
\* than everything that was committed before.
NothingReturns ==
    \A k \in Key, t \in Timestamp :
        committed'[k][t] # NoVersion /\ t <= get_latest_commit_ts(hist[k]) =>
            committed'[k][t] = committed[k][t]

-----------------------------------------------------------------------------
(* What a job owes, if no collection pass runs beside it. *)

OwedOld(t) == t < get_visible_committed(committed[job.key], job.safe_point_ts)

OwedFinal(t) ==
    /\ job.collapse
    /\ committed[job.key][t] = Tombstone
    /\ t <= job.safe_point_ts
    /\ t = get_latest_commit_ts(committed[job.key])
    /\ t = get_latest_commit_ts(hist[job.key])
    /\ intents[job.key] = NoIntent

\* The plan of the job removes nothing that the safe point of the job shows,
\* and a complete plan everything that is owed.
PlanOfJob ==
    /\ plan.key = job.key
    /\ \A t \in plan.versions_to_remove :
          committed[plan.key][t] # NoVersion => OwedOld(t)
    /\ plan.complete => owed \subseteq Removals(plan)

NoPassRuns == pass = NoPass /\ call = NoCall

IdleOwesNothing == job = NoJob => owed = {} /\ plan = NoPlan

OwedIsThere ==
    job # NoJob =>
        /\ job.max_versions_examined = 0 => owed = {}
        /\ \A t \in owed : /\ committed[job.key][t] # NoVersion
                           /\ OwedOld(t) \/ OwedFinal(t)

\* What was applied once is gone for good.
AppliedIsGone ==
    applied # NoPlan =>
        \A t \in Removals(applied) : committed[applied.key][t] = NoVersion

JobInv ==
    /\ NoPassRuns
    /\ IdleOwesNothing
    /\ OwedIsThere
    /\ plan # NoPlan => PlanOfJob
    /\ AppliedIsGone

-----------------------------------------------------------------------------
(* A plan stays shadowed. *)

LEMMA VisibleGrows ==
    ASSUME NEW row, NEW r \in Int, NEW s \in Int, r <= s
    PROVE  get_visible_committed(row, r) <= get_visible_committed(row, s)
<1> DEFINE a == get_visible_committed(row, r)
           b == get_visible_committed(row, s)
<1>1. /\ a \in Timestamp \cup {NoTs}
      /\ a # NoTs => a <= r /\ row[a] # NoVersion
  BY VisibleProp
<1>2. /\ b \in Timestamp \cup {NoTs}
      /\ \A t \in Timestamp : row[t] # NoVersion /\ t <= s => t <= b
  BY VisibleProp
<1> HIDE DEF a, b
<1>3. a <= b
  BY <1>1, <1>2, TimestampType
<1> QED
  BY <1>3 DEF a, b

LEMMA ShadowKept ==
    ASSUME SInv, SInv', HistGrows, watermark <= watermark', NothingReturns,
           NEW p \in Plan, Shadowed(p, committed, hist, watermark)
    PROVE  Shadowed(p, committed', hist', watermark')
<1> DEFINE k == p.key
           c == p.collapse_tombstone
<1>0. /\ k \in Key /\ p.versions_to_remove \in SUBSET Timestamp
      /\ c \in Timestamp \cup {NoTs}
  BY DEF Plan
<1>1. /\ watermark \in Int /\ watermark' \in Int /\ hist[k] \in Row
      /\ watermark' \in Timestamp \cup {NoTs}
  BY <1>0, TimestampType DEF SInv, TypeOK
<1>2. get_latest_commit_ts(hist[k]) \in Int
  BY <1>0, HistLatestInt
<1>3. \A t \in Timestamp : hist[k][t] # NoVersion => t <= get_latest_commit_ts(hist[k])
  BY LatestProp
<1>4. /\ \A t \in Timestamp : hist[k][t] # NoVersion => hist'[k][t] = hist[k][t]
      /\ get_visible_committed(hist[k], watermark) <= get_visible_committed(hist'[k], watermark')
  <2>1. get_visible_committed(hist[k], watermark) <= get_visible_committed(hist[k], watermark')
    BY <1>1, VisibleGrows
  <2>2. CASE hist'[k] = hist[k]
    BY <2>1, <2>2
  <2>3. ASSUME NEW d \in Timestamp, NEW m \in Mutation, d > get_latest_commit_ts(hist[k]),
               hist'[k] = Written(hist[k], d, m)
        PROVE  /\ \A t \in Timestamp : hist[k][t] # NoVersion => hist'[k][t] = hist[k][t]
               /\ get_visible_committed(hist[k], watermark)
                      <= get_visible_committed(hist'[k], watermark')
    <3>1. \A t \in Timestamp : hist[k][t] # NoVersion => t # d
      BY <1>2, <1>3, <2>3, TimestampType
    <3>2. \A t \in Timestamp : hist[k][t] # NoVersion => hist'[k][t] = hist[k][t]
      BY <1>1, <2>3, <3>1, WrittenAt
    <3> DEFINE a == get_visible_committed(hist[k], watermark)
               b == get_visible_committed(hist'[k], watermark')
    <3>3. /\ a \in Timestamp \cup {NoTs}
          /\ a # NoTs => a <= watermark /\ hist[k][a] # NoVersion
      BY VisibleProp
    <3>4. /\ b \in Timestamp \cup {NoTs}
          /\ \A t \in Timestamp : hist'[k][t] # NoVersion /\ t <= watermark' => t <= b
      BY VisibleProp
    <3> HIDE DEF a, b
    <3>5. a <= b
      BY <1>1, <3>2, <3>3, <3>4, TimestampType
    <3> QED
      BY <3>2, <3>5 DEF a, b
  <2> QED
    BY <1>0, <2>2, <2>3 DEF HistGrows
<1>5. ASSUME NEW t \in p.versions_to_remove
      PROVE  /\ hist'[k][t] # NoVersion
             /\ t < get_visible_committed(hist'[k], watermark')
  <2>1. t \in Timestamp /\ hist[k][t] # NoVersion
        /\ t < get_visible_committed(hist[k], watermark)
    BY <1>0 DEF Shadowed
  <2>2. /\ get_visible_committed(hist[k], watermark) \in Int
        /\ get_visible_committed(hist'[k], watermark') \in Int
    BY VisibleProp, TimestampType
  <2> QED
    BY <1>4, <2>1, <2>2, TimestampType
<1>6. ASSUME c # NoTs
      PROVE  /\ c <= watermark'
             /\ hist'[k][c] = Tombstone
             /\ \A t \in TimestampsOf(committed'[k]) : t < c => t \in p.versions_to_remove
  <2>1. /\ c \in Timestamp /\ c <= watermark /\ hist[k][c] = Tombstone
        /\ \A t \in TimestampsOf(committed[k]) : t < c => t \in p.versions_to_remove
    BY <1>0, <1>6 DEF Shadowed
  <2>2. hist[k][c] # NoVersion
    BY <2>1, SentinelAssumption
  <2>3. ASSUME NEW t \in TimestampsOf(committed'[k]), t < c
        PROVE  t \in p.versions_to_remove
    <3>1. t \in Timestamp /\ committed'[k][t] # NoVersion
      BY DEF TimestampsOf
    <3>2. t <= get_latest_commit_ts(hist[k])
      BY <1>2, <1>3, <2>1, <2>2, <2>3, <3>1, TimestampType
    <3>3. committed[k][t] # NoVersion
      BY <1>0, <3>1, <3>2 DEF NothingReturns
    <3> QED
      BY <2>1, <2>3, <3>1, <3>3 DEF TimestampsOf
  <2>4. c <= watermark'
    <3>1. c \in Int /\ c <= watermark
      BY <2>1, TimestampType
    <3> HIDE DEF c
    <3> QED
      BY <1>1, <3>1
  <2>5. hist'[k][c] = Tombstone
    BY <1>4, <2>1, <2>2
  <2> QED
    BY <2>3, <2>4, <2>5
<1> QED
  BY <1>5, <1>6 DEF Shadowed

(* What is left in the store of the versions that a plan names is hidden    *)
(* from readers at the watermark by a version that is left as well.          *)
LEMMA ShadowInStore ==
    ASSUME SInv, NEW p \in Plan, Shadowed(p, committed, hist, watermark),
           NEW t \in p.versions_to_remove, committed[p.key][t] # NoVersion
    PROVE  LET u == get_visible_committed(committed[p.key], watermark)
           IN  u \in Timestamp /\ t < u /\ u <= watermark /\ committed[p.key][u] # NoVersion
<1> DEFINE row == committed[p.key]
           u == get_visible_committed(hist[p.key], watermark)
           seen == get_visible_committed(row, watermark)
<1>0. p.key \in Key /\ t \in Timestamp /\ watermark \in Timestamp \cup {NoTs}
  BY DEF Plan, SInv, TypeOK
<1>1. t < u
  BY DEF Shadowed
<1>2. u \in Timestamp \cup {NoTs} /\ (u # NoTs => u <= watermark)
  BY VisibleProp
<1>3. /\ seen \in Timestamp \cup {NoTs}
      /\ seen # NoTs => seen <= watermark /\ row[seen] # NoVersion
      /\ \A s \in Timestamp : row[s] # NoVersion /\ s <= watermark => s <= seen
  BY VisibleProp
<1> HIDE DEF u
<1>4. u \in Timestamp /\ t <= watermark /\ watermark \in Timestamp
  BY <1>0, <1>1, <1>2, TimestampType
<1>5. SeesSame(row, hist[p.key], watermark)
  <2>1. watermark >= watermark
    BY <1>4, TimestampType
  <2> QED
    BY <1>0, <1>4, <2>1, StableSees DEF SInv
<1>6. seen = u \/ seen = NoTs
  BY <1>5 DEF SeesSame, u
<1> HIDE DEF seen
<1>7. t <= seen
  BY <1>0, <1>3, <1>4
<1>8. seen \in Timestamp /\ seen = u
  BY <1>0, <1>3, <1>6, <1>7, TimestampType
<1> QED
  BY <1>1, <1>3, <1>8, TimestampType DEF seen

LEMMA PlanHarmless ==
    ASSUME SInv, NEW p \in Plan, Shadowed(p, committed, hist, watermark), NEW S,
           S = Removals(p) \/ S \in SUBSET p.versions_to_remove
    PROVE  Harmless(committed[p.key], S, watermark)
<1> DEFINE row == committed[p.key]
           c == p.collapse_tombstone
<1>0. /\ p.key \in Key /\ p.versions_to_remove \in SUBSET Timestamp
      /\ c \in Timestamp \cup {NoTs} /\ watermark \in Int
  BY TimestampType DEF Plan, SInv, TypeOK
<1> SUFFICES ASSUME NEW r \in Timestamp, r >= watermark,
                    get_visible_committed(row, r) \in S
             PROVE  /\ row[get_visible_committed(row, r)] = Tombstone
                    /\ \A t \in TimestampsOf(row) : t <= r => t \in S
  BY DEF Harmless
<1> DEFINE seen == get_visible_committed(row, r)
<1>1. /\ seen \in Timestamp \cup {NoTs}
      /\ seen # NoTs => seen <= r /\ row[seen] # NoVersion
      /\ \A s \in Timestamp : row[s] # NoVersion /\ s <= r => s <= seen
  BY VisibleProp
<1>2. seen \in S
  OBVIOUS
<1> HIDE DEF seen
<1>3. seen \in Timestamp /\ row[seen] # NoVersion
  BY <1>0, <1>1, <1>2, TimestampType DEF Removals
<1>4. seen \notin p.versions_to_remove
  <2> SUFFICES ASSUME seen \in p.versions_to_remove PROVE FALSE
    OBVIOUS
  <2> DEFINE u == get_visible_committed(row, watermark)
  <2>1. u \in Timestamp /\ seen < u /\ u <= watermark /\ row[u] # NoVersion
    BY <1>3, ShadowInStore
  <2> HIDE DEF u
  <2> QED
    BY <1>0, <1>1, <1>3, <2>1, TimestampType
<1>5. seen = c /\ c # NoTs /\ S = Removals(p)
  BY <1>2, <1>4 DEF Removals
<1>6. /\ hist[p.key][c] = Tombstone
      /\ \A t \in TimestampsOf(row) : t < c => t \in p.versions_to_remove
  BY <1>5 DEF Shadowed
<1>7. row[c] = Tombstone
  BY <1>0, <1>3, <1>5, <1>6 DEF SInv, CommittedInHist
<1>8. ASSUME NEW t \in TimestampsOf(row), t <= r PROVE t \in S
  <2>1. t \in Timestamp /\ row[t] # NoVersion
    BY DEF TimestampsOf
  <2>2. t = c \/ t < c
    BY <1>1, <1>3, <1>5, <1>8, <2>1, TimestampType
  <2> QED
    BY <1>5, <1>6, <2>2 DEF Removals
<1> QED
  BY <1>5, <1>7, <1>8 DEF seen

LEMMA ShadowedSafe ==
    ASSUME SInv, NEW p \in Plan, Shadowed(p, committed, hist, watermark)
    PROVE  LET row == committed[p.key]
               c   == p.collapse_tombstone
           IN  /\ \A t \in p.versions_to_remove : row[t] # NoVersion =>
                     \E u \in t + 1 .. watermark :
                        row[u] # NoVersion /\ u \notin p.versions_to_remove
               /\ c # NoTs =>
                     /\ c <= watermark
                     /\ row[c] \in {Tombstone, NoVersion}
                     /\ \A t \in TimestampsOf(row) :
                           t < c => t \in p.versions_to_remove
<1> DEFINE row == committed[p.key]
           c == p.collapse_tombstone
<1>0. /\ p.key \in Key /\ p.versions_to_remove \in SUBSET Timestamp
      /\ c \in Timestamp \cup {NoTs} /\ watermark \in Int
  BY TimestampType DEF Plan, SInv, TypeOK
<1>1. ASSUME NEW t \in p.versions_to_remove, row[t] # NoVersion
      PROVE  \E u \in t + 1 .. watermark :
                 row[u] # NoVersion /\ u \notin p.versions_to_remove
  <2> DEFINE u == get_visible_committed(row, watermark)
  <2>1. u \in Timestamp /\ t < u /\ u <= watermark /\ row[u] # NoVersion
    BY <1>1, ShadowInStore
  <2>2. u \in p.versions_to_remove => u < u
    BY <2>1, ShadowInStore
  <2> HIDE DEF u
  <2>3. u \notin p.versions_to_remove
    BY <2>1, <2>2, TimestampType
  <2>4. t \in Timestamp
    BY <1>0
  <2>5. u \in t + 1 .. watermark
    BY <1>0, <2>1, <2>4, TimestampType
  <2> QED
    BY <2>1, <2>3, <2>5
<1>2. ASSUME c # NoTs
      PROVE  /\ c <= watermark
             /\ row[c] \in {Tombstone, NoVersion}
             /\ \A t \in TimestampsOf(row) : t < c => t \in p.versions_to_remove
  <2>1. /\ c <= watermark /\ hist[p.key][c] = Tombstone
        /\ \A t \in TimestampsOf(row) : t < c => t \in p.versions_to_remove
    BY <1>2 DEF Shadowed
  <2>2. row[c] \in {Tombstone, NoVersion}
    BY <1>0, <1>2, <2>1 DEF SInv, CommittedInHist
  <2> QED
    BY <2>1, <2>2
<1> QED
  BY <1>1, <1>2

LEMMA PlansSafe ==
    ASSUME PlanInv
    PROVE  PlansStaySafe
<1>1. SInv
  BY DEF PlanInv
<1>2. \A p \in {plan, applied} \ {NoPlan} :
          p \in Plan /\ Shadowed(p, committed, hist, watermark)
  BY DEF PlanInv, PlannerTypeOK
<1> QED
  BY <1>1, <1>2, ShadowedSafe DEF PlansStaySafe

-----------------------------------------------------------------------------
(* Planning: the page lies below the version that the safe point shows, and *)
(* holds everything below it when it does not fill the budget.              *)

LEMMA PageOfPlan ==
    ASSUME NEW row, NEW keeper, NEW max \in Nat
    PROVE  LET page == get_committed_timestamps_before(row, keeper, max)
           IN  /\ page \in SUBSET {t \in TimestampsOf(row) : t < keeper}
               /\ FitsBudget(page, max) => page = {t \in TimestampsOf(row) : t < keeper}
<1> DEFINE S == {t \in TimestampsOf(row) : t < keeper}
           page == NewestN(S, max)
<1>1. S \in SUBSET Timestamp
  BY DEF TimestampsOf
<1>2. page = get_committed_timestamps_before(row, keeper, max)
  BY DEF get_committed_timestamps_before
<1> HIDE DEF S
<1>3. page \in SUBSET S /\ Cardinality(page) \in Nat
  BY <1>1, NewestNCard
<1>4. ASSUME FitsBudget(page, max) PROVE page = S
  <2>1. Cardinality(page) < max
    BY <1>4 DEF FitsBudget
  <2> DEFINE n == max - 1
  <2>2. n \in Nat /\ max = n + 1
    BY <1>3, <2>1
  <2> HIDE DEF n
  <2>3. Cardinality(NewestN(S, n + 1)) <= n
    BY <1>3, <2>1, <2>2
  <2> QED
    BY <1>1, <2>2, <2>3, NewestNComplete
<1> HIDE DEF page
<1>5. page \in SUBSET S /\ (FitsBudget(page, max) => page = S)
  BY <1>3, <1>4
<1> QED
  BY <1>2, <1>5 DEF S

(* The fields of a plan. *)
LEMMA PlanFields ==
    ASSUME TypeOK, NEW j \in Job
    PROVE  LET row    == committed[j.key]
               keeper == get_visible_committed(row, j.safe_point_ts)
               p      == plan_key_gc(j)
           IN  /\ p \in Plan
               /\ p.key = j.key
               /\ keeper = NoTs => p.versions_to_remove = {} /\ p.collapse_tombstone = NoTs
               /\ p.versions_to_remove \in SUBSET {t \in TimestampsOf(row) : t < keeper}
               /\ keeper # NoTs /\ p.complete =>
                     /\ p.versions_to_remove = {t \in TimestampsOf(row) : t < keeper}
                     /\ j.collapse /\ IsCollapsible(j.key, keeper) =>
                            p.collapse_tombstone = keeper
               /\ p.collapse_tombstone # NoTs =>
                     /\ p.collapse_tombstone = keeper /\ p.complete
                     /\ row[keeper] = Tombstone
<1> DEFINE row == committed[j.key]
           keeper == get_visible_committed(row, j.safe_point_ts)
           max == j.max_versions_examined
           page == get_committed_timestamps_before(row, keeper, max)
           p == plan_key_gc(j)
<1>0. j.key \in Key /\ max \in Nat
  <2>1. j.key \in Key /\ max \in PlanBudgets
    BY DEF Job
  <2>2. max \in Usize
    BY <2>1, PlannerAssumption
  <2> QED
    BY <2>1, <2>2, UsizeAssumption DEF Usize
<1>1. keeper \in Timestamp \cup {NoTs}
  BY VisibleProp
<1>2. CASE keeper = NoTs
  <2>1. p = [key |-> j.key, versions_to_remove |-> {},
             collapse_tombstone |-> NoTs, complete |-> TRUE]
    BY <1>2 DEF plan_key_gc, EmptyPlan
  <2> HIDE DEF p, keeper, row
  <2>2. /\ p \in Plan /\ p.key = j.key
        /\ p.versions_to_remove = {} /\ p.collapse_tombstone = NoTs
    BY <1>0, <2>1 DEF Plan
  <2> QED
    BY <1>2, <2>2 DEF p, keeper, row
<1>3. CASE keeper # NoTs
  <2>1. /\ page \in SUBSET {t \in TimestampsOf(row) : t < keeper}
        /\ FitsBudget(page, max) => page = {t \in TimestampsOf(row) : t < keeper}
    BY <1>0, PageOfPlan
  <2> DEFINE fits == FitsBudget(page, max)
             c == IF j.collapse /\ IsCollapsible(j.key, keeper) /\ fits
                  THEN keeper ELSE NoTs
  <2>2. p = [key |-> j.key, versions_to_remove |-> page,
             collapse_tombstone |-> c, complete |-> fits]
    BY <1>3 DEF plan_key_gc, PlanBelow
  <2>3. page \in SUBSET Timestamp /\ fits \in BOOLEAN
    BY <2>1 DEF TimestampsOf, FitsBudget
  <2>4. /\ c \in Timestamp \cup {NoTs}
        /\ c # NoTs => c = keeper /\ fits /\ row[keeper] = Tombstone
        /\ j.collapse /\ IsCollapsible(j.key, keeper) /\ fits => c = keeper
    BY <1>1 DEF IsCollapsible
  <2> HIDE DEF p, keeper, row, page, fits, c
  <2>5. /\ p \in Plan /\ p.key = j.key /\ p.versions_to_remove = page
        /\ p.collapse_tombstone = c /\ p.complete = fits
    BY <1>0, <2>2, <2>3, <2>4 DEF Plan
  <2>6. fits => page = {t \in TimestampsOf(row) : t < keeper}
    BY <2>1 DEF fits
  <2> QED
    BY <1>3, <2>1, <2>4, <2>5, <2>6 DEF p, keeper, row
<1> QED
  BY <1>2, <1>3

LEMMA PlanIsShadowed ==
    ASSUME SInv, NEW j \in Job, j.safe_point_ts <= watermark
    PROVE  Shadowed(plan_key_gc(j), committed, hist, watermark)
<1> DEFINE row == committed[j.key]
           past == hist[j.key]
           keeper == get_visible_committed(row, j.safe_point_ts)
           p == plan_key_gc(j)
<1>0. /\ TypeOK /\ CommittedInHist /\ j.key \in Key /\ watermark \in Int
      /\ j.safe_point_ts \in Int
  BY TimestampType DEF SInv, TypeOK, Job
<1>1. /\ p.key = j.key
      /\ keeper = NoTs => p.versions_to_remove = {} /\ p.collapse_tombstone = NoTs
      /\ p.versions_to_remove \in SUBSET {t \in TimestampsOf(row) : t < keeper}
      /\ keeper # NoTs /\ p.complete =>
            p.versions_to_remove = {t \in TimestampsOf(row) : t < keeper}
      /\ p.collapse_tombstone # NoTs =>
            p.collapse_tombstone = keeper /\ p.complete /\ row[keeper] = Tombstone
  BY <1>0, PlanFields
<1>2. /\ keeper \in Timestamp \cup {NoTs}
      /\ keeper # NoTs => keeper <= j.safe_point_ts /\ row[keeper] # NoVersion
  BY VisibleProp
<1>3. \A t \in Timestamp : row[t] # NoVersion => past[t] = row[t]
  BY <1>0 DEF CommittedInHist
<1>4. /\ get_visible_committed(past, watermark) \in Timestamp \cup {NoTs}
      /\ \A t \in Timestamp : past[t] # NoVersion /\ t <= watermark =>
             t <= get_visible_committed(past, watermark)
  BY VisibleProp
<1> HIDE DEF p, keeper, row, past
<1>5. keeper # NoTs => /\ keeper <= watermark
                       /\ keeper <= get_visible_committed(past, watermark)
  BY <1>0, <1>2, <1>3, <1>4, TimestampType
<1>6. ASSUME NEW t \in p.versions_to_remove
      PROVE  past[t] # NoVersion /\ t < get_visible_committed(past, watermark)
  <2>1. t \in Timestamp /\ row[t] # NoVersion /\ t < keeper /\ keeper # NoTs
    BY <1>1 DEF TimestampsOf
  <2> QED
    BY <1>2, <1>3, <1>4, <1>5, <2>1, TimestampType
<1>7. ASSUME p.collapse_tombstone # NoTs
      PROVE  /\ p.collapse_tombstone <= watermark
             /\ past[p.collapse_tombstone] = Tombstone
             /\ \A t \in TimestampsOf(row) :
                   t < p.collapse_tombstone => t \in p.versions_to_remove
  BY <1>1, <1>2, <1>3, <1>5, <1>7
<1> QED
  BY <1>1, <1>6, <1>7 DEF Shadowed, p, row, past

-----------------------------------------------------------------------------
(* Every step keeps SInv, grows the history on top and brings nothing back. *)

LEMMA EngineReturnsNothing ==
    ASSUME Contract, SInv, [Next]_vars
    PROVE  NothingReturns
<1> SUFFICES ASSUME NEW k \in Key, NEW t \in Timestamp, committed'[k][t] # NoVersion,
                    t <= get_latest_commit_ts(hist[k])
             PROVE  committed'[k][t] = committed[k][t]
  BY DEF NothingReturns
<1>0. StoreOK /\ GcTypeOK /\ committed[k] \in Row
  BY DEF SInv, TypeOK, StoreOK, BackendTypeOK
<1>1. CASE Client
  <2>1. EngineOp
    BY <1>1 DEF Client
  <2>2. ASSUME NEW c \in Timestamp, NEW m \in Mutation, c > get_latest_commit_ts(hist[k]),
               committed'[k] = Written(committed[k], c, m)
        PROVE  committed'[k][t] = committed[k][t]
    <3>1. t # c
      BY <2>2, HistLatestInt, TimestampType
    <3> QED
      BY <1>0, <2>2, <3>1, WrittenAt
  <2> QED
    BY <2>1, <2>2, RowsGrow
<1>2. CASE Start
  BY <1>2 DEF Start, StartPass, store
<1>3. CASE Collect \/ Fail
  <2>1. GcStep \/ GcFail
    BY <1>3 DEF Collect, Fail
  <2>2. CASE UNCHANGED store
    BY <2>2 DEF store
  <2>3. ASSUME Scanning, NEW S, remove_committed_versions(Current, S)
        PROVE  committed'[k][t] = committed[k][t]
    <3>1. Current \in Key
      BY <1>0, <2>3, ScanTypes
    <3>2. /\ committed'[Current] = Pruned(committed[Current], S)
          /\ \A j \in Key \ {Current} : committed'[j] = committed[j]
      BY <1>0, <2>3, <3>1, RemovalStore
    <3> QED
      BY <3>2 DEF Pruned
  <2> QED
    BY <2>1, <2>2, <2>3, GcRemoves
<1>4. CASE UNCHANGED vars
  BY <1>4 DEF vars, store
<1> QED
  BY <1>1, <1>2, <1>3, <1>4 DEF Next

(* Applying a plan, or a part of what it removes. *)
LEMMA RemovalStep ==
    ASSUME SInv, NEW p \in Plan, Shadowed(p, committed, hist, watermark), NEW S,
           S = Removals(p) \/ S \in SUBSET p.versions_to_remove,
           remove_committed_versions(p.key, S), Observe, UNCHANGED gcVars,
           passes' \in 0 .. MaxPasses, failures' \in 0 .. MaxFailures
    PROVE  SInv' /\ HistGrows /\ watermark' = watermark /\ NothingReturns
<1>0. TypeOK /\ StoreOK /\ p.key \in Key
  BY DEF SInv, TypeOK, StoreOK, Plan
<1>1. Record /\ watermark' = watermark /\ pass' = pass /\ call' = call
  BY DEF Observe, gcVars
<1>2. /\ StoreOK'
      /\ committed'[p.key] = Pruned(committed[p.key], S)
      /\ \A j \in Key \ {p.key} : committed'[j] = committed[j]
  BY <1>0, RemovalStore
<1>3. GcTypeOK'
  BY <1>0, <1>1 DEF TypeOK, GcTypeOK
<1>4. TypeOK' /\ IndexExact'
  BY <1>0, <1>2, <1>3, ObserveTypes
<1>5. Harmless(committed[p.key], S, watermark)
  BY PlanHarmless
<1>6. CommittedInHist' /\ IntentFresh' /\ VersionsStable' /\ HistGrows
  BY <1>0, <1>1, <1>5, RemovalSafe
<1>7. BudgetRespected' /\ PassBounded'
  BY <1>1 DEF SInv, BudgetRespected, PassBounded
<1>8. NothingReturns
  BY <1>2 DEF NothingReturns, Pruned
<1> QED
  BY <1>1, <1>4, <1>6, <1>7, <1>8 DEF SInv

(* A job raises the watermark, like a pass. *)
LEMMA ScheduleStep ==
    ASSUME SInv, Schedule
    PROVE  /\ SInv' /\ HistGrows /\ watermark <= watermark' /\ NothingReturns
           /\ job' \in Job /\ job'.safe_point_ts <= watermark'
           /\ owed' \in SUBSET Timestamp
<1>1. PICK k \in Key, safe \in SafePoints, max \in PlanBudgets, collapse \in Collapses :
          /\ job' = [key |-> k, safe_point_ts |-> safe,
                     max_versions_examined |-> max, collapse |-> collapse]
          /\ owed' = IF max = 0 THEN {} ELSE Collectable(k, safe, collapse)
          /\ watermark' = Max({watermark, safe})
          /\ UNCHANGED <<store, gcVars, hist, debt, counters>>
  BY DEF Schedule
<1>2. safe \in Timestamp /\ collapse \in BOOLEAN
  BY InputAssumption
<1>3. watermark \in Int /\ watermark \in Timestamp \cup {NoTs} /\ safe \in Int
  BY <1>2, TimestampType DEF SInv, TypeOK
<1>4. /\ watermark' \in Timestamp \cup {NoTs}
      /\ watermark <= watermark' /\ safe <= watermark' /\ watermark' \in Int
  BY <1>1, <1>2, <1>3, MaxOfTwo
<1>5. /\ committed' = committed /\ intents' = intents /\ all_keys_set' = all_keys_set
      /\ pass' = pass /\ call' = call /\ hist' = hist /\ debt' = debt
      /\ passes' = passes /\ failures' = failures
  BY <1>1 DEF store, gcVars, counters
<1>6. TypeOK' /\ IndexExact'
  BY <1>4, <1>5 DEF SInv, TypeOK, BackendTypeOK, GcTypeOK, IndexExact, Locked, TimestampsOf
<1>7. CommittedInHist' /\ IntentFresh' /\ HistGrows /\ NothingReturns
  BY <1>5 DEF SInv, CommittedInHist, IntentFresh, Locked, HistGrows, NothingReturns
<1>8. VersionsStable'
  <2> SUFFICES ASSUME NEW j \in Key, NEW r \in Timestamp, r >= watermark'
               PROVE  SeesSame(committed[j], hist[j], r)
    BY <1>5, StableSees
  <2>1. r >= watermark
    BY <1>3, <1>4, TimestampType
  <2> QED
    BY <2>1, StableSees DEF SInv
<1>9. BudgetRespected' /\ PassBounded'
  <2>1. pass # NoPass => pass.safe_point_ts \in Int
    BY TimestampType DEF SInv, TypeOK, GcTypeOK, Pass
  <2> QED
    BY <1>3, <1>4, <1>5, <2>1 DEF SInv, BudgetRespected, PassBounded
<1>10. job' \in Job /\ job'.safe_point_ts <= watermark'
  BY <1>1, <1>2, <1>4 DEF Job
<1>11. owed' \in SUBSET Timestamp
  BY <1>1 DEF Collectable
<1> QED
  BY <1>4, <1>6, <1>7, <1>8, <1>9, <1>10, <1>11 DEF SInv

-----------------------------------------------------------------------------
(* The invariant of the planner. *)

LEMMA PlansKept ==
    ASSUME PlanInv, SInv', HistGrows, watermark <= watermark', NothingReturns
    PROVE  /\ plan # NoPlan => Shadowed(plan, committed', hist', watermark')
           /\ applied # NoPlan => Shadowed(applied, committed', hist', watermark')
           /\ job # NoJob => job.safe_point_ts <= watermark'
<1>1. SInv /\ PlannerTypeOK
  BY DEF PlanInv
<1>2. /\ plan # NoPlan => plan \in Plan /\ Shadowed(plan, committed, hist, watermark)
      /\ applied # NoPlan => applied \in Plan /\ Shadowed(applied, committed, hist, watermark)
  BY <1>1 DEF PlanInv, PlannerTypeOK
<1>3. watermark \in Int /\ watermark' \in Int
  BY <1>1, TimestampType DEF SInv, TypeOK
<1>4. job # NoJob => job.safe_point_ts \in Int /\ job.safe_point_ts <= watermark
  BY <1>1, TimestampType DEF PlanInv, PlannerTypeOK, Job
<1>5. job # NoJob => job.safe_point_ts <= watermark'
  BY <1>3, <1>4
<1> QED
  BY <1>1, <1>2, <1>5, ShadowKept

LEMMA WatchType ==
    ASSUME PlannerTypeOK, Watch
    PROVE  owed' \in SUBSET Timestamp
BY DEF PlannerTypeOK, Watch, StillOwed

LEMMA PlanStep ==
    ASSUME Contract, PlanInv, [PlannerNext]_allVars
    PROVE  PlanInv'
<1>0. SInv /\ PlannerTypeOK /\ TypeOK
  BY DEF PlanInv, SInv
<1>1. watermark \in Int
  BY <1>0, TimestampType DEF TypeOK
<1>2. CASE (Next /\ Beside) \/ UNCHANGED allVars
  <2>1. [Next]_vars /\ UNCHANGED <<job, plan, applied>> /\ owed' \in SUBSET Timestamp
    <3>1. CASE Beside
      BY <1>0, <1>2, <3>1, WatchType DEF Beside, allVars, plannerVars
    <3>2. CASE UNCHANGED allVars
      BY <1>0, <3>2 DEF allVars, plannerVars, PlannerTypeOK
    <3> QED
      BY <1>2, <3>1, <3>2
  <2>2. SInv' /\ HistGrows /\ watermark <= watermark' /\ NothingReturns
    BY <1>0, <2>1, SnapshotStep, EngineReturnsNothing
  <2> QED
    BY <1>0, <2>1, <2>2, PlansKept DEF PlanInv, PlannerTypeOK
<1>3. CASE Schedule
  <2>1. /\ SInv' /\ HistGrows /\ watermark <= watermark' /\ NothingReturns
        /\ job' \in Job /\ job'.safe_point_ts <= watermark' /\ owed' \in SUBSET Timestamp
    BY <1>0, <1>3, ScheduleStep
  <2>2. UNCHANGED <<plan, applied>>
    BY <1>3 DEF Schedule
  <2> QED
    BY <1>0, <2>1, <2>2, PlansKept DEF PlanInv, PlannerTypeOK
<1>4. CASE RejectJob \/ MakePlan
  <2>1. UNCHANGED <<vars, applied, owed>>
    BY <1>4 DEF RejectJob, MakePlan
  <2>2. SInv' /\ committed' = committed /\ hist' = hist /\ watermark' = watermark
    <3>1. SInv' /\ committed' = committed
      BY <1>0, <2>1, SnapshotStep DEF vars, store
    <3> QED
      BY <2>1, <3>1 DEF vars, ghosts
  <2>3. CASE RejectJob
    <3>1. job' = NoJob /\ plan' = plan
      BY <2>3 DEF RejectJob
    <3> QED
      BY <1>0, <2>1, <2>2, <3>1 DEF PlanInv, PlannerTypeOK
  <2>4. CASE MakePlan
    <3>1. job \in Job /\ job' = job /\ plan' = plan_key_gc(job)
      BY <1>0, <2>4 DEF MakePlan, PlannerTypeOK
    <3>2. job.safe_point_ts <= watermark
      BY <2>4 DEF MakePlan, PlanInv
    <3>3. plan' \in Plan /\ Shadowed(plan', committed, hist, watermark)
      BY <1>0, <3>1, <3>2, PlanFields, PlanIsShadowed
    <3> QED
      BY <1>0, <2>1, <2>2, <3>1, <3>3 DEF PlanInv, PlannerTypeOK
  <2> QED
    BY <1>4, <2>3, <2>4
<1>5. CASE ApplyPlan
  <2>1. /\ plan \in Plan /\ Shadowed(plan, committed, hist, watermark)
        /\ remove_committed_versions(plan.key, Removals(plan)) /\ Observe /\ UNCHANGED gcVars
        /\ UNCHANGED counters /\ plan # NoPlan
    BY <1>0, <1>5 DEF ApplyPlan, PlanInv, PlannerTypeOK
  <2>2. passes' \in 0 .. MaxPasses /\ failures' \in 0 .. MaxFailures
    BY <1>0, <2>1 DEF counters, TypeOK
  <2>3. SInv' /\ HistGrows /\ watermark' = watermark /\ NothingReturns
    BY <1>0, <2>1, <2>2, RemovalStep
  <2>4. /\ applied' = plan /\ plan' = NoPlan /\ owed' \in SUBSET Timestamp
        /\ job' = NoJob \/ job' = job
    BY <1>0, <1>5, WatchType DEF ApplyPlan
  <2>5. watermark <= watermark'
    BY <1>1, <2>3
  <2> QED
    BY <1>0, <2>1, <2>3, <2>4, <2>5, PlansKept DEF PlanInv, PlannerTypeOK
<1>6. CASE FailPlan
  <2>1. PICK n \in 0 .. Cardinality(plan.versions_to_remove) :
            remove_committed_versions(plan.key, NewestN(plan.versions_to_remove, n))
    BY <1>6 DEF FailPlan
  <2>2. /\ plan \in Plan /\ Shadowed(plan, committed, hist, watermark)
        /\ Observe /\ UNCHANGED gcVars /\ plan # NoPlan
        /\ NewestN(plan.versions_to_remove, n) \in SUBSET plan.versions_to_remove
    BY <1>0, <1>6 DEF FailPlan, PlanInv, PlannerTypeOK, NewestN
  <2>3. passes' \in 0 .. MaxPasses /\ failures' \in 0 .. MaxFailures
    BY <1>0, <1>6, InputAssumption DEF FailPlan, TypeOK
  <2>4. SInv' /\ HistGrows /\ watermark' = watermark /\ NothingReturns
    BY <1>0, <2>1, <2>2, <2>3, RemovalStep
  <2>5. applied' = applied /\ plan' = NoPlan /\ job' = job /\ owed' \in SUBSET Timestamp
    BY <1>0, <1>6, WatchType DEF FailPlan
  <2>6. watermark <= watermark'
    BY <1>1, <2>4
  <2> QED
    BY <1>0, <2>4, <2>5, <2>6, PlansKept DEF PlanInv, PlannerTypeOK
<1>7. CASE ReapplyPlan
  <2>1. /\ applied \in Plan /\ Shadowed(applied, committed, hist, watermark)
        /\ remove_committed_versions(applied.key, Removals(applied)) /\ Observe
        /\ UNCHANGED gcVars /\ UNCHANGED counters
    BY <1>0, <1>7 DEF ReapplyPlan, PlanInv, PlannerTypeOK
  <2>2. passes' \in 0 .. MaxPasses /\ failures' \in 0 .. MaxFailures
    BY <1>0, <2>1 DEF counters, TypeOK
  <2>3. SInv' /\ HistGrows /\ watermark' = watermark /\ NothingReturns
    BY <1>0, <2>1, <2>2, RemovalStep
  <2>4. UNCHANGED <<job, plan, applied>> /\ owed' \in SUBSET Timestamp
    BY <1>0, <1>7, WatchType DEF ReapplyPlan
  <2>5. watermark <= watermark'
    BY <1>1, <2>3
  <2> QED
    BY <1>0, <2>3, <2>4, <2>5, PlansKept DEF PlanInv, PlannerTypeOK
<1> QED
  BY <1>2, <1>3, <1>4, <1>5, <1>6, <1>7 DEF PlannerNext, CleanUp

LEMMA PlanInvariant ==
    ASSUME Contract
    PROVE  PlannerSpec => []PlanInv
<1>1. PlannerInit => PlanInv
  BY SnapshotInit DEF PlannerInit, PlanInv, PlannerTypeOK
<1>2. PlanInv /\ [PlannerNext]_allVars => PlanInv'
  BY PlanStep
<1> QED
  BY <1>1, <1>2, PTL DEF PlannerSpec

(* A plan of plan_key_gc may be applied whatever clients and collection      *)
(* passes did since it was made, and again after that: nothing that it names *)
(* is needed by a reader at or above the safe points.                        *)
THEOREM PlansSafeForever ==
    ASSUME Contract
    PROVE  PlannerSpec => []PlansStaySafe
<1>1. PlanInv => PlansStaySafe
  BY PlansSafe
<1> QED
  BY <1>1, PlanInvariant, PTL

(* Adapters that plan, apply, fail and apply again beside clients and passes *)
(* change no version that a reader at or above the safe points sees, and     *)
(* undermine no lock.                                                        *)
THEOREM PlannerTransparent ==
    ASSUME Contract
    PROVE  PlannerSpec => [](VersionsStable /\ GcTransparent /\ IntentFresh)
<1>1. PlanInv => VersionsStable /\ GcTransparent /\ IntentFresh
  BY StableTransparent DEF PlanInv, SInv
<1> QED
  BY <1>1, PlanInvariant, PTL

-----------------------------------------------------------------------------
(* A job leaves nothing behind. *)

(* As long as anything is left of a key, its newest version is. *)
LEMMA NewestKept ==
    ASSUME NEW row, NEW past, NEW w \in Timestamp \cup {NoTs},
           \A t \in Timestamp : row[t] # NoVersion => past[t] = row[t],
           \A r \in Timestamp : r >= w => SeesSame(row, past, r),
           NEW s \in Timestamp, row[s] # NoVersion
    PROVE  get_latest_commit_ts(row) = get_latest_commit_ts(past)
<1> DEFINE a == get_latest_commit_ts(row)
           b == get_latest_commit_ts(past)
<1>1. /\ a \in Timestamp \cup {NoTs} /\ (a # NoTs => row[a] # NoVersion)
      /\ \A t \in Timestamp : row[t] # NoVersion => t <= a
  BY LatestProp
<1>2. /\ b \in Timestamp \cup {NoTs} /\ (b # NoTs => past[b] # NoVersion)
      /\ \A t \in Timestamp : past[t] # NoVersion => t <= b
  BY LatestProp
<1> HIDE DEF a, b
<1>3. a \in Timestamp /\ row[a] # NoVersion
  BY <1>1, TimestampType
<1>4. b \in Timestamp /\ past[b] # NoVersion /\ a <= b
  BY <1>2, <1>3, TimestampType
<1>5. PICK r \in Timestamp : r >= w /\ r >= b
  <2>1. CASE b >= w
    BY <1>4, <2>1, TimestampType
  <2>2. CASE ~(b >= w)
    BY <1>4, <2>2, TimestampType
  <2> QED
    BY <2>1, <2>2
<1>6. get_visible_committed(row, r) = a
  <2>1. a <= r
    BY <1>3, <1>4, <1>5, TimestampType
  <2> QED
    BY <1>1, <1>3, <2>1, VisibleUnique
<1>7. get_visible_committed(past, r) = b
  BY <1>2, <1>4, <1>5, VisibleUnique, TimestampType
<1>8. SeesSame(row, past, r)
  BY <1>5
<1>9. a = b
  BY <1>3, <1>6, <1>7, <1>8, TimestampType DEF SeesSame
<1> QED
  BY <1>9 DEF a, b

LEMMA NewestStays ==
    ASSUME NEW k \in Key, NEW s \in Timestamp
    PROVE  /\ SInv /\ committed[k][s] # NoVersion =>
                  get_latest_commit_ts(committed[k]) = get_latest_commit_ts(hist[k])
           /\ SInv' /\ committed'[k][s] # NoVersion =>
                  get_latest_commit_ts(committed'[k]) = get_latest_commit_ts(hist'[k])
<1>1. ASSUME SInv, committed[k][s] # NoVersion
      PROVE  get_latest_commit_ts(committed[k]) = get_latest_commit_ts(hist[k])
  <2>1. watermark \in Timestamp \cup {NoTs}
    BY <1>1 DEF SInv, TypeOK
  <2>2. \A t \in Timestamp : committed[k][t] # NoVersion => hist[k][t] = committed[k][t]
    BY <1>1 DEF SInv, CommittedInHist
  <2>3. \A r \in Timestamp : r >= watermark => SeesSame(committed[k], hist[k], r)
    BY <1>1, StableSees DEF SInv
  <2> QED
    BY <1>1, <2>1, <2>2, <2>3, NewestKept
<1>2. ASSUME SInv', committed'[k][s] # NoVersion
      PROVE  get_latest_commit_ts(committed'[k]) = get_latest_commit_ts(hist'[k])
  <2>1. watermark' \in Timestamp \cup {NoTs}
    BY <1>2 DEF SInv, TypeOK
  <2>2. \A t \in Timestamp : committed'[k][t] # NoVersion => hist'[k][t] = committed'[k][t]
    BY <1>2 DEF SInv, CommittedInHist
  <2>3. \A r \in Timestamp : r >= watermark' => SeesSame(committed'[k], hist'[k], r)
    BY <1>2, StableSees DEF SInv
  <2> QED
    BY <1>2, <2>1, <2>2, <2>3, NewestKept
<1> QED
  BY <1>1, <1>2

\* What the safe point of the job hides, and is still there, stays hidden.
StaysHidden ==
    \A t \in Timestamp : committed'[job.key][t] # NoVersion /\ OwedOld(t) =>
        t < get_visible_committed(committed'[job.key], job.safe_point_ts)

(* What a job owes, it still finds. *)
LEMMA OwedKept ==
    ASSUME PlanInv, PlanInv', JobInv, job \in Job, job' = job, Watch, NothingReturns,
           StaysHidden
    PROVE  OwedIsThere' /\ owed' \in SUBSET owed
<1> DEFINE k == job.key
<1>0. /\ k \in Key /\ owed \in SUBSET Timestamp /\ SInv /\ SInv' /\ job # NoJob
  BY PlannerAssumption DEF PlanInv, PlannerTypeOK, Job
<1>1. owed' = {t \in owed :
        /\ committed'[k][t] # NoVersion
        /\ \/ committed'[k][t] # Tombstone
           \/ t # get_latest_commit_ts(hist[k])
           \/ t = get_latest_commit_ts(committed'[k]) /\ intents'[k] = NoIntent}
  BY <1>0 DEF Watch, StillOwed
<1>2. ASSUME NEW t \in owed'
      PROVE  committed'[k][t] # NoVersion /\ (OwedOld(t)' \/ OwedFinal(t)')
  <2>1. t \in owed /\ t \in Timestamp /\ committed'[k][t] # NoVersion
    BY <1>0, <1>1
  <2>2. CASE OwedOld(t)
    BY <2>1, <2>2 DEF StaysHidden, OwedOld
  <2>3. CASE OwedFinal(t)
    <3>1. /\ job.collapse /\ committed[k][t] = Tombstone /\ t <= job.safe_point_ts
          /\ t = get_latest_commit_ts(hist[k])
      BY <2>3 DEF OwedFinal
    <3>2. t <= get_latest_commit_ts(hist[k])
      BY <2>1, <3>1, TimestampType
    <3>3. committed'[k][t] = Tombstone
      BY <1>0, <2>1, <3>1, <3>2 DEF NothingReturns
    <3>4. t = get_latest_commit_ts(committed'[k]) /\ intents'[k] = NoIntent
      BY <1>1, <3>1, <3>3
    <3>5. t = get_latest_commit_ts(hist'[k])
      BY <1>0, <2>1, <3>4, NewestStays
    <3> QED
      BY <2>1, <3>1, <3>3, <3>4, <3>5 DEF OwedFinal
  <2> QED
    BY <1>0, <2>1, <2>2, <2>3 DEF JobInv, OwedIsThere
<1>3. owed' \in SUBSET owed
  BY <1>1
<1>4. job.max_versions_examined = 0 => owed' = {}
  BY <1>0, <1>3 DEF JobInv, OwedIsThere
<1> QED
  BY <1>2, <1>3, <1>4 DEF OwedIsThere

LEMMA PlanOfJobKept ==
    ASSUME PlanInv, PlanOfJob, plan # NoPlan, plan' = plan, job' = job,
           owed' \in SUBSET owed, NothingReturns, StaysHidden
    PROVE  PlanOfJob'
<1>0. plan \in Plan /\ Shadowed(plan, committed, hist, watermark) /\ plan.key = job.key
  BY DEF PlanInv, PlannerTypeOK, PlanOfJob
<1>1. ASSUME NEW t \in plan.versions_to_remove, committed'[plan.key][t] # NoVersion
      PROVE  OwedOld(t)'
  <2>1. t \in Timestamp /\ plan.key \in Key /\ hist[plan.key][t] # NoVersion
    BY <1>0 DEF Plan, Shadowed
  <2>2. t <= get_latest_commit_ts(hist[plan.key])
    BY <2>1, LatestProp
  <2>3. committed[plan.key][t] # NoVersion
    BY <1>1, <2>1, <2>2 DEF NothingReturns
  <2>4. OwedOld(t)
    BY <2>3 DEF PlanOfJob
  <2> QED
    BY <1>0, <1>1, <2>1, <2>4 DEF StaysHidden, OwedOld
<1> QED
  BY <1>0, <1>1 DEF PlanOfJob, Removals

LEMMA AppliedKept ==
    ASSUME PlanInv, AppliedIsGone, applied' = applied, NothingReturns
    PROVE  AppliedIsGone'
<1> SUFFICES ASSUME applied # NoPlan, NEW t \in Removals(applied),
                    committed'[applied.key][t] # NoVersion
             PROVE  FALSE
  BY DEF AppliedIsGone, Removals
<1> DEFINE k == applied.key
<1>1. applied \in Plan /\ Shadowed(applied, committed, hist, watermark)
  BY DEF PlanInv, PlannerTypeOK
<1>2. k \in Key /\ t \in Timestamp /\ hist[k][t] # NoVersion
  BY <1>1, SentinelAssumption DEF Plan, Removals, Shadowed
<1>3. t <= get_latest_commit_ts(hist[k])
  BY <1>2, LatestProp
<1> QED
  BY <1>2, <1>3 DEF NothingReturns, AppliedIsGone

(* A commit hides what was hidden, if not behind the same version. *)
LEMMA ClientHides ==
    ASSUME Contract, SInv, EngineOp, job \in Job
    PROVE  StaysHidden
<1> DEFINE k == job.key
           safe == job.safe_point_ts
<1>0. k \in Key /\ safe \in Timestamp /\ committed[k] \in Row
  BY DEF Job, SInv, TypeOK, BackendTypeOK
<1>1. get_visible_committed(committed[k], safe) \in Timestamp \cup {NoTs}
      /\ (get_visible_committed(committed[k], safe) # NoTs =>
              committed[k][get_visible_committed(committed[k], safe)] # NoVersion)
  BY VisibleProp
<1>2. CASE committed'[k] = committed[k]
  BY <1>2 DEF StaysHidden, OwedOld
<1>3. ASSUME NEW c \in Timestamp, NEW m \in Mutation, c > get_latest_commit_ts(committed[k]),
             committed'[k] = Written(committed[k], c, m)
      PROVE  StaysHidden
  <2> DEFINE a == get_visible_committed(committed[k], safe)
             b == get_visible_committed(committed'[k], safe)
  <2>1. b = IF safe >= c THEN c ELSE a
    BY <1>0, <1>3, ReadAfterWrite
  <2>2. a # NoTs => a <= get_latest_commit_ts(committed[k])
    BY <1>1, LatestProp
  <2>3. get_latest_commit_ts(committed[k]) \in Int
    BY <1>0, LatestInt
  <2> HIDE DEF a, b
  <2>4. a \in Int /\ a <= b
    BY <1>1, <1>3, <2>1, <2>2, <2>3, TimestampType DEF a
  <2>5. b \in Int
    BY <2>1, <2>4, TimestampType
  <2>6. \A t \in Timestamp : t < a => t < b
    BY <2>4, <2>5, TimestampType
  <2> QED
    BY <2>6 DEF StaysHidden, OwedOld, a, b
<1> QED
  BY <1>0, <1>2, <1>3, RowsGrow

(* A removal that leaves what the safe point of the job shows hides nothing   *)
(* less; nor does the collapse of the job's own plan, which leaves nothing.   *)
LEMMA RemovalHides ==
    ASSUME SInv, job \in Job, NEW S, remove_committed_versions(job.key, S),
           LET keeper == get_visible_committed(committed[job.key], job.safe_point_ts)
           IN  \/ keeper \notin S
               \/ \A t \in TimestampsOf(committed[job.key]) : t < keeper => t \in S
    PROVE  StaysHidden
<1> DEFINE k == job.key
           row == committed[k]
           keeper == get_visible_committed(row, job.safe_point_ts)
<1>0. StoreOK /\ k \in Key
  BY DEF SInv, TypeOK, StoreOK, Job
<1>1. committed'[k] = Pruned(row, S)
  BY <1>0, RemovalStore
<1>2. CASE keeper \notin S
  <2>1. get_visible_committed(committed'[k], job.safe_point_ts) = keeper
    BY <1>1, <1>2, KeeperStays
  <2> QED
    BY <2>1 DEF StaysHidden, OwedOld
<1>3. CASE \A t \in TimestampsOf(row) : t < keeper => t \in S
  <2>1. ASSUME NEW t \in Timestamp, committed'[k][t] # NoVersion, OwedOld(t) PROVE FALSE
    <3>1. t \notin S /\ row[t] # NoVersion
      BY <1>1, <2>1 DEF Pruned
    <3>2. t < keeper
      BY <2>1 DEF OwedOld
    <3> QED
      BY <1>3, <3>1, <3>2 DEF TimestampsOf
  <2> QED
    BY <2>1 DEF StaysHidden
<1> QED
  BY <1>2, <1>3

(* The plan of the job does not remove what its safe point shows, except to *)
(* collapse it.                                                             *)
LEMMA OwnPlanHides ==
    ASSUME PlanInv, JobInv, job \in Job, plan # NoPlan, NEW S,
           S = Removals(plan) \/ S \in SUBSET plan.versions_to_remove,
           remove_committed_versions(plan.key, S)
    PROVE  StaysHidden
<1> DEFINE row == committed[job.key]
           keeper == get_visible_committed(row, job.safe_point_ts)
           c == plan.collapse_tombstone
<1>0. /\ SInv /\ PlanOfJob /\ plan.key = job.key
      /\ plan \in Plan /\ Shadowed(plan, committed, hist, watermark)
  BY DEF PlanInv, JobInv, PlanOfJob, PlannerTypeOK
<1>1. /\ keeper \in Timestamp \cup {NoTs}
      /\ keeper # NoTs => row[keeper] # NoVersion
  BY VisibleProp
<1>2. \A t \in plan.versions_to_remove : row[t] # NoVersion => t < keeper
  BY <1>0 DEF PlanOfJob, OwedOld
<1>3. /\ plan.versions_to_remove \in SUBSET Timestamp
      /\ c # NoTs => \A t \in TimestampsOf(row) : t < c => t \in plan.versions_to_remove
  BY <1>0 DEF Plan, Shadowed
<1> HIDE DEF keeper
<1>4. keeper \notin plan.versions_to_remove
  BY <1>1, <1>2, <1>3, TimestampType
<1>5. \/ keeper \notin S
      \/ \A t \in TimestampsOf(row) : t < keeper => t \in S
  BY <1>3, <1>4 DEF Removals
<1> QED
  BY <1>0, <1>5, RemovalHides DEF keeper

(* Without a pass, the steps beside the job are those of clients. *)
LEMMA OnlyClients ==
    ASSUME MaxPasses = 0, TypeOK, NoPassRuns, Next
    PROVE  EngineOp /\ NoPassRuns'
<1>1. ~Start
  BY DEF Start, TypeOK
<1>2. ~Collect /\ ~Fail
  BY DEF Collect, Fail, GcStep, GcReject, GcBegin, GcSkip, GcOutOfBudget, GcCollapse,
     GcTrimTombstone, GcPrune, GcReturn, GcFail, Scanning, NoPassRuns
<1>3. Client
  BY <1>1, <1>2 DEF Next
<1> QED
  BY <1>3 DEF Client, gcVars, NoPassRuns

LEMMA JobBeside ==
    ASSUME Contract, MaxPasses = 0, PlanInv, PlanInv', JobInv, Next, Beside
    PROVE  JobInv'
<1>0. /\ SInv /\ TypeOK /\ PlannerTypeOK /\ NoPassRuns /\ AppliedIsGone
      /\ UNCHANGED <<job, plan, applied>> /\ Watch
  BY DEF PlanInv, SInv, JobInv, Beside
<1>1. EngineOp /\ NoPassRuns'
  BY <1>0, OnlyClients
<1>2. NothingReturns
  BY <1>0, EngineReturnsNothing
<1>3. AppliedIsGone'
  BY <1>0, <1>2, AppliedKept
<1>4. CASE job = NoJob
  <2>1. owed' = {} /\ plan = NoPlan
    BY <1>0, <1>4 DEF Watch, JobInv, IdleOwesNothing
  <2> QED
    BY <1>0, <1>1, <1>3, <1>4, <2>1 DEF JobInv, IdleOwesNothing, OwedIsThere
<1>5. CASE job # NoJob
  <2>1. job \in Job
    BY <1>0, <1>5 DEF PlannerTypeOK
  <2>2. StaysHidden
    BY <1>0, <1>1, <2>1, ClientHides
  <2>3. OwedIsThere' /\ owed' \in SUBSET owed
    BY <1>0, <1>2, <2>1, <2>2, OwedKept
  <2>4. plan # NoPlan => PlanOfJob'
    BY <1>0, <1>2, <2>2, <2>3, PlanOfJobKept DEF JobInv
  <2> QED
    BY <1>0, <1>1, <1>3, <1>5, <2>3, <2>4 DEF JobInv, IdleOwesNothing
<1> QED
  BY <1>4, <1>5

LEMMA JobSchedule ==
    ASSUME PlanInv, PlanInv', JobInv, Schedule
    PROVE  JobInv'
<1>1. PICK k \in Key, safe \in SafePoints, max \in PlanBudgets, collapse \in Collapses :
          /\ job' = [key |-> k, safe_point_ts |-> safe,
                     max_versions_examined |-> max, collapse |-> collapse]
          /\ owed' = IF max = 0 THEN {} ELSE Collectable(k, safe, collapse)
          /\ job = NoJob /\ UNCHANGED <<store, gcVars, hist, plan, applied>>
  BY DEF Schedule
<1>2. /\ committed' = committed /\ intents' = intents /\ hist' = hist
      /\ pass' = pass /\ call' = call /\ plan' = plan /\ applied' = applied
  BY <1>1 DEF store, gcVars
<1>3. SInv /\ plan = NoPlan
  BY <1>1 DEF PlanInv, JobInv, IdleOwesNothing
<1>4. /\ job'.key = k /\ job'.safe_point_ts = safe /\ job'.collapse = collapse
      /\ job'.max_versions_examined = max
  BY <1>1
<1>5. job' # NoJob
  <2>1. safe \in Timestamp /\ collapse \in BOOLEAN
    BY InputAssumption
  <2>2. job' \in Job
    BY <1>1, <2>1 DEF Job
  <2> QED
    BY <2>2, PlannerAssumption
<1>6. ASSUME NEW t \in owed'
      PROVE  committed'[k][t] # NoVersion /\ (OwedOld(t)' \/ OwedFinal(t)')
  <2> DEFINE x == [key |-> k, ts |-> t]
  <2>1. /\ t \in Timestamp
        /\ x \in Obsolete(safe) \/ (collapse /\ x \in FinalTombstones(safe))
    BY <1>1 DEF Collectable
  <2>2. CASE x \in Obsolete(safe)
    <3>1. committed[k][t] # NoVersion /\ t < get_visible_committed(committed[k], safe)
      BY <2>2 DEF Obsolete
    <3> QED
      BY <1>2, <1>4, <3>1 DEF OwedOld
  <2>3. CASE collapse /\ x \in FinalTombstones(safe)
    <3>1. /\ committed[k][t] = Tombstone /\ t <= safe
          /\ t = get_latest_commit_ts(committed[k]) /\ intents[k] = NoIntent
      BY <2>3 DEF FinalTombstones, Locked
    <3>2. committed[k][t] # NoVersion
      BY <3>1, SentinelAssumption
    <3>3. t = get_latest_commit_ts(hist[k])
      BY <1>3, <2>1, <3>1, <3>2, NewestStays
    <3> QED
      BY <1>2, <1>4, <2>3, <3>1, <3>2, <3>3 DEF OwedFinal
  <2> QED
    BY <2>1, <2>2, <2>3
<1>7. OwedIsThere'
  BY <1>1, <1>4, <1>6 DEF OwedIsThere
<1>8. NoPassRuns' /\ AppliedIsGone'
  BY <1>2 DEF JobInv, NoPassRuns, AppliedIsGone, Removals
<1> QED
  BY <1>2, <1>3, <1>5, <1>7, <1>8 DEF JobInv, IdleOwesNothing

LEMMA JobPlans ==
    ASSUME PlanInv, JobInv, RejectJob \/ MakePlan
    PROVE  JobInv'
<1>0. SInv /\ TypeOK /\ PlannerTypeOK
  BY DEF PlanInv, SInv
<1>1. /\ job # NoJob /\ plan = NoPlan
      /\ committed' = committed /\ intents' = intents /\ hist' = hist
      /\ pass' = pass /\ call' = call /\ applied' = applied /\ owed' = owed
  BY DEF RejectJob, MakePlan, vars, store, gcVars, ghosts
<1>2. NoPassRuns' /\ AppliedIsGone'
  BY <1>1 DEF JobInv, NoPassRuns, AppliedIsGone, Removals
<1>3. CASE RejectJob
  <2>1. job' = NoJob /\ plan' = NoPlan /\ owed' = {}
    BY <1>1, <1>3 DEF RejectJob, JobInv, OwedIsThere
  <2> QED
    BY <1>2, <2>1 DEF JobInv, IdleOwesNothing, OwedIsThere
<1>4. CASE MakePlan
  <2> DEFINE row == committed[job.key]
             keeper == get_visible_committed(row, job.safe_point_ts)
             p == plan_key_gc(job)
  <2>0. job \in Job /\ job' = job /\ plan' = p
    BY <1>0, <1>4 DEF MakePlan, PlannerTypeOK
  <2>1. /\ p.key = job.key
        /\ keeper = NoTs => p.versions_to_remove = {} /\ p.collapse_tombstone = NoTs
        /\ p.versions_to_remove \in SUBSET {t \in TimestampsOf(row) : t < keeper}
        /\ keeper # NoTs /\ p.complete =>
              /\ p.versions_to_remove = {t \in TimestampsOf(row) : t < keeper}
              /\ job.collapse /\ IsCollapsible(job.key, keeper) =>
                     p.collapse_tombstone = keeper
    BY <1>0, <2>0, PlanFields
  <2> HIDE DEF p
  <2>2. ASSUME p.complete, NEW t \in owed
        PROVE  t \in Removals(p)
    <3>1. /\ t \in Timestamp /\ row[t] # NoVersion /\ (OwedOld(t) \/ OwedFinal(t))
      BY <1>0, <1>1 DEF PlannerTypeOK, JobInv, OwedIsThere
    <3>2. CASE OwedOld(t)
      <4>1. t < keeper
        BY <3>2 DEF OwedOld
      <4>2. keeper # NoTs
        BY <3>1, <4>1, TimestampType
      <4> QED
        BY <2>1, <2>2, <3>1, <4>1, <4>2 DEF TimestampsOf, Removals
    <3>3. CASE OwedFinal(t)
      <4>1. /\ job.collapse /\ row[t] = Tombstone /\ t <= job.safe_point_ts
            /\ t = get_latest_commit_ts(row) /\ intents[job.key] = NoIntent
        BY <3>3 DEF OwedFinal
      <4>2. \A u \in Timestamp : row[u] # NoVersion => u <= t
        BY <4>1, LatestProp
      <4>3. keeper = t
        <5> HIDE DEF row
        <5> QED
          BY <3>1, <4>1, <4>2, VisibleUnique
      <4>4. IsCollapsible(job.key, keeper) /\ keeper # NoTs
        BY <3>1, <4>1, <4>3, TimestampType DEF IsCollapsible, Locked
      <4>5. p.collapse_tombstone = t /\ t # NoTs
        BY <2>1, <2>2, <4>1, <4>3, <4>4
      <4> QED
        BY <4>5 DEF Removals
    <3> QED
      BY <3>1, <3>2, <3>3
  <2>3. PlanOfJob'
    BY <1>1, <2>0, <2>1, <2>2 DEF PlanOfJob, OwedOld, Removals
  <2>4. OwedIsThere'
    BY <1>1, <2>0 DEF JobInv, OwedIsThere, OwedOld, OwedFinal
  <2> QED
    BY <1>1, <1>2, <2>0, <2>3, <2>4 DEF JobInv, IdleOwesNothing
<1> QED
  BY <1>3, <1>4

(* Applying the plan of the job, or failing to.  A complete plan takes all   *)
(* that is owed.                                                             *)
LEMMA JobApplies ==
    ASSUME PlanInv, PlanInv', JobInv, ApplyPlan \/ FailPlan
    PROVE  JobInv'
<1>0. /\ SInv /\ TypeOK /\ StoreOK /\ plan # NoPlan /\ job # NoJob /\ job \in Job
      /\ plan \in Plan /\ plan.key = job.key /\ plan.key \in Key
      /\ Shadowed(plan, committed, hist, watermark) /\ PlanOfJob
  BY DEF PlanInv, SInv, TypeOK, StoreOK, PlannerTypeOK, JobInv, IdleOwesNothing, ApplyPlan,
     FailPlan, PlanOfJob, Plan
<1>1. Observe /\ Watch /\ UNCHANGED gcVars /\ plan' = NoPlan
  BY DEF ApplyPlan, FailPlan
<1>2. passes' \in 0 .. MaxPasses /\ failures' \in 0 .. MaxFailures
  BY DEF PlanInv, SInv, TypeOK
<1>3. NoPassRuns'
  BY <1>1 DEF JobInv, NoPassRuns, gcVars
<1>4. ASSUME NEW S, S = Removals(plan) \/ S \in SUBSET plan.versions_to_remove,
             remove_committed_versions(plan.key, S)
      PROVE  NothingReturns /\ StaysHidden /\ (job' = job => OwedIsThere')
  <2>1. NothingReturns
    BY <1>0, <1>1, <1>2, <1>4, RemovalStep
  <2>2. StaysHidden
    BY <1>0, <1>4, OwnPlanHides
  <2> QED
    BY <1>0, <1>1, <2>1, <2>2, OwedKept
<1>5. CASE ApplyPlan
  <2>1. /\ remove_committed_versions(plan.key, Removals(plan)) /\ applied' = plan
        /\ job' = IF plan.complete THEN NoJob ELSE job
    BY <1>5 DEF ApplyPlan
  <2>2. \A t \in Timestamp : t \in Removals(plan) => committed'[plan.key][t] = NoVersion
    <3>1. committed'[plan.key] = Pruned(committed[plan.key], Removals(plan))
      BY <1>0, <2>1, RemovalStore
    <3> QED
      BY <3>1 DEF Pruned
  <2>3. \A t \in Removals(plan) : t \in Timestamp
    BY <1>0 DEF Plan, Removals
  <2>4. AppliedIsGone'
    BY <2>1, <2>2, <2>3 DEF AppliedIsGone, Removals
  <2>5. CASE plan.complete
    <3>1. owed \subseteq Removals(plan)
      BY <1>0, <2>5 DEF PlanOfJob
    <3>2. owed' = {}
      BY <1>0, <1>1, <2>2, <2>3, <3>1 DEF Watch, StillOwed
    <3> QED
      BY <1>1, <1>3, <2>1, <2>4, <2>5, <3>2 DEF JobInv, IdleOwesNothing, OwedIsThere
  <2>6. CASE ~plan.complete
    <3>1. job' = job /\ OwedIsThere'
      BY <1>4, <2>1, <2>6
    <3> QED
      BY <1>0, <1>1, <1>3, <2>4, <3>1 DEF JobInv, IdleOwesNothing
  <2> QED
    BY <2>5, <2>6
<1>6. CASE FailPlan
  <2>1. PICK n \in 0 .. Cardinality(plan.versions_to_remove) :
            remove_committed_versions(plan.key, NewestN(plan.versions_to_remove, n))
    BY <1>6 DEF FailPlan
  <2>2. NewestN(plan.versions_to_remove, n) \in SUBSET plan.versions_to_remove
    BY DEF NewestN
  <2>3. job' = job /\ applied' = applied
    BY <1>6 DEF FailPlan
  <2>4. NothingReturns /\ OwedIsThere'
    BY <1>4, <2>1, <2>2, <2>3
  <2>5. AppliedIsGone'
    BY <2>3, <2>4, AppliedKept DEF JobInv
  <2> QED
    BY <1>0, <1>1, <1>3, <2>3, <2>4, <2>5 DEF JobInv, IdleOwesNothing
<1> QED
  BY <1>5, <1>6

(* Applying a plan again removes nothing. *)
LEMMA JobReapplies ==
    ASSUME PlanInv, PlanInv', JobInv, ReapplyPlan
    PROVE  JobInv'
<1>0. /\ SInv /\ TypeOK /\ StoreOK /\ applied # NoPlan /\ applied \in Plan
      /\ applied.key \in Key /\ Shadowed(applied, committed, hist, watermark)
      /\ committed \in [Key -> Row] /\ PlannerTypeOK
  BY DEF PlanInv, SInv, TypeOK, BackendTypeOK, StoreOK, PlannerTypeOK, ReapplyPlan, Plan
<1>1. /\ remove_committed_versions(applied.key, Removals(applied))
      /\ Observe /\ Watch /\ UNCHANGED gcVars /\ UNCHANGED <<job, plan, applied>>
  BY DEF ReapplyPlan
<1>2. passes' \in 0 .. MaxPasses /\ failures' \in 0 .. MaxFailures
  BY DEF PlanInv, SInv, TypeOK
<1>3. NoPassRuns'
  BY <1>1 DEF JobInv, NoPassRuns, gcVars
<1>4. NothingReturns
  BY <1>0, <1>1, <1>2, RemovalStep
<1>5. AppliedIsGone'
  BY <1>1, <1>4, AppliedKept DEF JobInv
<1>6. \A k \in Key, t \in Timestamp : committed'[k][t] = committed[k][t]
  <2>1. /\ committed'[applied.key] = Pruned(committed[applied.key], Removals(applied))
        /\ \A j \in Key \ {applied.key} : committed'[j] = committed[j]
    BY <1>0, <1>1, RemovalStore
  <2>2. \A t \in Removals(applied) : committed[applied.key][t] = NoVersion
    BY <1>0 DEF JobInv, AppliedIsGone
  <2>3. \A t \in Timestamp : committed'[applied.key][t] = committed[applied.key][t]
    <3> DEFINE S == Removals(applied)
    <3> HIDE DEF S
    <3>1. \A t \in S : committed[applied.key][t] = NoVersion
      BY <2>2 DEF S
    <3>2. committed'[applied.key] = Pruned(committed[applied.key], S)
      BY <2>1 DEF S
    <3> QED
      BY <3>1, <3>2 DEF Pruned
  <2> QED
    BY <2>1, <2>3
<1>7. \A k \in Key : committed'[k] = committed[k]
  <2>1. committed' \in [Key -> Row]
    BY DEF PlanInv, SInv, TypeOK, BackendTypeOK
  <2> QED
    BY <1>0, <1>6, <2>1 DEF Row
<1>8. CASE job = NoJob
  <2>1. owed' = {} /\ plan = NoPlan
    BY <1>1, <1>8 DEF Watch, JobInv, IdleOwesNothing
  <2> QED
    BY <1>1, <1>3, <1>5, <1>8, <2>1 DEF JobInv, IdleOwesNothing, OwedIsThere
<1>9. CASE job # NoJob
  <2>1. job \in Job /\ job.key \in Key
    BY <1>0, <1>9 DEF PlannerTypeOK, Job
  <2>2. StaysHidden
    BY <1>7, <2>1 DEF StaysHidden, OwedOld
  <2>3. OwedIsThere' /\ owed' \in SUBSET owed
    BY <1>1, <1>4, <2>1, <2>2, OwedKept
  <2>4. plan # NoPlan => PlanOfJob'
    BY <1>1, <1>4, <2>2, <2>3, PlanOfJobKept DEF JobInv
  <2> QED
    BY <1>1, <1>3, <1>5, <1>9, <2>3, <2>4 DEF JobInv, IdleOwesNothing
<1> QED
  BY <1>8, <1>9

LEMMA JobStep ==
    ASSUME Contract, MaxPasses = 0, PlanInv, JobInv, [PlannerNext]_allVars
    PROVE  JobInv'
<1>1. PlanInv'
  BY PlanStep
<1>2. CASE UNCHANGED allVars
  <2>1. /\ committed' = committed /\ intents' = intents /\ hist' = hist
        /\ pass' = pass /\ call' = call /\ job' = job /\ plan' = plan
        /\ applied' = applied /\ owed' = owed
    BY <1>2 DEF allVars, plannerVars, vars, store, gcVars, ghosts
  <2> QED
    BY <2>1 DEF JobInv, NoPassRuns, IdleOwesNothing, OwedIsThere, OwedOld, OwedFinal,
       PlanOfJob, AppliedIsGone, Removals
<1> QED
  BY <1>1, <1>2, JobBeside, JobSchedule, JobPlans, JobApplies, JobReapplies
     DEF PlannerNext, CleanUp

(* Where no collection pass takes versions away from a job, a job that       *)
(* applied a complete plan left nothing of what was collectable when it was  *)
(* scheduled, whatever was committed, locked, failed or applied again.       *)
THEOREM JobLeavesNothing ==
    ASSUME Contract, MaxPasses = 0
    PROVE  PlannerSpec => []JobDoneClean
<1>1. PlannerInit => PlanInv /\ JobInv
  <2>1. PlannerInit => PlanInv
    BY SnapshotInit DEF PlannerInit, PlanInv, PlannerTypeOK
  <2>2. PlannerInit => JobInv
    BY DEF PlannerInit, Init, GcInit, JobInv, NoPassRuns, IdleOwesNothing, OwedIsThere,
       AppliedIsGone
  <2> QED
    BY <2>1, <2>2
<1>2. (PlanInv /\ JobInv) /\ [PlannerNext]_allVars => (PlanInv /\ JobInv)'
  BY PlanStep, JobStep
<1>3. PlanInv /\ JobInv => JobDoneClean
  BY DEF JobInv, IdleOwesNothing, JobDoneClean
<1> QED
  BY <1>1, <1>2, <1>3, PTL DEF PlannerSpec
=============================================================================
