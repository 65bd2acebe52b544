---------------------------- MODULE KeyGcPlanner ----------------------------
(***************************************************************************)
(* Garbage collection planned per key (plan_key_gc, src/engine.rs).        *)
(* Planning only reads; an adapter, which is not part of this crate,       *)
(* applies the plan later, when clients and collection passes may have     *)
(* changed the key, and plans the same key again until a complete plan was *)
(* applied.  The adapter may fail before or while it applies a plan, and   *)
(* may apply a plan a second time.                                         *)
(***************************************************************************)
EXTENDS MvccStore

CONSTANTS
    PlanBudgets,  \* values of max_versions_examined that adapters choose
    MaxJobs,      \* bound: how many keys are scheduled for cleanup
    NoJob,        \* no key is being cleaned up
    NoPlan        \* no plan

Plan == [key : Key, versions_to_remove : SUBSET Timestamp,
         collapse_tombstone : Timestamp \cup {NoTs}, complete : BOOLEAN]

\* A cleanup job: the arguments of plan_key_gc.
Job == [key : Key, safe_point_ts : Timestamp, max_versions_examined : PlanBudgets,
        collapse : BOOLEAN]

ASSUME PlannerAssumption ==
    /\ PlanBudgets \subseteq Usize
    /\ MaxJobs \in Nat
    /\ NoJob \notin Job /\ NoPlan \notin Plan

VARIABLES
    job,      \* the job of the adapter
    plan,     \* the plan it is about to apply
    applied,  \* the plan it applied last, and may apply again
    owed,     \* ghost: what of the job's key was collectable when it started
    jobs      \* how many jobs were started

plannerVars == <<job, plan, applied, owed, jobs>>
allVars == <<vars, plannerVars>>

PlannerInit ==
    /\ Init
    /\ job = NoJob /\ plan = NoPlan /\ applied = NoPlan
    /\ owed = {} /\ jobs = 0

-----------------------------------------------------------------------------
(* Planning. *)

EmptyPlan(k) == [key |-> k, versions_to_remove |-> {},
                 collapse_tombstone |-> NoTs, complete |-> TRUE]

IsCollapsible(k, keeper) ==
    /\ committed[k][keeper] = Tombstone
    /\ ~Locked(k)
    /\ get_latest_commit_ts(committed[k]) = keeper

\* Mutant: a page that fills the budget counts as the last.
FitsBudgetExactly(page, max) == Cardinality(page) <= max

\* Mutant: a page must leave room for one version more.
FitsBudgetWithRoom(page, max) == Cardinality(page) + 1 < max

\* A page that fills the budget may not be the last.
FitsBudget(page, max) == Cardinality(page) < max

\* Mutant: the tombstone is collapsed although older versions stay behind.
PlanWithEagerCollapse(k, j, keeper) ==
    LET page == get_committed_timestamps_before(
                    committed[k], keeper, j.max_versions_examined)
    IN  [key |-> k, versions_to_remove |-> page,
         collapse_tombstone |->
             IF j.collapse /\ IsCollapsible(k, keeper) THEN keeper ELSE NoTs,
         complete |-> FitsBudget(page, j.max_versions_examined)]

\* The plan below the keeper; versions_examined is the size of the page.
PlanBelow(k, j, keeper) ==
    LET page     == get_committed_timestamps_before(
                        committed[k], keeper, j.max_versions_examined)
        complete == FitsBudget(page, j.max_versions_examined)
    IN  [key |-> k, versions_to_remove |-> page,
         collapse_tombstone |->
             IF j.collapse /\ IsCollapsible(k, keeper) /\ complete
             THEN keeper ELSE NoTs,
         complete |-> complete]

plan_key_gc(j) ==
    LET keeper == get_visible_committed(committed[j.key], j.safe_point_ts)
    IN  IF keeper = NoTs THEN EmptyPlan(j.key) ELSE PlanBelow(j.key, j, keeper)

-----------------------------------------------------------------------------
(* The adapter. *)

Collectable(k, safe_point_ts, collapse) ==
    {t \in Timestamp :
        \/ [key |-> k, ts |-> t] \in Obsolete(safe_point_ts)
        \/ collapse /\ [key |-> k, ts |-> t] \in FinalTombstones(safe_point_ts)}

\* What is still there of it; a tombstone that is no longer final is not owed.
StillOwed(k) ==
    {t \in owed :
        /\ committed'[k][t] # NoVersion
        /\ \/ committed'[k][t] # Tombstone
           \/ t # get_latest_commit_ts(hist[k])
           \/ t = get_latest_commit_ts(committed'[k]) /\ intents'[k] = NoIntent}

Watch == owed' = IF job = NoJob THEN {} ELSE StillOwed(job.key)

Schedule == \E k \in Key, safe_point_ts \in SafePoints, max \in PlanBudgets,
               collapse \in Collapses :
    /\ job = NoJob /\ call = NoCall
    /\ jobs < MaxJobs /\ jobs' = jobs + 1
    /\ job' = [key |-> k, safe_point_ts |-> safe_point_ts,
               max_versions_examined |-> max, collapse |-> collapse]
    /\ owed' = IF max = 0 THEN {} ELSE Collectable(k, safe_point_ts, collapse)
    /\ watermark' = Max({watermark, safe_point_ts})
    /\ UNCHANGED <<store, gcVars, hist, debt, counters, plan, applied>>

\* InvalidKeyGcBudget.
RejectJob ==
    /\ job # NoJob /\ plan = NoPlan /\ call = NoCall
    /\ job.max_versions_examined = 0
    /\ job' = NoJob
    /\ UNCHANGED <<vars, plan, applied, owed, jobs>>

MakePlan ==
    /\ job # NoJob /\ plan = NoPlan /\ call = NoCall
    /\ job.max_versions_examined # 0
    /\ plan' = plan_key_gc(job)
    /\ UNCHANGED <<vars, job, applied, owed, jobs>>

Removals(p) ==
    p.versions_to_remove \cup ({p.collapse_tombstone} \ {NoTs})

\* External: the adapter applies the plan it holds, and is done with the key
\* if the plan was complete.
ApplyPlan ==
    /\ plan # NoPlan /\ call = NoCall
    /\ remove_committed_versions(plan.key, Removals(plan))
    /\ Observe /\ Watch
    /\ job' = IF plan.complete THEN NoJob ELSE job
    /\ applied' = plan /\ plan' = NoPlan
    /\ UNCHANGED <<gcVars, counters, jobs>>

\* External: it fails, after n of the removals of a plan that collapses nothing
\* or before the atomic collapse, forgets the plan and will plan again.
FailPlan ==
    /\ plan # NoPlan /\ call = NoCall
    /\ failures < MaxFailures /\ failures' = failures + 1
    /\ \E n \in 0 .. Cardinality(plan.versions_to_remove) :
          /\ plan.collapse_tombstone # NoTs => n = 0
          /\ remove_committed_versions(plan.key, NewestN(plan.versions_to_remove, n))
    /\ Observe /\ Watch
    /\ plan' = NoPlan
    /\ UNCHANGED <<gcVars, passes, job, applied, jobs>>

\* External: the application of a plan is repeated, at any later time.
ReapplyPlan ==
    /\ applied # NoPlan /\ call = NoCall
    /\ remove_committed_versions(applied.key, Removals(applied))
    /\ Observe /\ Watch
    /\ UNCHANGED <<gcVars, counters, job, plan, applied, jobs>>

CleanUp == RejectJob \/ MakePlan \/ ApplyPlan

\* Clients, passes and their calls leave the adapter's state alone.
Beside == Watch /\ UNCHANGED <<job, plan, applied, jobs>>

PlannerNext == (Next /\ Beside) \/ Schedule \/ CleanUp \/ FailPlan \/ ReapplyPlan

PlannerSpec == PlannerInit /\ [][PlannerNext]_allVars

\* The adapter repeats plan and application until the key is clean, and a pass
\* that runs between them returns.
FairPlannerSpec == PlannerSpec /\ WF_allVars(CleanUp) /\ WF_allVars(Collect /\ Beside)

-----------------------------------------------------------------------------
(* Properties. *)

\* A plan may be applied at any time: whatever was committed, locked, aborted
\* or collected since it was made, or if it is applied twice, each version it
\* names is either gone or shadowed for every reader at or above the safe
\* points by a version that the plan does not name, unless the plan collapses
\* the key, when it names everything up to a tombstone.
PlansStaySafe ==
    \A p \in {plan, applied} \ {NoPlan} :
        LET row == committed[p.key]
            c   == p.collapse_tombstone
        IN  /\ \A t \in p.versions_to_remove : row[t] # NoVersion =>
                  \E u \in t + 1 .. watermark :
                     row[u] # NoVersion /\ u \notin p.versions_to_remove
            /\ c # NoTs =>
                  /\ c <= watermark
                  /\ row[c] \in {Tombstone, NoVersion}
                  /\ \A t \in TimestampsOf(row) :
                        t < c => t \in p.versions_to_remove

\* When the adapter applied a complete plan, everything that was collectable
\* of the key when it scheduled the job is gone (a tombstone that was locked
\* or superseded since excepted), although the key changed and applications
\* failed in between.  It presumes that no collection pass with a higher safe
\* point is under way: such a pass may take the version that the job keeps and
\* leave older ones for its next call, and the job then finds nothing to do.
JobDoneClean == job = NoJob => owed = {}

\* Repeated bounded planning drains the key: every job ends, although clients
\* write, lock and delete the key, and old plans are applied again, between
\* two plans.
JobEnds == job # NoJob ~> job = NoJob
=============================================================================
