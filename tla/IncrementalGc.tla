---------------------------- MODULE IncrementalGc ----------------------------
(***************************************************************************)
(* Garbage collection (gc_incremental and gc, src/engine.rs).  A pass is   *)
(* the caller's loop: it fixes the safe point and the options, and calls   *)
(* gc_incremental with the cursor the previous call returned until a call  *)
(* reports done.  One call is modelled key by key, the body of its loop as *)
(* one action per branch; `call` is its local state.  The engine is        *)
(* borrowed mutably during a call, so no other operation runs before it    *)
(* returns; between two calls of a pass anything may run.                  *)
(*                                                                         *)
(* Removals go through a Backend that may fail (GcFail): a call that fails *)
(* has already removed a newest-first part of what it was about to remove. *)
(***************************************************************************)
EXTENDS MvccEngine

CONSTANTS
    UsizeMax,    \* largest usize; sums wrap around past it (release builds)
    NoPass,      \* the caller runs no pass
    NoCall       \* no gc_incremental call is running

ASSUME UsizeAssumption == UsizeMax \in Nat \ {0}

VARIABLES
    pass,        \* arguments and cursor of the caller's loop
    call         \* the running gc_incremental call

gcVars == <<pass, call>>

Usize == 0 .. UsizeMax

\* safe_point_ts, GcOptions and the IncrementalGcCursor.
Pass == [safe_point_ts : Timestamp, max_keys : Usize, max_versions : Usize,
         collapse : BOOLEAN, cursor : Key \cup {NoKey}]

\* todo: keys of the page not yet scanned; next: where the cursor will point
\* (NoKey: the pass is done); removed: versions_removed.
Call == [todo : SUBSET Key, next : Key \cup {NoKey}, removed : Nat]

ASSUME GcSentinelAssumption == NoPass \notin Pass /\ NoCall \notin Call

GcTypeOK ==
    /\ pass \in Pass \cup {NoPass}
    /\ call \in Call \cup {NoCall}
    /\ call # NoCall => pass # NoPass

GcInit == pass = NoPass /\ call = NoCall

-----------------------------------------------------------------------------
(* One call of gc_incremental. *)

Wrap(n) == n % (UsizeMax + 1)

\* The caller starts a pass: a cursor of None.  An unfinished pass may be
\* abandoned this way (its cursor lives in the caller's memory).
StartPass(safe_point_ts, budget, collapse) ==
    /\ call = NoCall
    /\ pass' = [safe_point_ts |-> safe_point_ts,
                max_keys |-> budget.max_keys, max_versions |-> budget.max_versions,
                collapse |-> collapse, cursor |-> NoKey]
    /\ UNCHANGED <<store, call>>

\* InvalidGcBudget: the call is refused, and gc() gives up with it.
GcReject ==
    /\ pass # NoPass /\ call = NoCall
    /\ pass.max_keys = 0 \/ pass.max_versions = 0
    /\ pass' = NoPass
    /\ UNCHANGED <<store, call>>

\* Mutant: no key beyond the budget is fetched, so every page looks like the last.
GcBeginNoProbe ==
    /\ pass # NoPass /\ call = NoCall
    /\ pass.max_keys # 0 /\ pass.max_versions # 0
    /\ call' = [todo |-> keys_from(pass.cursor, pass.max_keys),
                next |-> NoKey, removed |-> 0]
    /\ UNCHANGED <<store, pass>>

\* Fetch one key more than the budget; the extra key is where to resume.
GcBegin ==
    /\ pass # NoPass /\ call = NoCall
    /\ pass.max_keys # 0 /\ pass.max_versions # 0
    /\ LET keys == keys_from(pass.cursor, Wrap(pass.max_keys + 1))
           todo == FirstN(keys, pass.max_keys)
       IN  call' = [todo |-> todo,
                    next |-> IF keys = todo THEN NoKey ELSE Min(keys \ todo),
                    removed |-> 0]
    /\ UNCHANGED <<store, pass>>

Scanning == call # NoCall /\ call.todo # {}

\* The loop variable, and what the body looks up for it.
Current == Min(call.todo)
Keeper  == get_visible_committed(committed[Current], pass.safe_point_ts)
Limit   == pass.max_versions - call.removed

\* Mutant: any newest version counts as a tombstone.
IsFinalVersion ==
    /\ pass.collapse
    /\ ~Locked(Current)
    /\ get_latest_commit_ts(committed[Current]) = Keeper

\* Mutants: a lock does not matter; a newer version does not matter.
IsFinalThoughLocked ==
    /\ pass.collapse
    /\ committed[Current][Keeper] = Tombstone
    /\ get_latest_commit_ts(committed[Current]) = Keeper
IsAnyTombstone ==
    /\ pass.collapse
    /\ committed[Current][Keeper] = Tombstone
    /\ ~Locked(Current)

IsFinalTombstone ==
    /\ pass.collapse
    /\ committed[Current][Keeper] = Tombstone
    /\ ~Locked(Current)
    /\ get_latest_commit_ts(committed[Current]) = Keeper

\* Mutant: no version beyond the budget is asked for.
PageNoProbe == get_committed_timestamps_before(committed[Current], Keeper, Limit)

\* The obsolete versions the body asks for: one more than it may remove.
Page == get_committed_timestamps_before(committed[Current], Keeper, Wrap(Limit + 1))

\* What is left of the page after the extra version was popped.
Removable == NewestN(Page, Limit)

HasMore == Cardinality(Page) > Limit

\* `continue`: the next key, with n more versions removed.
Advance(n) ==
    call' = [call EXCEPT !.todo = @ \ {Current}, !.removed = @ + n]

\* Mutant: resume after this key.
SuspendAfter(n) ==
    call' = [call EXCEPT !.todo = {}, !.next = Current + 1, !.removed = @ + n]

\* `break`: resume at this key in the next call.
Suspend(n) ==
    call' = [call EXCEPT !.todo = {}, !.next = Current, !.removed = @ + n]

\* No version at or below the safe point, or no budget and nothing to do.
GcSkip ==
    /\ Scanning
    /\ \/ Keeper = NoTs
       \/ /\ Keeper # NoTs /\ Limit = 0
          /\ get_committed_timestamps_before(committed[Current], Keeper, 1) = {}
          /\ ~IsFinalTombstone
    /\ Advance(0)
    /\ UNCHANGED <<store, pass>>

\* No budget left for a key that has something to remove.
GcOutOfBudget ==
    /\ Scanning
    /\ Keeper # NoTs /\ Limit = 0
    /\ \/ get_committed_timestamps_before(committed[Current], Keeper, 1) # {}
       \/ IsFinalTombstone
    /\ Suspend(0)
    /\ UNCHANGED <<store, pass>>

\* Mutants: the tombstone goes although older versions stay behind; the
\* tombstone itself is not counted against the budget.
GcCollapsePartial ==
    /\ Scanning
    /\ Keeper # NoTs /\ Limit # 0 /\ IsFinalTombstone
    /\ remove_committed_versions(Current, Removable \cup {Keeper})
    /\ Advance(Cardinality(Removable) + 1)
    /\ UNCHANGED pass
GcCollapseUncounted ==
    /\ Scanning
    /\ Keeper # NoTs /\ Limit # 0 /\ IsFinalTombstone
    /\ Cardinality(Page) <= Limit
    /\ remove_committed_versions(Current, Page \cup {Keeper})
    /\ Advance(Cardinality(Page) + 1)
    /\ UNCHANGED pass

\* The tombstone and every older version fit the budget: one atomic collapse.
GcCollapse ==
    /\ Scanning
    /\ Keeper # NoTs /\ Limit # 0 /\ IsFinalTombstone
    /\ Cardinality(Page) < Limit
    /\ remove_committed_versions(Current, Page \cup {Keeper})
    /\ Advance(Cardinality(Page) + 1)
    /\ UNCHANGED pass

\* Mutant: wait until the whole history fits.
GcTrimNothing ==
    /\ Scanning
    /\ Keeper # NoTs /\ Limit # 0 /\ IsFinalTombstone
    /\ Cardinality(Page) >= Limit
    /\ Suspend(0)
    /\ UNCHANGED <<store, pass>>

\* They do not fit: remove older versions, leave the tombstone, come back.
GcTrimTombstone ==
    /\ Scanning
    /\ Keeper # NoTs /\ Limit # 0 /\ IsFinalTombstone
    /\ Cardinality(Page) >= Limit
    /\ remove_committed_versions(Current, Removable)
    /\ Suspend(Cardinality(Removable))
    /\ UNCHANGED pass

\* The ordinary case: remove versions older than the keeper.
GcPrune ==
    /\ Scanning
    /\ Keeper # NoTs /\ Limit # 0 /\ ~IsFinalTombstone
    /\ remove_committed_versions(Current, Removable)
    /\ \/ HasMore /\ Suspend(Cardinality(Removable))
       \/ ~HasMore /\ Advance(Cardinality(Removable))
    /\ UNCHANGED pass

\* The loop is over.  `done` means that no key is left to resume at, and ends
\* the caller's pass; otherwise the caller keeps the cursor for its next call.
GcReturn ==
    /\ call # NoCall /\ call.todo = {}
    /\ \/ call.next = NoKey /\ pass' = NoPass
       \/ call.next # NoKey /\ pass' = [pass EXCEPT !.cursor = call.next]
    /\ call' = NoCall
    /\ UNCHANGED store

\* The backend reports an error after n of the removals of this key: the call
\* returns Err, and the caller keeps the cursor it had.
GcFail ==
    /\ Scanning
    /\ call' = NoCall
    /\ UNCHANGED pass
    /\ \/ UNCHANGED store
       \/ /\ Keeper # NoTs /\ Limit # 0
          /\ ~(IsFinalTombstone /\ Cardinality(Page) < Limit)
          /\ \E n \in 1 .. Cardinality(Removable) - 1 :
                remove_committed_versions(Current, NewestN(Removable, n))

GcStep ==
    \/ GcReject
    \/ GcBegin
    \/ GcSkip
    \/ GcOutOfBudget
    \/ GcCollapse
    \/ GcTrimTombstone
    \/ GcPrune
    \/ GcReturn
=============================================================================
