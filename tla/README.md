# A TLA+ verification of nexir-mvcc-core

`nexir-mvcc-core` is a Rust library: a deterministic multi-version store with
snapshot reads, transactional intents (locks), direct and guarded write batches
and garbage collection of old versions. It has no threads, clocks or I/O. An
adapter chooses every timestamp, serialises the operations into one engine, and
provides storage through the `Backend` trait. What makes it hard is therefore
not parallelism inside a call but the *order of calls*: transactions that
overlap, a collection pass that is spread over many calls with writers between
them, a backend that fails halfway, and a tombstone collapse that erases the
evidence later conflict checks rely on.

## Inventory

| Component | State | Operations | Correct when |
| --- | --- | --- | --- |
| In-memory backend (`src/backend.rs`) | `committed` (key, timestamp to optional value), `intents`, `all_keys_set` | point and range queries, all-or-nothing batches of intents, versions and removals | the key index is exact; batches are atomic |
| Reads (`src/engine.rs`) | none | `read`, `read_with_version`, `read_own_write` | a snapshot does not change |
| Transactions | intents, versions | `prewrite`, `commit`, `abort` and their `_batch` forms | first committer wins; versions in timestamp order; a lock isolates its key |
| Direct and guarded batches | versions | `apply_direct_batch`, `apply_guarded_batch` | all or nothing; never through a lock; never into the past |
| Incremental GC | a cursor in the caller, counters in a call | `gc_incremental`, `gc` | readers at or above the safe point notice nothing; the budget holds; a finished pass left no debt; a pass ends |
| Per-key GC planner | none | `plan_key_gc` | a plan is safe to apply, also a little later |
| Codec (`src/codec.rs`) | none | `encode_`/`decode_` of versions and intents | decoding inverts encoding and accepts nothing else |
| Command-load simulation (`examples/command_load_sim.rs`) | a clock, a queue of delayed increments, a gc cursor | reads, sets, deletes, multi-key sets, increments, two-key transactions, gc calls | no command panics; every increment counts; it ends |
| Clients (`examples/multi_key_intent_txn.rs`, `guarded_incr.rs`, `abort_replay.rs`) | what they read, what they wait for | read, prewrite, commit, abort, guarded batch | no update is lost, however requests arrive |
| Apply loop (an adapter's, outside the crate) | a log | apply, replay after a restart | replay changes nothing |
| Errors, types, conformance suite, crate root | none | | |

Components interact only by calls: the engine calls the backend, the adapter
calls the engine, and between two `gc_incremental` calls the adapter may call
anything. The only state outside the backend is the cursor of a pass, which the
caller holds.

The hard behaviours, each with its line and the properties that watch it, are
listed under `hazards` in `PROJECT.json`.

## Modules

* `Backend` models `InMemoryBackend`. A key is a natural number, since only the
  byte order of keys matters. The `BTreeMap` is one row per key: at each
  timestamp a value, `Tombstone` (the stored `None`) or `NoVersion`. `None` of
  an optional timestamp or key is `-1`, below every real one, so the code's
  `if let Some(ts) && ts > x` becomes `ts > x`. A run of
  `remove_committed_version` calls on one key, and `collapse_tombstone`, are
  both `remove_committed_versions`.
* `MvccEngine` models every engine operation except GC. An operation computes
  its result, the code's early returns in the code's order, and changes the
  store only when that is `"Ok"`; rejection is a disjunct of its own. The engine
  takes `&mut self` and validates before it writes, so an operation is one
  step. A backend error in one of these operations is all-or-nothing by the
  trait's contract and has the effect of a rejection. `install_intent` is
  external: the engine enforces `min_commit_ts` but never sets it, so an
  adapter must have written such an intent through `backend_mut`.
* `IncrementalGc` models `gc_incremental` key by key, one action per branch of
  the loop body: `GcBegin` (fetch keys, one more than the budget), `GcSkip`,
  `GcOutOfBudget`, `GcCollapse`, `GcTrimTombstone` (both branches that leave the
  tombstone for the next call), `GcPrune`, `GcReturn`, `GcReject`. `pass` holds
  the caller's arguments and cursor, `call` the local variables of the running
  call. `GcFail` is an error of the backend: before any removal of the current
  key, or after n of them, newest first as the code removes them; the caller
  keeps the cursor it had. `max_keys + 1` and `limit + 1` wrap at `UsizeMax + 1`,
  as in a build without overflow checks (Cargo's release profile; a debug build
  panics instead).
* `MvccStore` composes them. `Client` is any engine operation between two GC
  calls, `Start` a caller that starts a pass (and may so abandon one), `Collect`
  a step of a call, `Fail` a failed call. Three ghosts that no action reads
  except for the contract of the callers record the past: `hist`, every version
  ever committed; `watermark`, the highest safe point used; `debt`, what the
  current pass owes.
* `SnapshotStore` is the abstract specification: for each key what a read at
  each timestamp returns, the newest commit and the lock; no versions, index or
  collection. `SnapshotRefinement` maps `MvccStore` to it: the view is computed
  from the versions that collection left, the frontier is the watermark. An
  engine call maps to one abstract step or none, a collection step to none.
* `KeyGcPlanner` adds `plan_key_gc` to `MvccStore`, and an adapter that works on
  one key at a time: `Schedule` fixes the arguments, `MakePlan` plans,
  `ApplyPlan` applies at any later time, until a complete plan was applied.
  `FailPlan` stops after n removals (a plan that collapses is applied
  atomically, as `KeyGcPlan` demands) and plans anew; `ReapplyPlan` applies the
  last plan once more, at any time. The ghost `owed` is what of the key was
  collectable when the job was scheduled and is still there.
* `ApplyLog` puts the engine's batch operations under an apply loop that logs
  what the engine accepted. `Restart` sets the loop back to any earlier entry,
  also while it replays. The contract `Proper` is that a transaction which began
  to commit or abort prewrites nothing more under the same identity; without it
  the replay of a second prewrite meets the first one's lock as
  `PartialBatchReplay` and its lock is lost.
* `CommandLoad` is `run_simulation`: one action per command, per drained
  increment and per branch of a gc call. The random generator is a choice, and
  `Text` stands for all values that do not parse as a number. The ghost
  `register` is what each key would hold if every command acted once on the
  newest value.
* `RmwClients` has clients that read, compute and write, in a transaction or in
  one guarded batch, over a network that keeps every request for ever and
  delivers any of them at any time: a request that is never chosen was lost,
  one chosen twice duplicated. A client aborts when its prewrite is refused or
  takes too long; once it sent a commit it only waits for an answer.
  `CommitAtApply` says who chooses commit timestamps, the apply loop or the
  client.
* `Codec` is the codec over bytes to a small base and short integers, with the
  code's layout, tags and order of checks, and a storage cell (external) that is
  written whole, torn, overrun, or holds arbitrary bytes. Decoders return an
  error or a value and the offset behind it.
* `PrefixScan` adds `keys_from_prefix` and an adapter that pages through a
  prefix between other operations. Of prefixes only that their keys are
  consecutive is kept.
* `MCStore`, `MCRefinement`, `MCPlanner`, `MCApplyLog`, `MCLoad`, `MCClients`,
  `MCCodec` and `MCScan` hold the small instances for TLC.
* The proofs: `RowLemmas` (the operators and the backend's transitions),
  `SnapshotProofs` (types and index, snapshot isolation, the refinement),
  `PassProofs` (incremental collection, the prefix scan), `PlannerProofs` (per-key
  plans), `RmwProofs` (the clients), `ApplyLogProofs` (replay), `LoadProofs` (the
  command-load simulation) and `CodecProofs` (the codec).

Definitions named `...Blind`, `...NoProbe` and the like, marked "Mutant", are
deliberately wrong forms of the definition that follows them. They document
which property notices which mistake; no specification uses them.

### The contract of callers

With `collapse_final_tombstones` the code asks callers never to use a timestamp
at or below a collapsed tombstone again (`GcOptions`, `src/engine.rs:33`).
`Allowed(k, ts)` states that: once the newest version of `k` ever committed is
no longer stored, only newer timestamps are used on `k`. Callers are otherwise
free: they repeat operations, use any timestamps, unknown transactions, empty
batches and duplicate keys. With `TombstoneFence = FALSE` callers only stay at
or above the safe point, which is what the documents ask for (see Findings).

## Properties

* `TypeOK`: every variable has its type.
* `IndexExact`: `all_keys_set` is exactly the keys with an intent or a version.
* `IntentFresh`: no version newer than an intent's `start_ts` was ever
  committed on its key, collected ones included. The retroactive-commit checks
  of `commit` are therefore a second line of defence that never fires.
* `CommitOrder`: no step changes a key's history at or below its newest version.
* `LockedKeyIsolation`: a locked key gains a version only by committing its own
  intent, after its `start_ts` and not before its `min_commit_ts`, and loses the
  lock in the same step.
* `GcTransparent`: what a read at or above every safe point used returns is
  what it would return had nothing ever been collected.
* `LocksUnfenced`: a collapse never forbids the `start_ts` of a transaction that
  holds a lock on the key. The check for an intent (`src/engine.rs:888`) is made
  when the pass reaches the key, so it sees locks taken since the pass began.
* `RepeatableReads`: a snapshot that lies at or below the newest version never
  changes as long as no safe point passes it, and while a newer version is
  stored it keeps reporting the same version: `latest == keeper` in the same
  condition protects the tombstones below a newer version.
* `BudgetRespected`: a call removes at most `max_versions` versions.
* `PassDoneClean`: when a pass reports done, every version that was obsolete
  when it started is gone and, with collapse, every tombstone that was and
  stayed final.
* `PassEnds`: a pass that was started ends.
* `VersionsStable`: also the commit timestamp that such a read reports, which
  version guards compare, is the one without collection; only a collapsed
  tombstone may become "no version".
* `ImplementsSnapshotStore`: `MvccStore` implements `SnapshotStore`.
* `PlansStaySafe`: at every moment from planning until the last application,
  each version a plan names is gone or shadowed for all promised readers by one
  that it does not name; if it collapses, it still names everything up to its
  tombstone.
* `JobDoneClean`, `JobEnds`: a job ends, and leaves nothing of what was
  collectable when it began (a tombstone that was locked or superseded since
  excepted).
* `ReplayConverges`: whenever the apply loop has caught up, the store is what it
  was before the crash.
* `NeverPanics`, `NoLostUpdate`, `EveryIncrementApplied`: no `unwrap` of the
  simulation meets an error, each key reads as if every command acted once, and
  the program ends with an empty queue.
* `EveryUpdateCounts`: the counter on a key is the number of clients whose
  update was accepted. `CommitIsFinal`: whatever a commit is answered, it took
  effect. `CommittedHoldsNoLock`: no late prewrite locks for a committed
  transaction.
* `RoundTrip`, `DamageDetected`, `Canonical`, `OrderPreserved`: decoding inverts
  encoding, rejects torn and overrun records, accepts only what the encoder
  writes, and records of one key sort by `commit_ts`.
* `ScanComplete`, `ScanEnds`: a finished prefix scan saw every key that had a
  version throughout, and no other prefix; and a scan ends.

## Runs

The runs of `MvccStore` use two keys and one value (values are only compared,
and a tombstone is the second possible content).

| Run | Instance | Shows |
| --- | --- | --- |
| `transactions` | 2 transactions (symmetric), timestamps 0..2, no GC, batches of one and two keys, duplicates and empties, guards of both kinds, `min_commit_ts` 2 | `IndexExact`, `IntentFresh`, `CommitOrder`, `LockedKeyIsolation` |
| `gc` | no transactions, timestamps 0..3, safe points 2 and 3, budgets (1,1) and (2,2), 2 passes, 1 failure, collapse on and off | `TypeOK`, `GcTransparent`, `BudgetRespected`, `PassDoneClean`, `RepeatableReads` |
| `gc_version_overflow` | `max_versions` = `UsizeMax` | violates `GcTransparent` |
| `collapse_fence` | `TombstoneFence` = `FALSE` | violates `CommitOrder` |
| `snapshot_refinement` | 1 transaction, 2 keys, timestamps 0..2, safe points 1 and 2, one collapsing pass with the budget (1,1) or the refused (0,2) | `ImplementsSnapshotStore`, `IndexExact`, `GcTransparent`, `PassDoneClean`, `LocksUnfenced` |
| `planner` | `FairPlannerSpec`: 1 key, 1 transaction, timestamps 0..3, planning budgets 0, 1, 2, two jobs, one failure | `GcTransparent`, `VersionsStable`, `PlansStaySafe`, `JobDoneClean`, `JobEnds` |
| `replay` | 14 operations of two overlapping transactions, a direct and a guarded batch; logs of 6, two restarts | `ReplayConverges` |
| `command_load` | `FairSpec`: 4 commands, 2 keys, delays 1 and 3, so that an increment holds back another that is due, gc with a trailing safe point | `TypeOK`, `NeverPanics`, `NoLostUpdate`, `EveryIncrementApplied` |
| `rmw_clients` | 3 clients of one or both of 2 keys, both paths, commits timestamped when applied | `EveryUpdateCounts`, `CommitIsFinal`, `CommittedHoldsNoLock` |
| `rmw_timestamps` | 2 transactions, commits timestamped when sent | violates `EveryUpdateCounts` |
| `codec` | bytes 0..2, lengths and ids of one byte, timestamps of two, strings up to 3 bytes (one too long), all cells up to 11 bytes | `RoundTrip`, `DamageDetected`, `Canonical`, `OrderPreserved` |
| `cursors` | `FairScanSpec`: 4 keys, 3 with the prefix, pages of 1 and 2, writers, one collapsing pass with the budget (1,1), one failure | `ScanComplete`, `ScanEnds`, `PassEnds` |

Why the bounds are enough for the interesting cases: two keys make a page of one
key end before the keyspace does, and let a batch be partly locked or partly
replayed. Four timestamps give a key three versions below a tombstone, more than
either version budget, so the branches "does not fit", "fits exactly" and "fits
with the tombstone" all fire. Two passes let a second safe point pass the
first, a pass be abandoned, and a failed pass be redone. Two transactions are
what a conflict needs. `UsizeMax` is 7, far from every sum the passing runs
make; `gc_version_overflow` puts the budget at it. `MaxPasses` and `MaxFailures` bound
the ghost counters only. What the bounds cannot show is proved (below) for all.

In `planner` one key is enough, as a plan concerns one; four timestamps give it
more versions than a budget holds, so that pages are full, exactly full and
short. Logs of 6 let both transactions of `replay` lock, end, and the direct
or guarded batch come between; the second restart hits a replay. Three clients
in `rmw_clients` let one commit while a second is refused and a third locks
late. In `codec` base 3 has every tag value plus the version byte, two-digit
timestamps tell byte orders apart, and 11 bytes hold every field of an intent.
`replay`, `rmw_*`, `command_load`, `codec` and `cursors` are not checked
for deadlock, as these systems end: the log is full, the clients have decided
(their requests stay deliverable), the program returned, the cell is written,
or no timestamp is left above the collapsed tombstones.

Fairness: `FairSpec` adds weak fairness of `Collect` alone. A call of
`gc_incremental` runs to its return, and `gc` (or an adapter that wants its pass
to end) calls again until `done`. Nothing is assumed of clients; they may write
between any two calls, only finitely often since timestamps are finite. A
failed call is retried from the same cursor. `FairPlannerSpec` asks the same of
an adapter that repeats plan and application, and of a pass between them: not
that clients stop, or that a plan is applied soon. `FairScanSpec` asks it of a
scanner that wants all pages, and of the pass beside it. `FairSpec` of `CommandLoad`
says only that a single thread keeps running. Deadlock is checked in every run
of `MvccStore`, `SnapshotRefinement` and `KeyGcPlanner`.

## Findings

1. `limit + 1` (`src/engine.rs:903`) overflows for `max_versions =
   usize::MAX`. In a release build the page of older versions is empty, the
   tombstone is collapsed alone and a deleted value is visible again
   (`gc_version_overflow`). The comment above it says that the tombstone and all
   older versions go together. A debug build panics. `max_keys + 1`
   (`src/engine.rs:818`) overflows in the same way, for `max_keys = usize::MAX`:
   the call then scans nothing and reports `done`.
2. `docs/HISTORY_RETENTION_AND_GC.md`, `docs/MVCC_DESIGN.md` and `KeyGcOptions`
   ask callers that collapse tombstones to avoid timestamps *below* the safe
   point. A tombstone at the safe point itself may be collapsed, and a direct
   batch redelivered at its timestamp is then accepted (`collapse_fence`). Callers
   need the stricter rule of `GcOptions`, extended to direct writes.
3. `docs/MVCC_DESIGN.md` says that the conflict rules keep a read-derived write
   from overwriting a concurrent commit. They do so only if a reader's timestamp
   is above no commit timestamp that is chosen but not yet applied: `read`
   ignores locks, and the prewrite of a transaction that read in that window
   finds the lock gone and a newest version below its `start_ts`
   (`rmw_timestamps`). Adapters that timestamp commits when they apply them are
   safe (`rmw_clients`).

Not a finding, but worth knowing: both collectors remove a page of old versions
newest first. A pass that runs out of budget may have taken the version that a
plan with a lower safe point would keep, and left older ones; that plan is then
empty and complete. The rest is the pass's to collect, so nothing is lost, but
"complete" of a plan is relative to its own safe point. `JobDoneClean` is checked
without such a pass.

## Proofs

For every set of keys, values and transactions, every `MaxTs`, every set of
batches, safe points and budgets:

| Theorem | States | Assumes |
| --- | --- | --- |
| `TypeInvariant`, `IndexInvariant` | `TypeOK`, `IndexExact` | |
| `FirstCommitterWins` | `IntentFresh` | `Contract` |
| `CollectionInvisible`, `VersionsKept` | `GcTransparent`, `VersionsStable` | `Contract` |
| `BudgetSafe` | `BudgetRespected` | `Contract` |
| `CommitsInOrder`, `ReadsRepeat`, `LocksIsolate` | `CommitOrder`, `RepeatableReads`, `LockedKeyIsolation` | `Contract` |
| `LocksStayUsable` | `LocksUnfenced` | `Contract` |
| `Refinement` | `ImplementsSnapshotStore` | `Contract` |
| `PassLeavesNothing` | `PassDoneClean` | `Contract`, `PagesFit` |
| `PlansSafeForever`, `PlannerTransparent` | `PlansStaySafe`; `VersionsStable`, `GcTransparent`, `IntentFresh` of the planner's specification | `Contract` |
| `JobLeavesNothing` | `JobDoneClean` | `Contract`, `MaxPasses = 0` |
| `ScansComplete` | `ScanComplete` | |
| `NoUpdateLost`, `CommitsFinal`, `CommittedUnlocked` | `EveryUpdateCounts`, `CommitIsFinal`, `CommittedHoldsNoLock` | `CommitAtApply` |
| `Replays` | `ReplayConverges` | |
| `LoadTypes`, `LoadNeverPanics`, `LoadLosesNothing` | `TypeOK`, `NeverPanics`, `NoLostUpdate` of `CommandLoad` | |
| `ReadsBack`, `DamageIsAnError`, `DecodesCanonically`, `EncodesInOrder` | `RoundTrip`, `DamageDetected`, `Canonical`, `OrderPreserved` | |

`Contract` says that callers respect the tombstone fence and that no
`max_versions` is `usize::MAX`; Findings 1 and 2 show that neither half can be
dropped. `PagesFit` says the same of `max_keys`: at `usize::MAX` the `max_keys + 1`
of `src/engine.rs` wraps to zero, the page is empty, and the pass reports
completion without having looked at a key. No run has such a budget; the wrap is
in the model (`GcBegin`), and `PagesFit` keeps it out of the theorem. `CommitAtApply` is what the run
`rmw_timestamps` shows to be needed.

### Types and index

They need no contract. What each transition of the backend changes, and that it
keeps types and index, is said once in `RowLemmas` (`PutIntents`, `PutVersions`,
`CommitIntents`, `RemoveIntents`, `RemovalStore`), for all the systems built on it.
For `MvccStore` there is one lemma per kind of engine step (`LocksKeys`,
`WritesVersions`, `CommitsIntents`, `RemovesIntents`, removals); `EngineKinds` reduces the nine engine operations to these kinds and
extracts from the checks what each kind guarantees.

### Snapshot isolation

The theorems of `SnapshotProofs` rest on one inductive invariant, `SInv`. None of
its parts is inductive alone. That a commit is newer than all of history needs
`IntentFresh`; that a new intent or a direct write is fresh against history, not
just against the stored versions, needs the contract and `CommittedInHist` (what
is stored agrees with history); that readers agree after a removal needs
`VersionsStable` before it and `PassBounded` (the safe point of the pass is at
most the watermark); that a page shorter than the limit is complete, hence that
a collapse leaves nothing behind, needs `BudgetRespected` and `PassBounded` so
that `limit + 1` does not wrap. `VersionsStable` takes the place of
`GcTransparent`, which follows from it. `EngineEffects` says once what an engine
step does to rows, history and locks, and the action properties are read off it.

That a removal is invisible is one lemma: `Harmless` describes the two kinds
of sets that collection removes from a row (versions below a keeper at or below
the watermark; everything, when the newest version is a tombstone), and
`ReadAfterRemoval` says what reads return afterwards. Passes and plans both come
down to it. Of a pass more is true (`GcTakes`): a removal that takes the newest
version of a row finds the key free and that version at or below the watermark.
`LocksStayUsable` and the second half of `ReadsRepeat` follow from it. It does not
hold of plans: one that is applied late may collapse the tombstone under a lock
taken since, which readers do not notice (`PlannerTransparent`).

### Refinement

`SnapshotProofs` shows that `Init` maps to an abstract initial state and that
each kind of engine step maps to the abstract step of its kind: locking,
writing, committing, releasing. Every collection step leaves the mapped view
unchanged at and above the frontier, or raises the frontier. The work is in
`ReadAfterWrite` (what a version on top does to every read) and `SInv`.

### Passes

`DebtInv` ties the position of a pass to what it still owes: what is owed is
still there and still collectable (`StillObsolete`, `StillFinal`), lies at or
after the cursor (`DebtAhead`), and during a call it lies in the rest of the page
or at or after the cursor that the call will return (`DebtInCall`). It is inductive
only together with `SInv`, from which it takes that clients commit nothing below
the safe point on a key where something newer is there. `FirstNComplete` and
`GreatestBelow` carry the paging argument: a page that is not full is all there
is, and a full one is an initial segment, so that nothing lies between its last
key and the next cursor.

### Plans

That a plan stays safe cannot be said of the stored versions alone: a pass, or
another application of the same plan, may have removed some of them. `Shadowed`
says it of the history, which only grows at its upper end: every version a plan
names is older than what the history shows at the watermark, and below a
tombstone that it collapses nothing is stored that it does not name.
`NothingReturns`, a removed version is never written again, keeps the second
part. `PlanInv` is `SInv` with `Shadowed` for the plan that waits and for the one
applied last.

`JobInv` says that all a job owes is still there and still collectable, that a plan
of the job names nothing that its safe point shows, and a complete plan all that
is owed. It holds while no pass runs beside the job, hence `MaxPasses = 0`: next
to a pass with a higher safe point the job may find its keeper gone and end
early (see the remark under Findings), so there `JobDoneClean` is not true.
`PlansSafeForever` and `PlannerTransparent` make no such assumption.

### Scans

`ScanInv`: a key that had a version ever since the scan started was returned or
lies at or after the start of the next page. A page that is not full is all
there is (`ShortPage`); what a full one left out lies behind its last key
(`FullPage`). Nothing is needed of the store, neither its types nor the contract:
the scan depends only on which keys have versions when a page is read.

### Clients

`RmwInv` says where each client stands with respect to the store. The essential
parts: a request still holds what a read at its client's `start_ts` returns now
(`Sent`), since the apply loop's timestamps lie above all that was given out;
a lock belongs to a client that has not been accepted and carries its update
(`Owned`); a client that was told that it holds its locks does hold them until
its commit is applied, unless it gave up (`Held`); an accepted client has a newer
version than its `start_ts` on each of its keys (`Settled`), which is what makes
the engine refuse every late copy. `Times` counts the clock, so that bounded
timestamps suffice for finitely many clients. `AcceptInv` treats the two ways
to be accepted, a commit and a guarded batch, as one.

### Replay

`ReplayInv` relates the store to what it was when the log was first applied to its
end. Versions are the easy half: an operation that wrote finds its own version
or a newer one (`VersionsThere`) and is refused or changes nothing, so the rows never
differ. Locks do: the replay of a prewrite may lock again a key that its
transaction gave up. `StrayLocksAborted` says that every such lock has its abort
still ahead, which holds since a prewrite in the log left its locks there, or was
overtaken by a newer version, or was aborted later (`PrewritesEnded`). `LocksKept`
and `AbortsFinal` say that no abort or commit takes away a lock that was there.
At the end of the log no abort is ahead, hence no stray lock is left.

### Command load

`LoadInv` explains why each `unwrap()` of the simulation succeeds. All versions
are older than the clock (`VersionsOld`), so that a write at the clock is newer
than everything; only the transaction between its prewrite and its commit holds
locks (`LocksHeld`). A delayed increment either finds what it read unchanged, or
is refused as stale and computed again from the newest value (`DrainIncr`).
`ClockBounded` and `CountersBounded` charge each command, when it is issued, for
the two timestamps and the one increment that it may need later, retries included.
Collection runs at a safe point below the clock, and a read at the newest
timestamp is what it always was (`GcPruneReads`).

### Codec

Two lemmas per field say that it is read where it was written, whatever
surrounds it (`IntegerRead`, `BytesRead`, `StringRead`, `TsRead`), and that what is
accepted as a field is its encoding (`...Accepted`). Put together they say the same
of records: `CommittedRead`, `IntentRead`, `CommittedAccepted`, `IntentAccepted`. The
theorems need nothing else. A torn record that was accepted would be the encoding
of another record at the front of the whole one, and a decoder of the whole
would have to end at both of their ends. `CodecInv` says what a cell holds: an
encoding, a part of one, one and a byte more, or any bytes. The decoders' fields are
named (`CKey` to `CValue`, `IKey` to `IMutation`), and `CommittedFields` and
`IntentFields` show that the decoders are made of them.

The conversions of integers are the standard library's. What the proofs use of
them is `ConversionAssumption`: for the three widths they are inverse to each other
and the high byte comes first. Proving it from the formulas of `to_be_bytes` and
`from_be_bytes` needs induction over digits; TLC evaluates it in the run `codec`.

The inductive invariants were checked with TLC before they were proved: `DebtInv`
on the instance of `gc`, `PlanInv` and `JobInv` on that of `planner`, `RmwInv` on
that of `rmw_clients`, `ReplayInv` on that of `replay`, `LoadInv` on that of
`command_load`.

### Only model-checked

The liveness properties (`PassEnds`, `JobEnds`, `ScanEnds`,
`EveryIncrementApplied`): liveness under fairness is beyond the prover. Every other
property of a passing run is a theorem.

Assumptions on constants are the named `ASSUME`s of `Backend`, `IncrementalGc`,
`MvccStore`, `KeyGcPlanner`, `ApplyLog`, `CommandLoad`, `RmwClients` and `Codec`: keys are
natural numbers, sentinels are distinct from data, inputs have their types; in
`RmwClients` there are finitely many clients with a timestamp for each begin and
each commit; in `CommandLoad` there are finitely many keys, budgets and intervals
are positive as the program's constants are, and the values, transaction
identities and timestamps suffice for the number of commands. TLC evaluates them
in every run.

## Not modelled

* Durable storage: the crate keeps nothing on disk. A durable backend's atomicity
  is assumed as the trait demands, except where this code or its callers remove
  versions one by one. Crashes are modelled where callers replay (`ApplyLog`),
  damaged records where they decode (`Codec`).
* Backends without intents (the default methods of the trait): every intent
  operation on them fails.
* Statistics of gc and of the simulation, error payloads and messages, printing.
* The conformance suite, tests and benches (test code), `direct_set.rs` (one
  direct batch and a read), re-exports.
* Width of timestamps: they are compared and, in the clients, counted up; u128
  does not overflow. On a 32-bit target `offset + len` (`src/codec.rs:78`) can
  overflow for a length prefix near 2^32; the model has the 64-bit arithmetic.
* Prewrites that arrive after their transaction's abort: nothing in the engine
  can recognise them, and `docs/ADAPTER_CONTRACT.md` leaves them to the adapter.
  `RmwClients` includes them; the locks they leave are not ruled out.

## Plan

Every safety property of the store, its collectors, their clients and the codec
is proved; what remains model-checked is liveness. Extensions worth making when
the code grows: a backend with its own durability (crashes inside a batch), an
adapter protocol that fences late prewrites, and the statistics of a pass if
callers come to depend on them.
