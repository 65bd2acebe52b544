---------------------------- MODULE CommandLoad ----------------------------
(***************************************************************************)
(* The command-load simulation (examples/command_load_sim.rs): a client    *)
(* that issues timestamps from a counter and runs a mix of reads, sets,    *)
(* deletes, multi-key sets, increments, two-key transactions and, after    *)
(* some commands, one call of gc_incremental whose safe point trails the   *)
(* clock.  Some increments are applied late: what they read is held in a   *)
(* queue while other commands run, and the guard decides, when they are    *)
(* applied, whether to write or to read again.  examples/guarded_incr.rs   *)
(* is one increment of this kind.                                          *)
(*                                                                         *)
(* Values are counters and Text, which stands for every value that does    *)
(* not parse as a number.                                                  *)
(***************************************************************************)
EXTENDS IncrementalGc

CONSTANTS
    Ops,          \* number of commands (OPS)
    Text,         \* a value that is not a number
    Delays,       \* by how many commands an increment is delayed
    MsetLen,      \* number of keys of a multi-key set
    Retention,    \* by how much the safe point trails the clock (GC_RETENTION)
    GcEvery,      \* gc is called after every GcEvery-th command
    GcMaxKeys, GcMaxVersions   \* the budget of a call

Counter == Value \ {Text}

ASSUME LoadAssumption ==
    /\ IsFiniteSet(Key) /\ Key # {}
    /\ Ops \in Nat \ {0} /\ GcEvery \in Nat \ {0}
    /\ Delays \subseteq Nat \ {0}
    /\ MsetLen \in Nat \ {0} /\ Retention \in Nat \ {0}
    /\ GcMaxKeys \in Usize \ {0} /\ GcMaxVersions \in Usize \ {0}
    /\ Text \in Value \ Nat /\ Counter \subseteq Nat
    /\ 0 .. Ops \subseteq Value
    /\ MaxTs > 2 * Ops      \* no command takes more than two timestamps
    /\ 1 .. Ops \subseteq TxnId

VARIABLES
    phase,     \* where run_simulation is
    op,        \* the loop counter
    next_ts,   \* the clock
    pending,   \* delayed increments, first in first out
    txn,       \* the keys of the transaction between prewrite and commit
    panicked,  \* an unwrap() met an error
    register   \* ghost: what each key holds if every command took effect once

loadVars == <<phase, op, next_ts, pending, txn, panicked, register>>
vars == <<store, gcVars, loadVars>>

Init ==
    /\ BackendInit /\ GcInit
    /\ phase = "load" /\ op = 0 /\ next_ts = 2
    /\ pending = <<>> /\ txn = <<>> /\ panicked = FALSE
    /\ register = [k \in Key |-> Tombstone]

W(k, value) == [key |-> k, value |-> value]

At(p) == ~panicked /\ phase = p

Unwrap(result) == panicked' = (result # "Ok")

-----------------------------------------------------------------------------
(* Increments. *)

parse_counter(value) == IF value \in Counter THEN value ELSE 0

Incremented(value) == parse_counter(value) + 1

\* What an increment that reads now holds until it is applied, by default at
\* once.
PendingIncr(k, read_ts) ==
    LET current == read(committed[k], read_ts)
    IN  [due_op |-> op, key |-> k, read_ts |-> read_ts, expected_value |-> current,
         new_value |-> Incremented(current)]

GuardOf(p) == <<[kind |-> "ExpectedValue", key |-> p.key, read_ts |-> p.read_ts,
                 expected |-> p.expected_value]>>

IncrResult(commit_ts, p) ==
    GuardedBatchResult(commit_ts, GuardOf(p), <<W(p.key, p.new_value)>>)

apply_guarded_incr(commit_ts, p) ==
    apply_guarded_batch(commit_ts, GuardOf(p), <<W(p.key, p.new_value)>>)

\* The errors of BatchError that say that what was read is stale.
GuardFailures == {"GuardFailedNewerVersion", "GuardFailedValueMismatch",
                  "GuardFailedVersionMismatch"}

\* All the errors of BatchError an in-memory backend can give.
BatchErrors == GuardFailures \cup
    {"EmptyBatch", "InvalidCommitTimestamp", "CommitTsTooOld", "NoReadGuards",
     "DuplicateKeyInBatch", "KeyLocked"}

\* Mutant: the retry reads where the first attempt did.
RetryAtOldSnapshot(p) == p.read_ts

\* The retry reads at the timestamp of the attempt that failed, the newest yet.
RetryReadTs(p) == next_ts

\* Read again, and apply at once.
retry_incr(k, read_ts, commit_ts) == \E p \in {PendingIncr(k, read_ts)} :
    /\ apply_guarded_incr(commit_ts, p)
    /\ Unwrap(IncrResult(commit_ts, p))

\* The increment at the head of the queue: applied, or, if it failed with an
\* error in `retried`, read again and applied with the next timestamp.
ApplyPending(retried) == \E p \in {Head(pending)} :
    /\ pending' = Tail(pending)
    /\ register' = [register EXCEPT ![p.key] = Incremented(@)]
    /\ \/ /\ IncrResult(next_ts, p) \notin retried
          /\ apply_guarded_incr(next_ts, p)
          /\ Unwrap(IncrResult(next_ts, p))
          /\ next_ts' = next_ts + 1
       \/ /\ IncrResult(next_ts, p) \in retried
          /\ retry_incr(p.key, RetryReadTs(p), next_ts + 1)
          /\ next_ts' = next_ts + 2
    /\ UNCHANGED <<gcVars, phase, op, txn>>

-----------------------------------------------------------------------------
(* The loop. *)

\* The keys start out as the counter 0, at timestamp 1.
Load ==
    LET initial == [i \in 1 .. Cardinality(Key) |->
                       W(CHOOSE k \in Key : Cardinality({j \in Key : j < k}) = i - 1, 0)]
    IN  /\ At("load")
        /\ apply_direct_batch(1, initial)
        /\ Unwrap(DirectBatchResult(1, initial))
        /\ register' = [k \in Key |-> 0]
        /\ phase' = "drain"
        /\ UNCHANGED <<gcVars, op, next_ts, pending, txn>>

DrainDue ==
    /\ At("drain")
    /\ pending # <<>> /\ Head(pending).due_op <= op
    /\ ApplyPending(GuardFailures)

\* Mutant: the loop ends only when nothing is queued.
DrainedWhenEmpty ==
    /\ At("drain")
    /\ pending = <<>>
    /\ phase' = "command"
    /\ UNCHANGED <<store, gcVars, op, next_ts, pending, txn, panicked, register>>

\* An increment that is not due holds back the ones queued after it.
Drained ==
    /\ At("drain")
    /\ pending # <<>> => Head(pending).due_op > op
    /\ phase' = "command"
    /\ UNCHANGED <<store, gcVars, op, next_ts, pending, txn, panicked, register>>

NextCommand ==
    /\ op' = op + 1
    /\ phase' = IF op + 1 = Ops THEN "final" ELSE "drain"

\* The end of a command: perhaps a call of gc_incremental, then the next one.
AfterCommand ==
    IF op > 0 /\ op % GcEvery = 0
    THEN phase' = "gc" /\ UNCHANGED op
    ELSE NextCommand

\* The value it reads is dropped.
Read ==
    /\ At("command")
    /\ AfterCommand
    /\ UNCHANGED <<store, gcVars, next_ts, pending, txn, panicked, register>>

Overwritten(writes) ==
    [k \in Key |-> IF k \in Elements(KeysOf(writes))
                   THEN AsFunction(writes)[k] ELSE register[k]]

DirectWrite(writes) ==
    /\ At("command")
    /\ apply_direct_batch(next_ts, writes)
    /\ Unwrap(DirectBatchResult(next_ts, writes))
    /\ next_ts' = next_ts + 1
    /\ register' = Overwritten(writes)
    /\ AfterCommand
    /\ UNCHANGED <<gcVars, pending, txn>>

Set == \E k \in Key : DirectWrite(<<W(k, Text)>>)

Del == \E k \in Key : DirectWrite(<<W(k, Tombstone)>>)

Mset == \E base \in Key :
    /\ base .. base + MsetLen - 1 \subseteq Key
    /\ DirectWrite([i \in 1 .. MsetLen |-> W(base + i - 1, Text)])

IncrDelayed == \E k \in Key, delay \in Delays :
    \E p \in {PendingIncr(k, next_ts - 1)} :
       /\ At("command")
       /\ pending' = Append(pending, [p EXCEPT !.due_op = op + delay])
       /\ AfterCommand
       /\ UNCHANGED <<store, gcVars, next_ts, txn, panicked, register>>

IncrImmediate == \E k \in Key : \E p \in {PendingIncr(k, next_ts - 1)} :
    /\ At("command")
    /\ apply_guarded_incr(next_ts, p)
    /\ Unwrap(IncrResult(next_ts, p))
    /\ next_ts' = next_ts + 1
    /\ register' = [register EXCEPT ![k] = Incremented(@)]
    /\ AfterCommand
    /\ UNCHANGED <<gcVars, pending, txn>>

TxnPrewrite == \E a, b \in Key : \E writes \in {<<W(a, Text), W(b, Text)>>} :
    /\ At("command") /\ a # b
    /\ prewrite_batch(op + 1, next_ts, writes)
    /\ Unwrap(PrewriteBatchResult(op + 1, next_ts, writes))
    /\ txn' = <<a, b>>
    /\ next_ts' = next_ts + 1
    /\ phase' = "commit"
    /\ UNCHANGED <<gcVars, op, pending, register>>

TxnCommit ==
    /\ At("commit")
    /\ commit_batch(op + 1, next_ts - 1, next_ts, txn)
    /\ Unwrap(CommitBatchResult(op + 1, next_ts - 1, next_ts, txn))
    /\ register' = [k \in Key |-> IF k \in Elements(txn) THEN Text ELSE register[k]]
    /\ txn' = <<>>
    /\ next_ts' = next_ts + 1
    /\ AfterCommand
    /\ UNCHANGED <<gcVars, pending>>

\* The safe point is new in every call, the cursor is the saved one: a pass
\* runs under a safe point that moves.
GcCall ==
    /\ At("gc") /\ call = NoCall
    /\ pass' = [safe_point_ts |-> IF next_ts > Retention THEN next_ts - Retention ELSE 0,
                max_keys |-> GcMaxKeys, max_versions |-> GcMaxVersions,
                collapse |-> FALSE,
                cursor |-> IF pass = NoPass THEN NoKey ELSE pass.cursor]
    /\ phase' = "collecting"
    /\ UNCHANGED <<store, call, op, next_ts, pending, txn, panicked, register>>

GcRun ==
    /\ At("collecting")
    /\ GcBegin \/ GcSkip \/ GcOutOfBudget \/ GcPrune
    /\ UNCHANGED loadVars

GcDone ==
    /\ At("collecting")
    /\ GcReturn
    /\ NextCommand
    /\ UNCHANGED <<next_ts, pending, txn, panicked, register>>

\* After the last command every error of a delayed increment is retried.
DrainFinal ==
    /\ At("final") /\ pending # <<>>
    /\ ApplyPending(BatchErrors)

Finish ==
    /\ At("final") /\ pending = <<>>
    /\ phase' = "done"
    /\ UNCHANGED <<store, gcVars, op, next_ts, pending, txn, panicked, register>>

Next ==
    \/ Load \/ DrainDue \/ Drained
    \/ Read \/ Set \/ Del \/ Mset \/ IncrDelayed \/ IncrImmediate
    \/ TxnPrewrite \/ TxnCommit
    \/ GcCall \/ GcRun \/ GcDone
    \/ DrainFinal \/ Finish

Spec == Init /\ [][Next]_vars

\* One thread that runs until it returns.
FairSpec == Spec /\ WF_vars(Next)

-----------------------------------------------------------------------------
(* Properties. *)

\* Every variable has its type.
TypeOK ==
    /\ BackendTypeOK /\ GcTypeOK
    /\ phase \in {"load", "drain", "command", "commit", "gc", "collecting",
                  "final", "done"}
    /\ op \in 0 .. Ops /\ next_ts \in 2 .. MaxTs + 1
    /\ \A i \in DOMAIN pending :
          pending[i] \in [due_op : Nat, key : Key, read_ts : Timestamp,
                          expected_value : Mutation, new_value : Counter]
    /\ txn \in Seq(Key) /\ panicked \in BOOLEAN
    /\ register \in [Key -> Mutation]

\* No command is refused: neither an increment whose read was overtaken by
\* other commands, nor its retry, nor a write after a transaction or a
\* collection ends in an error that the program does not handle.
NeverPanics == ~panicked

\* No update is lost: every key reads as if each command, and each increment
\* when it was applied, acted once on the newest value, however old the value
\* is that a delayed increment read, and whatever was collected since.
NoLostUpdate == \A k \in Key : read(committed[k], next_ts - 1) = register[k]

\* The program ends, with every delayed increment applied.
EveryIncrementApplied == <>(phase = "done" /\ pending = <<>>)
=============================================================================
