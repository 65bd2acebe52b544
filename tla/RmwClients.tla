----------------------------- MODULE RmwClients -----------------------------
(***************************************************************************)
(* Clients that read, compute and write over an unreliable network.  Each  *)
(* client adds one to the counters on its keys, either in a transaction    *)
(* (prewrite_batch, then commit_batch, as in                               *)
(* examples/multi_key_intent_txn.rs) or in one guarded batch (as in        *)
(* examples/guarded_incr.rs).  A request may be lost, delayed, delivered   *)
(* again or overtaken; a client that waits too long for its prewrite       *)
(* aborts, and repeats the abort (examples/abort_replay.rs).               *)
(*                                                                         *)
(* The network and the clock are the adapter's, external to this crate.    *)
(***************************************************************************)
EXTENDS MvccEngine

CONSTANTS
    KeyLists,       \* keys (sequences) that clients add one to
    Paths,          \* subset of {"intent", "guarded"}: how clients write
    CommitAtApply   \* TRUE: a commit is timestamped when it is applied
                    \* FALSE: when its client sends it

ASSUME ClientsAssumption ==
    /\ IsFiniteSet(TxnId)
    /\ KeyLists \subseteq Seq(Key)
    /\ Paths \subseteq {"intent", "guarded"}
    /\ CommitAtApply \in BOOLEAN
    /\ Value = 1 .. Cardinality(TxnId)
    /\ MaxTs > 2 * Cardinality(TxnId)

VARIABLES
    clock,     \* the newest timestamp that was given out
    client,    \* client[c]: the state of client c; its name is its txn_id
    requests,  \* what was ever sent: every request may arrive at any time, again
    replies,   \* what was ever answered
    done       \* ghost: the clients whose update the engine accepted

vars == <<store, clock, client, requests, replies, done>>

Idle == [state |-> "idle", start_ts |-> NoTs, keys |-> <<>>]

Init ==
    /\ BackendInit
    /\ clock = 0
    /\ client = [c \in TxnId |-> Idle]
    /\ requests = {} /\ replies = {} /\ done = {}

CounterOf(value) == IF value = Tombstone THEN 0 ELSE value

\* The writes and guards of a client that reads its keys now.
Increments(keys, read_ts) == [i \in DOMAIN keys |->
    [key |-> keys[i], value |-> CounterOf(read(committed[keys[i]], read_ts)) + 1]]

Guards(keys, read_ts) == [i \in DOMAIN keys |->
    [kind |-> "ExpectedValue", key |-> keys[i], read_ts |-> read_ts,
     expected |-> read(committed[keys[i]], read_ts)]]

-----------------------------------------------------------------------------
(* Clients. *)

Send(c, kind, content) ==
    requests' = requests \cup {[txn_id |-> c, kind |-> kind, content |-> content]}

\* The timestamp of a commit that a client sends at time now.
CommitTs(now) == IF CommitAtApply THEN NoTs ELSE now + 1

\* A client takes a timestamp, reads, and sends its first request.
Begin == \E c \in TxnId, keys \in KeyLists :
    LET start_ts == clock + 1
    IN  /\ client[c].state = "idle"
        /\ \/ /\ "intent" \in Paths
              /\ Send(c, "prewrite_batch", [writes |-> Increments(keys, start_ts)])
              /\ client' = [client EXCEPT ![c] =
                     [state |-> "prewriting", start_ts |-> start_ts, keys |-> keys]]
              /\ clock' = start_ts
           \/ /\ "guarded" \in Paths
              /\ Send(c, "apply_guarded_batch",
                      [writes |-> Increments(keys, start_ts),
                       guards |-> Guards(keys, start_ts),
                       commit_ts |-> CommitTs(start_ts)])
              /\ client' = [client EXCEPT ![c] =
                     [state |-> "writing", start_ts |-> start_ts, keys |-> keys]]
              /\ clock' = Max({start_ts, CommitTs(start_ts)})
        /\ UNCHANGED <<store, replies, done>>

Answered(c, kind, ok) == [txn_id |-> c, kind |-> kind, ok |-> ok] \in replies

\* "Prewrite successful!": from here on the client only commits.
SendCommit == \E c \in TxnId :
    /\ client[c].state = "prewriting" /\ Answered(c, "prewrite_batch", TRUE)
    /\ Send(c, "commit_batch", [commit_ts |-> CommitTs(clock)])
    /\ clock' = Max({clock, CommitTs(clock)})
    /\ client' = [client EXCEPT ![c].state = "committing"]
    /\ UNCHANGED <<store, replies, done>>

\* The prewrite failed, or there was no answer for too long.
SendAbort == \E c \in TxnId :
    /\ client[c].state = "prewriting"
    /\ Send(c, "abort_batch", [keys |-> client[c].keys])
    /\ client' = [client EXCEPT ![c].state = "aborted"]
    /\ UNCHANGED <<store, clock, replies, done>>

\* Any answer to a commit ends the transaction: an error, IntentNotFound for
\* instance, answers a commit that was delivered before.
CommitAnswered == \E c \in TxnId :
    /\ client[c].state = "committing"
    /\ Answered(c, "commit_batch", TRUE) \/ Answered(c, "commit_batch", FALSE)
    /\ client' = [client EXCEPT ![c].state = "committed"]
    /\ UNCHANGED <<store, clock, requests, replies, done>>

-----------------------------------------------------------------------------
(* Delivery: the apply loop calls the engine and answers. *)

Reply(m, ok) ==
    replies' = replies \cup {[txn_id |-> m.txn_id, kind |-> m.kind, ok |-> ok]}

\* A commit_ts that the apply loop gives out is new; one that it gives to a
\* refused request is not used.
ApplyTs(m) == IF CommitAtApply THEN clock + 1 ELSE m.content.commit_ts

Accept(m) ==
    /\ clock' = Max({clock, ApplyTs(m)})
    /\ done' = done \cup {m.txn_id}
    /\ Reply(m, TRUE)

Refuse(m) == Reply(m, FALSE) /\ UNCHANGED <<clock, done>>

DeliverPrewrite == \E m \in requests :
    LET start_ts == client[m.txn_id].start_ts
    IN  /\ m.kind = "prewrite_batch"
        /\ prewrite_batch(m.txn_id, start_ts, m.content.writes)
        /\ Reply(m, PrewriteBatchResult(m.txn_id, start_ts, m.content.writes)
                        \in {"Ok", "Replay"})
        /\ UNCHANGED <<clock, client, requests, done>>

DeliverCommit == \E m \in requests :
    LET start_ts == client[m.txn_id].start_ts
        keys     == client[m.txn_id].keys
    IN  /\ m.kind = "commit_batch"
        /\ commit_batch(m.txn_id, start_ts, ApplyTs(m), keys)
        /\ IF CommitBatchResult(m.txn_id, start_ts, ApplyTs(m), keys) = "Ok"
           THEN Accept(m) ELSE Refuse(m)
        /\ UNCHANGED <<client, requests>>

DeliverAbort == \E m \in requests :
    /\ m.kind = "abort_batch"
    /\ abort_batch(m.txn_id, client[m.txn_id].start_ts, m.content.keys)
    /\ Reply(m, TRUE)
    /\ UNCHANGED <<clock, client, requests, done>>

DeliverGuarded == \E m \in requests :
    /\ m.kind = "apply_guarded_batch"
    /\ apply_guarded_batch(ApplyTs(m), m.content.guards, m.content.writes)
    /\ IF GuardedBatchResult(ApplyTs(m), m.content.guards, m.content.writes) = "Ok"
       THEN Accept(m) ELSE Refuse(m)
    /\ UNCHANGED <<client, requests>>

Next ==
    \/ Begin \/ SendCommit \/ SendAbort \/ CommitAnswered
    \/ DeliverPrewrite \/ DeliverCommit \/ DeliverAbort \/ DeliverGuarded

Spec == Init /\ [][Next]_vars

-----------------------------------------------------------------------------
(* Properties. *)

\* No update is lost and none counts twice: the counter on a key is the number
\* of clients of this key whose update was accepted, however often and in what
\* order their requests arrived (docs/MVCC_DESIGN.md, Lost-Update Invariant).
EveryUpdateCounts == \A k \in Key :
    CounterOf(read(committed[k], clock)) =
        Cardinality({c \in done : k \in Elements(client[c].keys)})

\* Whatever a commit is answered, it took effect: an error answers a commit
\* that was delivered twice, never one whose locks somebody else removed.
CommitIsFinal == \A c \in TxnId : client[c].state = "committed" => c \in done

\* A transaction that committed holds no lock, and no late copy of its prewrite
\* takes one again.
CommittedHoldsNoLock == \A c \in done, k \in Key :
    ~LockedBy(k, c, client[c].start_ts)
=============================================================================
