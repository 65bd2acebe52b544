----------------------------- MODULE PrefixScan -----------------------------
(***************************************************************************)
(* Paging through the keys with a prefix (keys_from_prefix,                *)
(* src/backend.rs), while clients write, lock and delete and collection    *)
(* removes keys between two pages.  The scanner is an adapter, external to *)
(* this crate: it asks for `limit` keys at a time, goes on behind the last *)
(* key it got, and ends at a page that is not full.                        *)
(*                                                                         *)
(* The keys with a prefix are consecutive in byte order; that is all that  *)
(* is kept of prefixes.                                                    *)
(***************************************************************************)
EXTENDS MvccStore

CONSTANTS
    Prefixed,   \* the keys that start with the prefix
    Limits      \* page sizes that scanners choose

ASSUME PrefixAssumption ==
    /\ Prefixed \subseteq Key /\ Prefixed # {}
    /\ \A k \in Key : Min(Prefixed) <= k /\ k <= Max(Prefixed) => k \in Prefixed
    /\ Limits \subseteq Nat \ {0}

VARIABLES
    scan,    \* the scan: its phase, page size and where the next page starts
    seen,    \* the keys it got so far
    steady   \* ghost: prefixed keys with a version ever since it started

scanVars == <<scan, seen, steady>>

ScanInit ==
    /\ Init
    /\ scan = [phase |-> "idle", limit |-> 0, start |-> NoKey]
    /\ seen = {} /\ steady = {}

-----------------------------------------------------------------------------
(* The query. *)

HasVersion(k) == TimestampsOf(committed[k]) # {}

\* An absent start stands for the prefix itself, which precedes its keys.
ScanStart(start) == IF start = NoKey THEN Min(Prefixed) ELSE start

\* Mutant: every page starts at the prefix.
FromPrefix(start) == {k \in Prefixed : HasVersion(k)}

\* The loop stops at the first key that does not start with the prefix.
InRange(start) ==
    {k \in Key : k >= ScanStart(start) /\ k \in Prefixed /\ HasVersion(k)}

\* Mutant: a key counts against the limit once for each of its versions.
KeysByVersion(start, limit) ==
    LET Entries(k) == Cardinality(TimestampsOf(committed[k]))
        before(k)  == {j \in InRange(start) : j < k}
    IN  {k \in InRange(start) : MapThenSumSet(Entries, before(k)) < limit}

\* The keys of a page, in ascending order; an empty prefix and a start without
\* the prefix are errors, and a scanner asks for neither.
keys_from_prefix(start, limit) == FirstN(InRange(start), limit)

-----------------------------------------------------------------------------
(* The scanner. *)

BeginScan == \E limit \in Limits :
    /\ scan.phase = "idle"
    /\ scan' = [phase |-> "paging", limit |-> limit, start |-> NoKey]
    /\ steady' = {k \in Prefixed : HasVersion(k)}
    /\ UNCHANGED <<vars, seen>>

NextPage == \E page \in {keys_from_prefix(scan.start, scan.limit)} :
    /\ scan.phase = "paging" /\ call = NoCall
    /\ seen' = seen \cup page
    /\ scan' = IF Cardinality(page) < scan.limit THEN [scan EXCEPT !.phase = "done"]
               ELSE [scan EXCEPT !.start = Max(page) + 1]
    /\ UNCHANGED <<vars, steady>>

Beside ==
    /\ steady' = {k \in steady : TimestampsOf(committed'[k]) # {}}
    /\ UNCHANGED <<scan, seen>>

ScanNext == BeginScan \/ NextPage \/ (Next /\ Beside)

ScanSpec == ScanInit /\ [][ScanNext]_<<vars, scanVars>>

\* The scanner asks until a page is not full, and a collection pass is called
\* until it reports done.
FairScanSpec ==
    /\ ScanSpec
    /\ WF_<<vars, scanVars>>(NextPage)
    /\ WF_<<vars, scanVars>>(Collect /\ Beside)

-----------------------------------------------------------------------------
(* Properties. *)

\* A scan that ended has seen every key that had a version all along, whatever
\* appeared, vanished or was locked around it between two pages, and no key
\* without the prefix.
ScanComplete ==
    scan.phase = "done" => steady \subseteq seen /\ seen \subseteq Prefixed

\* A scan ends, although keys appear behind its cursor and in front of it and
\* a collection pass takes its steps between two pages: every full page moves
\* the cursor past the keys it returned.
ScanEnds == scan.phase = "paging" ~> scan.phase = "done"
=============================================================================
