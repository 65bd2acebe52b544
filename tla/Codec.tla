-------------------------------- MODULE Codec --------------------------------
(***************************************************************************)
(* The binary codec of committed versions and intents (src/codec.rs), and  *)
(* a cell of durable storage that holds one record: an adapter encodes a   *)
(* record into it, a write may be cut short, a cell may have bytes of an   *)
(* earlier, longer content behind the record, or hold anything at all.     *)
(*                                                                         *)
(* Bytes and integers keep their layout and lose their size: a byte is a   *)
(* digit to the base Base, an integer has U32, U64 or U128 of them.        *)
(***************************************************************************)
EXTENDS Integers, Sequences, SequencesExt

CONSTANTS
    Base,              \* number of values of a byte (256)
    U32, U64, U128,    \* widths of integers in bytes (4, 8, 16)
    None,              \* no value, no min_commit_ts, or a delete
    CommittedRecords,  \* committed versions that the adapter stores
    IntentRecords,     \* intents that the adapter stores
    MaxLen             \* bound: number of bytes of a cell

Byte  == 0 .. Base - 1
Bytes == Seq(Byte)

\* The integers of a width.
Unsigned(width) == 0 .. Base ^ width - 1

ASSUME CodecAssumption ==
    /\ Base \in Nat /\ Base > 2
    /\ {U32, U64, U128, MaxLen} \subseteq Nat \ {0}
    /\ None \notin Bytes \cup Nat
    /\ CommittedRecords \subseteq
          [key : Bytes, commit_ts : Unsigned(U128), value : Bytes \cup {None}]
    /\ IntentRecords \subseteq
          [key : Bytes, txn_id : Unsigned(U64), start_ts : Unsigned(U128),
           min_commit_ts : Unsigned(U128) \cup {None}, mutation : Bytes \cup {None}]

CODEC_VERSION    == 2
RECORD_COMMITTED == 1
RECORD_INTENT    == 2
FLAG_PRESENT     == 1
FLAG_ABSENT      == 0
MUTATION_PUT     == 1
MUTATION_DELETE  == 2

-----------------------------------------------------------------------------
(* Integers and byte strings. *)

\* External: the standard library's conversions.
to_be_bytes(n, width) == [i \in 1 .. width |-> (n \div Base ^ (width - i)) % Base]
from_be_bytes(bytes) == FoldLeft(LAMBDA n, b : n * Base + b, 0, bytes)

\* The first difference between two encodings decides their order.
Precedes(s, t) == \E i \in DOMAIN s \cap DOMAIN t :
    s[i] < t[i] /\ \A j \in 1 .. i - 1 : s[j] = t[j]

\* They are inverse to each other for every width in use, and the high byte
\* comes first.
ASSUME ConversionAssumption == \A width \in {U32, U64, U128} :
    /\ \A n \in Unsigned(width) :
          /\ to_be_bytes(n, width) \in [1 .. width -> Byte]
          /\ from_be_bytes(to_be_bytes(n, width)) = n
          /\ \A m \in Unsigned(width) :
                n < m => Precedes(to_be_bytes(n, width), to_be_bytes(m, width))
    /\ \A bytes \in [1 .. width -> Byte] :
          /\ from_be_bytes(bytes) \in Unsigned(width)
          /\ to_be_bytes(from_be_bytes(bytes), width) = bytes

encode_u32(n) == to_be_bytes(n, U32)

encode_u64(n) == to_be_bytes(n, U64)

\* Mutant: the low byte first.
EncodeU128LittleEndian(n) == Reverse(to_be_bytes(n, U128))

encode_u128(n) == to_be_bytes(n, U128)

\* What a decoder returns: an error, or a value and the offset behind it.
Error == [ok |-> FALSE]
Decoded(value, offset) == [ok |-> TRUE, value |-> value, offset |-> offset]

DecodeInteger(buf, offset, width) ==
    IF Len(buf) < offset + width THEN Error
    ELSE Decoded(from_be_bytes(SubSeq(buf, offset + 1, offset + width)), offset + width)

decode_u32(buf, offset)  == DecodeInteger(buf, offset, U32)
decode_u64(buf, offset)  == DecodeInteger(buf, offset, U64)
decode_u128(buf, offset) == DecodeInteger(buf, offset, U128)

\* Mutant: the length is cast, and loses its high bytes.
EncodableByCast(bytes) == TRUE

\* u32::try_from(bytes.len())
Encodable(bytes) == Len(bytes) < Base ^ U32

encode_bytes(bytes) == encode_u32(Len(bytes)) \o bytes

\* Mutant: a string that was cut short is taken as it is.
DecodeRest(buf, offset) ==
    LET len == decode_u32(buf, offset)
    IN  IF ~len.ok THEN Error
        ELSE IF Len(buf) < len.offset + len.value
             THEN Decoded(SubSeq(buf, len.offset + 1, Len(buf)), Len(buf))
        ELSE Decoded(SubSeq(buf, len.offset + 1, len.offset + len.value),
                     len.offset + len.value)

decode_bytes(buf, offset) ==
    LET len == decode_u32(buf, offset)
    IN  IF ~len.ok THEN Error
        ELSE IF Len(buf) < len.offset + len.value THEN Error
        ELSE Decoded(SubSeq(buf, len.offset + 1, len.offset + len.value),
                     len.offset + len.value)

\* The decoder of the next field, if there was no error before it.
Then(previous, Decode(_, _), buf) ==
    IF previous.ok THEN Decode(buf, previous.offset) ELSE Error

\* A byte that says whether a value follows.
DecodeOption(buf, offset, present, absent, Decode(_, _)) ==
    IF Len(buf) < offset + 1 THEN Error
    ELSE IF buf[offset + 1] = present THEN Decode(buf, offset + 1)
    ELSE IF buf[offset + 1] = absent THEN Decoded(None, offset + 1)
    ELSE Error

DecodeHeader(buf, record_type) ==
    IF /\ Len(buf) >= 2
       /\ buf[1] = CODEC_VERSION
       /\ buf[2] = record_type
    THEN Decoded(record_type, 2) ELSE Error

\* Mutant: bytes may follow the last field.
FitsInside(last, buf) == last.ok

\* The last field ends where the buffer does: no trailing garbage.
EndsExactly(last, buf) == last.ok /\ last.offset = Len(buf)

-----------------------------------------------------------------------------
(* Records. *)

encode_committed(r) ==
    <<CODEC_VERSION, RECORD_COMMITTED>> \o encode_bytes(r.key)
    \o encode_u128(r.commit_ts)
    \o (IF r.value = None THEN <<FLAG_ABSENT>>
        ELSE <<FLAG_PRESENT>> \o encode_bytes(r.value))

decode_committed(buf) ==
    LET Value(b, offset) == DecodeOption(b, offset, FLAG_PRESENT, FLAG_ABSENT, decode_bytes)
        header    == DecodeHeader(buf, RECORD_COMMITTED)
        key       == Then(header, decode_bytes, buf)
        commit_ts == Then(key, decode_u128, buf)
        value     == Then(commit_ts, Value, buf)
    IN  IF EndsExactly(value, buf)
        THEN [ok |-> TRUE,
              record |-> [key |-> key.value, commit_ts |-> commit_ts.value,
                          value |-> value.value]]
        ELSE Error

encode_intent(r) ==
    <<CODEC_VERSION, RECORD_INTENT>> \o encode_bytes(r.key)
    \o encode_u64(r.txn_id) \o encode_u128(r.start_ts)
    \o (IF r.min_commit_ts = None THEN <<FLAG_ABSENT>>
        ELSE <<FLAG_PRESENT>> \o encode_u128(r.min_commit_ts))
    \o (IF r.mutation = None THEN <<MUTATION_DELETE>>
        ELSE <<MUTATION_PUT>> \o encode_bytes(r.mutation))

decode_intent(buf) ==
    LET MinCommitTs(b, offset) ==
            DecodeOption(b, offset, FLAG_PRESENT, FLAG_ABSENT, decode_u128)
        MutationOf(b, offset) ==
            DecodeOption(b, offset, MUTATION_PUT, MUTATION_DELETE, decode_bytes)
        header        == DecodeHeader(buf, RECORD_INTENT)
        key           == Then(header, decode_bytes, buf)
        txn_id        == Then(key, decode_u64, buf)
        start_ts      == Then(txn_id, decode_u128, buf)
        min_commit_ts == Then(start_ts, MinCommitTs, buf)
        mutation      == Then(min_commit_ts, MutationOf, buf)
    IN  IF EndsExactly(mutation, buf)
        THEN [ok |-> TRUE,
              record |-> [key |-> key.value, txn_id |-> txn_id.value,
                          start_ts |-> start_ts.value,
                          min_commit_ts |-> min_commit_ts.value,
                          mutation |-> mutation.value]]
        ELSE Error

-----------------------------------------------------------------------------
(* A cell of storage.  External: the adapter's storage is not in src/. *)

VARIABLES
    cell,     \* the bytes of the cell
    kind,     \* ghost: what the cell holds
    content   \* ghost: the record that was stored, while it is whole

vars == <<cell, kind, content>>

Init == cell = <<>> /\ kind = "arbitrary" /\ content = None

\* An empty cell.
Fresh == cell = <<>> /\ kind = "arbitrary"

\* encode_committed and encode_intent fail if a string is too long; nothing is
\* stored then.
StoreCommitted == \E r \in CommittedRecords :
    /\ Fresh
    /\ Encodable(r.key) /\ (r.value # None => Encodable(r.value))
    /\ cell' = encode_committed(r)
    /\ kind' = "committed" /\ content' = r

StoreIntent == \E r \in IntentRecords :
    /\ Fresh
    /\ Encodable(r.key) /\ (r.mutation # None => Encodable(r.mutation))
    /\ cell' = encode_intent(r)
    /\ kind' = "intent" /\ content' = r

Stored == kind \in {"committed", "intent"}

\* Only the first bytes of a record reached the storage.
Tear == \E n \in 0 .. Len(cell) - 1 :
    /\ Stored
    /\ cell' = SubSeq(cell, 1, n)
    /\ kind' = "torn" /\ content' = None

\* The record is followed by a byte that is not its own.
Overrun == \E b \in Byte :
    /\ Stored
    /\ cell' = Append(cell, b)
    /\ kind' = "overrun" /\ content' = None

\* A cell that no record was stored in may hold any bytes.
Grow == \E b \in Byte :
    /\ kind = "arbitrary" /\ Len(cell) < MaxLen
    /\ cell' = Append(cell, b)
    /\ UNCHANGED <<kind, content>>

Next == StoreCommitted \/ StoreIntent \/ Tear \/ Overrun \/ Grow

Spec == Init /\ [][Next]_vars

-----------------------------------------------------------------------------
(* Properties. *)

\* What was stored whole is read back as it was, and never as a record of the
\* other kind.
RoundTrip ==
    /\ kind = "committed" =>
          /\ decode_committed(cell) = [ok |-> TRUE, record |-> content]
          /\ ~decode_intent(cell).ok
    /\ kind = "intent" =>
          /\ decode_intent(cell) = [ok |-> TRUE, record |-> content]
          /\ ~decode_committed(cell).ok

\* A write that was cut short anywhere, or that has bytes behind it, is an
\* error for both decoders: it never passes for another record.
DamageDetected ==
    kind \in {"torn", "overrun"} =>
        ~decode_committed(cell).ok /\ ~decode_intent(cell).ok

\* Decoding is canonical: whatever bytes a decoder accepts are exactly the
\* bytes the encoder writes for the record it returns.
Canonical ==
    /\ decode_committed(cell).ok =>
          encode_committed(decode_committed(cell).record) = cell
    /\ decode_intent(cell).ok =>
          encode_intent(decode_intent(cell).record) = cell

\* The records of the versions of a key are ordered as byte strings as the
\* versions are by commit_ts, whatever their values.
OrderPreserved ==
    kind = "committed" =>
        \A r \in CommittedRecords :
            r.key = content.key /\ content.commit_ts < r.commit_ts =>
                Precedes(cell, encode_committed(r))
=============================================================================
