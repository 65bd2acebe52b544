----------------------------- MODULE CodecProofs -----------------------------
(***************************************************************************)
(* The layout of records can be decoded in one way only: what was stored   *)
(* is read back, damage is detected and nothing else is accepted, for      *)
(* every base, every width of integers and every length of strings.        *)
(***************************************************************************)
EXTENDS Codec, TLAPS

-----------------------------------------------------------------------------
(* Sequences. *)

\* buf holds s behind the first `offset` bytes.
Held(buf, offset, s) ==
    /\ Len(buf) >= offset + Len(s)
    /\ \A i \in 1 .. Len(s) : buf[offset + i] = s[i]

LEMMA SeqEqual ==
    ASSUME NEW S, NEW s \in Seq(S), NEW t \in Seq(S), Len(s) = Len(t),
           \A i \in 1 .. Len(s) : s[i] = t[i]
    PROVE  s = t
OBVIOUS

LEMMA ConcatProp ==
    ASSUME NEW S, NEW s \in Seq(S), NEW t \in Seq(S)
    PROVE  /\ s \o t \in Seq(S) /\ Len(s \o t) = Len(s) + Len(t)
           /\ \A i \in 1 .. Len(s) : (s \o t)[i] = s[i]
           /\ \A i \in 1 .. Len(t) : (s \o t)[Len(s) + i] = t[i]
OBVIOUS

LEMMA SubSeqProp ==
    ASSUME NEW S, NEW s \in Seq(S), NEW a \in Nat, NEW b \in Nat, a <= b, b <= Len(s)
    PROVE  /\ SubSeq(s, a + 1, b) \in Seq(S) /\ Len(SubSeq(s, a + 1, b)) = b - a
           /\ \A i \in 1 .. b - a : SubSeq(s, a + 1, b)[i] = s[a + i]
OBVIOUS

LEMMA HeldSelf ==
    ASSUME NEW S, NEW s \in Seq(S)
    PROVE  Held(s, 0, s)
BY DEF Held

LEMMA HeldConcat ==
    ASSUME NEW S, NEW buf \in Seq(S), NEW s \in Seq(S), NEW t \in Seq(S),
           NEW offset \in Nat, Held(buf, offset, s \o t)
    PROVE  Held(buf, offset, s) /\ Held(buf, offset + Len(s), t)
<1>1. Len(s) \in Nat /\ Len(t) \in Nat /\ Len(buf) \in Nat
  OBVIOUS
<1>2. /\ Len(s \o t) = Len(s) + Len(t)
      /\ \A i \in 1 .. Len(s) : (s \o t)[i] = s[i]
      /\ \A i \in 1 .. Len(t) : (s \o t)[Len(s) + i] = t[i]
  BY ConcatProp
<1>3. /\ Len(buf) >= offset + (Len(s) + Len(t))
      /\ \A i \in 1 .. Len(s) + Len(t) : buf[offset + i] = (s \o t)[i]
  BY <1>2 DEF Held
<1>4. Held(buf, offset, s)
  <2>1. \A i \in 1 .. Len(s) : i \in 1 .. Len(s) + Len(t)
    BY <1>1
  <2> QED
    BY <1>1, <1>2, <1>3, <2>1 DEF Held
<1>5. Held(buf, offset + Len(s), t)
  <2>1. Len(buf) >= (offset + Len(s)) + Len(t)
    BY <1>1, <1>3
  <2>2. \A i \in 1 .. Len(t) : /\ Len(s) + i \in 1 .. Len(s) + Len(t)
                               /\ offset + (Len(s) + i) = (offset + Len(s)) + i
    BY <1>1
  <2>3. \A i \in 1 .. Len(t) : buf[(offset + Len(s)) + i] = t[i]
    BY <1>2, <1>3, <2>2
  <2> QED
    BY <2>1, <2>3 DEF Held
<1> QED
  BY <1>4, <1>5

LEMMA HeldSubSeq ==
    ASSUME NEW S, NEW buf \in Seq(S), NEW s \in Seq(S), NEW offset \in Nat,
           Held(buf, offset, s)
    PROVE  SubSeq(buf, offset + 1, offset + Len(s)) = s
<1>1. /\ Len(s) \in Nat /\ offset + Len(s) \in Nat /\ offset <= offset + Len(s)
      /\ offset + Len(s) <= Len(buf) /\ Len(buf) \in Nat
      /\ (offset + Len(s)) - offset = Len(s)
  BY DEF Held
<1>2. PICK b \in Nat : b = offset + Len(s)
  BY <1>1
<1>3. /\ SubSeq(buf, offset + 1, b) \in Seq(S) /\ Len(SubSeq(buf, offset + 1, b)) = b - offset
      /\ \A i \in 1 .. b - offset : SubSeq(buf, offset + 1, b)[i] = buf[offset + i]
  BY <1>1, <1>2, SubSeqProp
<1>4. \A i \in 1 .. Len(s) : SubSeq(buf, offset + 1, b)[i] = s[i]
  BY <1>1, <1>2, <1>3 DEF Held
<1> QED
  BY <1>1, <1>2, <1>3, <1>4, SeqEqual

LEMMA SubSeqConcat ==
    ASSUME NEW S, NEW buf \in Seq(S), NEW a \in Nat, NEW b \in Nat, NEW c \in Nat,
           a <= b, b <= c, c <= Len(buf)
    PROVE  SubSeq(buf, a + 1, b) \o SubSeq(buf, b + 1, c) = SubSeq(buf, a + 1, c)
<1> DEFINE s == SubSeq(buf, a + 1, b)
           t == SubSeq(buf, b + 1, c)
           u == SubSeq(buf, a + 1, c)
<1>1. Len(buf) \in Nat /\ b <= Len(buf) /\ a <= c
  OBVIOUS
<1>2. /\ s \in Seq(S) /\ Len(s) = b - a /\ \A i \in 1 .. b - a : s[i] = buf[a + i]
      /\ t \in Seq(S) /\ Len(t) = c - b /\ \A i \in 1 .. c - b : t[i] = buf[b + i]
      /\ u \in Seq(S) /\ Len(u) = c - a /\ \A i \in 1 .. c - a : u[i] = buf[a + i]
  BY <1>1, SubSeqProp
<1> HIDE DEF s, t, u
<1>3. /\ s \o t \in Seq(S) /\ Len(s \o t) = c - a
      /\ \A i \in 1 .. b - a : (s \o t)[i] = s[i]
      /\ \A i \in 1 .. c - b : (s \o t)[(b - a) + i] = t[i]
  <2>1. (b - a) + (c - b) = c - a
    OBVIOUS
  <2>2. /\ s \o t \in Seq(S) /\ Len(s \o t) = Len(s) + Len(t)
        /\ \A i \in 1 .. Len(s) : (s \o t)[i] = s[i]
        /\ \A i \in 1 .. Len(t) : (s \o t)[Len(s) + i] = t[i]
    <3>1. s \in Seq(S) /\ t \in Seq(S)
      BY <1>2
    <3> QED
      BY <3>1, ConcatProp
  <2>3. Len(s) = b - a /\ Len(t) = c - b
    BY <1>2
  <2> QED
    BY <2>1, <2>2, <2>3
<1>4. ASSUME NEW i \in 1 .. c - a PROVE (s \o t)[i] = u[i]
  <2>1. CASE i <= b - a
    <3>1. i \in 1 .. b - a
      BY <2>1
    <3>2. (s \o t)[i] = s[i] /\ s[i] = buf[a + i]
      BY <1>2, <1>3, <3>1
    <3>3. u[i] = buf[a + i]
      BY <1>2
    <3> QED
      BY <3>2, <3>3
  <2>2. CASE ~(i <= b - a)
    <3>1. PICK j \in 1 .. c - b : i = (b - a) + j /\ a + i = b + j
      <4>1. i - (b - a) \in 1 .. c - b
        BY <2>2
      <4>2. i = (b - a) + (i - (b - a)) /\ a + i = b + (i - (b - a))
        OBVIOUS
      <4> QED
        BY <4>1, <4>2
    <3>2. (s \o t)[i] = t[j] /\ t[j] = buf[b + j]
      BY <1>2, <1>3, <3>1
    <3>3. u[i] = buf[a + i]
      BY <1>2
    <3> QED
      BY <3>1, <3>2, <3>3
  <2> QED
    BY <2>1, <2>2
<1>5. s \o t = u
  BY <1>2, <1>3, <1>4, SeqEqual
<1> QED
  BY <1>5 DEF s, t, u

LEMMA SubSeqAll ==
    ASSUME NEW S, NEW s \in Seq(S)
    PROVE  SubSeq(s, 0 + 1, Len(s)) = s
<1>1. Len(s) \in Nat /\ 0 <= Len(s) /\ Len(s) <= Len(s)
  OBVIOUS
<1>2. /\ SubSeq(s, 0 + 1, Len(s)) \in Seq(S) /\ Len(SubSeq(s, 0 + 1, Len(s))) = Len(s) - 0
      /\ \A i \in 1 .. Len(s) - 0 : SubSeq(s, 0 + 1, Len(s))[i] = s[0 + i]
  BY <1>1, SubSeqProp
<1> QED
  BY <1>1, <1>2, SeqEqual

-----------------------------------------------------------------------------
(* Integers and byte strings. *)

Widths == {U32, U64, U128}

LEMMA WidthType ==
    /\ \A width \in Widths : width \in Nat /\ Base ^ width \in Int
    /\ Base \in Nat /\ Base > 2 /\ 0 \in Byte /\ 1 \in Byte /\ 2 \in Byte
    /\ U32 \in Widths /\ U64 \in Widths /\ U128 \in Widths
BY CodecAssumption DEF Widths, Byte

LEMMA IntegerType ==
    ASSUME NEW width \in Widths, NEW n \in Unsigned(width)
    PROVE  /\ to_be_bytes(n, width) \in Bytes /\ Len(to_be_bytes(n, width)) = width
           /\ from_be_bytes(to_be_bytes(n, width)) = n
<1>1. /\ to_be_bytes(n, width) \in [1 .. width -> Byte]
      /\ from_be_bytes(to_be_bytes(n, width)) = n
  BY ConversionAssumption DEF Widths
<1>2. width \in Nat
  BY WidthType
<1>3. \A s \in [1 .. width -> Byte] : s \in Seq(Byte) /\ Len(s) = width
  BY <1>2
<1> QED
  BY <1>1, <1>3 DEF Bytes

(* An integer is decoded where it was encoded ... *)
LEMMA IntegerRead ==
    ASSUME NEW width \in Widths, NEW n \in Unsigned(width), NEW buf \in Bytes,
           NEW offset \in Nat, Held(buf, offset, to_be_bytes(n, width))
    PROVE  DecodeInteger(buf, offset, width) = Decoded(n, offset + width)
<1>1. PICK s \in Bytes : s = to_be_bytes(n, width)
  BY IntegerType
<1>2. Len(s) = width /\ from_be_bytes(s) = n /\ Held(buf, offset, s) /\ width \in Nat
  BY <1>1, IntegerType, WidthType
<1>3. SubSeq(buf, offset + 1, offset + width) = s
  BY <1>2, HeldSubSeq DEF Bytes
<1>4. ~(Len(buf) < offset + width)
  <2>1. Len(buf) \in Nat
    BY DEF Bytes
  <2> QED
    BY <1>2, <2>1 DEF Held
<1> QED
  BY <1>2, <1>3, <1>4 DEF DecodeInteger

(* ... and what is decoded as an integer is its encoding. *)
LEMMA IntegerAccepted ==
    ASSUME NEW width \in Widths, NEW buf \in Bytes, NEW offset \in Nat,
           DecodeInteger(buf, offset, width).ok
    PROVE  LET r == DecodeInteger(buf, offset, width)
           IN  /\ r.value \in Unsigned(width) /\ r.offset = offset + width
               /\ r.offset \in Nat /\ offset <= r.offset /\ r.offset <= Len(buf)
               /\ to_be_bytes(r.value, width) = SubSeq(buf, offset + 1, r.offset)
<1>1. width \in Nat /\ Len(buf) \in Nat /\ buf \in Seq(Byte)
  BY WidthType DEF Bytes
<1>2. ~(Len(buf) < offset + width)
  BY DEF DecodeInteger, Error
<1>3. PICK b \in Nat : b = offset + width
  BY <1>1
<1>4. offset <= b /\ b <= Len(buf) /\ b - offset = width
  BY <1>1, <1>2, <1>3
<1>5. PICK s : s = SubSeq(buf, offset + 1, b)
  OBVIOUS
<1>6. s \in Seq(Byte) /\ Len(s) = width
  BY <1>1, <1>4, <1>5, SubSeqProp
<1>7. s \in [1 .. width -> Byte]
  BY <1>1, <1>6
<1>8. from_be_bytes(s) \in Unsigned(width) /\ to_be_bytes(from_be_bytes(s), width) = s
  BY <1>7, ConversionAssumption DEF Widths
<1>9. DecodeInteger(buf, offset, width) = Decoded(from_be_bytes(s), b)
  BY <1>2, <1>3, <1>5 DEF DecodeInteger
<1>10. /\ DecodeInteger(buf, offset, width).value = from_be_bytes(s)
       /\ DecodeInteger(buf, offset, width).offset = b
  BY <1>9 DEF Decoded
<1> QED
  BY <1>3, <1>4, <1>5, <1>8, <1>10

LEMMA LengthUnsigned ==
    ASSUME NEW s \in Bytes
    PROVE  Encodable(s) <=> Len(s) \in Unsigned(U32)
<1>1. Len(s) \in Nat /\ Base ^ U32 \in Int
  BY WidthType DEF Bytes
<1> QED
  BY <1>1 DEF Encodable, Unsigned

LEMMA EncodeBytesType ==
    ASSUME NEW s \in Bytes, Encodable(s)
    PROVE  encode_bytes(s) \in Bytes /\ Len(encode_bytes(s)) = U32 + Len(s)
<1>1. PICK prefix \in Bytes : prefix = encode_u32(Len(s)) /\ Len(prefix) = U32
  BY LengthUnsigned, IntegerType, WidthType DEF encode_u32
<1> QED
  BY <1>1, ConcatProp DEF encode_bytes, Bytes

LEMMA BytesRead ==
    ASSUME NEW s \in Bytes, Encodable(s), NEW buf \in Bytes, NEW offset \in Nat,
           Held(buf, offset, encode_bytes(s))
    PROVE  decode_bytes(buf, offset) = Decoded(s, offset + (U32 + Len(s)))
<1>1. PICK prefix \in Bytes :
          prefix = encode_u32(Len(s)) /\ Len(prefix) = U32 /\ Held(buf, offset, prefix \o s)
  BY LengthUnsigned, IntegerType, WidthType DEF encode_u32, encode_bytes
<1>2. Held(buf, offset, prefix) /\ Held(buf, offset + U32, s)
  BY <1>1, HeldConcat DEF Bytes
<1>3. decode_u32(buf, offset) = Decoded(Len(s), offset + U32)
  BY <1>1, <1>2, LengthUnsigned, IntegerRead, WidthType DEF decode_u32, encode_u32
<1>4. /\ Len(s) \in Nat /\ U32 \in Nat /\ offset + U32 \in Nat /\ Len(buf) \in Nat
      /\ (offset + U32) + Len(s) = offset + (U32 + Len(s))
  BY WidthType DEF Bytes
<1>5. SubSeq(buf, (offset + U32) + 1, (offset + U32) + Len(s)) = s
  BY <1>2, <1>4, HeldSubSeq DEF Bytes
<1>6. ~(Len(buf) < (offset + U32) + Len(s))
  BY <1>2, <1>4 DEF Held
<1>7. decode_bytes(buf, offset) = Decoded(s, (offset + U32) + Len(s))
  <2>1. PICK len : len = decode_u32(buf, offset)
    OBVIOUS
  <2>2. len.ok /\ len.value = Len(s) /\ len.offset = offset + U32
    BY <1>3, <2>1 DEF Decoded
  <2> QED
    BY <1>5, <1>6, <2>1, <2>2 DEF decode_bytes
<1> QED
  BY <1>4, <1>7

LEMMA BytesAccepted ==
    ASSUME NEW buf \in Bytes, NEW offset \in Nat, decode_bytes(buf, offset).ok
    PROVE  LET r == decode_bytes(buf, offset)
           IN  /\ r.value \in Bytes /\ Encodable(r.value)
               /\ r.offset \in Nat /\ offset <= r.offset /\ r.offset <= Len(buf)
               /\ encode_bytes(r.value) = SubSeq(buf, offset + 1, r.offset)
<1>1. PICK len : len = decode_u32(buf, offset)
  OBVIOUS
<1>2. len.ok /\ ~(Len(buf) < len.offset + len.value)
  BY <1>1 DEF decode_bytes, Error
<1>3. /\ len.value \in Unsigned(U32) /\ len.offset \in Nat /\ offset <= len.offset
      /\ len.offset <= Len(buf)
      /\ encode_u32(len.value) = SubSeq(buf, offset + 1, len.offset)
  BY <1>1, <1>2, IntegerAccepted, WidthType DEF decode_u32, encode_u32
<1>4. len.value \in Nat /\ Len(buf) \in Nat /\ buf \in Seq(Byte)
  BY <1>3, WidthType DEF Unsigned, Bytes
<1>5. PICK b \in Nat : b = len.offset + len.value
  BY <1>3, <1>4
<1>6. len.offset <= b /\ b <= Len(buf) /\ b - len.offset = len.value /\ offset <= b
  BY <1>2, <1>3, <1>4, <1>5
<1>7. PICK s : s = SubSeq(buf, len.offset + 1, b)
  OBVIOUS
<1>8. s \in Bytes /\ Len(s) = len.value
  <2>1. PICK a \in Nat : a = len.offset
    BY <1>3
  <2>2. SubSeq(buf, a + 1, b) \in Seq(Byte) /\ Len(SubSeq(buf, a + 1, b)) = b - a
    BY <1>4, <1>6, <2>1, SubSeqProp
  <2> QED
    BY <1>6, <1>7, <2>1, <2>2 DEF Bytes
<1>9. Encodable(s)
  BY <1>3, <1>8, LengthUnsigned
<1>10. decode_bytes(buf, offset) = Decoded(s, b)
  BY <1>1, <1>2, <1>5, <1>7 DEF decode_bytes
<1>11. decode_bytes(buf, offset).value = s /\ decode_bytes(buf, offset).offset = b
  BY <1>10 DEF Decoded
<1>12. encode_bytes(s) = SubSeq(buf, offset + 1, b)
  <2>1. encode_bytes(s) = SubSeq(buf, offset + 1, len.offset) \o SubSeq(buf, len.offset + 1, b)
    BY <1>3, <1>7, <1>8 DEF encode_bytes
  <2>2. PICK a \in Nat : a = len.offset
    BY <1>3
  <2>3. offset <= a /\ a <= b /\ b <= Len(buf)
    BY <1>3, <1>6, <2>2
  <2>4. SubSeq(buf, offset + 1, a) \o SubSeq(buf, a + 1, b) = SubSeq(buf, offset + 1, b)
    BY <1>4, <2>3, SubSeqConcat
  <2> QED
    BY <2>1, <2>2, <2>4
<1> QED
  BY <1>6, <1>8, <1>9, <1>11, <1>12

-----------------------------------------------------------------------------
(* Options. *)

\* An optional string, and an optional timestamp, as the encoders write them.
EncodedString(v, present, absent) ==
    IF v = None THEN <<absent>> ELSE <<present>> \o encode_bytes(v)

EncodedTs(v) ==
    IF v = None THEN <<FLAG_ABSENT>> ELSE <<FLAG_PRESENT>> \o encode_u128(v)

StringAt(buf, offset, present, absent) ==
    DecodeOption(buf, offset, present, absent, decode_bytes)

TsAt(buf, offset) == DecodeOption(buf, offset, FLAG_PRESENT, FLAG_ABSENT, decode_u128)

OptionalString(v) == v # None => v \in Bytes /\ Encodable(v)

LEMMA Singleton ==
    ASSUME NEW b \in Byte
    PROVE  <<b>> \in Bytes /\ Len(<<b>>) = 1 /\ <<b>>[1] = b
BY DEF Bytes

LEMMA HeldByte ==
    ASSUME NEW b \in Byte, NEW buf \in Bytes, NEW offset \in Nat, Held(buf, offset, <<b>>)
    PROVE  buf[offset + 1] = b /\ ~(Len(buf) < offset + 1)
<1>1. Len(<<b>>) = 1 /\ <<b>>[1] = b /\ Len(buf) \in Nat
  BY Singleton DEF Bytes
<1> QED
  BY <1>1 DEF Held

LEMMA ByteSubSeq ==
    ASSUME NEW buf \in Bytes, NEW offset \in Nat, ~(Len(buf) < offset + 1)
    PROVE  /\ SubSeq(buf, offset + 1, offset + 1) = <<buf[offset + 1]>>
           /\ buf[offset + 1] \in Byte /\ offset + 1 <= Len(buf)
<1>1. Len(buf) \in Nat /\ buf \in Seq(Byte)
  BY DEF Bytes
<1>2. PICK b \in Nat : b = offset + 1
  OBVIOUS
<1>3. offset <= b /\ b <= Len(buf) /\ b - offset = 1
  BY <1>1, <1>2
<1>4. b \in 1 .. Len(buf)
  BY <1>1, <1>2, <1>3
<1>5. buf[b] \in Byte
  BY <1>1, <1>4
<1>6. /\ SubSeq(buf, offset + 1, b) \in Seq(Byte) /\ Len(SubSeq(buf, offset + 1, b)) = 1
      /\ SubSeq(buf, offset + 1, b)[1] = buf[offset + 1]
  BY <1>1, <1>3, SubSeqProp
<1>7. /\ <<buf[b]>> \in Seq(Byte) /\ Len(<<buf[b]>>) = 1 /\ <<buf[b]>>[1] = buf[b]
  BY <1>5
<1>8. \A i \in 1 .. 1 : SubSeq(buf, offset + 1, b)[i] = <<buf[b]>>[i]
  BY <1>2, <1>6, <1>7
<1>9. SubSeq(buf, offset + 1, b) = <<buf[b]>>
  BY <1>6, <1>7, <1>8, SeqEqual
<1> QED
  BY <1>2, <1>3, <1>5, <1>9

LEMMA StringType ==
    ASSUME NEW v, OptionalString(v), NEW present \in Byte, NEW absent \in Byte
    PROVE  EncodedString(v, present, absent) \in Bytes
<1>1. CASE v = None
  BY <1>1, Singleton DEF EncodedString
<1>2. CASE v # None
  <2>1. v \in Bytes /\ encode_bytes(v) \in Bytes /\ <<present>> \in Bytes
    BY <1>2, EncodeBytesType, Singleton DEF OptionalString
  <2> QED
    BY <1>2, <2>1, ConcatProp DEF EncodedString, Bytes
<1> QED
  BY <1>1, <1>2

LEMMA StringRead ==
    ASSUME NEW v, OptionalString(v), NEW present \in Byte, NEW absent \in Byte,
           present # absent, NEW buf \in Bytes, NEW offset \in Nat,
           Held(buf, offset, EncodedString(v, present, absent))
    PROVE  StringAt(buf, offset, present, absent) =
               Decoded(v, offset + Len(EncodedString(v, present, absent)))
<1>1. CASE v = None
  <2>1. EncodedString(v, present, absent) = <<absent>> /\ Len(<<absent>>) = 1
    BY <1>1, Singleton DEF EncodedString
  <2>2. buf[offset + 1] = absent /\ ~(Len(buf) < offset + 1)
    BY <2>1, HeldByte
  <2> QED
    BY <1>1, <2>1, <2>2 DEF StringAt, DecodeOption
<1>2. CASE v # None
  <2>1. v \in Bytes /\ Encodable(v)
    BY <1>2 DEF OptionalString
  <2>2. PICK s \in Bytes : s = encode_bytes(v) /\ Len(s) = U32 + Len(v)
    BY <2>1, EncodeBytesType
  <2>3. EncodedString(v, present, absent) = <<present>> \o s /\ <<present>> \in Bytes
        /\ Len(<<present>>) = 1
    BY <1>2, <2>2, Singleton DEF EncodedString
  <2>4. Held(buf, offset, <<present>>) /\ Held(buf, offset + 1, s)
    BY <2>3, HeldConcat DEF Bytes
  <2>5. buf[offset + 1] = present /\ ~(Len(buf) < offset + 1)
    BY <2>4, HeldByte
  <2>6. decode_bytes(buf, offset + 1) = Decoded(v, (offset + 1) + (U32 + Len(v)))
    BY <2>1, <2>2, <2>4, BytesRead
  <2>7. Len(<<present>> \o s) = 1 + (U32 + Len(v))
    BY <2>2, <2>3, ConcatProp DEF Bytes
  <2>8. (offset + 1) + (U32 + Len(v)) = offset + (1 + (U32 + Len(v)))
    <3>1. U32 \in Nat /\ Len(v) \in Nat
      BY <2>1, WidthType DEF Bytes
    <3> QED
      BY <3>1
  <2> QED
    BY <2>3, <2>5, <2>6, <2>7, <2>8 DEF StringAt, DecodeOption
<1> QED
  BY <1>1, <1>2

LEMMA StringAccepted ==
    ASSUME NEW present \in Byte, NEW absent \in Byte, present # absent, NEW buf \in Bytes,
           NEW offset \in Nat, StringAt(buf, offset, present, absent).ok
    PROVE  LET r == StringAt(buf, offset, present, absent)
           IN  /\ OptionalString(r.value) /\ r.value \in Bytes \cup {None}
               /\ r.offset \in Nat /\ offset <= r.offset /\ r.offset <= Len(buf)
               /\ EncodedString(r.value, present, absent) = SubSeq(buf, offset + 1, r.offset)
<1>1. ~(Len(buf) < offset + 1) /\ buf[offset + 1] \in {present, absent}
  BY DEF StringAt, DecodeOption, Error
<1>2. /\ SubSeq(buf, offset + 1, offset + 1) = <<buf[offset + 1]>> /\ offset + 1 <= Len(buf)
      /\ offset + 1 \in Nat /\ offset <= offset + 1 /\ Len(buf) \in Nat
  BY <1>1, ByteSubSeq DEF Bytes
<1>3. CASE buf[offset + 1] = absent
  <2>1. StringAt(buf, offset, present, absent) = Decoded(None, offset + 1)
    BY <1>1, <1>3 DEF StringAt, DecodeOption
  <2>2. /\ StringAt(buf, offset, present, absent).value = None
        /\ StringAt(buf, offset, present, absent).offset = offset + 1
    BY <2>1 DEF Decoded
  <2> QED
    BY <1>2, <1>3, <2>2 DEF EncodedString, OptionalString
<1>4. CASE buf[offset + 1] = present
  <2>1. PICK r : r = decode_bytes(buf, offset + 1)
    OBVIOUS
  <2>2. StringAt(buf, offset, present, absent) = r
    BY <1>1, <1>4, <2>1 DEF StringAt, DecodeOption
  <2>3. /\ r.value \in Bytes /\ Encodable(r.value)
        /\ r.offset \in Nat /\ offset + 1 <= r.offset /\ r.offset <= Len(buf)
        /\ encode_bytes(r.value) = SubSeq(buf, (offset + 1) + 1, r.offset)
    BY <1>2, <2>1, <2>2, BytesAccepted
  <2>4. r.value # None
    BY <2>3, CodecAssumption
  <2>5. EncodedString(r.value, present, absent) =
            SubSeq(buf, offset + 1, offset + 1) \o SubSeq(buf, (offset + 1) + 1, r.offset)
    BY <1>2, <1>4, <2>3, <2>4 DEF EncodedString
  <2>6. PICK b \in Nat, c \in Nat : b = offset + 1 /\ c = r.offset
    BY <1>2, <2>3
  <2>7. SubSeq(buf, offset + 1, b) \o SubSeq(buf, b + 1, c) = SubSeq(buf, offset + 1, c)
    <3>1. offset <= b /\ b <= c /\ c <= Len(buf) /\ buf \in Seq(Byte)
      BY <1>2, <2>3, <2>6 DEF Bytes
    <3> QED
      BY <3>1, SubSeqConcat
  <2>8. offset <= r.offset
    BY <2>3
  <2> QED
    BY <2>2, <2>3, <2>5, <2>6, <2>7, <2>8 DEF OptionalString
<1> QED
  BY <1>1, <1>3, <1>4

OptionalTs(v) == v # None => v \in Unsigned(U128)

LEMMA TsType ==
    ASSUME NEW v, OptionalTs(v)
    PROVE  EncodedTs(v) \in Bytes
<1>1. CASE v = None
  BY <1>1, WidthType, Singleton DEF EncodedTs, FLAG_ABSENT
<1>2. CASE v # None
  <2>1. encode_u128(v) \in Bytes /\ <<FLAG_PRESENT>> \in Bytes
    BY <1>2, IntegerType, WidthType, Singleton DEF OptionalTs, encode_u128, FLAG_PRESENT
  <2> QED
    BY <1>2, <2>1, ConcatProp DEF EncodedTs, Bytes
<1> QED
  BY <1>1, <1>2

LEMMA TsRead ==
    ASSUME NEW v, OptionalTs(v), NEW buf \in Bytes, NEW offset \in Nat,
           Held(buf, offset, EncodedTs(v))
    PROVE  TsAt(buf, offset) = Decoded(v, offset + Len(EncodedTs(v)))
<1> FLAG_ABSENT \in Byte /\ FLAG_PRESENT \in Byte /\ FLAG_ABSENT # FLAG_PRESENT
  BY WidthType DEF FLAG_ABSENT, FLAG_PRESENT
<1>1. CASE v = None
  <2>1. EncodedTs(v) = <<FLAG_ABSENT>> /\ Len(<<FLAG_ABSENT>>) = 1
    BY <1>1, Singleton DEF EncodedTs
  <2>2. buf[offset + 1] = FLAG_ABSENT /\ ~(Len(buf) < offset + 1)
    BY <2>1, HeldByte
  <2> QED
    BY <1>1, <2>1, <2>2 DEF TsAt, DecodeOption
<1>2. CASE v # None
  <2>1. v \in Unsigned(U128)
    BY <1>2 DEF OptionalTs
  <2>2. PICK s \in Bytes : s = to_be_bytes(v, U128) /\ Len(s) = U128
    BY <2>1, IntegerType, WidthType
  <2>3. EncodedTs(v) = <<FLAG_PRESENT>> \o s /\ <<FLAG_PRESENT>> \in Bytes
        /\ Len(<<FLAG_PRESENT>>) = 1
    BY <1>2, <2>2, Singleton DEF EncodedTs, encode_u128
  <2>4. Held(buf, offset, <<FLAG_PRESENT>>) /\ Held(buf, offset + 1, s)
    BY <2>3, HeldConcat DEF Bytes
  <2>5. buf[offset + 1] = FLAG_PRESENT /\ ~(Len(buf) < offset + 1)
    BY <2>4, HeldByte
  <2>6. decode_u128(buf, offset + 1) = Decoded(v, (offset + 1) + U128)
    BY <2>1, <2>2, <2>4, IntegerRead, WidthType DEF decode_u128
  <2>7. Len(<<FLAG_PRESENT>> \o s) = 1 + U128
    BY <2>2, <2>3, ConcatProp DEF Bytes
  <2>8. (offset + 1) + U128 = offset + (1 + U128)
    <3>1. U128 \in Nat
      BY WidthType
    <3> QED
      BY <3>1
  <2> QED
    BY <2>3, <2>5, <2>6, <2>7, <2>8 DEF TsAt, DecodeOption
<1> QED
  BY <1>1, <1>2

LEMMA TsAccepted ==
    ASSUME NEW buf \in Bytes, NEW offset \in Nat, TsAt(buf, offset).ok
    PROVE  LET r == TsAt(buf, offset)
           IN  /\ OptionalTs(r.value) /\ r.value \in Unsigned(U128) \cup {None}
               /\ r.offset \in Nat /\ offset <= r.offset /\ r.offset <= Len(buf)
               /\ EncodedTs(r.value) = SubSeq(buf, offset + 1, r.offset)
<1> FLAG_ABSENT # FLAG_PRESENT
  BY DEF FLAG_ABSENT, FLAG_PRESENT
<1>1. ~(Len(buf) < offset + 1) /\ buf[offset + 1] \in {FLAG_PRESENT, FLAG_ABSENT}
  BY DEF TsAt, DecodeOption, Error
<1>2. /\ SubSeq(buf, offset + 1, offset + 1) = <<buf[offset + 1]>> /\ offset + 1 <= Len(buf)
      /\ offset + 1 \in Nat /\ offset <= offset + 1 /\ Len(buf) \in Nat
  BY <1>1, ByteSubSeq DEF Bytes
<1>3. CASE buf[offset + 1] = FLAG_ABSENT
  <2>1. TsAt(buf, offset) = Decoded(None, offset + 1)
    BY <1>1, <1>3 DEF TsAt, DecodeOption
  <2>2. TsAt(buf, offset).value = None /\ TsAt(buf, offset).offset = offset + 1
    BY <2>1 DEF Decoded
  <2> QED
    BY <1>2, <1>3, <2>2 DEF EncodedTs, OptionalTs
<1>4. CASE buf[offset + 1] = FLAG_PRESENT
  <2>1. PICK r : r = decode_u128(buf, offset + 1)
    OBVIOUS
  <2>2. TsAt(buf, offset) = r
    BY <1>1, <1>4, <2>1 DEF TsAt, DecodeOption
  <2>3. /\ r.value \in Unsigned(U128)
        /\ r.offset \in Nat /\ offset + 1 <= r.offset /\ r.offset <= Len(buf)
        /\ encode_u128(r.value) = SubSeq(buf, (offset + 1) + 1, r.offset)
    <3>1. PICK a \in Nat : a = offset + 1
      BY <1>2
    <3>2. r = DecodeInteger(buf, a, U128) /\ r.ok
      BY <2>1, <2>2, <3>1 DEF decode_u128
    <3>3. /\ r.value \in Unsigned(U128)
          /\ r.offset \in Nat /\ a <= r.offset /\ r.offset <= Len(buf)
          /\ to_be_bytes(r.value, U128) = SubSeq(buf, a + 1, r.offset)
      BY <3>2, IntegerAccepted, WidthType
    <3> QED
      BY <3>1, <3>3 DEF encode_u128
  <2>4. r.value # None
    <3>1. r.value \in Nat
      BY <2>3, WidthType DEF Unsigned
    <3> QED
      BY <3>1, CodecAssumption
  <2>5. EncodedTs(r.value) =
            SubSeq(buf, offset + 1, offset + 1) \o SubSeq(buf, (offset + 1) + 1, r.offset)
    BY <1>2, <1>4, <2>3, <2>4 DEF EncodedTs
  <2>6. PICK b \in Nat, c \in Nat : b = offset + 1 /\ c = r.offset
    BY <1>2, <2>3
  <2>7. SubSeq(buf, offset + 1, b) \o SubSeq(buf, b + 1, c) = SubSeq(buf, offset + 1, c)
    <3>1. offset <= b /\ b <= c /\ c <= Len(buf) /\ buf \in Seq(Byte)
      BY <1>2, <2>3, <2>6 DEF Bytes
    <3> QED
      BY <3>1, SubSeqConcat
  <2>8. offset <= r.offset
    BY <2>3
  <2> QED
    BY <2>2, <2>3, <2>5, <2>6, <2>7, <2>8 DEF OptionalTs
<1> QED
  BY <1>1, <1>3, <1>4

-----------------------------------------------------------------------------
(* The header. *)

Header(record_type) == <<CODEC_VERSION, record_type>>

LEMMA HeaderType ==
    ASSUME NEW record_type \in Byte
    PROVE  /\ Header(record_type) \in Bytes /\ Len(Header(record_type)) = 2
           /\ Header(record_type)[1] = CODEC_VERSION /\ Header(record_type)[2] = record_type
BY WidthType DEF Header, CODEC_VERSION, Bytes

LEMMA HeaderRead ==
    ASSUME NEW record_type \in Byte, NEW buf \in Bytes, Held(buf, 0, Header(record_type))
    PROVE  DecodeHeader(buf, record_type) = Decoded(record_type, 2)
<1>1. Len(buf) \in Nat
  BY DEF Bytes
<1>2. Len(buf) >= 2 /\ buf[1] = CODEC_VERSION /\ buf[2] = record_type
  <2>1. Len(buf) >= 0 + 2 /\ \A i \in 1 .. 2 : buf[0 + i] = Header(record_type)[i]
    BY HeaderType DEF Held
  <2>2. buf[0 + 1] = Header(record_type)[1] /\ buf[0 + 2] = Header(record_type)[2]
    BY <2>1
  <2> QED
    BY <1>1, <2>1, <2>2, HeaderType
<1> QED
  BY <1>2 DEF DecodeHeader

LEMMA HeaderAccepted ==
    ASSUME NEW record_type \in Byte, NEW buf \in Bytes, DecodeHeader(buf, record_type).ok
    PROVE  /\ DecodeHeader(buf, record_type).offset = 2
           /\ 2 <= Len(buf) /\ buf[2] = record_type
           /\ Header(record_type) = SubSeq(buf, 0 + 1, 2)
<1>1. Len(buf) >= 2 /\ buf[1] = CODEC_VERSION /\ buf[2] = record_type
  BY DEF DecodeHeader, Error
<1>2. DecodeHeader(buf, record_type).offset = 2
  BY <1>1 DEF DecodeHeader, Decoded
<1>3. Len(buf) \in Nat /\ buf \in Seq(Byte)
  BY DEF Bytes
<1>4. /\ SubSeq(buf, 0 + 1, 2) \in Seq(Byte) /\ Len(SubSeq(buf, 0 + 1, 2)) = 2
      /\ SubSeq(buf, 0 + 1, 2)[1] = buf[1] /\ SubSeq(buf, 0 + 1, 2)[2] = buf[2]
  <2>1. PICK a \in Nat, b \in Nat : a = 0 /\ b = 2
    OBVIOUS
  <2>2. /\ SubSeq(buf, a + 1, b) \in Seq(Byte) /\ Len(SubSeq(buf, a + 1, b)) = b - a
        /\ \A i \in 1 .. b - a : SubSeq(buf, a + 1, b)[i] = buf[a + i]
    BY <1>1, <1>3, <2>1, SubSeqProp
  <2>3. \A i \in 1 .. 2 : SubSeq(buf, 0 + 1, 2)[i] = buf[0 + i]
    BY <2>1, <2>2
  <2> QED
    BY <2>1, <2>2, <2>3
<1>5. \A i \in 1 .. 2 : SubSeq(buf, 0 + 1, 2)[i] = Header(record_type)[i]
  <2>1. \A i \in 1 .. 2 : i = 1 \/ i = 2
    OBVIOUS
  <2> QED
    BY <1>1, <1>4, <2>1, HeaderType
<1>6. Header(record_type) = SubSeq(buf, 0 + 1, 2)
  <2>1. PICK s \in Seq(Byte), t \in Seq(Byte) : s = SubSeq(buf, 0 + 1, 2) /\ t = Header(record_type)
    BY <1>4, HeaderType DEF Bytes
  <2>2. Len(s) = 2 /\ Len(t) = 2 /\ \A i \in 1 .. 2 : s[i] = t[i]
    BY <1>4, <1>5, <2>1, HeaderType
  <2>3. s = t
    BY <2>2, SeqEqual
  <2> QED
    BY <2>1, <2>3
<1> QED
  BY <1>1, <1>2, <1>3, <1>6

-----------------------------------------------------------------------------
(* Committed versions. *)

\* The fields of a committed version as decode_committed meets them.
CKey(buf) ==
    IF DecodeHeader(buf, RECORD_COMMITTED).ok
    THEN decode_bytes(buf, DecodeHeader(buf, RECORD_COMMITTED).offset) ELSE Error
CTs(buf) == IF CKey(buf).ok THEN decode_u128(buf, CKey(buf).offset) ELSE Error
CValue(buf) ==
    IF CTs(buf).ok THEN StringAt(buf, CTs(buf).offset, FLAG_PRESENT, FLAG_ABSENT) ELSE Error

\* A record that encode_committed accepts.
IsCommitted(r) ==
    /\ r \in [key : Bytes, commit_ts : Unsigned(U128), value : Bytes \cup {None}]
    /\ Encodable(r.key) /\ OptionalString(r.value)

LEMMA CommittedFields ==
    ASSUME NEW buf
    PROVE  decode_committed(buf) =
               IF EndsExactly(CValue(buf), buf)
               THEN [ok |-> TRUE,
                     record |-> [key |-> CKey(buf).value, commit_ts |-> CTs(buf).value,
                                 value |-> CValue(buf).value]]
               ELSE Error
BY DEF decode_committed, Then, CKey, CTs, CValue, StringAt, DecodeOption

LEMMA CommittedParts ==
    ASSUME NEW r
    PROVE  encode_committed(r) =
               Header(RECORD_COMMITTED) \o encode_bytes(r.key) \o to_be_bytes(r.commit_ts, U128)
               \o EncodedString(r.value, FLAG_PRESENT, FLAG_ABSENT)
BY DEF encode_committed, Header, encode_u128, EncodedString

LEMMA TagTypes ==
    /\ RECORD_COMMITTED \in Byte /\ RECORD_INTENT \in Byte /\ RECORD_COMMITTED # RECORD_INTENT
    /\ FLAG_PRESENT \in Byte /\ FLAG_ABSENT \in Byte /\ FLAG_PRESENT # FLAG_ABSENT
    /\ MUTATION_PUT \in Byte /\ MUTATION_DELETE \in Byte /\ MUTATION_PUT # MUTATION_DELETE
BY WidthType DEF RECORD_COMMITTED, RECORD_INTENT, FLAG_PRESENT, FLAG_ABSENT,
                 MUTATION_PUT, MUTATION_DELETE

(* A field behind what was encoded before it. *)
LEMMA Joined ==
    ASSUME NEW s \in Bytes, NEW t \in Bytes
    PROVE  \E u \in Bytes :
               /\ u = s \o t /\ Len(u) = Len(s) + Len(t)
               /\ 2 <= Len(s) => 2 <= Len(u) /\ u[2] = s[2]
               /\ \A buf \in Bytes, offset \in Nat :
                     Held(buf, offset, u) =>
                         Held(buf, offset, s) /\ Held(buf, offset + Len(s), t)
<1>1. Len(s) \in Nat /\ Len(t) \in Nat /\ s \in Seq(Byte) /\ t \in Seq(Byte)
  BY DEF Bytes
<1>2. /\ s \o t \in Seq(Byte) /\ Len(s \o t) = Len(s) + Len(t)
      /\ \A i \in 1 .. Len(s) : (s \o t)[i] = s[i]
  BY <1>1, ConcatProp
<1>3. 2 <= Len(s) => 2 \in 1 .. Len(s) /\ 2 <= Len(s) + Len(t)
  BY <1>1
<1>4. ASSUME NEW buf \in Bytes, NEW offset \in Nat, Held(buf, offset, s \o t)
      PROVE  Held(buf, offset, s) /\ Held(buf, offset + Len(s), t)
  BY <1>1, <1>4, HeldConcat DEF Bytes
<1> QED
  BY <1>2, <1>3, <1>4 DEF Bytes

LEMMA CommittedType ==
    ASSUME NEW r, IsCommitted(r)
    PROVE  /\ encode_committed(r) \in Bytes /\ 2 <= Len(encode_committed(r))
           /\ encode_committed(r)[2] = RECORD_COMMITTED
<1>1. PICK h \in Bytes, k \in Bytes, t \in Bytes, v \in Bytes :
          /\ h = Header(RECORD_COMMITTED) /\ k = encode_bytes(r.key)
          /\ t = to_be_bytes(r.commit_ts, U128)
          /\ v = EncodedString(r.value, FLAG_PRESENT, FLAG_ABSENT)
  <2>1. r.key \in Bytes /\ r.commit_ts \in Unsigned(U128)
    BY DEF IsCommitted
  <2> QED
    BY <2>1, HeaderType, EncodeBytesType, IntegerType, WidthType, StringType, TagTypes
       DEF IsCommitted
<1>2. Len(h) = 2 /\ h[2] = RECORD_COMMITTED
  BY <1>1, HeaderType, TagTypes
<1>3. PICK hk \in Bytes : hk = h \o k /\ 2 <= Len(hk) /\ hk[2] = RECORD_COMMITTED
  <2>1. 2 <= Len(h)
    BY <1>2
  <2> QED
    BY <1>2, <2>1, Joined, Zenon
<1>4. PICK hkt \in Bytes : hkt = hk \o t /\ 2 <= Len(hkt) /\ hkt[2] = RECORD_COMMITTED
  BY <1>3, Joined, Zenon
<1>5. PICK all \in Bytes : all = hkt \o v /\ 2 <= Len(all) /\ all[2] = RECORD_COMMITTED
  BY <1>4, Joined, Zenon
<1>6. encode_committed(r) = all
  BY <1>1, <1>3, <1>4, <1>5, CommittedParts, Zenon
<1> QED
  BY <1>5, <1>6

(* Wherever an encoding stands at the front, decode_committed meets the fields *)
(* of its record, and ends behind it.                                          *)
LEMMA CommittedRead ==
    ASSUME NEW r, IsCommitted(r), NEW buf \in Bytes, Held(buf, 0, encode_committed(r))
    PROVE  /\ CKey(buf).value = r.key /\ CTs(buf).value = r.commit_ts
           /\ CValue(buf).value = r.value /\ CValue(buf).ok
           /\ CValue(buf).offset = Len(encode_committed(r))
<1>1. r.key \in Bytes /\ Encodable(r.key) /\ r.commit_ts \in Unsigned(U128) /\ OptionalString(r.value)
  BY DEF IsCommitted
<1>2. PICK h \in Bytes, k \in Bytes, t \in Bytes, v \in Bytes :
          /\ h = Header(RECORD_COMMITTED) /\ k = encode_bytes(r.key)
          /\ t = to_be_bytes(r.commit_ts, U128)
          /\ v = EncodedString(r.value, FLAG_PRESENT, FLAG_ABSENT)
  BY <1>1, HeaderType, EncodeBytesType, IntegerType, WidthType, StringType, TagTypes
<1>3. /\ Len(h) = 2 /\ Len(k) = U32 + Len(r.key) /\ Len(t) = U128
  BY <1>1, <1>2, HeaderType, TagTypes, EncodeBytesType, IntegerType, WidthType
<1>4. Len(h) \in Nat /\ Len(k) \in Nat /\ Len(t) \in Nat /\ Len(v) \in Nat
  BY DEF Bytes
<1>5. PICK hk \in Bytes :
          hk = h \o k /\ Len(hk) = Len(h) + Len(k)
          /\ (Held(buf, 0, hk) => Held(buf, 0, h) /\ Held(buf, 0 + Len(h), k))
  BY Joined
<1>6. PICK hkt \in Bytes :
          hkt = hk \o t /\ Len(hkt) = Len(hk) + Len(t)
          /\ (Held(buf, 0, hkt) => Held(buf, 0, hk) /\ Held(buf, 0 + Len(hk), t))
  BY Joined
<1>7. PICK all \in Bytes :
          all = hkt \o v /\ Len(all) = Len(hkt) + Len(v)
          /\ (Held(buf, 0, all) => Held(buf, 0, hkt) /\ Held(buf, 0 + Len(hkt), v))
  BY Joined
<1>8. encode_committed(r) = all
  BY <1>2, <1>5, <1>6, <1>7, CommittedParts, Zenon
<1>9. /\ Held(buf, 0, h) /\ Held(buf, 0 + Len(h), k) /\ Held(buf, 0 + Len(hk), t)
      /\ Held(buf, 0 + Len(hkt), v)
  BY <1>5, <1>6, <1>7, <1>8
<1>10. U128 \in Nat
  BY WidthType
<1>11. PICK b \in Nat, c \in Nat : b = 2 + Len(k) /\ c = b + U128
  BY <1>4, <1>10
<1>12. Held(buf, 2, k) /\ Held(buf, b, t) /\ Held(buf, c, v)
  <2>1. 0 + Len(h) = 2 /\ 0 + Len(hk) = b /\ 0 + Len(hkt) = c
    <3>1. Len(hk) = b
      BY <1>3, <1>5, <1>11
    <3>2. Len(hkt) = c
      BY <1>3, <1>6, <1>11, <3>1
    <3> QED
      BY <1>3, <3>1, <3>2
  <2> QED
    BY <1>9, <2>1
<1>13. DecodeHeader(buf, RECORD_COMMITTED) = Decoded(RECORD_COMMITTED, 2)
  BY <1>2, <1>9, HeaderRead, TagTypes
<1>14. CKey(buf) = Decoded(r.key, b)
  <2>1. decode_bytes(buf, 2) = Decoded(r.key, 2 + (U32 + Len(r.key)))
    BY <1>1, <1>2, <1>12, BytesRead
  <2>2. decode_bytes(buf, 2) = Decoded(r.key, b)
    BY <1>3, <1>11, <2>1
  <2> QED
    BY <1>13, <2>2 DEF CKey, Decoded
<1>15. CTs(buf) = Decoded(r.commit_ts, c)
  <2>1. DecodeInteger(buf, b, U128) = Decoded(r.commit_ts, b + U128)
    BY <1>1, <1>2, <1>12, IntegerRead, WidthType
  <2> QED
    BY <1>11, <1>14, <2>1 DEF CTs, Decoded, decode_u128
<1>16. CValue(buf) = Decoded(r.value, c + Len(v))
  <2>1. StringAt(buf, c, FLAG_PRESENT, FLAG_ABSENT) = Decoded(r.value, c + Len(v))
    <3>1. Held(buf, c, EncodedString(r.value, FLAG_PRESENT, FLAG_ABSENT))
      BY <1>2, <1>12
    <3>2. PICK present \in Byte, absent \in Byte :
              present = FLAG_PRESENT /\ absent = FLAG_ABSENT /\ present # absent
      BY TagTypes
    <3>3. StringAt(buf, c, present, absent) =
              Decoded(r.value, c + Len(EncodedString(r.value, present, absent)))
      BY <1>1, <3>1, <3>2, StringRead
    <3> QED
      BY <1>2, <3>2, <3>3
  <2> QED
    BY <1>15, <2>1 DEF CValue, Decoded
<1>17. c + Len(v) = Len(encode_committed(r))
  BY <1>3, <1>5, <1>6, <1>7, <1>8, <1>11
<1> QED
  BY <1>14, <1>15, <1>16, <1>17 DEF Decoded

(* Whatever decode_committed accepts is the encoding of what it returns. *)
LEMMA CommittedAccepted ==
    ASSUME NEW buf \in Bytes, decode_committed(buf).ok
    PROVE  LET r == decode_committed(buf).record
           IN  IsCommitted(r) /\ encode_committed(r) = buf /\ 2 <= Len(buf)
               /\ buf[2] = RECORD_COMMITTED
<1>1. EndsExactly(CValue(buf), buf)
  BY CommittedFields DEF Error
<1>2. CValue(buf).ok /\ CValue(buf).offset = Len(buf)
  BY <1>1 DEF EndsExactly
<1>3. CTs(buf).ok /\ CValue(buf) = StringAt(buf, CTs(buf).offset, FLAG_PRESENT, FLAG_ABSENT)
  BY <1>2 DEF CValue, Error
<1>4. CKey(buf).ok /\ CTs(buf) = decode_u128(buf, CKey(buf).offset)
  BY <1>3 DEF CTs, Error
<1>5. /\ DecodeHeader(buf, RECORD_COMMITTED).ok
      /\ CKey(buf) = decode_bytes(buf, DecodeHeader(buf, RECORD_COMMITTED).offset)
  BY <1>4 DEF CKey, Error
<1>6. /\ DecodeHeader(buf, RECORD_COMMITTED).offset = 2 /\ 2 <= Len(buf)
      /\ Header(RECORD_COMMITTED) = SubSeq(buf, 0 + 1, 2) /\ buf[2] = RECORD_COMMITTED
  BY <1>5, HeaderAccepted, TagTypes
<1>7. PICK key \in Bytes, b \in Nat :
          /\ key = CKey(buf).value /\ Encodable(key)
          /\ b = CKey(buf).offset /\ 2 <= b /\ b <= Len(buf)
          /\ encode_bytes(key) = SubSeq(buf, 2 + 1, b)
  <2>1. CKey(buf) = decode_bytes(buf, 2) /\ decode_bytes(buf, 2).ok
    BY <1>4, <1>5, <1>6
  <2> QED
    BY <2>1, BytesAccepted
<1>8. PICK ts \in Unsigned(U128), c \in Nat :
          /\ ts = CTs(buf).value
          /\ c = CTs(buf).offset /\ b <= c /\ c <= Len(buf)
          /\ to_be_bytes(ts, U128) = SubSeq(buf, b + 1, c)
  <2>1. CTs(buf) = DecodeInteger(buf, b, U128) /\ DecodeInteger(buf, b, U128).ok
    BY <1>3, <1>4, <1>7 DEF decode_u128
  <2> QED
    <3>1. PICK w : w = DecodeInteger(buf, b, U128)
      OBVIOUS
    <3>2. /\ w.value \in Unsigned(U128) /\ w.offset \in Nat
          /\ b <= w.offset /\ w.offset <= Len(buf)
          /\ to_be_bytes(w.value, U128) = SubSeq(buf, b + 1, w.offset)
      BY <2>1, <3>1, IntegerAccepted, WidthType
    <3> QED
      BY <2>1, <3>1, <3>2
<1>9. PICK v \in Bytes \cup {None} :
          /\ v = CValue(buf).value /\ OptionalString(v)
          /\ EncodedString(v, FLAG_PRESENT, FLAG_ABSENT) = SubSeq(buf, c + 1, Len(buf))
  <2>1. /\ CValue(buf) = StringAt(buf, c, FLAG_PRESENT, FLAG_ABSENT)
        /\ StringAt(buf, c, FLAG_PRESENT, FLAG_ABSENT).ok
    BY <1>2, <1>3, <1>8
  <2> QED
    <3>1. PICK present \in Byte, absent \in Byte :
              present = FLAG_PRESENT /\ absent = FLAG_ABSENT /\ present # absent
      BY TagTypes
    <3>2. PICK w : w = StringAt(buf, c, present, absent)
      OBVIOUS
    <3>3. /\ OptionalString(w.value) /\ w.value \in Bytes \cup {None}
          /\ EncodedString(w.value, present, absent) = SubSeq(buf, c + 1, w.offset)
      BY <2>1, <3>1, <3>2, StringAccepted
    <3> QED
      BY <1>2, <2>1, <3>1, <3>2, <3>3
<1>10. PICK r : r = [key |-> key, commit_ts |-> ts, value |-> v]
  OBVIOUS
<1>11. decode_committed(buf).record = r
  BY <1>1, <1>7, <1>8, <1>9, <1>10, CommittedFields
<1>12. IsCommitted(r)
  BY <1>7, <1>8, <1>9, <1>10 DEF IsCommitted
<1>13. encode_committed(r) = buf
  <2>1. r.key = key /\ r.commit_ts = ts /\ r.value = v
    BY <1>10
  <2>2. Len(buf) \in Nat /\ buf \in Seq(Byte)
    BY DEF Bytes
  <2>3. PICK n \in Nat, z \in Nat, two \in Nat : n = Len(buf) /\ z = 0 /\ two = 2
    BY <2>2
  <2>4. z <= two /\ two <= b /\ b <= c /\ c <= n /\ n <= Len(buf) /\ z <= b /\ z <= c
        /\ b <= Len(buf) /\ c <= Len(buf)
    <3>1. 2 <= b /\ b <= c
      BY <1>7, <1>8
    <3>2. c <= n /\ n = Len(buf) /\ z = 0 /\ two = 2
      BY <1>8, <2>3
    <3> QED
      BY <3>1, <3>2
  <2>5. SubSeq(buf, z + 1, two) \o SubSeq(buf, two + 1, b) = SubSeq(buf, z + 1, b)
    BY <2>2, <2>4, SubSeqConcat
  <2>6. SubSeq(buf, z + 1, b) \o SubSeq(buf, b + 1, c) = SubSeq(buf, z + 1, c)
    BY <2>2, <2>4, SubSeqConcat
  <2>7. SubSeq(buf, z + 1, c) \o SubSeq(buf, c + 1, n) = SubSeq(buf, z + 1, n)
    BY <2>2, <2>4, SubSeqConcat
  <2>8. SubSeq(buf, z + 1, n) = buf
    BY <2>2, <2>3, SubSeqAll
  <2>9. encode_committed(r) =
            SubSeq(buf, z + 1, two) \o SubSeq(buf, two + 1, b) \o SubSeq(buf, b + 1, c)
            \o SubSeq(buf, c + 1, n)
    BY <1>6, <1>7, <1>8, <1>9, <2>1, <2>3, CommittedParts
  <2> QED
    BY <2>5, <2>6, <2>7, <2>8, <2>9
<1> QED
  BY <1>6, <1>11, <1>12, <1>13

-----------------------------------------------------------------------------
(* Intents. *)

\* The fields of an intent as decode_intent meets them.
IKey(buf) ==
    IF DecodeHeader(buf, RECORD_INTENT).ok
    THEN decode_bytes(buf, DecodeHeader(buf, RECORD_INTENT).offset) ELSE Error
ITxn(buf) == IF IKey(buf).ok THEN decode_u64(buf, IKey(buf).offset) ELSE Error
IStart(buf) == IF ITxn(buf).ok THEN decode_u128(buf, ITxn(buf).offset) ELSE Error
IMin(buf) == IF IStart(buf).ok THEN TsAt(buf, IStart(buf).offset) ELSE Error
IMutation(buf) ==
    IF IMin(buf).ok THEN StringAt(buf, IMin(buf).offset, MUTATION_PUT, MUTATION_DELETE) ELSE Error

\* A record that encode_intent accepts.
IsIntent(r) ==
    /\ r \in [key : Bytes, txn_id : Unsigned(U64), start_ts : Unsigned(U128),
              min_commit_ts : Unsigned(U128) \cup {None}, mutation : Bytes \cup {None}]
    /\ Encodable(r.key) /\ OptionalTs(r.min_commit_ts) /\ OptionalString(r.mutation)

LEMMA IntentFields ==
    ASSUME NEW buf
    PROVE  decode_intent(buf) =
               IF EndsExactly(IMutation(buf), buf)
               THEN [ok |-> TRUE,
                     record |-> [key |-> IKey(buf).value, txn_id |-> ITxn(buf).value,
                                 start_ts |-> IStart(buf).value,
                                 min_commit_ts |-> IMin(buf).value,
                                 mutation |-> IMutation(buf).value]]
               ELSE Error
BY DEF decode_intent, Then, IKey, ITxn, IStart, IMin, IMutation, StringAt, TsAt, DecodeOption

LEMMA IntentParts ==
    ASSUME NEW r
    PROVE  encode_intent(r) =
               Header(RECORD_INTENT) \o encode_bytes(r.key) \o to_be_bytes(r.txn_id, U64)
               \o to_be_bytes(r.start_ts, U128) \o EncodedTs(r.min_commit_ts)
               \o EncodedString(r.mutation, MUTATION_PUT, MUTATION_DELETE)
BY DEF encode_intent, Header, encode_u64, encode_u128, EncodedTs, EncodedString

LEMMA IntentPieces ==
    ASSUME NEW r, IsIntent(r)
    PROVE  /\ r.key \in Bytes /\ Encodable(r.key) /\ r.txn_id \in Unsigned(U64)
           /\ r.start_ts \in Unsigned(U128) /\ OptionalTs(r.min_commit_ts)
           /\ OptionalString(r.mutation)
           /\ \E h \in Bytes, k \in Bytes, x \in Bytes, t \in Bytes, m \in Bytes, v \in Bytes :
                 /\ h = Header(RECORD_INTENT) /\ k = encode_bytes(r.key)
                 /\ x = to_be_bytes(r.txn_id, U64) /\ t = to_be_bytes(r.start_ts, U128)
                 /\ m = EncodedTs(r.min_commit_ts)
                 /\ v = EncodedString(r.mutation, MUTATION_PUT, MUTATION_DELETE)
                 /\ Len(h) = 2 /\ h[2] = RECORD_INTENT
                 /\ Len(k) = U32 + Len(r.key) /\ Len(x) = U64 /\ Len(t) = U128
<1>1. /\ r.key \in Bytes /\ Encodable(r.key) /\ r.txn_id \in Unsigned(U64)
      /\ r.start_ts \in Unsigned(U128) /\ OptionalTs(r.min_commit_ts)
      /\ OptionalString(r.mutation)
  BY DEF IsIntent
<1>2. /\ Header(RECORD_INTENT) \in Bytes /\ Len(Header(RECORD_INTENT)) = 2
      /\ Header(RECORD_INTENT)[2] = RECORD_INTENT
  BY HeaderType, TagTypes
<1>3. encode_bytes(r.key) \in Bytes /\ Len(encode_bytes(r.key)) = U32 + Len(r.key)
  BY <1>1, EncodeBytesType
<1>4. to_be_bytes(r.txn_id, U64) \in Bytes /\ Len(to_be_bytes(r.txn_id, U64)) = U64
  BY <1>1, IntegerType, WidthType
<1>5. to_be_bytes(r.start_ts, U128) \in Bytes /\ Len(to_be_bytes(r.start_ts, U128)) = U128
  BY <1>1, IntegerType, WidthType
<1>6. EncodedTs(r.min_commit_ts) \in Bytes
  BY <1>1, TsType
<1>7. EncodedString(r.mutation, MUTATION_PUT, MUTATION_DELETE) \in Bytes
  BY <1>1, StringType, TagTypes
<1> QED
  BY <1>1, <1>2, <1>3, <1>4, <1>5, <1>6, <1>7, Zenon

LEMMA IntentType ==
    ASSUME NEW r, IsIntent(r)
    PROVE  /\ encode_intent(r) \in Bytes /\ 2 <= Len(encode_intent(r))
           /\ encode_intent(r)[2] = RECORD_INTENT
<1>1. PICK h \in Bytes, k \in Bytes, x \in Bytes, t \in Bytes, m \in Bytes, v \in Bytes :
          /\ h = Header(RECORD_INTENT) /\ k = encode_bytes(r.key)
          /\ x = to_be_bytes(r.txn_id, U64) /\ t = to_be_bytes(r.start_ts, U128)
          /\ m = EncodedTs(r.min_commit_ts)
          /\ v = EncodedString(r.mutation, MUTATION_PUT, MUTATION_DELETE)
          /\ Len(h) = 2 /\ h[2] = RECORD_INTENT
  BY IntentPieces
<1>2. PICK hk \in Bytes : hk = h \o k /\ 2 <= Len(hk) /\ hk[2] = RECORD_INTENT
  <2>1. 2 <= Len(h) /\ h[2] = RECORD_INTENT
    BY <1>1
  <2> QED
    BY <2>1, Joined, Zenon
<1>3. PICK hkx \in Bytes : hkx = hk \o x /\ 2 <= Len(hkx) /\ hkx[2] = RECORD_INTENT
  BY <1>2, Joined, Zenon
<1>4. PICK hkxt \in Bytes : hkxt = hkx \o t /\ 2 <= Len(hkxt) /\ hkxt[2] = RECORD_INTENT
  BY <1>3, Joined, Zenon
<1>5. PICK front \in Bytes : front = hkxt \o m /\ 2 <= Len(front) /\ front[2] = RECORD_INTENT
  BY <1>4, Joined, Zenon
<1>6. PICK all \in Bytes : all = front \o v /\ 2 <= Len(all) /\ all[2] = RECORD_INTENT
  BY <1>5, Joined, Zenon
<1>7. encode_intent(r) = all
  BY <1>1, <1>2, <1>3, <1>4, <1>5, <1>6, IntentParts, Zenon
<1> QED
  BY <1>6, <1>7

(* Wherever an encoding stands at the front, decode_intent meets the fields of *)
(* its record, and ends behind it.                                             *)
LEMMA IntentRead ==
    ASSUME NEW r, IsIntent(r), NEW buf \in Bytes, Held(buf, 0, encode_intent(r))
    PROVE  /\ IKey(buf).value = r.key /\ ITxn(buf).value = r.txn_id
           /\ IStart(buf).value = r.start_ts /\ IMin(buf).value = r.min_commit_ts
           /\ IMutation(buf).value = r.mutation /\ IMutation(buf).ok
           /\ IMutation(buf).offset = Len(encode_intent(r))
<1>1. /\ r.key \in Bytes /\ Encodable(r.key) /\ r.txn_id \in Unsigned(U64)
      /\ r.start_ts \in Unsigned(U128) /\ OptionalTs(r.min_commit_ts)
      /\ OptionalString(r.mutation)
  BY IntentPieces
<1>2. PICK h \in Bytes, k \in Bytes, x \in Bytes, t \in Bytes, m \in Bytes, v \in Bytes :
          /\ h = Header(RECORD_INTENT) /\ k = encode_bytes(r.key)
          /\ x = to_be_bytes(r.txn_id, U64) /\ t = to_be_bytes(r.start_ts, U128)
          /\ m = EncodedTs(r.min_commit_ts)
          /\ v = EncodedString(r.mutation, MUTATION_PUT, MUTATION_DELETE)
          /\ Len(h) = 2 /\ Len(k) = U32 + Len(r.key) /\ Len(x) = U64 /\ Len(t) = U128
  BY IntentPieces
<1>3. /\ Len(k) \in Nat /\ Len(m) \in Nat /\ Len(v) \in Nat
  BY DEF Bytes
<1>4. U64 \in Nat /\ U128 \in Nat
  BY WidthType
<1>5. PICK hk \in Bytes :
          hk = h \o k /\ Len(hk) = Len(h) + Len(k)
          /\ (Held(buf, 0, hk) => Held(buf, 0, h) /\ Held(buf, 0 + Len(h), k))
  BY Joined
<1>6. PICK hkx \in Bytes :
          hkx = hk \o x /\ Len(hkx) = Len(hk) + Len(x)
          /\ (Held(buf, 0, hkx) => Held(buf, 0, hk) /\ Held(buf, 0 + Len(hk), x))
  BY Joined
<1>7. PICK hkxt \in Bytes :
          hkxt = hkx \o t /\ Len(hkxt) = Len(hkx) + Len(t)
          /\ (Held(buf, 0, hkxt) => Held(buf, 0, hkx) /\ Held(buf, 0 + Len(hkx), t))
  BY Joined
<1>8. PICK front \in Bytes :
          front = hkxt \o m /\ Len(front) = Len(hkxt) + Len(m)
          /\ (Held(buf, 0, front) => Held(buf, 0, hkxt) /\ Held(buf, 0 + Len(hkxt), m))
  BY Joined
<1>9. PICK all \in Bytes :
          all = front \o v /\ Len(all) = Len(front) + Len(v)
          /\ (Held(buf, 0, all) => Held(buf, 0, front) /\ Held(buf, 0 + Len(front), v))
  BY Joined
<1>10. encode_intent(r) = all
  BY <1>2, <1>5, <1>6, <1>7, <1>8, <1>9, IntentParts, Zenon
<1>11. PICK b \in Nat, c \in Nat, d \in Nat, e \in Nat :
           b = 2 + Len(k) /\ c = b + U64 /\ d = c + U128 /\ e = d + Len(m)
  <2>1. PICK b \in Nat : b = 2 + Len(k)
    BY <1>3
  <2>2. PICK c \in Nat : c = b + U64
    BY <1>4
  <2>3. PICK d \in Nat : d = c + U128
    BY <1>4
  <2>4. PICK e \in Nat : e = d + Len(m)
    BY <1>3
  <2> QED
    BY <2>1, <2>2, <2>3, <2>4
<1>12. /\ Held(buf, 0, h) /\ Held(buf, 2, k) /\ Held(buf, b, x) /\ Held(buf, c, t)
       /\ Held(buf, d, m) /\ Held(buf, e, v)
  <2>1. /\ Held(buf, 0, h) /\ Held(buf, 0 + Len(h), k) /\ Held(buf, 0 + Len(hk), x)
        /\ Held(buf, 0 + Len(hkx), t) /\ Held(buf, 0 + Len(hkxt), m)
        /\ Held(buf, 0 + Len(front), v)
    BY <1>5, <1>6, <1>7, <1>8, <1>9, <1>10
  <2>2. Len(hk) = b /\ Len(hkx) = c /\ Len(hkxt) = d /\ Len(front) = e
    BY <1>2, <1>5, <1>6, <1>7, <1>8, <1>11
  <2>3. 0 + 2 = 2 /\ 0 + b = b /\ 0 + c = c /\ 0 + d = d /\ 0 + e = e
    OBVIOUS
  <2> QED
    BY <1>2, <2>1, <2>2, <2>3
<1>13. DecodeHeader(buf, RECORD_INTENT) = Decoded(RECORD_INTENT, 2)
  BY <1>2, <1>12, HeaderRead, TagTypes
<1>14. IKey(buf) = Decoded(r.key, b)
  <2>1. decode_bytes(buf, 2) = Decoded(r.key, 2 + (U32 + Len(r.key)))
    BY <1>1, <1>2, <1>12, BytesRead
  <2>2. decode_bytes(buf, 2) = Decoded(r.key, b)
    BY <1>2, <1>11, <2>1
  <2> QED
    BY <1>13, <2>2 DEF IKey, Decoded
<1>15. ITxn(buf) = Decoded(r.txn_id, c)
  <2>1. DecodeInteger(buf, b, U64) = Decoded(r.txn_id, b + U64)
    <3>1. Held(buf, b, to_be_bytes(r.txn_id, U64)) /\ U64 \in Widths
      BY <1>2, <1>12, WidthType
    <3> QED
      BY <1>1, <3>1, IntegerRead
  <2> QED
    BY <1>11, <1>14, <2>1 DEF ITxn, Decoded, decode_u64
<1>16. IStart(buf) = Decoded(r.start_ts, d)
  <2>1. DecodeInteger(buf, c, U128) = Decoded(r.start_ts, c + U128)
    <3>1. Held(buf, c, to_be_bytes(r.start_ts, U128)) /\ U128 \in Widths
      BY <1>2, <1>12, WidthType
    <3> QED
      BY <1>1, <3>1, IntegerRead
  <2> QED
    BY <1>11, <1>15, <2>1 DEF IStart, Decoded, decode_u128
<1>17. IMin(buf) = Decoded(r.min_commit_ts, e)
  <2>1. Held(buf, d, EncodedTs(r.min_commit_ts))
    BY <1>2, <1>12
  <2>2. TsAt(buf, d) = Decoded(r.min_commit_ts, d + Len(EncodedTs(r.min_commit_ts)))
    BY <1>1, <2>1, TsRead
  <2>3. TsAt(buf, d) = Decoded(r.min_commit_ts, e)
    BY <1>2, <1>11, <2>2
  <2> QED
    BY <1>16, <2>3 DEF IMin, Decoded
<1>18. IMutation(buf) = Decoded(r.mutation, e + Len(v))
  <2>1. Held(buf, e, EncodedString(r.mutation, MUTATION_PUT, MUTATION_DELETE))
    BY <1>2, <1>12
  <2>2. PICK present \in Byte, absent \in Byte :
            present = MUTATION_PUT /\ absent = MUTATION_DELETE /\ present # absent
    BY TagTypes
  <2>3. StringAt(buf, e, present, absent) =
            Decoded(r.mutation, e + Len(EncodedString(r.mutation, present, absent)))
    BY <1>1, <2>1, <2>2, StringRead
  <2>4. StringAt(buf, e, MUTATION_PUT, MUTATION_DELETE) = Decoded(r.mutation, e + Len(v))
    BY <1>2, <2>2, <2>3
  <2> QED
    BY <1>17, <2>4 DEF IMutation, Decoded
<1>19. e + Len(v) = Len(encode_intent(r))
  <2>1. Len(hk) = b /\ Len(hkx) = c /\ Len(hkxt) = d /\ Len(front) = e
    BY <1>2, <1>5, <1>6, <1>7, <1>8, <1>11
  <2> QED
    BY <1>9, <1>10, <2>1
<1> QED
  BY <1>14, <1>15, <1>16, <1>17, <1>18, <1>19 DEF Decoded

(* Whatever decode_intent accepts is the encoding of what it returns. *)
LEMMA IntentAccepted ==
    ASSUME NEW buf \in Bytes, decode_intent(buf).ok
    PROVE  LET r == decode_intent(buf).record
           IN  IsIntent(r) /\ encode_intent(r) = buf /\ 2 <= Len(buf)
               /\ buf[2] = RECORD_INTENT
<1>1. EndsExactly(IMutation(buf), buf)
  BY IntentFields DEF Error
<1>2. IMutation(buf).ok /\ IMutation(buf).offset = Len(buf)
  BY <1>1 DEF EndsExactly
<1>3. /\ IMin(buf).ok
      /\ IMutation(buf) = StringAt(buf, IMin(buf).offset, MUTATION_PUT, MUTATION_DELETE)
  BY <1>2 DEF IMutation, Error
<1>4. IStart(buf).ok /\ IMin(buf) = TsAt(buf, IStart(buf).offset)
  BY <1>3 DEF IMin, Error
<1>5. ITxn(buf).ok /\ IStart(buf) = decode_u128(buf, ITxn(buf).offset)
  BY <1>4 DEF IStart, Error
<1>6. IKey(buf).ok /\ ITxn(buf) = decode_u64(buf, IKey(buf).offset)
  BY <1>5 DEF ITxn, Error
<1>7. /\ DecodeHeader(buf, RECORD_INTENT).ok
      /\ IKey(buf) = decode_bytes(buf, DecodeHeader(buf, RECORD_INTENT).offset)
  BY <1>6 DEF IKey, Error
<1>8. /\ DecodeHeader(buf, RECORD_INTENT).offset = 2 /\ 2 <= Len(buf)
      /\ Header(RECORD_INTENT) = SubSeq(buf, 0 + 1, 2) /\ buf[2] = RECORD_INTENT
  BY <1>7, HeaderAccepted, TagTypes
<1>9. PICK key \in Bytes, b \in Nat :
          /\ key = IKey(buf).value /\ Encodable(key)
          /\ b = IKey(buf).offset /\ 2 <= b /\ b <= Len(buf)
          /\ encode_bytes(key) = SubSeq(buf, 2 + 1, b)
  <2>1. IKey(buf) = decode_bytes(buf, 2) /\ decode_bytes(buf, 2).ok
    BY <1>6, <1>7, <1>8
  <2> QED
    BY <2>1, BytesAccepted
<1>10. PICK txn \in Unsigned(U64), c \in Nat :
          /\ txn = ITxn(buf).value
          /\ c = ITxn(buf).offset /\ b <= c /\ c <= Len(buf)
          /\ to_be_bytes(txn, U64) = SubSeq(buf, b + 1, c)
  <2>1. PICK w : w = DecodeInteger(buf, b, U64)
    OBVIOUS
  <2>2. ITxn(buf) = w /\ DecodeInteger(buf, b, U64).ok
    BY <1>5, <1>6, <1>9, <2>1 DEF decode_u64
  <2>3. /\ w.value \in Unsigned(U64) /\ w.offset \in Nat
        /\ b <= w.offset /\ w.offset <= Len(buf)
        /\ to_be_bytes(w.value, U64) = SubSeq(buf, b + 1, w.offset)
    <3>1. U64 \in Widths /\ DecodeInteger(buf, b, U64).ok
      BY <2>2, WidthType
    <3> QED
      BY <2>1, <3>1, IntegerAccepted
  <2> QED
    BY <2>2, <2>3
<1>11. PICK start \in Unsigned(U128), d \in Nat :
          /\ start = IStart(buf).value
          /\ d = IStart(buf).offset /\ c <= d /\ d <= Len(buf)
          /\ to_be_bytes(start, U128) = SubSeq(buf, c + 1, d)
  <2>1. PICK w : w = DecodeInteger(buf, c, U128)
    OBVIOUS
  <2>2. IStart(buf) = w /\ DecodeInteger(buf, c, U128).ok
    BY <1>4, <1>5, <1>10, <2>1 DEF decode_u128
  <2>3. /\ w.value \in Unsigned(U128) /\ w.offset \in Nat
        /\ c <= w.offset /\ w.offset <= Len(buf)
        /\ to_be_bytes(w.value, U128) = SubSeq(buf, c + 1, w.offset)
    <3>1. U128 \in Widths /\ DecodeInteger(buf, c, U128).ok
      BY <2>2, WidthType
    <3> QED
      BY <2>1, <3>1, IntegerAccepted
  <2> QED
    BY <2>2, <2>3
<1>12. PICK min \in Unsigned(U128) \cup {None}, e \in Nat :
          /\ min = IMin(buf).value /\ OptionalTs(min)
          /\ e = IMin(buf).offset /\ d <= e /\ e <= Len(buf)
          /\ EncodedTs(min) = SubSeq(buf, d + 1, e)
  <2>1. PICK w : w = TsAt(buf, d)
    OBVIOUS
  <2>2. IMin(buf) = w /\ w.ok
    BY <1>3, <1>4, <1>11, <2>1
  <2>3. /\ OptionalTs(w.value) /\ w.value \in Unsigned(U128) \cup {None} /\ w.offset \in Nat
        /\ d <= w.offset /\ w.offset <= Len(buf)
        /\ EncodedTs(w.value) = SubSeq(buf, d + 1, w.offset)
    BY <2>1, <2>2, TsAccepted
  <2> QED
    BY <2>2, <2>3
<1>13. PICK v \in Bytes \cup {None} :
          /\ v = IMutation(buf).value /\ OptionalString(v)
          /\ EncodedString(v, MUTATION_PUT, MUTATION_DELETE) = SubSeq(buf, e + 1, Len(buf))
  <2>1. PICK present \in Byte, absent \in Byte :
            present = MUTATION_PUT /\ absent = MUTATION_DELETE /\ present # absent
    BY TagTypes
  <2>2. PICK w : w = StringAt(buf, e, present, absent)
    OBVIOUS
  <2>3. IMutation(buf) = w /\ w.ok
    BY <1>2, <1>3, <1>12, <2>1, <2>2
  <2>4. /\ OptionalString(w.value) /\ w.value \in Bytes \cup {None}
        /\ EncodedString(w.value, present, absent) = SubSeq(buf, e + 1, w.offset)
    BY <2>1, <2>2, <2>3, StringAccepted
  <2> QED
    BY <1>2, <2>1, <2>3, <2>4
<1>14. PICK r : r = [key |-> key, txn_id |-> txn, start_ts |-> start, min_commit_ts |-> min,
                     mutation |-> v]
  OBVIOUS
<1>15. decode_intent(buf).record = r
  BY <1>1, <1>9, <1>10, <1>11, <1>12, <1>13, <1>14, IntentFields
<1>16. IsIntent(r)
  BY <1>9, <1>12, <1>13, <1>14 DEF IsIntent
<1>17. encode_intent(r) = buf
  <2>1. /\ r.key = key /\ r.txn_id = txn /\ r.start_ts = start /\ r.min_commit_ts = min
        /\ r.mutation = v
    BY <1>14
  <2>2. Len(buf) \in Nat /\ buf \in Seq(Byte)
    BY DEF Bytes
  <2>3. PICK n \in Nat, z \in Nat, two \in Nat : n = Len(buf) /\ z = 0 /\ two = 2
    BY <2>2
  <2>4. /\ z <= two /\ two <= b /\ b <= c /\ c <= d /\ d <= e /\ e <= n /\ n <= Len(buf)
        /\ z <= b /\ z <= c /\ z <= d /\ z <= e
        /\ b <= Len(buf) /\ c <= Len(buf) /\ d <= Len(buf) /\ e <= Len(buf)
    <3>1. 2 <= b /\ b <= c /\ c <= d /\ d <= e
      BY <1>9, <1>10, <1>11, <1>12
    <3>2. e <= n /\ n = Len(buf) /\ z = 0 /\ two = 2
      BY <1>12, <2>3
    <3>3. b <= n /\ c <= n /\ d <= n /\ z <= b /\ z <= c /\ z <= d /\ z <= e
      BY <3>1, <3>2
    <3> QED
      BY <3>1, <3>2, <3>3
  <2>5. SubSeq(buf, z + 1, two) \o SubSeq(buf, two + 1, b) = SubSeq(buf, z + 1, b)
    BY <2>2, <2>4, SubSeqConcat
  <2>6. SubSeq(buf, z + 1, b) \o SubSeq(buf, b + 1, c) = SubSeq(buf, z + 1, c)
    BY <2>2, <2>4, SubSeqConcat
  <2>7. SubSeq(buf, z + 1, c) \o SubSeq(buf, c + 1, d) = SubSeq(buf, z + 1, d)
    BY <2>2, <2>4, SubSeqConcat
  <2>8. SubSeq(buf, z + 1, d) \o SubSeq(buf, d + 1, e) = SubSeq(buf, z + 1, e)
    BY <2>2, <2>4, SubSeqConcat
  <2>9. SubSeq(buf, z + 1, e) \o SubSeq(buf, e + 1, n) = SubSeq(buf, z + 1, n)
    BY <2>2, <2>4, SubSeqConcat
  <2>10. SubSeq(buf, z + 1, n) = buf
    BY <2>2, <2>3, SubSeqAll
  <2>11. encode_intent(r) =
            SubSeq(buf, z + 1, two) \o SubSeq(buf, two + 1, b) \o SubSeq(buf, b + 1, c)
            \o SubSeq(buf, c + 1, d) \o SubSeq(buf, d + 1, e) \o SubSeq(buf, e + 1, n)
    BY <1>8, <1>9, <1>10, <1>11, <1>12, <1>13, <2>1, <2>3, IntentParts
  <2> QED
    BY <2>5, <2>6, <2>7, <2>8, <2>9, <2>10, <2>11
<1> QED
  BY <1>8, <1>15, <1>16, <1>17

-----------------------------------------------------------------------------
(* The cell. *)

\* s is the encoding of a record.
IsEncoding(s) ==
    \/ \E r : IsCommitted(r) /\ s = encode_committed(r)
    \/ \E r : IsIntent(r) /\ s = encode_intent(r)

\* What the cell holds: the encoding of its content, a part of an encoding, an
\* encoding and one more byte, or any bytes.
CodecInv ==
    /\ cell \in Bytes
    /\ kind \in {"arbitrary", "committed", "intent", "torn", "overrun"}
    /\ kind = "committed" => IsCommitted(content) /\ cell = encode_committed(content)
    /\ kind = "intent" => IsIntent(content) /\ cell = encode_intent(content)
    /\ kind = "torn" => \E s \in Bytes :
          IsEncoding(s) /\ Len(cell) < Len(s) /\ Held(s, 0, cell)
    /\ kind = "overrun" => \E s \in Bytes :
          IsEncoding(s) /\ Len(s) < Len(cell) /\ Held(cell, 0, s)

LEMMA Prefix ==
    ASSUME NEW s \in Bytes, NEW n \in 0 .. Len(s) - 1
    PROVE  /\ SubSeq(s, 1, n) \in Bytes /\ Len(SubSeq(s, 1, n)) < Len(s)
           /\ Held(s, 0, SubSeq(s, 1, n))
<1>1. PICK a \in Nat : a = 0
  OBVIOUS
<1>2. s \in Seq(Byte) /\ Len(s) \in Nat
  BY DEF Bytes
<1>3. n \in Nat /\ a <= n /\ n <= Len(s) /\ n < Len(s) /\ n - a = n
  BY <1>1, <1>2
<1>4. /\ SubSeq(s, a + 1, n) \in Seq(Byte) /\ Len(SubSeq(s, a + 1, n)) = n - a
      /\ \A i \in 1 .. n - a : SubSeq(s, a + 1, n)[i] = s[a + i]
  BY <1>2, <1>3, SubSeqProp
<1>5. PICK p : p = SubSeq(s, 1, n)
  OBVIOUS
<1>6. p \in Seq(Byte) /\ Len(p) = n /\ \A i \in 1 .. n : p[i] = s[0 + i]
  BY <1>1, <1>3, <1>4, <1>5
<1>7. Held(s, 0, p)
  BY <1>2, <1>3, <1>6 DEF Held
<1> QED
  BY <1>3, <1>5, <1>6, <1>7 DEF Bytes

LEMMA Extension ==
    ASSUME NEW s \in Bytes, NEW b \in Byte
    PROVE  /\ Append(s, b) \in Bytes /\ Len(s) < Len(Append(s, b))
           /\ Held(Append(s, b), 0, s)
<1>1. s \in Seq(Byte) /\ Len(s) \in Nat
  BY DEF Bytes
<1>2. PICK p : p = Append(s, b)
  OBVIOUS
<1>3. p \in Seq(Byte) /\ Len(p) = Len(s) + 1 /\ \A i \in 1 .. Len(s) : p[i] = s[i]
  BY <1>1, <1>2
<1>4. \A i \in 1 .. Len(s) : p[0 + i] = s[i]
  BY <1>1, <1>3
<1>5. Held(p, 0, s)
  BY <1>1, <1>3, <1>4 DEF Held
<1> QED
  BY <1>1, <1>2, <1>3, <1>5 DEF Bytes

(* The inductive invariant: every action leaves the cell as CodecInv says.   *)
LEMMA CodecInvariant == Spec => []CodecInv
<1>1. Init => CodecInv
  BY DEF Init, CodecInv, Bytes
<1>2. CodecInv /\ [Next]_vars => CodecInv'
  <2> SUFFICES ASSUME CodecInv, [Next]_vars
               PROVE  CodecInv'
    OBVIOUS
  <2> cell \in Bytes
    BY DEF CodecInv
  <2>1. CASE StoreCommitted
    <3>1. PICK r \in CommittedRecords :
              /\ Encodable(r.key) /\ (r.value # None => Encodable(r.value))
              /\ cell' = encode_committed(r) /\ kind' = "committed" /\ content' = r
      BY <2>1 DEF StoreCommitted
    <3>2. IsCommitted(r)
      <4>1. r \in [key : Bytes, commit_ts : Unsigned(U128), value : Bytes \cup {None}]
        BY CodecAssumption
      <4>2. r.value \in Bytes \cup {None}
        BY <4>1
      <4> QED
        BY <3>1, <4>1, <4>2 DEF IsCommitted, OptionalString
    <3>3. cell' \in Bytes
      BY <3>1, <3>2, CommittedType
    <3> QED
      BY <3>1, <3>2, <3>3 DEF CodecInv
  <2>2. CASE StoreIntent
    <3>1. PICK r \in IntentRecords :
              /\ Encodable(r.key) /\ (r.mutation # None => Encodable(r.mutation))
              /\ cell' = encode_intent(r) /\ kind' = "intent" /\ content' = r
      BY <2>2 DEF StoreIntent
    <3>2. IsIntent(r)
      <4>1. r \in [key : Bytes, txn_id : Unsigned(U64), start_ts : Unsigned(U128),
                   min_commit_ts : Unsigned(U128) \cup {None}, mutation : Bytes \cup {None}]
        BY CodecAssumption
      <4>2. r.min_commit_ts \in Unsigned(U128) \cup {None} /\ r.mutation \in Bytes \cup {None}
        BY <4>1
      <4> QED
        BY <3>1, <4>1, <4>2 DEF IsIntent, OptionalTs, OptionalString
    <3>3. cell' \in Bytes
      BY <3>1, <3>2, IntentType
    <3> QED
      BY <3>1, <3>2, <3>3 DEF CodecInv
  <2>3. CASE Tear
    <3>1. PICK n \in 0 .. Len(cell) - 1 : Stored /\ cell' = SubSeq(cell, 1, n) /\ kind' = "torn"
      BY <2>3 DEF Tear
    <3>2. IsEncoding(cell)
      BY <3>1 DEF CodecInv, Stored, IsEncoding
    <3>3. cell' \in Bytes /\ Len(cell') < Len(cell) /\ Held(cell, 0, cell')
      BY <3>1, Prefix
    <3> QED
      BY <3>1, <3>2, <3>3 DEF CodecInv
  <2>4. CASE Overrun
    <3>1. PICK b \in Byte : Stored /\ cell' = Append(cell, b) /\ kind' = "overrun"
      BY <2>4 DEF Overrun
    <3>2. IsEncoding(cell)
      BY <3>1 DEF CodecInv, Stored, IsEncoding
    <3>3. cell' \in Bytes /\ Len(cell) < Len(cell') /\ Held(cell', 0, cell)
      BY <3>1, Extension
    <3> QED
      BY <3>1, <3>2, <3>3 DEF CodecInv
  <2>5. CASE Grow
    <3>1. PICK b \in Byte : cell' = Append(cell, b) /\ kind' = "arbitrary"
      BY <2>5 DEF Grow
    <3>2. cell' \in Bytes
      BY <3>1, Extension
    <3> QED
      BY <3>1, <3>2 DEF CodecInv
  <2>6. CASE UNCHANGED vars
    BY <2>6 DEF CodecInv, vars
  <2> QED
    BY <2>1, <2>2, <2>3, <2>4, <2>5, <2>6 DEF Next
<1> QED
  BY <1>1, <1>2, PTL DEF Spec

(* A decoder rejects the other kind of record, whole, torn or overrun. *)
LEMMA EncodingOnly ==
    ASSUME NEW s \in Bytes, IsEncoding(s), NEW buf \in Bytes, Held(s, 0, buf) \/ Held(buf, 0, s),
           Len(s) # Len(buf)
    PROVE  ~decode_committed(buf).ok /\ ~decode_intent(buf).ok
<1>1. Len(s) \in Nat /\ Len(buf) \in Nat
  BY DEF Bytes
<1>2. 2 <= Len(s)
  BY CommittedType, IntentType DEF IsEncoding
<1>3. 2 <= Len(buf) => buf[2] = s[2]
  <2>1. SUFFICES ASSUME 2 <= Len(buf) PROVE buf[2] = s[2]
    OBVIOUS
  <2>2. 2 \in 1 .. Len(s) /\ 2 \in 1 .. Len(buf) /\ 0 + 2 = 2
    BY <1>1, <1>2, <2>1
  <2> QED
    BY <2>2 DEF Held
<1>4. ASSUME NEW r, IsCommitted(r), s = encode_committed(r)
      PROVE  ~decode_committed(buf).ok /\ ~decode_intent(buf).ok
  <2>1. ~decode_intent(buf).ok
    <3>1. s[2] = RECORD_COMMITTED
      BY <1>4, CommittedType
    <3> QED
      BY <1>3, <3>1, IntentAccepted, TagTypes
  <2>2. ASSUME decode_committed(buf).ok PROVE FALSE
    <3>1. CValue(buf).ok /\ CValue(buf).offset = Len(buf)
      BY <2>2, CommittedFields DEF Error, EndsExactly
    <3>2. CASE Held(buf, 0, s)
      BY <1>4, <3>1, <3>2, CommittedRead
    <3>3. CASE Held(s, 0, buf)
      <4>1. PICK q : IsCommitted(q) /\ encode_committed(q) = buf
        BY <2>2, CommittedAccepted
      <4>2. CValue(s).offset = Len(buf)
        BY <3>3, <4>1, CommittedRead
      <4>3. Held(s, 0, s)
        BY HeldSelf DEF Bytes
      <4>4. CValue(s).offset = Len(s)
        BY <1>4, <4>3, CommittedRead
      <4> QED
        BY <4>2, <4>4
    <3> QED
      BY <3>2, <3>3
  <2> QED
    BY <2>1, <2>2
<1>5. ASSUME NEW r, IsIntent(r), s = encode_intent(r)
      PROVE  ~decode_committed(buf).ok /\ ~decode_intent(buf).ok
  <2>1. ~decode_committed(buf).ok
    <3>1. s[2] = RECORD_INTENT
      BY <1>5, IntentType
    <3> QED
      BY <1>3, <3>1, CommittedAccepted, TagTypes
  <2>2. ASSUME decode_intent(buf).ok PROVE FALSE
    <3>1. IMutation(buf).ok /\ IMutation(buf).offset = Len(buf)
      BY <2>2, IntentFields DEF Error, EndsExactly
    <3>2. CASE Held(buf, 0, s)
      BY <1>5, <3>1, <3>2, IntentRead
    <3>3. CASE Held(s, 0, buf)
      <4>1. PICK q : IsIntent(q) /\ encode_intent(q) = buf
        BY <2>2, IntentAccepted
      <4>2. IMutation(s).offset = Len(buf)
        BY <3>3, <4>1, IntentRead
      <4>3. Held(s, 0, s)
        BY HeldSelf DEF Bytes
      <4>4. IMutation(s).offset = Len(s)
        BY <1>5, <4>3, IntentRead
      <4> QED
        BY <4>2, <4>4
    <3> QED
      BY <3>2, <3>3
  <2> QED
    BY <2>1, <2>2
<1> QED
  BY <1>4, <1>5 DEF IsEncoding

-----------------------------------------------------------------------------
(* What was stored whole is read back: decode_committed(encode_committed(r)) *)
(* is r and decode_intent(encode_intent(r)) is r, for every record whose     *)
(* strings can be encoded, and the decoder of the other kind rejects it.     *)
THEOREM ReadsBack == Spec => []RoundTrip
<1>1. CodecInv => RoundTrip
  <2> SUFFICES ASSUME CodecInv
               PROVE  RoundTrip
    OBVIOUS
  <2>1. cell \in Bytes /\ Held(cell, 0, cell)
    BY HeldSelf DEF CodecInv, Bytes
  <2>2. ASSUME kind = "committed"
        PROVE  /\ decode_committed(cell) = [ok |-> TRUE, record |-> content]
               /\ ~decode_intent(cell).ok
    <3>1. IsCommitted(content) /\ cell = encode_committed(content)
      BY <2>2 DEF CodecInv
    <3>2. /\ CKey(cell).value = content.key /\ CTs(cell).value = content.commit_ts
          /\ CValue(cell).value = content.value /\ CValue(cell).ok
          /\ CValue(cell).offset = Len(cell)
      BY <2>1, <3>1, CommittedRead
    <3>3. content = [key |-> content.key, commit_ts |-> content.commit_ts,
                     value |-> content.value]
      BY <3>1 DEF IsCommitted
    <3>4. decode_committed(cell) = [ok |-> TRUE, record |-> content]
      BY <3>2, <3>3, CommittedFields DEF EndsExactly
    <3>5. cell[2] = RECORD_COMMITTED
      BY <3>1, CommittedType
    <3> QED
      BY <2>1, <3>4, <3>5, IntentAccepted, TagTypes
  <2>3. ASSUME kind = "intent"
        PROVE  /\ decode_intent(cell) = [ok |-> TRUE, record |-> content]
               /\ ~decode_committed(cell).ok
    <3>1. IsIntent(content) /\ cell = encode_intent(content)
      BY <2>3 DEF CodecInv
    <3>2. /\ IKey(cell).value = content.key /\ ITxn(cell).value = content.txn_id
          /\ IStart(cell).value = content.start_ts /\ IMin(cell).value = content.min_commit_ts
          /\ IMutation(cell).value = content.mutation /\ IMutation(cell).ok
          /\ IMutation(cell).offset = Len(cell)
      BY <2>1, <3>1, IntentRead
    <3>3. content = [key |-> content.key, txn_id |-> content.txn_id,
                     start_ts |-> content.start_ts, min_commit_ts |-> content.min_commit_ts,
                     mutation |-> content.mutation]
      BY <3>1 DEF IsIntent
    <3>4. decode_intent(cell) = [ok |-> TRUE, record |-> content]
      BY <3>2, <3>3, IntentFields DEF EndsExactly
    <3>5. cell[2] = RECORD_INTENT
      BY <3>1, IntentType
    <3> QED
      BY <2>1, <3>4, <3>5, CommittedAccepted, TagTypes
  <2> QED
    BY <2>2, <2>3 DEF RoundTrip
<1> QED
  BY <1>1, CodecInvariant, PTL

(* No proper prefix and no proper extension of an encoding is accepted by    *)
(* decode_committed or decode_intent: a torn or overrun write is an error.   *)
THEOREM DamageIsAnError == Spec => []DamageDetected
<1>1. CodecInv => DamageDetected
  <2> SUFFICES ASSUME CodecInv, kind \in {"torn", "overrun"}
               PROVE  ~decode_committed(cell).ok /\ ~decode_intent(cell).ok
    BY DEF DamageDetected
  <2>1. PICK s \in Bytes : /\ IsEncoding(s) /\ (Held(s, 0, cell) \/ Held(cell, 0, s))
                           /\ (Len(s) < Len(cell) \/ Len(cell) < Len(s))
    BY DEF CodecInv
  <2>2. cell \in Bytes /\ Len(s) \in Nat /\ Len(cell) \in Nat
    BY DEF CodecInv, Bytes
  <2>3. Len(s) # Len(cell)
    BY <2>1, <2>2
  <2> QED
    BY <2>1, <2>2, <2>3, EncodingOnly
<1> QED
  BY <1>1, CodecInvariant, PTL

(* Whatever bytes a cell holds, decode_committed and decode_intent accept    *)
(* them only if they are the encoding of the record they return.             *)
THEOREM DecodesCanonically == Spec => []Canonical
<1>1. CodecInv => Canonical
  BY CommittedAccepted, IntentAccepted DEF CodecInv, Canonical
<1> QED
  BY <1>1, CodecInvariant, PTL

-----------------------------------------------------------------------------
(* Order. *)

(* An integer is a sequence even when it does not fit its width. *)
LEMMA VectorOf ==
    ASSUME NEW n, NEW width \in Nat
    PROVE  \E T : Byte \subseteq T /\ to_be_bytes(n, width) \in Seq(T)
<1>1. PICK f : f = to_be_bytes(n, width)
  OBVIOUS
<1>2. DOMAIN f = 1 .. width /\ f = [i \in 1 .. width |-> f[i]]
  BY <1>1 DEF to_be_bytes
<1>3. PICK T : T = Byte \cup {f[i] : i \in 1 .. width}
  OBVIOUS
<1>4. f \in [1 .. width -> T]
  BY <1>2, <1>3
<1>5. \A g \in [1 .. width -> T] : g \in Seq(T)
  OBVIOUS
<1> QED
  BY <1>1, <1>3, <1>4, <1>5

LEMMA Wider ==
    ASSUME NEW S, NEW T, S \subseteq T, NEW s \in Seq(S)
    PROVE  s \in Seq(T)
OBVIOUS

(* So is an optional string that is too long for its length prefix. *)
LEMMA AnyString ==
    ASSUME NEW v \in Bytes \cup {None}, NEW present \in Byte, NEW absent \in Byte
    PROVE  \E T : Byte \subseteq T /\ EncodedString(v, present, absent) \in Seq(T)
<1>1. CASE v = None
  BY <1>1, Singleton DEF EncodedString, Bytes
<1>2. CASE v # None
  <2>1. v \in Seq(Byte) /\ <<present>> \in Seq(Byte)
    BY <1>2, Singleton DEF Bytes
  <2>2. PICK T : Byte \subseteq T /\ encode_u32(Len(v)) \in Seq(T)
    BY VectorOf, WidthType DEF encode_u32
  <2>3. v \in Seq(T) /\ <<present>> \in Seq(T)
    BY <2>1, <2>2, Wider
  <2>4. PICK u \in Seq(T) : u = encode_bytes(v)
    BY <2>2, <2>3, ConcatProp DEF encode_bytes
  <2>5. <<present>> \o u \in Seq(T)
    BY <2>3, ConcatProp
  <2> QED
    BY <1>2, <2>2, <2>4, <2>5 DEF EncodedString
<1> QED
  BY <1>1, <1>2

(* What stands before a difference, if it is the same, and what follows it   *)
(* do not matter.                                                            *)
LEMMA PrecedesBehind ==
    ASSUME NEW S, NEW p \in Seq(S), NEW x \in Seq(S), NEW y \in Seq(S),
           NEW v \in Seq(S), NEW w \in Seq(S), Precedes(x, y)
    PROVE  Precedes(p \o x \o v, p \o y \o w)
<1>1. PICK i \in DOMAIN x \cap DOMAIN y : x[i] < y[i] /\ \A j \in 1 .. i - 1 : x[j] = y[j]
  BY DEF Precedes
<1>2. /\ Len(p) \in Nat /\ Len(x) \in Nat /\ Len(y) \in Nat /\ Len(v) \in Nat /\ Len(w) \in Nat
      /\ i \in 1 .. Len(x) /\ i \in 1 .. Len(y)
  BY <1>1
<1>3. PICK px : px = p \o x /\ px \in Seq(S) /\ Len(px) = Len(p) + Len(x)
                /\ (\A j \in 1 .. Len(p) : px[j] = p[j])
                /\ (\A j \in 1 .. Len(x) : px[Len(p) + j] = x[j])
  <2>1. /\ p \o x \in Seq(S) /\ Len(p \o x) = Len(p) + Len(x)
        /\ \A j \in 1 .. Len(p) : (p \o x)[j] = p[j]
        /\ \A j \in 1 .. Len(x) : (p \o x)[Len(p) + j] = x[j]
    BY ConcatProp
  <2> QED
    BY <2>1
<1>4. PICK py : py = p \o y /\ py \in Seq(S) /\ Len(py) = Len(p) + Len(y)
                /\ (\A j \in 1 .. Len(p) : py[j] = p[j])
                /\ (\A j \in 1 .. Len(y) : py[Len(p) + j] = y[j])
  <2>1. /\ p \o y \in Seq(S) /\ Len(p \o y) = Len(p) + Len(y)
        /\ \A j \in 1 .. Len(p) : (p \o y)[j] = p[j]
        /\ \A j \in 1 .. Len(y) : (p \o y)[Len(p) + j] = y[j]
    BY ConcatProp
  <2> QED
    BY <2>1
<1>5. PICK s : /\ s = px \o v /\ s \in Seq(S) /\ Len(s) = Len(px) + Len(v)
               /\ \A j \in 1 .. Len(px) : s[j] = px[j]
  <2>1. /\ px \o v \in Seq(S) /\ Len(px \o v) = Len(px) + Len(v)
        /\ \A j \in 1 .. Len(px) : (px \o v)[j] = px[j]
    <3>1. px \in Seq(S)
      BY <1>3
    <3> QED
      BY <3>1, ConcatProp
  <2> QED
    BY <2>1
<1>6. PICK t : /\ t = py \o w /\ t \in Seq(S) /\ Len(t) = Len(py) + Len(w)
               /\ \A j \in 1 .. Len(py) : t[j] = py[j]
  <2>1. /\ py \o w \in Seq(S) /\ Len(py \o w) = Len(py) + Len(w)
        /\ \A j \in 1 .. Len(py) : (py \o w)[j] = py[j]
    <3>1. py \in Seq(S)
      BY <1>4
    <3> QED
      BY <3>1, ConcatProp
  <2> QED
    BY <2>1
<1>7. PICK n \in Nat : n = Len(p) + i
  BY <1>2
<1>8. /\ n \in 1 .. Len(px) /\ n \in 1 .. Len(py)
      /\ n \in 1 .. Len(s) /\ n \in 1 .. Len(t)
  BY <1>2, <1>3, <1>4, <1>5, <1>6, <1>7
<1>9. s[n] = x[i] /\ t[n] = y[i]
  BY <1>2, <1>3, <1>4, <1>5, <1>6, <1>7, <1>8
<1>10. ASSUME NEW j \in 1 .. n - 1 PROVE s[j] = t[j]
  <2>1. j \in 1 .. Len(px) /\ j \in 1 .. Len(py)
    BY <1>8
  <2>2. s[j] = px[j] /\ t[j] = py[j]
    BY <1>5, <1>6, <2>1
  <2>3. CASE j \in 1 .. Len(p)
    BY <1>3, <1>4, <2>2, <2>3
  <2>4. CASE j \notin 1 .. Len(p)
    <3>1. PICK q \in Nat, c \in Nat, a \in Nat, b \in Nat :
              q = Len(p) /\ c = i /\ a = Len(x) /\ b = Len(y)
      BY <1>2
    <3>2. n = q + c /\ 1 <= c /\ c <= a /\ c <= b /\ j \in Int /\ 1 <= j /\ j <= n - 1 /\ q < j
      BY <1>2, <1>7, <2>4, <3>1
    <3>3. PICK m \in Int : m = j - q
      BY <3>2
    <3>4. m \in 1 .. c - 1 /\ m \in 1 .. a /\ m \in 1 .. b /\ j = q + m
      BY <3>2, <3>3
    <3>5. m \in 1 .. i - 1 /\ m \in 1 .. Len(x) /\ m \in 1 .. Len(y) /\ j = Len(p) + m
      BY <3>1, <3>4
    <3>6. px[j] = x[m] /\ py[j] = y[m]
      BY <1>3, <1>4, <3>5
    <3> QED
      BY <1>1, <2>2, <3>5, <3>6
  <2> QED
    BY <2>3, <2>4
<1>11. n \in DOMAIN s \cap DOMAIN t
  BY <1>8
<1>12. Precedes(s, t)
  BY <1>1, <1>9, <1>10, <1>11 DEF Precedes
<1> QED
  BY <1>3, <1>4, <1>5, <1>6, <1>12

(* encode_committed writes commit_ts with its high byte first, right behind  *)
(* the key: the versions of a key are stored in the order of their           *)
(* timestamps, whatever their values.                                        *)
THEOREM EncodesInOrder == Spec => []OrderPreserved
<1>1. CodecInv => OrderPreserved
  <2> SUFFICES ASSUME CodecInv, kind = "committed", NEW r \in CommittedRecords,
                      r.key = content.key, content.commit_ts < r.commit_ts
               PROVE  Precedes(cell, encode_committed(r))
    BY DEF OrderPreserved
  <2>1. IsCommitted(content) /\ cell = encode_committed(content)
    BY DEF CodecInv
  <2>2. /\ content.key \in Bytes /\ Encodable(content.key) /\ OptionalString(content.value)
        /\ content.commit_ts \in Unsigned(U128)
    BY <2>1 DEF IsCommitted
  <2>3. r.commit_ts \in Unsigned(U128) /\ r.value \in Bytes \cup {None}
    <3>1. r \in [key : Bytes, commit_ts : Unsigned(U128), value : Bytes \cup {None}]
      BY CodecAssumption
    <3> QED
      BY <3>1
  <2>4. PICK x \in Bytes, y \in Bytes :
            /\ x = to_be_bytes(content.commit_ts, U128) /\ y = to_be_bytes(r.commit_ts, U128)
            /\ Precedes(x, y)
    <3>1. Precedes(to_be_bytes(content.commit_ts, U128), to_be_bytes(r.commit_ts, U128))
      BY <2>2, <2>3, ConversionAssumption
    <3> QED
      BY <2>2, <2>3, <3>1, IntegerType, WidthType
  <2>5. PICK h \in Bytes, k \in Bytes :
            h = Header(RECORD_COMMITTED) /\ k = encode_bytes(content.key)
    BY <2>2, HeaderType, TagTypes, EncodeBytesType
  <2>6. PICK p \in Bytes : p = h \o k
    BY Joined
  <2>7. PICK v \in Bytes : v = EncodedString(content.value, FLAG_PRESENT, FLAG_ABSENT)
    BY <2>2, StringType, TagTypes
  <2>8. PICK S, w : /\ Byte \subseteq S /\ w \in Seq(S)
                    /\ w = EncodedString(r.value, FLAG_PRESENT, FLAG_ABSENT)
    BY <2>3, AnyString, TagTypes
  <2>9. p \in Seq(S) /\ x \in Seq(S) /\ y \in Seq(S) /\ v \in Seq(S)
    BY <2>8, Wider DEF Bytes
  <2>10. Precedes(p \o x \o v, p \o y \o w)
    BY <2>4, <2>8, <2>9, PrecedesBehind
  <2>11. cell = p \o x \o v
    BY <2>1, <2>4, <2>5, <2>6, <2>7, CommittedParts, Zenon
  <2>12. encode_committed(r) = p \o y \o w
    BY <2>4, <2>5, <2>6, <2>8, CommittedParts, Zenon
  <2> QED
    BY <2>10, <2>11, <2>12
<1> QED
  BY <1>1, CodecInvariant, PTL
=============================================================================
