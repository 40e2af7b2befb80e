-------------------------------- MODULE Wire --------------------------------
(* The protocol buffer wire format as nanopb reads and writes it: varints,   *)
(* tags, fixed-width and length-delimited values (pb_encode.c, pb_decode.c). *)
(* Input is a sequence of bytes; a reader is given the position p of the     *)
(* next byte and the position e at which its stream, or substream, ends, so  *)
(* that e - p is the stream's bytes_left. It answers a record: ok, the value *)
(* and the position it stopped at.                                           *)
(*                                                                           *)
(* The widths are parameters. In the code a byte has GroupBits = 7 bits of a *)
(* varint and one flag, Bytes32 = 4 and Bytes64 = 8; a small instance keeps  *)
(* what the arithmetic depends on: the last byte of a varint of either width *)
(* has more bits than the word has left.                                     *)
EXTENDS Integers, Sequences, SequencesExt
CONSTANTS GroupBits, Bytes32, Bytes64
WidthAssumption == GroupBits \in Nat \ {0} /\ Bytes32 \in Nat \ {0} /\ Bytes64 = 2 * Bytes32
-----------------------------------------------------------------------------
Flag == 2 ^ GroupBits              \* the bit 0x80: another byte follows
Byte == 0 .. 2 * Flag - 1
Bits(bytes) == bytes * (GroupBits + 1)
Bits32 == Bits(Bytes32)
Bits64 == Bits(Bytes64)
Groups(bits) == (bits + GroupBits - 1) \div GroupBits

\* pb_wire_type_t; 3, 4, 6 and 7 are invalid.
WT_VARINT == 0
WT_FIXED64 == 1
WT_STRING == 2
WT_FIXED32 == 5

Failed(p) == [ok |-> FALSE, val |-> 0, pos |-> p]
Read(v, p) == [ok |-> TRUE, val |-> v, pos |-> p]

\* Two's complement, and its inverse.
Signed(v, bits) == IF v >= 2 ^ (bits - 1) THEN v - 2 ^ bits ELSE v
Unsigned(v, bits) == v % 2 ^ bits

ZigZag(v) == IF v < 0 THEN -2 * v - 1 ELSE 2 * v
UnZigZag(v) == IF v % 2 = 1 THEN -((v \div 2) + 1) ELSE v \div 2
-----------------------------------------------------------------------------
EncodeVarint(v) ==
   LET n == CHOOSE k \in 1..Groups(Bits64) : /\ Flag ^ k > v
                                             /\ \A j \in 1..k-1 : Flag ^ j <= v
   IN [k \in 1..n |-> ((v \div Flag ^ (k - 1)) % Flag) + (IF k < n THEN Flag ELSE 0)]

EncodeTag(wire, tag) == EncodeVarint(8 * tag + wire)
EncodeFixed(v, bytes) == [k \in 1..bytes |-> (v \div (2 * Flag) ^ (k - 1)) % (2 * Flag)]

Least(S) == CHOOSE x \in S : \A y \in S : x <= y
\* The number written in base "base" by the digits from p to last, low first.
Number(s, p, last, base) ==
   LET from[i \in p..last+1] == IF i > last THEN 0 ELSE (s[i] % base) + base * from[i + 1]
   IN from[p]

\* The bytes of the varint that starts at p are read up to the first without
\* the flag, and no more than the word has groups for; bits past the word's
\* last are lost.
DecodeVarint(s, p, e, bits) ==
   LET stop == Least({e, p + Groups(bits)})
       ends == {i \in p..stop-1 : s[i] < Flag}
       last == Least(ends)
   IN IF ends = {} THEN Failed(stop)
      ELSE Read(Number(s, p, last, Flag) % 2 ^ bits, last + 1)

DecodeFixed(s, p, e, bytes) ==
   IF e - p < bytes THEN Failed(p)
   ELSE Read(Number(s, p, p + bytes - 1, 2 * Flag), p + bytes)

\* pb_make_string_substream: the value is where the substream ends.
Substream(s, p, e) ==
   LET size == DecodeVarint(s, p, e, Bits32)
   IN IF ~size.ok \/ e - size.pos < size.val THEN Failed(size.pos)
      ELSE Read(size.pos + size.val, size.pos)

SkipVarint(s, p, e) ==
   LET ends == {i \in p..e-1 : s[i] < Flag}
   IN IF ends = {} THEN Failed(e) ELSE Read(0, Least(ends) + 1)

Skip(s, p, e, wire) ==
   CASE wire = WT_VARINT -> SkipVarint(s, p, e)
     [] wire = WT_FIXED64 -> IF e - p < Bytes64 THEN Failed(p) ELSE Read(0, p + Bytes64)
     [] wire = WT_FIXED32 -> IF e - p < Bytes32 THEN Failed(p) ELSE Read(0, p + Bytes32)
     [] wire = WT_STRING -> LET sub == Substream(s, p, e)
                         IN IF sub.ok THEN Read(0, sub.val) ELSE sub
     [] OTHER -> Failed(p)

\* read_raw_value: one scalar for a callback, a varint of at most 10 bytes.
ReadRaw(s, p, e, wire) ==
   IF wire = WT_VARINT
   THEN LET raw == SkipVarint(s, p, Least({e, p + Groups(Bits64)})) IN raw
   ELSE IF wire \in {WT_FIXED32, WT_FIXED64} THEN Skip(s, p, e, wire) ELSE Failed(p)
-----------------------------------------------------------------------------
\* The descriptor of a field, pb_field_t: its tag and type, the data_size in
\* bits for an integer and in bytes otherwise, the array_size, and the type of
\* a submessage. Of a callback, "emits" is the set of what its encode function
\* may write, empty when it has none, and "reads" that it has a decode function.
Field(tag, ltype, htype, atype, size, max, sub) ==
   [tag |-> tag, ltype |-> ltype, htype |-> htype, atype |-> atype,
    size |-> size, max |-> max, sub |-> sub, emits |-> {}, reads |-> FALSE]

Packable(f) == f.ltype \in {"varint", "uvarint", "svarint", "fixed32", "fixed64"}

WireType(f) == CASE f.ltype \in {"varint", "uvarint", "svarint"} -> WT_VARINT
                 [] f.ltype = "fixed32" -> WT_FIXED32
                 [] f.ltype = "fixed64" -> WT_FIXED64
                 [] OTHER -> WT_STRING

\* The pb_enc_ functions but pb_enc_submessage.
EncodeValue(f, v) ==
   CASE f.ltype = "varint" -> EncodeVarint(Unsigned(v, Bits64))
     [] f.ltype = "uvarint" -> EncodeVarint(v)
     [] f.ltype = "svarint" -> EncodeVarint(ZigZag(v))
     [] f.ltype = "fixed32" -> EncodeFixed(v, Bytes32)
     [] f.ltype = "fixed64" -> EncodeFixed(v, Bytes64)
     [] OTHER -> EncodeVarint(Len(v)) \o v

\* A read integer as its field stores it, refused when it does not fit.
Clamped(r, v, stored) == IF r.ok /\ v = stored THEN Read(stored, r.pos) ELSE Failed(r.pos)

\* A C string ends at its first zero.
TillZero(c) == IF ~c.ok THEN 0
   ELSE LET zeros == {i \in DOMAIN c.val : c.val[i] = 0}
        IN IF zeros = {} THEN c.val ELSE SubSeq(c.val, 1, Least(zeros) - 1)

Content(s, p, e, fits) ==
   LET size == DecodeVarint(s, p, e, Bits32)
   IN IF ~size.ok \/ size.val > fits \/ e - size.pos < size.val THEN Failed(size.pos)
      ELSE Read(SubSeq(s, size.pos, size.pos + size.val - 1), size.pos + size.val)

\* A fixed-length value has its length, or is empty and taken for zeros.
FixedLength(f, c) ==
   IF c.ok /\ c.val = <<>> THEN Read([k \in 1..f.size |-> 0], c.pos)
   ELSE IF c.ok /\ Len(c.val) = f.size THEN c ELSE Failed(c.pos)

\* The pb_dec_ functions but pb_dec_submessage. A string needs a byte for its
\* terminating zero, and is what precedes its first zero.
DecodeValue(f, s, p, e) ==
   LET r == DecodeVarint(s, p, e, Bits64)
   IN CASE f.ltype = "varint" ->
             LET v == Signed(Unsigned(r.val, IF f.size = Bits64 THEN Bits64 ELSE Bits32),
                             IF f.size = Bits64 THEN Bits64 ELSE Bits32)
             IN Clamped(r, v, Signed(Unsigned(v, f.size), f.size))
        [] f.ltype = "uvarint" -> Clamped(r, r.val, Unsigned(r.val, f.size))
        [] f.ltype = "svarint" ->
             LET v == UnZigZag(r.val) IN Clamped(r, v, Signed(Unsigned(v, f.size), f.size))
        [] f.ltype = "fixed32" -> DecodeFixed(s, p, e, Bytes32)
        [] f.ltype = "fixed64" -> DecodeFixed(s, p, e, Bytes64)
        [] f.ltype = "bytes" -> Content(s, p, e, f.size)
        [] f.ltype = "string" ->
             LET c == Content(s, p, e, f.size - 1) IN [c EXCEPT !.val = TillZero(c)]
        [] f.ltype = "fixed_length" -> FixedLength(f, Content(s, p, e, f.size))
=============================================================================
