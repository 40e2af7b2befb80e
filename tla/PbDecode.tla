------------------------------ MODULE PbDecode ------------------------------
(* pb_decode of nanopb: a buffer of bytes becomes a message structure of     *)
(* fixed size. One step is one iteration of the loop over the fields of a    *)
(* message, one entry of a packed array or one call of a field's callback;   *)
(* "frames" is the C stack of nested messages and arrays, each with the      *)
(* limited stream (substream) it reads.                                      *)
(*                                                                           *)
(* A message is a function from the slots of its type, its fields and then   *)
(* its extensions, to the sequence of values stored: empty for a field that  *)
(* has its default, one value, or the entries of an array.                   *)
EXTENDS Wire, FiniteSets
CONSTANTS
  Fields,      \* the pb_field_t array of every message type
  Extensions,  \* the extensions registered for it
  Root,        \* the type pb_decode is called with
  Delimited,   \* the client calls pb_decode_delimited, until the buffer ends
  WordBits,    \* 32: the width of an element of fields_seen
  MaxRequired, \* PB_MAX_REQUIRED_FIELDS
  Streams      \* the buffers
VARIABLES
  input,   \* the buffer
  pos,     \* the stream's state: the position of the next byte
  frames,  \* the calls under way, the innermost last
  status,  \* "idle", "decoding", "done" or the error
  dest     \* the messages returned with success
vars == <<input, pos, frames, status, dest>>

AllFields(t) == Fields[t] \o Extensions[t]
Required(t) == {i \in DOMAIN Fields[t] : Fields[t][i].htype = "required"}

SchemaAssumption ==
  /\ DOMAIN Fields = DOMAIN Extensions /\ Root \in DOMAIN Fields
  /\ WordBits \in Nat \ {0} /\ MaxRequired \in Nat /\ Delimited \in BOOLEAN
  /\ \A t \in DOMAIN Fields : Cardinality(Required(t)) <= MaxRequired
-----------------------------------------------------------------------------
Default(t) == [i \in DOMAIN AllFields(t) |-> <<>>]

MessageFrame(t, msg, end, slot) ==
  [kind |-> "message", type |-> t, msg |-> msg, end |-> end, seen |-> {}, slot |-> slot]
ListFrame(kind, end, slot) == [kind |-> kind, end |-> end, slot |-> slot]

Top == frames[Len(frames)]
Below == SubSeq(frames, 1, Len(frames) - 1)

Init ==
  /\ input \in Streams
  /\ pos = 1 /\ frames = <<>> /\ status = "idle" /\ dest = <<>>

Error(why) == status' = why /\ UNCHANGED <<input, pos, frames, dest>>

\* pb_decode and pb_decode_delimited up to the loop.
Decode ==
  LET sub == IF Delimited THEN Substream(input, pos, Len(input) + 1)
             ELSE Read(Len(input) + 1, pos)
  IN /\ status = "idle" /\ (Delimited => pos <= Len(input))
     /\ IF sub.ok
        THEN /\ frames' = <<MessageFrame(Root, Default(Root), sub.val, 0)>>
             /\ pos' = sub.pos /\ status' = "decoding"
             /\ UNCHANGED <<input, dest>>
        ELSE Error("malformed")
-----------------------------------------------------------------------------
InMessage == status = "decoding" /\ Top.kind = "message"
Tag == DecodeVarint(input, pos, Top.end, Bits32)

\* The loop ends with the stream, in a tag the stream ends in, or at a zero.
AtEnd ==
  \/ pos = Top.end
  \/ ~Tag.ok /\ Tag.pos = Top.end
  \/ Tag.ok /\ Tag.val = 0

BadTag == InMessage /\ ~AtEnd /\ ~Tag.ok /\ Error("malformed")

\* pb_field_iter_find, or else the first extension with the tag, when it is in
\* the extension range; 0 for an unknown field.
SlotOf(t, tag) ==
  LET own == {i \in DOMAIN Fields[t] : Fields[t][i].tag = tag /\ Fields[t][i].ltype # "extension"}
      inRange == \E i \in DOMAIN Fields[t] : Fields[t][i].ltype = "extension" /\ tag >= Fields[t][i].tag
      ext == {k \in DOMAIN Extensions[t] : Extensions[t][k].tag = tag}
  IN IF own # {} THEN Least(own)
     ELSE IF inRange /\ ext # {} THEN Len(Fields[t]) + Least(ext) ELSE 0

AtField == InMessage /\ ~AtEnd /\ Tag.ok
WireTypeRead == Tag.val % 8
Slot == SlotOf(Top.type, Tag.val \div 8)
F == AllFields(Top.type)[Slot]
Static == AtField /\ Slot # 0 /\ F.atype = "static"
Unhandled == ~(Slot # 0 /\ (F.atype = "callback" => F.reads))

\* required_field_index, which the iterator counts up to the field.
RequiredIndex(t, slot) == Cardinality({i \in Required(t) : i < slot})

\* fields_seen gets the bit of a required field, before it is decoded.
Seen(fr, slot) ==
  LET index == RequiredIndex(fr.type, slot)
  IN IF slot \in Required(fr.type) /\ index < MaxRequired
     THEN [fr EXCEPT !.seen = @ \cup {index}] ELSE fr

\* A value is stored in its field: added to an array, in the place of the
\* other fields of a union, in the place of the former value otherwise.
Stored(fr, slot, v) ==
  LET f == AllFields(fr.type)[slot]
      OfUnion(i) == f.htype = "oneof" /\ AllFields(fr.type)[i].htype = "oneof"
  IN [fr EXCEPT !.msg = [i \in DOMAIN @ |->
        IF i = slot THEN (IF f.htype = "repeated" THEN Append(@[i], v) ELSE <<v>>)
        ELSE IF OfUnion(i) THEN <<>> ELSE @[i]]]

\* Fault: an array takes one entry more than it has room for.
OneMore(fr, slot) ==
  LET f == AllFields(fr.type)[slot]
  IN f.htype = "repeated" /\ Len(fr.msg[slot]) > f.max

Full(fr, slot) ==
  LET f == AllFields(fr.type)[slot]
  IN f.htype = "repeated" /\ Len(fr.msg[slot]) >= f.max

\* pb_skip_field, for an unknown field and for a callback that is not set.
SkipField ==
  LET r == Skip(input, Tag.pos, Top.end, WireTypeRead)
  IN /\ AtField /\ Unhandled
     /\ IF r.ok THEN pos' = r.pos /\ UNCHANGED <<input, frames, status, dest>>
        ELSE Error("malformed")

PointerField == AtField /\ Slot # 0 /\ F.atype = "pointer" /\ Error("no malloc support")

IsPacked == F.htype = "repeated" /\ WireTypeRead = WT_STRING /\ Packable(F)

\* decode_static_field for a single value. The wire type is not looked at.
DecodeStatic ==
  LET r == DecodeValue(F, input, Tag.pos, Top.end)
  IN /\ Static /\ F.ltype # "submessage" /\ ~IsPacked
     /\ IF Full(Top, Slot) THEN Error("array overflow")
        ELSE IF ~r.ok THEN Error("malformed")
        ELSE /\ frames' = Append(Below, Stored(Seen(Top, Slot), Slot, r.val))
             /\ pos' = r.pos
             /\ UNCHANGED <<input, status, dest>>

DecodePacked ==
  LET sub == Substream(input, Tag.pos, Top.end)
  IN /\ Static /\ IsPacked
     /\ IF sub.ok
        THEN /\ frames' = Append(frames, ListFrame("packed", sub.val, Slot))
             /\ pos' = sub.pos
             /\ UNCHANGED <<input, status, dest>>
        ELSE Error("malformed")

\* Fault: a nested message always starts from the defaults.
StartsOver ==
  LET sub == Substream(input, Tag.pos, Top.end)
  IN /\ Static /\ F.ltype = "submessage"
     /\ IF Full(Top, Slot) THEN Error("array overflow")
        ELSE IF ~sub.ok THEN Error("malformed")
        ELSE /\ frames' = Append(Append(Below, Seen(Top, Slot)),
                                 MessageFrame(F.sub, Default(F.sub), sub.val, Slot))
             /\ pos' = sub.pos
             /\ UNCHANGED <<input, status, dest>>

\* pb_dec_submessage: a new entry and the field of a union start from the
\* defaults; a single submessage that was there before is merged into.
DecodeSubmessage ==
  LET sub == Substream(input, Tag.pos, Top.end)
      old == Top.msg[Slot]
      start == IF F.htype \in {"repeated", "oneof"} \/ old = <<>> THEN Default(F.sub) ELSE old[1]
  IN /\ Static /\ F.ltype = "submessage"
     /\ IF Full(Top, Slot) THEN Error("array overflow")
        ELSE IF ~sub.ok THEN Error("malformed")
        ELSE /\ frames' = Append(Append(Below, Seen(Top, Slot)),
                                 MessageFrame(F.sub, start, sub.val, Slot))
             /\ pos' = sub.pos
             /\ UNCHANGED <<input, status, dest>>

\* decode_callback_field: a length-delimited value is a substream that the
\* callback reads in as many calls as it likes, another wire type a copy of
\* the scalar. Required callback fields count as seen.
DecodeCallback ==
  LET sub == IF WireTypeRead = WT_STRING THEN Substream(input, Tag.pos, Top.end)
             ELSE ReadRaw(input, Tag.pos, Top.end, WireTypeRead)
  IN /\ AtField /\ Slot # 0 /\ F.atype = "callback" /\ F.reads
     /\ \/ /\ sub.ok /\ WireTypeRead = WT_STRING
           /\ frames' = Append(Append(Below, Seen(Top, Slot)), ListFrame("callback", sub.val, Slot))
           /\ pos' = sub.pos
           /\ UNCHANGED <<input, status, dest>>
        \/ /\ sub.ok /\ WireTypeRead # WT_STRING
           /\ frames' = Append(Below, Seen(Top, Slot))
           /\ pos' = sub.pos
           /\ UNCHANGED <<input, status, dest>>
        \/ ~sub.ok /\ Error("malformed")
        \/ sub.ok /\ WireTypeRead # WT_STRING /\ Error("callback failed")
-----------------------------------------------------------------------------
InList(kind) == status = "decoding" /\ Top.kind = kind
Parent == frames[Len(frames) - 1]

PackedItem ==
  LET r == DecodeValue(AllFields(Parent.type)[Top.slot], input, pos, Top.end)
  IN /\ InList("packed") /\ pos < Top.end /\ ~Full(Parent, Top.slot)
     /\ IF r.ok
        THEN /\ frames' = Append(SubSeq(Below, 1, Len(Below) - 1), Stored(Parent, Top.slot, r.val))
                          \o <<Top>>
             /\ pos' = r.pos
             /\ UNCHANGED <<input, status, dest>>
        ELSE Error("malformed")

PackedEnd ==
  /\ InList("packed") /\ (pos = Top.end \/ Full(Parent, Top.slot))
  /\ IF pos = Top.end THEN frames' = Below /\ UNCHANGED <<input, pos, status, dest>>
     ELSE Error("array overflow")

\* The callback reads at least a byte of what is left, or fails.
CallbackReads ==
  /\ InList("callback")
  /\ \/ \E next \in (IF pos = Top.end THEN {pos} ELSE pos+1..Top.end) :
          /\ pos' = next
          /\ frames' = IF next = Top.end THEN Below ELSE frames
          /\ UNCHANGED <<input, status, dest>>
     \/ Error("callback failed")

\* Whole words of fields_seen, then the remaining bits. With a whole number of
\* words the last comparison shifts by the word's width, which is undefined: the
\* mask is 0, which equals the word after the last, or all ones, which does not.
AllSeen(fr, shifted) ==
  LET n == Cardinality(Required(fr.type))
      whole == n \div WordBits
  IN \/ n = 0
     \/ /\ 0 .. whole * WordBits - 1 \subseteq fr.seen
        /\ {i \in fr.seen : i \div WordBits = whole} = whole * WordBits .. n - 1
        /\ n % WordBits = 0 => shifted = 0

\* The rest of pb_decode_noinit, and of its callers: the substream is closed,
\* what it has left skipped, and the message is stored or returned.
EndMessage ==
  /\ InMessage /\ AtEnd
  /\ \E shifted \in {0, 1} :
       IF ~AllSeen(Top, shifted) THEN Error("missing required field")
       ELSE /\ pos' = IF Len(frames) > 1 \/ Delimited \/ pos = Top.end THEN Top.end ELSE Tag.pos
            /\ IF Len(frames) = 1
               THEN /\ frames' = <<>> /\ dest' = Append(dest, Top.msg)
                    /\ status' = (IF Delimited THEN "idle" ELSE "done")
               ELSE /\ frames' = Append(SubSeq(Below, 1, Len(Below) - 1),
                                        Stored(Parent, Top.slot, Top.msg))
                    /\ UNCHANGED <<dest, status>>
            /\ UNCHANGED input
-----------------------------------------------------------------------------
Next ==
  \/ Decode \/ BadTag \/ SkipField \/ PointerField
  \/ DecodeStatic \/ DecodePacked \/ DecodeSubmessage \/ DecodeCallback
  \/ PackedItem \/ PackedEnd \/ CallbackReads \/ EndMessage

Spec == Init /\ [][Next]_vars
-----------------------------------------------------------------------------
\* What a field's memory can hold.
Fits(f, v) ==
  CASE f.ltype \in {"varint", "svarint"} -> v \in -(2 ^ (f.size - 1)) .. 2 ^ (f.size - 1) - 1
    [] f.ltype = "uvarint" -> v \in 0 .. 2 ^ f.size - 1
    [] f.ltype = "string" -> Len(v) < f.size
    [] f.ltype = "bytes" -> Len(v) <= f.size
    [] f.ltype = "fixed_length" -> Len(v) = f.size
    [] OTHER -> TRUE

Room(f) == IF f.htype = "repeated" THEN f.max ELSE 1
Messages == {<<Root, dest[k]>> : k \in DOMAIN dest}
  \cup {<<frames[k].type, frames[k].msg>> : k \in {j \in DOMAIN frames : frames[j].kind = "message"}}

TypeOK ==
  /\ input \in Streams /\ pos \in 1 .. Len(input) + 1
  /\ status \in {"idle", "decoding", "done", "malformed", "array overflow",
                 "missing required field", "callback failed", "no malloc support"}
  /\ status = "decoding" => frames # <<>>
  /\ \A k \in DOMAIN frames : /\ frames[k].kind \in {"message", "packed", "callback"}
                              /\ k = 1 \/ k < Len(frames) => frames[k].kind = "message"

\* Whatever the bytes, a message in memory never has more entries than its
\* array, a text longer than its buffer, or an integer out of its type's range.
FitsMemory ==
  \A m \in Messages : \A i \in DOMAIN m[2] :
     LET f == AllFields(m[1])[i]
     IN /\ Len(m[2][i]) <= Room(f)
        /\ \A k \in DOMAIN m[2][i] : Fits(f, m[2][i][k])

\* A nested message or array reads inside its own length, which lies inside
\* that of the message around it: no length in the input lets it read on.
ReadsInside ==
  \A k \in DOMAIN frames : /\ pos <= frames[k].end
                           /\ k > 1 => frames[k].end <= frames[k-1].end

\* A union holds one of its fields at a time.
OneOfUnion ==
  \A m \in Messages :
     Cardinality({i \in DOMAIN m[2] : AllFields(m[1])[i].htype = "oneof" /\ m[2][i] # <<>>}) <= 1

\* A message that decoded has all its required fields, the messages in it too.
RECURSIVE Complete(_, _)
Complete(t, msg) ==
  /\ \A i \in Required(t) : Fields[t][i].atype = "static" => msg[i] # <<>>
  /\ \A i \in DOMAIN msg : AllFields(t)[i].ltype = "submessage" =>
       \A k \in DOMAIN msg[i] : Complete(AllFields(t)[i].sub, msg[i][k])
RequiredPresent == \A k \in DOMAIN dest : Complete(Root, dest[k])

\* "Check that all required fields were present": a message is refused for a
\* missing field only when one is missing.
RefusedForReason ==
  status = "missing required field" =>
     \E i \in Required(Top.type) : RequiredIndex(Top.type, i) \notin Top.seen

\* The messages of a delimited stream start where the lengths before them say,
\* whatever they contain: one that ends early does not shift the next.
RECURSIVE StartOf(_)
StartOf(k) == IF k = 0 THEN 1
  ELSE Substream(input, StartOf(k - 1), Len(input) + 1).val
KeepsFraming == status = "idle" => pos = StartOf(Len(dest))

\* The buffer is read to its end, or refused.
Finished == \/ status \notin {"idle", "decoding"}
            \/ Delimited /\ status = "idle" /\ pos = Len(input) + 1
=============================================================================
