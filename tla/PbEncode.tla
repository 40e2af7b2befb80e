------------------------------ MODULE PbEncode ------------------------------
(* pb_encode of nanopb: message structures become bytes in a buffer of fixed *)
(* size. A submessage is encoded twice, first to count its bytes, which are  *)
(* written before it, then into a substream of that many bytes; a callback   *)
(* runs in both passes and may not write the same number of bytes. One step  *)
(* encodes one field of a message, or one entry of an array of messages;     *)
(* "calls" is the C stack of pb_encode. Messages are as in PbDecode.         *)
EXTENDS Wire
CONSTANTS
  Fields, Extensions, Root,
  Delimited,  \* pb_encode_delimited is called for every message
  Capacity,   \* the size of the buffer
  Sources     \* what the client encodes: sequences of messages
VARIABLES
  todo,    \* the messages still to encode
  out,     \* the bytes written
  calls,   \* the calls under way, the innermost last
  result   \* "encoding", "done" or the error
vars == <<todo, out, calls, result>>

AllFields(t) == Fields[t] \o Extensions[t]
-----------------------------------------------------------------------------
\* pb_check_proto3_default_value. Of an array it looks at the first entry.
RECURSIVE IsDefault(_, _)
IsDefault(f, vals) ==
  IF f.atype = "callback" THEN f.emits = {} ELSE
  IF vals = <<>> THEN TRUE ELSE
  CASE f.ltype \in {"bytes", "string"} -> vals[1] = <<>>
    [] f.ltype = "fixed_length" -> f.size = 0
    [] f.ltype = "submessage" ->
         \A i \in DOMAIN vals[1] : IsDefault(AllFields(f.sub)[i], vals[1][i])
    [] OTHER -> vals[1] = 0

\* A field is written when it is set; proto3's "singular" when it is not zero.
Present(f, vals) == IF f.htype = "singular" THEN ~IsDefault(f, vals) ELSE vals # <<>>

ValueBytes(f, v) ==
  IF f.ltype \in {"bytes", "string", "fixed_length"} THEN <<EncodeVarint(Len(v)), v>>
  ELSE <<EncodeValue(f, v)>>
LenOf(pieces) == FoldLeft(LAMBDA n, piece : n + Len(piece), 0, pieces)

\* encode_array and encode_basic_field but for submessages: what is given to
\* pb_write, piece by piece. An array of numbers is packed.
Pieces(f, vals) ==
  LET Entry(v) == <<EncodeTag(WireType(f), f.tag)>> \o ValueBytes(f, v)
      entries == [k \in DOMAIN vals |-> EncodeValue(f, vals[k])]
  IN IF ~Present(f, vals) THEN <<>>
     ELSE IF f.htype = "repeated" /\ Packable(f)
     THEN <<EncodeTag(WT_STRING, f.tag), EncodeVarint(LenOf(entries))>> \o entries
     ELSE FoldLeft(LAMBDA acc, v : acc \o Entry(v), <<>>, vals)

Plus(S, T) == {a + b : a \in S, b \in T}

\* What a sizing pass over a message may count.
RECURSIVE Sizes(_, _)
Sizes(t, msg) ==
  LET Nested(f, v) == {Len(EncodeTag(WT_STRING, f.tag)) + Len(EncodeVarint(n)) + n : n \in Sizes(f.sub, v)}
      OfField(i) ==
        LET f == AllFields(t)[i]
        IN IF f.atype = "callback" THEN {Len(b) : b \in f.emits} \cup (IF f.emits = {} THEN {0} ELSE {})
           ELSE IF f.ltype = "submessage" /\ Present(f, msg[i])
           THEN FoldLeft(LAMBDA acc, v : Plus(acc, Nested(f, v)), {0}, msg[i])
           ELSE IF f.ltype = "submessage" THEN {0}
           ELSE {LenOf(Pieces(f, msg[i]))}
  IN FoldLeft(LAMBDA acc, i : Plus(acc, OfField(i)), {0}, [i \in DOMAIN msg |-> i])
-----------------------------------------------------------------------------
Call(t, msg, limit) == [type |-> t, msg |-> msg, slot |-> 1, entry |-> 1, limit |-> limit]
Top == calls[Len(calls)]
Below == SubSeq(calls, 1, Len(calls) - 1)

Init ==
  /\ todo \in Sources
  /\ out = <<>> /\ calls = <<>> /\ result = "encoding"

\* pb_write, until a piece does not fit.
Write(pieces, limit) ==
  FoldLeft(LAMBDA w, piece : IF w.ok /\ Len(w.out) + Len(piece) <= limit
                             THEN [ok |-> TRUE, out |-> w.out \o piece]
                             ELSE [w EXCEPT !.ok = FALSE],
           [ok |-> TRUE, out |-> out], pieces)

Fails(why) == result' = why /\ UNCHANGED <<todo, calls>>

\* pb_encode_submessage up to the second pass: the size, if there is room for
\* it, and the substream that it limits.
OpenSubmessage(prefix, t, msg, callers, limit) ==
  \E size \in Sizes(t, msg) :
    LET w == Write(prefix \o <<EncodeVarint(size)>>, limit)
    IN /\ out' = w.out
       /\ IF ~w.ok \/ Len(w.out) + size > limit THEN Fails("stream full")
          ELSE calls' = Append(callers, Call(t, msg, Len(w.out) + size)) /\ UNCHANGED <<todo, result>>

\* pb_encode and pb_encode_delimited are called for the next message.
Encode ==
  /\ result = "encoding" /\ calls = <<>> /\ todo # <<>>
  /\ IF Delimited THEN OpenSubmessage(<<>>, Root, todo[1], <<>>, Capacity)
     ELSE calls' = <<Call(Root, todo[1], Capacity)>> /\ UNCHANGED <<todo, out, result>>

AtField == result = "encoding" /\ calls # <<>> /\ Top.slot <= Len(Top.msg)
F == AllFields(Top.type)[Top.slot]
Vals == Top.msg[Top.slot]
NextField == [Top EXCEPT !.slot = @ + 1, !.entry = 1]
IsNested == F.ltype = "submessage" /\ Present(F, Vals)

\* A count or a size in the structure that is larger than its memory.
Oversized == /\ F.atype = "static"
             /\ \/ F.htype = "repeated" /\ Len(Vals) > F.max
                \/ F.ltype = "bytes" /\ \E k \in DOMAIN Vals : Len(Vals[k]) > F.size

EncodeField ==
  LET w == Write(Pieces(F, Vals), Top.limit)
  IN /\ AtField /\ F.atype # "callback" /\ ~IsNested /\ ~Oversized
     /\ out' = w.out
     /\ IF w.ok THEN calls' = Append(Below, NextField) /\ UNCHANGED <<todo, result>>
        ELSE Fails("stream full")

EncodeOversized == AtField /\ Oversized /\ Fails("size exceeded") /\ UNCHANGED out

EncodeSubmessage ==
  /\ AtField /\ IsNested /\ ~Oversized
  /\ OpenSubmessage(<<EncodeTag(WT_STRING, F.tag)>>, F.sub, Vals[Top.entry],
                    Append(Below, IF Top.entry = Len(Vals) THEN NextField
                                  ELSE [Top EXCEPT !.entry = @ + 1]),
                    Top.limit)

\* encode_callback_field: the function writes whole fields, or fails.
EncodeCallback ==
  /\ AtField /\ F.atype = "callback"
  /\ \/ \E piece \in F.emits :
          LET w == Write(<<piece>>, Top.limit)
          IN /\ out' = w.out
             /\ IF w.ok THEN calls' = Append(Below, NextField) /\ UNCHANGED <<todo, result>>
                ELSE Fails("stream full")
     \/ F.emits # {} /\ Fails("callback error") /\ UNCHANGED out
     \/ F.emits = {} /\ calls' = Append(Below, NextField) /\ UNCHANGED <<todo, out, result>>

\* The end of pb_encode, and of the pb_encode_submessage that called it.
EndMessage ==
  /\ result = "encoding" /\ calls # <<>> /\ Top.slot > Len(Top.msg)
  /\ IF (Len(calls) > 1 \/ Delimited) /\ Len(out) # Top.limit THEN Fails("submsg size changed")
     ELSE /\ calls' = Below
          /\ IF Len(calls) = 1
             THEN /\ todo' = Tail(todo)
                  /\ result' = (IF Len(todo) = 1 THEN "done" ELSE result)
             ELSE UNCHANGED <<todo, result>>
  /\ UNCHANGED out

Next == Encode \/ EncodeField \/ EncodeOversized \/ EncodeSubmessage \/ EncodeCallback \/ EndMessage
Spec == Init /\ [][Next]_vars
-----------------------------------------------------------------------------
TypeOK ==
  /\ result \in {"encoding", "done", "stream full", "size exceeded",
                 "callback error", "submsg size changed"}
  /\ \A k \in DOMAIN out : out[k] \in Byte
  /\ \A k \in DOMAIN calls : /\ calls[k].type \in DOMAIN Fields
                             /\ calls[k].slot \in 1 .. Len(calls[k].msg) + 1

\* No byte is written past the end of the buffer, nor past the length that was
\* written for the message it belongs to, whatever the callbacks do.
WithinLimits ==
  /\ Len(out) <= Capacity
  /\ \A k \in DOMAIN calls : /\ Len(out) <= calls[k].limit
                             /\ k > 1 => calls[k].limit <= calls[k-1].limit
=============================================================================
