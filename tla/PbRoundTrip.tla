----------------------------- MODULE PbRoundTrip ----------------------------
(* What PbEncode writes, PbDecode reads: the client encodes messages to a    *)
(* buffer, the buffer arrives whole or cut short, and a reader, which may    *)
(* know an older version of the message types, decodes it.                   *)
EXTENDS Wire, FiniteSets
CONSTANTS
  Fields, Extensions, Root, Delimited, Capacity, Sources,
  ReaderFields,            \* the message types the reader was built with
  WordBits, MaxRequired,
  Cut                      \* whether the buffer may arrive cut short
VARIABLES source, todo, out, calls, result, input, pos, frames, status, dest
writer == <<source, todo, out, calls, result>>
reader == <<input, pos, frames, status, dest>>

Encoder == INSTANCE PbEncode
Decoder == INSTANCE PbDecode WITH Fields <- ReaderFields, Streams <- {}

Init ==
  /\ Encoder!Init /\ source = todo
  /\ input = <<>> /\ pos = 1 /\ frames = <<>> /\ status = "waiting" /\ dest = <<>>

Write == Encoder!Next /\ UNCHANGED <<source, reader>>

\* The client hands on the buffer once everything in it was encoded.
Deliver ==
  /\ result = "done" /\ status = "waiting"
  /\ \E n \in (IF Cut THEN 0..Len(out) ELSE {Len(out)}) : input' = SubSeq(out, 1, n)
  /\ status' = "idle"
  /\ UNCHANGED <<writer, pos, frames, dest>>

ReadBack == status # "waiting" /\ Decoder!Next /\ UNCHANGED writer

Next == Write \/ Deliver \/ ReadBack
Spec == Init /\ [][Next]_<<writer, reader>>
-----------------------------------------------------------------------------
\* What a message means: a field without a has_ flag that is zero is not there.
AllFields(t) == Fields[t] \o Extensions[t]
RECURSIVE Meaning(_, _)
IsZero(f, v) == CASE f.ltype \in {"bytes", "string"} -> v = <<>>
                  [] f.ltype = "fixed_length" -> FALSE
                  [] f.ltype = "submessage" -> \A i \in DOMAIN v : v[i] = <<>>
                  [] OTHER -> v = 0
Meaning(t, msg) ==
  [i \in DOMAIN msg |->
    LET f == AllFields(t)[i]
        v == IF f.ltype = "submessage" THEN [k \in DOMAIN msg[i] |-> Meaning(f.sub, msg[i][k])]
             ELSE msg[i]
    IN IF f.htype = "singular" /\ v # <<>> THEN (IF IsZero(f, v[1]) THEN <<>> ELSE v) ELSE v]

\* Two messages with the same type are merged by decoding one after the other:
\* arrays are joined, nested messages merged, other fields take the later value.
RECURSIVE Merge(_, _, _)
Merge(t, a, b) ==
  LET union(m) == {i \in DOMAIN m : AllFields(t)[i].htype = "oneof" /\ m[i] # <<>>}
  IN [i \in DOMAIN a |->
       LET f == AllFields(t)[i]
       IN IF f.htype = "repeated" THEN a[i] \o b[i]
          ELSE IF f.htype = "oneof" THEN (IF union(b) = {} THEN a[i] ELSE b[i])
          ELSE IF b[i] = <<>> THEN a[i]
          ELSE IF f.ltype = "submessage" /\ a[i] # <<>> THEN <<Merge(f.sub, a[i][1], b[i][1])>>
          ELSE b[i]]

Meanings == [k \in DOMAIN source |-> Meaning(Root, source[k])]
Merged == FoldLeft(LAMBDA a, b : Merge(Root, a, b), Meanings[1], Tail(Meanings))
Expected == IF Delimited THEN Meanings ELSE <<Merged>>

\* The fields the reader knows, by tag.
Same(mine, theirs) ==
  \A i \in DOMAIN Fields[Root], j \in DOMAIN ReaderFields[Root] :
     /\ Fields[Root][i].tag = ReaderFields[Root][j].tag
     /\ Fields[Root][i].atype = "static"
     => mine[i] = theirs[j]

Whole == status # "waiting" /\ input = out

\* The messages read are those written, in their order: of a buffer that was
\* cut short the first ones, and never anything that was not written. Where
\* they are not delimited, they are read as one, merged.
ReadsWhatWasWritten ==
  (Delimited \/ Whole) =>
    /\ Len(dest) <= Len(Expected)
    /\ \A k \in DOMAIN dest : Same(Expected[k], dest[k])

\* What was encoded without an error decodes without one, to the last message,
\* by a reader of the same or of an older version, whatever the callbacks of
\* the writer did between the two passes.
WholeIsAccepted ==
  Whole => /\ status \in {"idle", "decoding", "done"}
           /\ Decoder!Finished \/ status = "done" => Len(dest) = Len(Expected)

\* Encoding fails for want of room only when there is not enough, and succeeds
\* only within it: the size counted first is the number of bytes written.
Total == FoldLeft(LAMBDA n, m : LET size == Least(Encoder!Sizes(Root, m))
                                IN n + size + (IF Delimited THEN Len(EncodeVarint(size)) ELSE 0),
                  0, source)
FailsForRoom == result \in {"done", "stream full"} =>
                  (result = "done" <=> Total <= Capacity)
WithinLimits == Encoder!WithinLimits
TypeOK == Encoder!TypeOK
=============================================================================
