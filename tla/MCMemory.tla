------------------------------ MODULE MCMemory ------------------------------
(* Small instances of what is kept in memory: by the threads of a database   *)
(* together (SkipList, LRUCache, TableCache, ReadableFiles and FileLocks),   *)
(* and in the buffers and structures of nanopb. They share no variable:      *)
(* `part` says which one a behaviour is of, the others stay in their initial *)
(* states.                                                                   *)
EXTENDS SkipList, TLC
CONSTANTS scanner, inserter,              \* of SkipList
          Blocks,                         \* keys of LRUCache
          Users, Tables,                  \* threads and files of TableCache
          Openers,                        \* threads of ReadableFiles
          t1, t2, t3, p1, p2, p3,         \* threads and processes of FileLocks
          GroupBits, Bytes32, Bytes64     \* of Wire
VARIABLES part,
          shard, made, held, last,
          tableShard, tableMade, tableHeld, tableLast, thread, live, files,
          allowed, opening, permit, descriptor,
          name, created, owner, table, pc, fd,
          source, todo, out, calls, result, input, place, frames, status, dest
lruVars == <<shard, made, held, last>>
cacheVars == <<tableShard, tableMade, tableHeld, tableLast, thread, live, files>>
fileVars == <<allowed, opening, permit, descriptor>>
lockVars == <<name, created, owner, table, pc, fd>>
others == <<lruVars, cacheVars, fileVars, lockVars>>
writerVars == <<source, todo, out, calls, result>>
nanopbVars == <<writerVars, input, place, frames, status, dest>>

LRU == INSTANCE LRUCache WITH Keys <- Blocks, None <- 0, Capacity <- 2, Charges <- {1, 2},
                              MaxEntries <- 4, MaxHeld <- 2
\* A cache of one table.
Cache == INSTANCE TableCache WITH
    Threads <- Users, Files <- Tables, None <- 0, Capacity <- 1, MaxEntries <- 5,
    shard <- tableShard, made <- tableMade, held <- tableHeld, last <- tableLast
\* More files than permits, and more than one thread after the last of each.
Readable == INSTANCE ReadableFiles WITH Threads <- Openers, None <- "none", MaxMmaps <- 1, MaxFds <- 1,
                                        pc <- opening, fd <- descriptor
\* Three threads of a process, one of which destroys the database; and three
\* processes of one thread.
OneProcess == INSTANCE FileLocks WITH
    Threads <- {t1, t2, t3}, Processes <- {p1}, ProcessOf <- (t1 :> p1) @@ (t2 :> p1) @@ (t3 :> p1),
    Destroyers <- {t1}, None <- 0, MaxFiles <- 3
Apart == INSTANCE FileLocks WITH
    Threads <- {t1, t2, t3}, Processes <- {p1, p2, p3}, ProcessOf <- (t1 :> p1) @@ (t2 :> p2) @@ (t3 :> p3),
    Destroyers <- {}, None <- 0, MaxFiles <- 1
ASSUME SharedConstants ==
    /\ LRU!LRUCacheConstants /\ Readable!ReadableAssumption
    /\ OneProcess!LockAssumption /\ Apart!LockAssumption
-----------------------------------------------------------------------------
(* nanopb: PbDecode over every short buffer of a few bytes that are tags,    *)
(* lengths and values, and PbRoundTrip over a few messages.                  *)
(* With GroupBits = 5 a one-byte tag names the fields 1 to 3, and a varint   *)
(* of the wider word takes up to 5 bytes, so that a negative number is long  *)
(* and a buffer soon full.                                                   *)
W == INSTANCE Wire
Field(tag, ltype, htype, atype, size, max, sub) ==
    W!Field(tag, ltype, htype, atype, size, max, sub)
Tagged(wire, tag, bytes) == W!FlattenSeq(<<W!EncodeTag(wire, tag), bytes>>)
NoExtensions == [root |-> <<>>, sub |-> <<>>]
NoExtension == [root |-> <<>>]
Buffers(bytes, max) == UNION {[1..n -> bytes] : n \in 0..max}
ArraysStreams == Buffers({0, 2, 3, 8, 16, 18, 26, 33}, 5)
UnionsStreams == Buffers({0, 1, 4, 8, 10, 18, 26}, 5)
CallbacksStreams == Buffers({0, 1, 2, 8, 10, 18, 26}, 4)
WordStreams == Buffers({0, 8, 21, 26, 34, 40}, 5)
-----------------------------------------------------------------------------
\* A required number, an array of two and a required message.
Arrays == [
  root |-> <<Field(1, "varint", "required", "static", 6, 0, ""),
             Field(2, "uvarint", "repeated", "static", 6, 2, ""),
             Field(3, "submessage", "required", "static", 0, 0, "sub")>>,
  sub  |-> <<Field(1, "svarint", "required", "static", 6, 0, ""),
             Field(2, "string", "optional", "static", 2, 0, "")>>]

\* A union of a number and a message, and extensions from 3.
Unions == [
  root |-> <<Field(1, "varint", "oneof", "static", 12, 0, ""),
             Field(2, "submessage", "oneof", "static", 0, 0, "sub"),
             Field(3, "extension", "optional", "callback", 0, 0, "")>>,
  sub  |-> <<Field(1, "bytes", "optional", "static", 1, 0, ""),
             Field(2, "bytes", "repeated", "callback", 0, 0, "")>>]
UnionExtensions == [root |-> <<Field(3, "fixed_length", "required", "static", 1, 0, "")>>,
                    sub |-> <<>>]

\* A field read by a callback, an array of one and an allocated text.
Callbacks == [
  root |-> <<[Field(1, "bytes", "required", "callback", 0, 0, "") EXCEPT !.reads = TRUE],
             Field(2, "uvarint", "repeated", "static", 12, 1, ""),
             Field(3, "string", "optional", "pointer", 0, 0, "")>>]

\* As many required fields as fields_seen has bits in an element.
Word == [root |-> <<Field(1, "uvarint", "required", "static", 12, 0, ""),
                    Field(2, "fixed32", "required", "static", 12, 0, ""),
                    Field(3, "bytes", "optional", "pointer", 0, 0, "")>>]

ArraysDecoder == INSTANCE PbDecode WITH
    Fields <- Arrays, Extensions <- NoExtensions, Root <- "root", Delimited <- FALSE,
    WordBits <- 3, MaxRequired <- 4, Streams <- ArraysStreams, pos <- place
UnionsDecoder == INSTANCE PbDecode WITH
    Fields <- Unions, Extensions <- UnionExtensions, Root <- "root", Delimited <- TRUE,
    WordBits <- 3, MaxRequired <- 4, Streams <- UnionsStreams, pos <- place
CallbacksDecoder == INSTANCE PbDecode WITH
    Fields <- Callbacks, Extensions <- NoExtension, Root <- "root", Delimited <- FALSE,
    WordBits <- 3, MaxRequired <- 4, Streams <- CallbacksStreams, pos <- place
WordDecoder == INSTANCE PbDecode WITH
    Fields <- Word, Extensions <- NoExtension, Root <- "root", Delimited <- FALSE,
    WordBits <- 2, MaxRequired <- 4, Streams <- WordStreams, pos <- place
-----------------------------------------------------------------------------
\* Every kind of field, and lists of up to two messages.
Kinds == [
  root |-> <<Field(1, "varint", "required", "static", 6, 0, ""),
             Field(2, "uvarint", "repeated", "static", 12, 2, ""),
             Field(3, "submessage", "optional", "static", 0, 0, "sub"),
             Field(4, "extension", "optional", "callback", 0, 0, "")>>,
  sub  |-> <<Field(1, "svarint", "singular", "static", 6, 0, ""),
             Field(2, "string", "repeated", "static", 3, 2, "")>>]
KindsExtensions == [root |-> <<Field(9, "fixed32", "required", "static", 12, 0, "")>>,
                    sub |-> <<>>]
KindsMessages ==
  {<<<<n>>, numbers, sub, <<>>, <<ext>>>> :
     n \in {-1, 7}, numbers \in {<<>>, <<0, 45>>},
     sub \in {<<>>, <<<<<<0>>, <<>>>>>>, <<<<<<-2>>, <<<<>>, <<9, 9>>>>>>>>}, ext \in {300}}
KindsSources == {<<m>> : m \in KindsMessages} \cup (KindsMessages \X KindsMessages)

\* Merged messages: a union, and nested messages that each have a part.
Parts == [
  root |-> <<Field(1, "fixed64", "oneof", "static", 24, 0, ""),
             Field(2, "fixed_length", "oneof", "static", 2, 0, ""),
             Field(3, "submessage", "singular", "static", 0, 0, "sub"),
             Field(4, "submessage", "repeated", "static", 0, 3, "sub")>>,
  sub  |-> <<Field(1, "bytes", "singular", "static", 2, 0, ""),
             Field(2, "uvarint", "singular", "static", 6, 0, "")>>]
PartsSubs == {<<<<>>, <<>>>>, <<<<<<3>>>>, <<>>>>, <<<<<<1, 0>>>>, <<5>>>>, <<<<>>, <<6>>>>}
PartsMessages ==
  {<<u[1], u[2], <<sub>>, list>> :
     u \in {<<<<>>, <<>>>>, <<<<70000>>, <<>>>>, <<<<>>, <<<<0, 8>>>>>>},
     sub \in PartsSubs, list \in {<<>>, <<CHOOSE s \in PartsSubs : s[2] = <<6>>>>}}
PartsSources == PartsMessages \X PartsMessages

\* A callback of the writer, inside a message inside a message, and a reader
\* that knows neither the root's callback nor the union.
Writes(f, pieces) == [f EXCEPT !.emits = pieces]
Newer == [
  root |-> <<Field(1, "uvarint", "required", "static", 12, 0, ""),
             Field(2, "submessage", "repeated", "static", 0, 2, "sub"),
             Writes(Field(3, "bytes", "repeated", "callback", 0, 0, ""),
                    {<<>>, Tagged(W!WT_VARINT, 3, W!EncodeVarint(200))}),
             Field(5, "fixed32", "oneof", "static", 12, 0, ""),
             Field(6, "fixed64", "oneof", "static", 24, 0, "")>>,
  sub  |-> <<Field(1, "submessage", "optional", "static", 0, 0, "leaf")>>,
  leaf |-> <<Writes(Field(1, "bytes", "repeated", "callback", 0, 0, ""),
                    {<<>>, Tagged(W!WT_STRING, 1, <<1, 7>>)})>>]
NewerExtensions == [t \in DOMAIN Newer |-> <<>>]
Older == [Newer EXCEPT !.root = <<@[1], @[2]>>]
Leaf == <<<<>>>>
NewerMessages ==
  {<<<<n>>, subs, <<>>, u[1], u[2]>> :
     n \in {0, 900}, subs \in {<<>>, <<<<<<Leaf>>>>, <<<<>>>>>>},
     u \in {<<<<>>, <<>>>>, <<<<9>>, <<>>>>, <<<<>>, <<10>>>>}}
TooMany == <<<<0>>, <<<<<<>>>>, <<<<>>>>, <<<<>>>>>>, <<>>, <<>>, <<>>>>
NewerSources == {<<m>> : m \in NewerMessages} \cup (NewerMessages \X NewerMessages)
                \cup {<<TooMany>>}

\* A buffer that may be cut short; one of messages to be merged; and one for
\* an older reader, that is soon full.
KindsTrip == INSTANCE PbRoundTrip WITH
    Fields <- Kinds, ReaderFields <- Kinds, Extensions <- KindsExtensions, Root <- "root",
    Delimited <- TRUE, Capacity <- 40, Sources <- KindsSources,
    WordBits <- 3, MaxRequired <- 4, Cut <- TRUE, pos <- place
PartsTrip == INSTANCE PbRoundTrip WITH
    Fields <- Parts, ReaderFields <- Parts, Extensions <- NoExtensions, Root <- "root",
    Delimited <- FALSE, Capacity <- 60, Sources <- PartsSources,
    WordBits <- 3, MaxRequired <- 4, Cut <- FALSE, pos <- place
OlderTrip == INSTANCE PbRoundTrip WITH
    Fields <- Newer, ReaderFields <- Older, Extensions <- NewerExtensions, Root <- "root",
    Delimited <- TRUE, Capacity <- 24, Sources <- NewerSources,
    WordBits <- 3, MaxRequired <- 4, Cut <- FALSE, pos <- place

ASSUME Schemas ==
    /\ W!WidthAssumption
    /\ ArraysDecoder!SchemaAssumption /\ UnionsDecoder!SchemaAssumption
    /\ CallbacksDecoder!SchemaAssumption /\ WordDecoder!SchemaAssumption
-----------------------------------------------------------------------------
NothingWritten == source = <<>> /\ todo = <<>> /\ out = <<>> /\ calls = <<>> /\ result = "done"
NothingRead == input = <<>> /\ place = 1 /\ frames = <<>> /\ status = "idle" /\ dest = <<>>

BytesInit ==
    /\ part \in {"arrays", "unions", "callbacks", "word", "delimited", "merged", "older"}
    /\ part \notin {"delimited", "merged", "older"} => NothingWritten
    /\ CASE part = "arrays" -> ArraysDecoder!Init
         [] part = "unions" -> UnionsDecoder!Init
         [] part = "callbacks" -> CallbacksDecoder!Init
         [] part = "word" -> WordDecoder!Init
         [] part = "delimited" -> KindsTrip!Init
         [] part = "merged" -> PartsTrip!Init
         [] part = "older" -> OlderTrip!Init
MemoryInit ==
    /\ \/ /\ part \in {"list", "lru", "tables", "readable", "threads", "processes"}
          /\ NothingWritten /\ NothingRead
       \/ BytesInit
    /\ Init /\ LRU!Init /\ Cache!Init /\ Readable!Init
    /\ IF part = "processes" THEN Apart!Init ELSE OneProcess!Init
BytesNext ==
    /\ UNCHANGED part
    /\ \/ part = "arrays" /\ ArraysDecoder!Next /\ UNCHANGED writerVars
       \/ part = "unions" /\ UnionsDecoder!Next /\ UNCHANGED writerVars
       \/ part = "callbacks" /\ CallbacksDecoder!Next /\ UNCHANGED writerVars
       \/ part = "word" /\ WordDecoder!Next /\ UNCHANGED writerVars
       \/ part = "delimited" /\ KindsTrip!Next
       \/ part = "merged" /\ PartsTrip!Next
       \/ part = "older" /\ OlderTrip!Next
SharedNext ==
    /\ UNCHANGED <<part, nanopbVars>>
    /\ \/ part = "list" /\ Next /\ UNCHANGED others
       \/ part = "lru" /\ LRU!Next /\ UNCHANGED <<vars, cacheVars, fileVars, lockVars>>
       \/ part = "tables" /\ Cache!Next /\ UNCHANGED <<vars, lruVars, fileVars, lockVars>>
       \/ part = "readable" /\ Readable!Next /\ UNCHANGED <<vars, lruVars, cacheVars, lockVars>>
       \/ part = "threads" /\ OneProcess!Next /\ UNCHANGED <<vars, lruVars, cacheVars, fileVars>>
       \/ part = "processes" /\ Apart!Next /\ UNCHANGED <<vars, lruVars, cacheVars, fileVars>>
MemoryNext ==
    \/ SharedNext
    \/ BytesNext /\ UNCHANGED <<vars, others>>
MemorySpec == MemoryInit /\ [][MemoryNext]_<<part, vars, others, nanopbVars>>

(* Every entry is counted, listed once and freed when nobody has it, the     *)
(* usage is what is cached, a lookup finds what was inserted last; the table *)
(* a thread reads is open, a deleted file is closed, and the open tables are *)
(* bounded (LRUCache in util/cache.cc, TableCache::FindTable and Evict).     *)
CachesSafe ==
    /\ part = "lru" => /\ LRU!TypeOK /\ LRU!RefsCounted /\ LRU!ListsPartition
                       /\ LRU!UsageCounted /\ LRU!FindsLatest
    /\ part = "tables" => /\ Cache!TypeOK /\ Cache!ReadsOpenTable
                          /\ Cache!DeletedIsClosed /\ Cache!OpenFilesBounded

(* At most one thread has the database, and neither a record lock nor a      *)
(* descriptor nor an entry of locked_files_ outlives its holder; no permit   *)
(* for a mapping or a descriptor is lost or made (PosixEnv::LockFile,        *)
(* Limiter).                                                                 *)
LocksSafe ==
    /\ part = "threads" => OneProcess!LocksSafe
    /\ part = "processes" => Apart!LocksSafe
    /\ part = "readable" => Readable!PermitsSafe

(* Whatever the bytes, pb_decode stays inside its arrays, its buffers and    *)
(* each length it was given, a message it returns has its required fields    *)
(* and one field of its union at most, it refuses one for a missing field    *)
(* only if one is missing, and in a delimited stream the next message starts *)
(* where the lengths say.  With as many required fields as an element of     *)
(* fields_seen has bits it may refuse what it should not: that is not said   *)
(* of "word".                                                                *)
DecodesSafely ==
    /\ part = "arrays" => /\ ArraysDecoder!TypeOK /\ ArraysDecoder!FitsMemory
                          /\ ArraysDecoder!ReadsInside /\ ArraysDecoder!RequiredPresent
                          /\ ArraysDecoder!RefusedForReason
    /\ part = "unions" => /\ UnionsDecoder!TypeOK /\ UnionsDecoder!FitsMemory
                          /\ UnionsDecoder!ReadsInside /\ UnionsDecoder!OneOfUnion
                          /\ UnionsDecoder!KeepsFraming
    /\ part = "callbacks" => CallbacksDecoder!TypeOK /\ CallbacksDecoder!RefusedForReason
    /\ part = "word" => /\ WordDecoder!TypeOK /\ WordDecoder!FitsMemory
                        /\ WordDecoder!RequiredPresent

(* What pb_encode wrote without an error is what pb_decode reads, of a       *)
(* buffer that was cut short the first messages; the encoder fails for want  *)
(* of room only when there is not enough, and writes nothing outside it.     *)
ReadsWhatWasWritten ==
    /\ part = "delimited" => /\ KindsTrip!TypeOK /\ KindsTrip!ReadsWhatWasWritten
                             /\ KindsTrip!WholeIsAccepted /\ KindsTrip!FailsForRoom
    /\ part = "merged" => PartsTrip!ReadsWhatWasWritten /\ PartsTrip!WholeIsAccepted
    /\ part = "older" => /\ OlderTrip!WithinLimits /\ OlderTrip!ReadsWhatWasWritten
                         /\ OlderTrip!WholeIsAccepted
=============================================================================
