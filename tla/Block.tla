------------------------------- MODULE Block --------------------------------
(* A block of a LevelDB table: BlockBuilder (table/block_builder.cc), which  *)
(* writes of each key only what it does not share with the one before it,    *)
(* except at restart points, and Block::Iter (table/block.cc), which reads   *)
(* the bytes back in both directions, damaged or not.                        *)
(*                                                                           *)
(* Offsets begin at 0.  The restart array is kept beside the bytes, and its  *)
(* size is what Block::Block accepts; lengths are far below 2^32.  A byte    *)
(* has values up to 2 * Base: from Base on, another byte of a varint follows *)
(* (Base is 128 in the code).                                                *)
EXTENDS Integers, FiniteSets, SequencesExt

CONSTANTS Base, None,
          Inputs,      \* what is added: sequences of entries [key, value], keys in order
          Intervals,   \* block_restart_interval
          Targets,     \* keys to seek
          Damages      \* what may happen to the bytes: [at, to], or None

VARIABLES entries, block,
          it,          \* Block::Iter: current_, restart_index_, key_, value_, status_
          pc,          \* the loop it is in, with the local of Prev
          op, from     \* history: the last operation, and where it began

vars == <<entries, block, it, pc, op, from>>
input == <<entries, block>>

-----------------------------------------------------------------------------
(* util/coding.cc, and the order of the keys.                                *)

RECURSIVE PutVarint(_)
PutVarint(v) == IF v < Base THEN <<v>> ELSE <<Base + (v % Base)>> \o PutVarint(v \div Base)

Less(a, b) ==
    \/ Len(a) < Len(b) /\ a = SubSeq(b, 1, Len(a))
    \/ \E i \in 1..Len(a) : /\ i <= Len(b) /\ a[i] < b[i]
                            /\ SubSeq(a, 1, i - 1) = SubSeq(b, 1, i - 1)

\* A varint at offset p of the bytes d: None if it has no end before theirs.
GetVarint(d, p) ==
    LET ends == {q \in (p + 1)..Len(d) : d[q] < Base}
        last == CHOOSE q \in ends : \A r \in ends : q <= r
        value[q \in (p + 1)..last] ==
            (d[q] % Base) + (IF q = last THEN 0 ELSE Base * value[q + 1])
    IN  IF ends = {} THEN None ELSE [value |-> value[p + 1], next |-> last]

-----------------------------------------------------------------------------
(* BlockBuilder.                                                             *)

Shared(a, b) ==
    LET same == {n \in 0..Len(a) : n <= Len(b) /\ SubSeq(a, 1, n) = SubSeq(b, 1, n)}
    IN  CHOOSE n \in same : \A j \in same : j <= n

EmptyBlock == [data |-> <<>>, restarts |-> <<0>>, counter |-> 0, last |-> <<>>]

\* Fault: a restart point shares with the key before it.
SharesAtRestart(b, e, interval) ==
    LET restart == b.counter >= interval
        shared == Shared(b.last, e.key)
    IN  [data |-> b.data \o PutVarint(shared) \o PutVarint(Len(e.key) - shared)
                         \o PutVarint(Len(e.value))
                         \o SubSeq(e.key, shared + 1, Len(e.key)) \o e.value,
         restarts |-> IF restart THEN Append(b.restarts, Len(b.data)) ELSE b.restarts,
         counter |-> IF restart THEN 1 ELSE b.counter + 1,
         last |-> e.key]

Add(b, e, interval) ==
    LET restart == b.counter >= interval
        shared == IF restart THEN 0 ELSE Shared(b.last, e.key)
    IN  [data |-> b.data \o PutVarint(shared) \o PutVarint(Len(e.key) - shared)
                         \o PutVarint(Len(e.value))
                         \o SubSeq(e.key, shared + 1, Len(e.key)) \o e.value,
         restarts |-> IF restart THEN Append(b.restarts, Len(b.data)) ELSE b.restarts,
         counter |-> IF restart THEN 1 ELSE b.counter + 1,
         last |-> e.key]

Finish(es, interval) ==
    LET b == FoldLeft(LAMBDA c, e : Add(c, e, interval), EmptyBlock, es)
    IN  [data |-> b.data, restarts |-> b.restarts]

\* External: a byte, or a restart offset (counted on from the bytes), is not
\* what was written, and checksums are not verified.
Damaged(b, d) ==
    IF d = None THEN b
    ELSE IF d.at <= Len(b.data) THEN [b EXCEPT !.data[d.at] = d.to]
    ELSE [b EXCEPT !.restarts[d.at - Len(b.data)] = d.to]

-----------------------------------------------------------------------------
(* Block::Iter.  restarts_ is the offset where the entries end.              *)

Size == Len(block.data)
NumRestarts == Len(block.restarts)
RestartPoint(i) == block.restarts[i + 1]
Bytes(p, n) == [i \in 1..n |-> IF p + i <= Size THEN block.data[p + i] ELSE 0]

Valid(i) == i.current < Size

CorruptionError(i) ==
    [i EXCEPT !.current = Size, !.restart = NumRestarts, !.ok = FALSE, !.key = <<>>, !.value = <<>>]

DecodeEntry(p) ==
    LET d == block.data
        shared == GetVarint(d, p)
        rest == GetVarint(d, shared.next)
        length == GetVarint(d, rest.next)
    IN  IF Size - p < 3 \/ shared = None THEN None
        ELSE IF rest = None THEN None
        ELSE IF length = None THEN None
        ELSE IF Size - length.next < rest.value + length.value THEN None
        ELSE [shared |-> shared.value, rest |-> rest.value,
              value |-> length.value, at |-> length.next]

SeekToRestartPoint(i, r) == [i EXCEPT !.key = <<>>, !.restart = r, !.next = RestartPoint(r)]

\* The restart block an entry at p lies in, from r on.
RECURSIVE RestartOf(_, _)
RestartOf(r, p) ==
    IF r + 1 < NumRestarts /\ RestartPoint(r + 1) < p THEN RestartOf(r + 1, p) ELSE r

ParseNextKey(i) ==
    LET p == i.next
        e == DecodeEntry(p) IN
    IF p >= Size THEN [i EXCEPT !.current = Size, !.restart = NumRestarts]
    ELSE IF e = None THEN CorruptionError(i)
    ELSE IF Len(i.key) < e.shared THEN CorruptionError(i)
    ELSE [i EXCEPT !.current = p, !.restart = RestartOf(@, p),
                   !.key = SubSeq(@, 1, e.shared) \o Bytes(e.at, e.rest),
                   !.value = Bytes(e.at + e.rest, e.value),
                   !.next = e.at + e.rest + e.value]

\* Seek's binary search for the last restart point before the target: None
\* if it meets one that cannot be one.
RECURSIVE Search(_, _, _)
Search(target, left, right) ==
    IF left >= right THEN left
    ELSE LET mid == (left + right + 1) \div 2
             e == DecodeEntry(RestartPoint(mid))
         IN  IF e = None THEN None
             ELSE IF e.shared # 0 THEN None
             ELSE IF Less(Bytes(e.at, e.rest), target)
             THEN Search(target, mid, right) ELSE Search(target, left, mid - 1)

\* Prev's scan for a restart point before the entry: None at the first.
RestartBefore(r, p) ==
    LET before == {j \in 0..r : RestartPoint(j) < p}
    IN  IF before = {} THEN None ELSE CHOOSE j \in before : \A k \in before : j >= k

-----------------------------------------------------------------------------
Idle == [loop |-> "none", until |-> 0, target |-> <<>>]

Init ==
    /\ \E es \in Inputs, n \in Intervals, d \in Damages :
        LET b == Finish(es, n) IN
        /\ d # None => d.at <= Len(b.data) + Len(b.restarts)
        /\ entries = es /\ block = Damaged(b, d)
    /\ it = [current |-> Size, restart |-> NumRestarts, key |-> <<>>, value |-> <<>>,
             next |-> 0, ok |-> TRUE]
    /\ pc = Idle /\ op = [name |-> "none", arg |-> None, target |-> <<>>, at |-> 0] /\ from = None

\* Where the iterator stands among what was added: the number of the entry.
Shown(i) ==
    IF ~Valid(i) THEN None
    ELSE [key |-> IF \E n \in DOMAIN entries : entries[n].key = i.key
                  THEN CHOOSE n \in DOMAIN entries : entries[n].key = i.key ELSE 0,
          value |-> i.value]

Call(name, arg, target, loop) ==
    /\ pc.loop = "none"
    /\ op' = [name |-> name, arg |-> arg, target |-> target, at |-> it.current]
    /\ from' = Shown(it)
    /\ pc' = loop
    /\ UNCHANGED input

SeekToFirst ==
    /\ Call("SeekToFirst", None, <<>>, Idle)
    /\ it' = ParseNextKey(SeekToRestartPoint(it, 0))

SeekToLast ==
    /\ Call("SeekToLast", None, <<>>, [Idle EXCEPT !.loop = "last"])
    /\ it' = SeekToRestartPoint(it, NumRestarts - 1)

\* op.arg is the number of the first entry that is not before the target.
Seek(target) ==
    LET left == Search(target, 0, NumRestarts - 1)
        rank == Cardinality({n \in DOMAIN entries : Less(entries[n].key, target)}) + 1 IN
    IF left = None
    THEN Call("Seek", rank, target, Idle) /\ it' = CorruptionError(it)
    ELSE /\ Call("Seek", rank, target, [Idle EXCEPT !.loop = "seek", !.target = target])
         /\ it' = SeekToRestartPoint(it, left)

Next == /\ Valid(it)
        /\ Call("Next", None, <<>>, Idle)
        /\ it' = ParseNextKey(it)

Prev ==
    LET r == RestartBefore(it.restart, it.current) IN
    /\ Valid(it)
    /\ IF r = None
       THEN Call("Prev", None, <<>>, Idle) /\ it' = [it EXCEPT !.current = Size, !.restart = NumRestarts]
       ELSE /\ Call("Prev", None, <<>>, [Idle EXCEPT !.loop = "prev", !.until = it.current])
            /\ it' = SeekToRestartPoint(it, r)

\* Whether a loop goes on from a parsed entry.
GoesOn(i) ==
    CASE pc.loop = "last" -> i.next < Size
      [] pc.loop = "prev" -> i.next < pc.until
      [] pc.loop = "seek" -> Less(i.key, pc.target)

Scan ==
    LET i == ParseNextKey(it) IN
    /\ pc.loop # "none"
    /\ it' = i
    /\ pc' = IF Valid(i) /\ GoesOn(i) THEN pc ELSE Idle
    /\ UNCHANGED <<input, op, from>>

Moves ==
    \/ SeekToFirst \/ SeekToLast \/ Next \/ Prev
    \/ \E t \in Targets : Seek(t)
    \/ Scan

Spec == Init /\ [][Moves]_vars

-----------------------------------------------------------------------------
\* The state has its types, and the asserts hold: a valid iterator lies in a
\* restart block that exists, at an entry whose bytes are all in the block.
TypeOK ==
    /\ it.current \in 0..Size /\ it.restart \in 0..NumRestarts /\ it.ok \in BOOLEAN
    /\ (pc.loop = "none" /\ Valid(it)) =>
        /\ it.restart < NumRestarts
        /\ it.next \in (it.current + 3)..Size
        /\ Len(it.key) + Len(it.value) < Size

Listed == INSTANCE Cursor WITH
    Keys <- 0..7, at <- Shown(it),
    view <- [n \in 0..7 |-> IF n \in DOMAIN entries THEN entries[n].value ELSE None]

\* Over a block that was written, each operation lands where it should among
\* the entries that were added, with their keys and values.
LandsOnEntry ==
    (pc.loop = "none" /\ op.name # "none") =>
        it.ok /\ Shown(it) = Listed!Target(op.name, op.arg, from)

\* Over a damaged one too, Seek stops at no key before its target, Next ends
\* at a later offset and Prev at an earlier one: a scan comes to an end.
MovesTheRightWay ==
    (pc.loop = "none" /\ Valid(it)) =>
        CASE op.name = "Seek" -> ~Less(it.key, op.target)
          [] op.name = "Next" -> it.current > op.at
          [] op.name = "Prev" -> it.current < op.at
          [] OTHER -> TRUE
=============================================================================
