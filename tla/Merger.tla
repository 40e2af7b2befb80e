------------------------------- MODULE Merger -------------------------------
(* The internal iterator of LevelDB: the entries of a memtable and of some   *)
(* tables in one order (table/merger.cc), a table's through its index and    *)
(* its data blocks (table/two_level_iterator.cc).  A move is an operator on  *)
(* the iterator's state.                                                     *)
(*                                                                           *)
(* An entry is a user key, the sequence number it was written with, which no *)
(* two entries share, and its type.  A table does not change; the memtable   *)
(* grows while it is read.  A block in `bad` cannot be read: its iterator is *)
(* never valid and has a status.                                             *)
EXTENDS Integers, Sequences

CONSTANT None

VARIABLES mem,    \* the memtable's entries
          table,  \* the tables: blocks, their separators in the index, bad blocks
          merge   \* MergingIterator: the children's positions, current_, direction_

Tables == DOMAIN table
Children == Tables \cup {0}     \* 0 is the memtable

-----------------------------------------------------------------------------
(* InternalKeyComparator, and the moves of an iterator over sorted entries.  *)

Before(x, y) == x.key < y.key \/ (x.key = y.key /\ x.seq > y.seq)

First(S) == IF S = {} THEN None ELSE CHOOSE x \in S : \A y \in S : ~Before(y, x)
Last(S) == IF S = {} THEN None ELSE CHOOSE x \in S : \A y \in S : ~Before(x, y)
AtOrAfter(S, x) == First({y \in S : ~Before(y, x)})
After(S, x) == First({y \in S : Before(x, y)})
Preceding(S, x) == Last({y \in S : Before(y, x)})

-----------------------------------------------------------------------------
(* TwoLevelIterator over table t: the index's position and that of the block *)
(* whose iterator exists (0: not valid, none), that iterator's position, and *)
(* whether a status was saved.                                               *)

Unpositioned == [index |-> 0, block |-> 0, at |-> None, failed |-> FALSE]

Entries(t, b) ==
    IF b = 0 \/ b \in table[t].bad THEN {} ELSE table[t].block[b]

SetDataIterator(t, s, b) ==
    [s EXCEPT !.block = b, !.failed = @ \/ s.block \in table[t].bad]

InitDataBlock(t, s, i) ==
    LET on == [s EXCEPT !.index = i]
    IN  IF i = s.block THEN on ELSE SetDataIterator(t, on, i)

\* The index iterator: the first block that may hold x, the next, the last.
IndexSeek(t, x) ==
    LET reach == {i \in DOMAIN table[t].block : ~Before(table[t].separator[i], x)}
    IN  IF reach = {} THEN 0 ELSE CHOOSE i \in reach : \A j \in reach : i <= j
IndexNext(t, i) == IF i = Len(table[t].block) THEN 0 ELSE i + 1
IndexPrev(i) == i - 1

\* SkipEmptyDataBlocks: on to the first block with an entry.
RECURSIVE Forward(_, _), Backward(_, _)
Forward(t, s) ==
    IF s.at # None THEN s
    ELSE IF s.index = 0 THEN SetDataIterator(t, s, 0)
    ELSE LET on == InitDataBlock(t, s, IndexNext(t, s.index))
         IN  Forward(t, [on EXCEPT !.at = First(Entries(t, on.block))])
Backward(t, s) ==
    IF s.at # None THEN s
    ELSE IF s.index = 0 THEN SetDataIterator(t, s, 0)
    ELSE LET on == InitDataBlock(t, s, IndexPrev(s.index))
         IN  Backward(t, [on EXCEPT !.at = Last(Entries(t, on.block))])

TableSeek(t, s, x) ==
    LET on == InitDataBlock(t, s, IndexSeek(t, x))
    IN  Forward(t, [on EXCEPT !.at = AtOrAfter(Entries(t, on.block), x)])
TableFirst(t, s) ==
    LET on == InitDataBlock(t, s, IF table[t].block = <<>> THEN 0 ELSE 1)
    IN  Forward(t, [on EXCEPT !.at = First(Entries(t, on.block))])
TableLast(t, s) ==
    LET on == InitDataBlock(t, s, Len(table[t].block))
    IN  Backward(t, [on EXCEPT !.at = Last(Entries(t, on.block))])
TableNext(t, s) == Forward(t, [s EXCEPT !.at = After(Entries(t, s.block), @)])
TablePrev(t, s) == Backward(t, [s EXCEPT !.at = Preceding(Entries(t, s.block), @)])

TableFailed(t, s) == s.failed \/ s.block \in table[t].bad

-----------------------------------------------------------------------------
(* MergingIterator.                                                          *)

At(m, c) == IF c = 0 THEN m.child[0] ELSE m.child[c].at
Valid(m) == m.current # None
Key(m) == At(m, m.current)

FindSmallest(m) ==
    LET ready == {c \in Children : At(m, c) # None}
    IN  [m EXCEPT !.forward = TRUE, !.current =
            IF ready = {} THEN None
            ELSE CHOOSE c \in ready : \A d \in ready : ~Before(At(m, d), At(m, c))]
FindLargest(m) ==
    LET ready == {c \in Children : At(m, c) # None}
    IN  [m EXCEPT !.forward = FALSE, !.current =
            IF ready = {} THEN None
            ELSE CHOOSE c \in ready : \A d \in ready : ~Before(At(m, c), At(m, d))]

ChildSeek(m, c, x) == IF c = 0 THEN AtOrAfter(mem, x) ELSE TableSeek(c, m.child[c], x)
ChildLast(m, c) == IF c = 0 THEN Last(mem) ELSE TableLast(c, m.child[c])
ChildPrev(m, c) == IF c = 0 THEN Preceding(mem, m.child[0]) ELSE TablePrev(c, m.child[c])
ChildNext(m, c) == IF c = 0 THEN After(mem, m.child[0]) ELSE TableNext(c, m.child[c])

SeekAll(m, x) == FindSmallest([m EXCEPT !.child = [c \in Children |-> ChildSeek(m, c, x)]])
FirstOfAll(m) == FindSmallest([m EXCEPT !.child =
    [c \in Children |-> IF c = 0 THEN First(mem) ELSE TableFirst(c, m.child[c])]])
LastOfAll(m) == FindLargest([m EXCEPT !.child = [c \in Children |-> ChildLast(m, c)]])

\* No other child has an entry equal to the key.
MergeNext(m) ==
    FindSmallest([m EXCEPT !.child = [c \in Children |->
        IF c = m.current THEN ChildNext(m, c)
        ELSE IF m.forward THEN m.child[c] ELSE ChildSeek(m, c, Key(m))]])

\* To turn back, a child seeks the key and then steps back from what it
\* found.  The memtable may grow between the two, so the first is SeekMem.
TurnsMem(m) == m.forward /\ m.current # 0
SeekMem(m) == [m EXCEPT !.child[0] = ChildSeek(m, 0, Key(m))]

MergePrev(m) ==
    LET turned(c) == LET sought == IF c = 0 THEN m ELSE [m EXCEPT !.child[c] = ChildSeek(m, c, Key(m))]
                     IN  IF At(sought, c) = None THEN ChildLast(sought, c) ELSE ChildPrev(sought, c)
    IN  FindLargest([m EXCEPT !.child = [c \in Children |->
            IF c = m.current THEN ChildPrev(m, c)
            ELSE IF m.forward THEN turned(c) ELSE m.child[c]]])

MergeFailed(m) == \E t \in Tables : TableFailed(t, m.child[t])
=============================================================================
