------------------------------- MODULE Table --------------------------------
(* A LevelDB table: TableBuilder writes sorted entries into data blocks with *)
(* an index of separators and, where a filter policy is set, a filter block; *)
(* Table reads one key through them (table/table_builder.cc, table/table.cc, *)
(* table/filter_block.cc, util/comparator.cc, db/dbformat.cc).               *)
(*                                                                           *)
(* A data block is the sequence of its entries (Block has its bytes), and a  *)
(* filter the set of user keys it was created for.  Sizes are in units; a    *)
(* block's trailer is one.                                                   *)
EXTENDS Integers, FiniteSets, SequencesExt

CONSTANTS MaxByte,       \* the greatest byte, 0xff in the code
          Keys,          \* user keys
          MaxSeq,
          Sizes,         \* of entries
          BlockSize, FilterBase, Filtered,  \* options.block_size, kFilterBase, filter_policy
          MaxEntries,    \* bound: entries of a table
          None

VARIABLES rep,           \* TableBuilder::Rep
          filter,        \* FilterBlockBuilder
          file,          \* data blocks written: [offset, entries]
          footer         \* None, or the index that an opened table has

vars == <<rep, filter, file, footer>>

-----------------------------------------------------------------------------
(* Keys.                                                                     *)

LessUser(a, b) ==
    \/ Len(a) < Len(b) /\ a = SubSeq(b, 1, Len(a))
    \/ \E i \in 1..Len(a) : /\ i <= Len(b) /\ a[i] < b[i]
                            /\ SubSeq(a, 1, i - 1) = SubSeq(b, 1, i - 1)
Less(x, y) == LessUser(x.user, y.user) \/ (x.user = y.user /\ x.seq > y.seq)

\* BytewiseComparator: a short string in [a, b), a short string after a.
Separator(a, b) ==
    LET common == {n \in 0..Len(a) : n <= Len(b) /\ SubSeq(a, 1, n) = SubSeq(b, 1, n)}
        d == CHOOSE n \in common : \A j \in common : j <= n
    IN  IF d >= Len(a) \/ d >= Len(b) THEN a
        ELSE IF a[d + 1] < MaxByte /\ a[d + 1] + 1 < b[d + 1]
        THEN Append(SubSeq(a, 1, d), a[d + 1] + 1) ELSE a
Successor(a) ==
    LET up == {n \in 1..Len(a) : a[n] # MaxByte}
        n == CHOOSE n \in up : \A j \in up : n <= j
    IN  IF up = {} THEN a ELSE Append(SubSeq(a, 1, n - 1), a[n] + 1)

\* InternalKeyComparator takes one only if it is shorter and larger; the
\* earliest internal key of it has the greatest sequence number.
Shortened(x, user) ==
    IF Len(user) < Len(x.user) /\ LessUser(x.user, user)
    THEN [user |-> user, seq |-> MaxSeq + 1] ELSE x

FindShortestSeparator(x, y) == Shortened(x, Separator(x.user, y.user))
FindShortSuccessor(x) == Shortened(x, Successor(x.user))

-----------------------------------------------------------------------------
(* FilterBlockBuilder and FilterBlockReader: one filter for each FilterBase  *)
(* of file offset at which some block begins.                                *)

GenerateFilter(f) ==
    [offsets |-> Append(f.offsets, Len(f.result)), keys |-> {},
     result |-> IF f.keys = {} THEN f.result ELSE Append(f.result, f.keys)]

RECURSIVE StartBlock(_, _)
StartBlock(f, offset) ==
    IF offset \div FilterBase > Len(f.offsets) THEN StartBlock(GenerateFilter(f), offset) ELSE f

AddKey(f, x) == [f EXCEPT !.keys = @ \cup {x.user}]

FinishFilter(f) == IF f.keys = {} THEN f ELSE GenerateFilter(f)

\* The offset after the last filter's is that of the offset array.
KeyMayMatch(f, offset, user) ==
    LET i == offset \div FilterBase
        start == f.offsets[i + 1]
        limit == IF i + 2 <= Len(f.offsets) THEN f.offsets[i + 2] ELSE Len(f.result)
    IN  i < Len(f.offsets) => \E j \in (start + 1)..limit : user \in f.result[j]

-----------------------------------------------------------------------------
(* TableBuilder.                                                             *)

Init ==
    /\ rep = [data |-> <<>>, size |-> 0, index |-> <<>>, last |-> None, entries |-> 0,
              pending |-> None, offset |-> 0, closed |-> FALSE, ok |-> TRUE]
    /\ filter = StartBlock([offsets |-> <<>>, keys |-> {}, result |-> <<>>], 0)
    /\ file = <<>> /\ footer = None

\* WriteBlock: an append of the block may fail, or the flush of the file.
Written(r, outcome) ==
    [r EXCEPT !.data = <<>>, !.size = 0,
              !.offset = IF outcome = "append" THEN @ ELSE @ + r.size + 1,
              !.pending = IF outcome = "append" THEN @ ELSE r.offset,
              !.ok = (outcome = "written")]

Outcomes == {"written", "append", "flush"}

Flush(r, f, outcome) ==
    /\ rep' = Written(r, outcome)
    /\ file' = IF outcome = "append" THEN file
               ELSE Append(file, [offset |-> r.offset, entries |-> r.data])
    /\ filter' = StartBlock(f, rep'.offset)

Indexed(r, x) == [r EXCEPT !.index = Append(@, [key |-> x, offset |-> r.pending]), !.pending = None]

Add(x, size) ==
    LET before == IF rep.pending = None THEN rep
                  ELSE Indexed(rep, FindShortestSeparator(rep.last, x))
        r == [before EXCEPT !.data = Append(@, x), !.size = @ + size, !.last = x, !.entries = @ + 1]
        f == IF Filtered THEN AddKey(filter, x) ELSE filter IN
    /\ ~rep.closed /\ rep.ok /\ rep.entries < MaxEntries
    /\ rep.last # None => Less(rep.last, x)
    /\ IF r.size >= BlockSize
       THEN \E outcome \in Outcomes : Flush(r, f, outcome)
       ELSE rep' = r /\ filter' = f /\ UNCHANGED file
    /\ UNCHANGED footer

\* Finish flushes the last block ...
FinishFlushes ==
    /\ ~rep.closed /\ rep.ok /\ rep.data # <<>>
    /\ \E outcome \in Outcomes : Flush([rep EXCEPT !.closed = TRUE], filter, outcome)
    /\ UNCHANGED footer

\* ... and then writes the filter block, the metaindex, the index and the
\* footer, any of which may fail.
FinishWrites ==
    LET r == IF rep.pending = None THEN rep ELSE Indexed(rep, FindShortSuccessor(rep.last)) IN
    /\ rep.ok /\ rep.data = <<>> /\ footer = None
    /\ \/ /\ rep' = [r EXCEPT !.closed = TRUE]
          /\ footer' = r.index
          /\ filter' = FinishFilter(filter)
       \/ rep' = [rep EXCEPT !.closed = TRUE, !.ok = FALSE] /\ UNCHANGED <<filter, footer>>
    /\ UNCHANGED file

\* After an error the builder only can be closed: the file is removed.
Abandon ==
    /\ ~rep.closed
    /\ rep' = [rep EXCEPT !.closed = TRUE, !.ok = FALSE]
    /\ UNCHANGED <<filter, file, footer>>

Next ==
    \/ \E user \in Keys, seq \in 1..MaxSeq, size \in Sizes :
           Add([user |-> user, seq |-> seq], size)
    \/ FinishFlushes \/ FinishWrites \/ Abandon

Spec == Init /\ [][Next]_vars

-----------------------------------------------------------------------------
(* Table: reading what a footer makes readable.                              *)

IndexSeek(x) ==
    LET reach == {i \in DOMAIN footer : ~Less(footer[i].key, x)}
    IN  IF reach = {} THEN None ELSE footer[CHOOSE i \in reach : \A j \in reach : i <= j]

BlockReader(offset) ==
    file[CHOOSE n \in DOMAIN file : file[n].offset = offset].entries

\* The entry handed to the saver: the first at or after the target in the
\* one block that may hold it.
InternalGet(x) ==
    LET handle == IndexSeek(x)
        after == SelectSeq(BlockReader(handle.offset), LAMBDA y : ~Less(y, x))
    IN  IF handle = None THEN None
        ELSE IF Filtered /\ ~KeyMayMatch(filter, handle.offset, x.user) THEN None
        ELSE IF after = <<>> THEN None ELSE Head(after)

ApproximateOffsetOf(x) == IF IndexSeek(x) = None THEN rep.offset ELSE IndexSeek(x).offset

-----------------------------------------------------------------------------
AllEntries == UNION {ToSet(file[n].entries) : n \in DOMAIN file}
Lookups == [user : Keys, seq : 0..MaxSeq]

\* The state has its types, and the asserts of the builders hold: no filter
\* is generated past the offset reached.
TypeOK ==
    /\ rep.size \in Nat /\ rep.offset \in Nat /\ rep.closed \in BOOLEAN /\ rep.ok \in BOOLEAN
    /\ rep.data \in Seq([user : Keys, seq : 1..MaxSeq])
    /\ footer # None => rep.closed
    /\ rep.entries <= MaxEntries
    /\ footer = None => rep.offset \div FilterBase >= Len(filter.offsets)

\* The comment on pending_index_entry: it is set only while the data block is
\* empty, and then for a block that was written.
PendingOnlyWhenEmpty ==
    rep.pending # None =>
        rep.data = <<>> /\ file # <<>> /\ file[Len(file)].offset = rep.pending

\* The keys of the index separate the blocks, also where a user key has
\* entries in two of them.
IndexSeparates ==
    footer # None =>
        /\ Len(footer) = Len(file)
        /\ \A i \in DOMAIN footer :
            /\ footer[i].offset = file[i].offset
            /\ ~Less(footer[i].key, file[i].entries[Len(file[i].entries)])
            /\ i < Len(footer) => Less(footer[i].key, file[i + 1].entries[1])

\* A lookup finds the newest entry of its key at or before its sequence
\* number, if the table has one: no separator hides it and no filter denies it.
GetFindsNewest ==
    footer # None =>
        \A x \in Lookups :
            LET es == {e \in AllEntries : e.user = x.user /\ e.seq <= x.seq}
            IN  es # {} => InternalGet(x) = CHOOSE e \in es : \A o \in es : ~Less(o, e)

\* A table that Finish says is good holds every entry that was added.
GoodMeansWhole ==
    footer # None => Cardinality(AllEntries) = rep.entries

\* Later keys are never said to be at earlier offsets, so that the size
\* estimate of a range (DBImpl::GetApproximateSizes) is not negative.
OffsetsInOrder ==
    footer # None =>
        \A x, y \in Lookups : Less(x, y) => ApproximateOffsetOf(x) <= ApproximateOffsetOf(y)
=============================================================================
