------------------------------ MODULE MCReads -------------------------------
(* What a reader finds: small instances of Levels, DBIter, Block and Table.  *)
(* They share no variable, but for the two of Levels: `part` says which one  *)
(* a behaviour is of, the others stay in an initial state.                   *)
EXTENDS Levels, SequencesExt
CONSTANTS h1,    \* of Levels
          None
VARIABLES part,
          iterMem, table, iterMerge, snapshot, lastSeq, iter, badKey, pc, op, from, shown,
          entries, block, it, loop, lastOp, began,
          rep, filter, file, footer
iterVars == <<iterMem, table, iterMerge, snapshot, lastSeq, iter, badKey, pc, op, from, shown>>
blockVars == <<entries, block, it, loop, lastOp, began>>
tableVars == <<rep, filter, file, footer>>
readVars == <<part, vars, iterVars, blockVars, tableVars>>

\* Levels: besides the instance of the cfg, one for a program that calls
\* CompactRange and holds no snapshot; an output may end between the entries
\* of a key.  The properties say the same of both.
Ranges == INSTANCE Levels WITH
    CutWithinKey <- TRUE, Manual <- TRUE, InlineFlush <- FALSE
ASSUME RangesAssumption == Ranges!LevelsConstants

-----------------------------------------------------------------------------
(* DBIter: every history of three writes, the newest in the memtable, the    *)
(* others in one or two tables whose blocks have one entry each.             *)
ScanKeys == {2, 4}
History == 3
Entry(h, i) == [key |-> h[i][1], seq |-> i, type |-> h[i][2]]
EntryBefore(x, y) == x.key < y.key \/ (x.key = y.key /\ x.seq > y.seq)

\* A separator is the block's key, or shorter and beyond it when the next
\* block's user key leaves room.
TableOf(S, bad) ==
    LET s == SetToSortSeq(S, EntryBefore)
        sep(i) == IF i < Len(s) /\ s[i + 1].key > s[i].key + 1
                  THEN [key |-> s[i].key + 1, seq |-> 4] ELSE [key |-> s[i].key, seq |-> s[i].seq]
    IN  [block |-> [i \in DOMAIN s |-> {s[i]}],
         separator |-> [i \in DOMAIN s |-> sep(i)], bad |-> bad \cap DOMAIN s]

\* Writes up to d are in the older table, up to c in the newer; the second
\* write's key may be one that cannot be parsed.
Databases(badKeys, badBlocks, snapshots) ==
    LET damaged(S) == {[e EXCEPT !.type = IF e.seq \in badKeys THEN "bad" ELSE @] : e \in S} IN
    {[mem |-> {Entry(h, i) : i \in (c + 1)..History},
      table |-> SelectSeq(<<TableOf(damaged({Entry(h, i) : i \in (d + 1)..c}), b),
                            TableOf(damaged({Entry(h, i) : i \in 1..d}), b)>>,
                          LAMBDA tb : tb.block # <<>>),
      snapshot |-> s, last |-> History] :
        h \in [1..History -> ScanKeys \X {"value", "deletion"}],
        <<d, c>> \in {p \in (0..History) \X (0..History) : p[1] <= p[2]},
        s \in snapshots, b \in SUBSET badBlocks}

Whole == INSTANCE DBIter WITH
    Keys <- ScanKeys, MaxSeq <- 4, Starts <- Databases({}, {}, {2, 3}), mem <- iterMem, merge <- iterMerge
Broken == INSTANCE DBIter WITH
    Keys <- ScanKeys, MaxSeq <- 4, Starts <- Databases({2}, {1, 2}, {3}), mem <- iterMem, merge <- iterMerge
NoReader == INSTANCE DBIter WITH
    Keys <- ScanKeys, MaxSeq <- 4, Starts <- {[mem |-> {}, table |-> <<>>, snapshot |-> 3, last |-> 3]},
    mem <- iterMem, merge <- iterMerge

-----------------------------------------------------------------------------
(* Block: every set of a few keys of up to two bytes, undamaged, and with    *)
(* every single damage.                                                      *)
Strings(min) == UNION {[1..n -> {0, 3}] : n \in min..2}
LessString(a, b) == \/ Len(a) < Len(b) /\ a = SubSeq(b, 1, Len(a))
                    \/ \E i \in 1..Len(a) : /\ i <= Len(b) /\ a[i] < b[i]
                                            /\ SubSeq(a, 1, i - 1) = SubSeq(b, 1, i - 1)
Contents(min, most) ==
    {LET keys == SetToSortSeq(S, LessString)
     IN  [n \in DOMAIN keys |-> [key |-> keys[n], value |-> [i \in 1..(n % 2) |-> n]]] :
        S \in {S \in SUBSET Strings(min) : Cardinality(S) \in 1..most}}

Written == INSTANCE Block WITH
    Base <- 2, Inputs <- Contents(0, 4), Intervals <- {1, 2, 3}, Targets <- Strings(0),
    Damages <- {None}, pc <- loop, op <- lastOp, from <- began
Damaged == INSTANCE Block WITH
    Base <- 2, Inputs <- Contents(1, 3), Intervals <- {1, 2}, Targets <- Strings(1),
    Damages <- [at : 1..18, to : 0..3], pc <- loop, op <- lastOp, from <- began
NoBlock == INSTANCE Block WITH
    Base <- 2, Inputs <- {<<[key |-> <<>>, value |-> <<>>]>>}, Intervals <- {1}, Targets <- {},
    Damages <- {None}, pc <- loop, op <- lastOp, from <- began

\* Table: user keys of up to two of three bytes.
OneTable == INSTANCE Table WITH
    MaxByte <- 2, Keys <- {<<>>, <<0>>, <<0, 1>>, <<1, 2>>, <<2, 2>>}, MaxSeq <- 2,
    Sizes <- {1, 4}, BlockSize <- 2, FilterBase <- 2, Filtered <- TRUE, MaxEntries <- 4
-----------------------------------------------------------------------------
ReadInit ==
    /\ part \in {"levels", "ranges", "snapshot", "errors", "written", "damaged", "table"}
    /\ CASE part = "snapshot" -> Whole!Init [] part = "errors" -> Broken!Init [] OTHER -> NoReader!Init
    /\ CASE part = "written" -> Written!Init [] part = "damaged" -> Damaged!Init [] OTHER -> NoBlock!Init
    /\ OneTable!Init /\ Init
ReadNext ==
    /\ UNCHANGED part
    /\ \/ part = "levels" /\ Next /\ UNCHANGED <<iterVars, blockVars, tableVars>>
       \/ part = "ranges" /\ Ranges!Next /\ held' = held /\ UNCHANGED <<iterVars, blockVars, tableVars>>
       \/ part = "snapshot" /\ Whole!Moves /\ UNCHANGED <<vars, blockVars, tableVars>>
       \/ part = "errors" /\ Broken!Moves /\ UNCHANGED <<vars, blockVars, tableVars>>
       \/ part = "written" /\ Written!Moves /\ UNCHANGED <<vars, iterVars, tableVars>>
       \/ part = "damaged" /\ Damaged!Moves /\ UNCHANGED <<vars, iterVars, tableVars>>
       \/ part = "table" /\ OneTable!Next /\ UNCHANGED <<vars, iterVars, blockVars>>
ReadSpec == ReadInit /\ [][ReadNext]_readVars

-----------------------------------------------------------------------------
(* The iterator is a cursor over its snapshot: each operation lands on the   *)
(* key, with the value, that the snapshot says, whatever was written since   *)
(* and in whatever direction it moved before (DBIter).                       *)
ReadsSnapshot ==
    /\ part = "snapshot" => Whole!SnapshotCursor!Init
    /\ [][part = "snapshot" => [Whole!SnapshotCursor!Next]_(Whole!SnapshotCursor!vars)]_readVars

(* The merged iterator skips no entry when the direction changes and stands  *)
(* where DBIter::Direction says; over a damaged database no answer is wrong  *)
(* as long as the status is ok (MergingIterator, TwoLevelIterator).          *)
ReadsTruthful ==
    /\ part = "snapshot" => /\ Whole!TypeOK /\ Whole!NoneSkipped
                            /\ Whole!PositionedAsDocumented /\ Whole!TruthfulOrError
    /\ part = "errors" => Broken!TypeOK /\ Broken!TruthfulOrError

(* A block's iterator lands on the entry it should, over a damaged block it  *)
(* does not move the wrong way; a table that Finish calls good is whole, its *)
(* index separates its blocks, and a lookup finds the newest entry of its    *)
(* key (Block::Iter, TableBuilder, Table::InternalGet).                      *)
LookupsFind ==
    /\ part = "written" => Written!TypeOK /\ Written!LandsOnEntry
    /\ part = "damaged" => Damaged!TypeOK /\ Damaged!MovesTheRightWay
    /\ part = "table" => /\ OneTable!TypeOK /\ OneTable!PendingOnlyWhenEmpty
                         /\ OneTable!IndexSeparates /\ OneTable!GetFindsNewest
                         /\ OneTable!GoodMeansWhole /\ OneTable!OffsetsInOrder
=============================================================================
