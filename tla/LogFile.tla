------------------------------ MODULE LogFile ------------------------------
(* The write-ahead log of LevelDB (db/log_writer.cc, db/log_reader.cc): how  *)
(* a record is cut into fragments that fit in blocks, what a crash or a      *)
(* failed append leaves in the file, and what a reader makes of it.          *)
(*                                                                           *)
(* A file is a sequence of cells, one per byte.  A cell of a fragment names  *)
(* the fragment and its position in it, so a checksum that matches is a run  *)
(* of all the cells of one fragment.                                         *)
EXTENDS Integers, Sequences, FiniteSets, SequencesExt

CONSTANTS BlockSize, HeaderSize,   \* kBlockSize, kHeaderSize
          Lengths,                 \* lengths of records
          MaxRecords,              \* bound: records added
          Failures,                \* an append may fail
          Reuse                    \* Options::reuse_logs

LogConstants ==
    /\ HeaderSize \in Nat \ {0} /\ BlockSize \in Nat /\ HeaderSize < BlockSize
    /\ Lengths \subseteq Nat /\ MaxRecords \in Nat
    /\ {Failures, Reuse} \subseteq BOOLEAN

VARIABLES file,          \* what the file holds
          synced,        \* how much of it the disk has for certain
          open,          \* a Writer is using it
          blockOffset,   \* Writer::block_offset_
          adding,        \* the record AddRecord is writing, or None
          lengths,       \* the length of every record ever added
          promised,      \* records acknowledged and not excused by a crash
          durable        \* those of them acknowledged before the last Sync

vars == <<file, synced, open, blockOffset, adding, lengths, promised, durable>>

None == [rec |-> 0, from |-> 0]
Zero == <<[rec |-> 0, from |-> 0, len |-> 0, first |-> FALSE, last |-> FALSE], 0>>  \* a cell of a trailer

Init ==
    /\ file = <<>> /\ synced = 0 /\ open = TRUE /\ blockOffset = 0
    /\ adding = None /\ lengths = <<>>
    /\ promised = <<>> /\ durable = <<>>

-----------------------------------------------------------------------------
(* Writing. *)

AddRecord ==
    /\ open /\ adding = None /\ Len(lengths) < MaxRecords
    /\ \E n \in Lengths : lengths' = Append(lengths, n)
    /\ adding' = [rec |-> Len(lengths) + 1, from |-> 0]
    /\ UNCHANGED <<file, synced, open, blockOffset, promised, durable>>

\* What the next step of AddRecord appends: a trailer if the block is at its
\* end, then a fragment of the record.
Leftover == BlockSize - blockOffset
Start == IF Leftover < HeaderSize THEN 0 ELSE blockOffset
Trailer == [i \in 1..(IF Leftover < HeaderSize THEN Leftover ELSE 0) |-> Zero]
\* Fault: the last fragment is decided without room for the header.
FragmentForgetsHeader ==
    LET left == lengths[adding.rec] - adding.from
        avail == BlockSize - Start - HeaderSize
        n == IF left < avail THEN left ELSE avail
    IN  [rec |-> adding.rec, from |-> adding.from, len |-> n,
         first |-> adding.from = 0, last |-> left <= BlockSize - Start]
Fragment ==
    LET left == lengths[adding.rec] - adding.from
        avail == BlockSize - Start - HeaderSize
        n == IF left < avail THEN left ELSE avail
    IN  [rec |-> adding.rec, from |-> adding.from, len |-> n,
         first |-> adding.from = 0, last |-> n = left]
Cells(f) == [i \in 1..(HeaderSize + f.len) |-> <<f, i>>]

EmitPhysicalRecord ==
    /\ adding # None
    /\ \E trailer \in (IF Failures THEN Prefixes(Trailer) ELSE {Trailer}) :
           file' = file \o trailer \o Cells(Fragment)
    /\ blockOffset' = Start + HeaderSize + Fragment.len
    /\ IF Fragment.last
       THEN adding' = None /\ promised' = Append(promised, adding.rec)
       ELSE adding' = [adding EXCEPT !.from = @ + Fragment.len] /\ UNCHANGED promised
    /\ UNCHANGED <<synced, open, lengths, durable>>

\* AddRecord returns the error; block_offset_ is advanced all the same.
EmitFails ==
    /\ Failures /\ adding # None
    /\ \E trailer \in Prefixes(Trailer), cells \in Prefixes(Cells(Fragment)) :
           file' = file \o trailer \o cells
    /\ blockOffset' = Start + HeaderSize + Fragment.len
    /\ adding' = None
    /\ UNCHANGED <<synced, open, lengths, promised, durable>>

Sync ==
    /\ open /\ adding = None
    /\ synced' = Len(file) /\ durable' = promised
    /\ UNCHANGED <<file, open, blockOffset, adding, lengths, promised>>

-----------------------------------------------------------------------------
(* Crashes. *)

\* The process ends, at worst in the middle of an append.
ProcessCrash ==
    /\ open
    /\ \E tail \in (IF adding = None THEN {<<>>} ELSE Prefixes(Trailer \o Cells(Fragment))) :
           file' = file \o tail
    /\ UNCHANGED <<synced, promised, durable>>

\* The machine stops: what was not synced may be lost, from some byte on.
MachineCrash ==
    /\ open
    /\ \E n \in synced..Len(file) : file' = SubSeq(file, 1, n) /\ synced' = n
    /\ promised' = durable
    /\ UNCHANGED durable

Crash ==
    /\ ProcessCrash \/ MachineCrash
    /\ open' = FALSE /\ adding' = None
    /\ UNCHANGED <<blockOffset, lengths>>

\* The records read go to the store, and a new log is begun; or, with
\* reuse_logs, the writer goes on where the file ends.
Reopen ==
    /\ ~open /\ open' = TRUE
    /\ IF Reuse
       THEN /\ blockOffset' = Len(file) % BlockSize
            /\ UNCHANGED <<file, synced, promised, durable>>
       ELSE /\ file' = <<>> /\ synced' = 0 /\ blockOffset' = 0
            /\ promised' = <<>> /\ durable' = <<>>
    /\ UNCHANGED <<adding, lengths>>

Next == AddRecord \/ EmitPhysicalRecord \/ EmitFails \/ Sync \/ Crash \/ Reopen
Spec == Init /\ [][Next]_vars

-----------------------------------------------------------------------------
(* Reading: physical records, then records.                                  *)

Eof == [kind |-> "eof"]
Bad(loud) == [kind |-> "bad", loud |-> loud]     \* kBadRecord, reported or not
Piece(f) == [kind |-> "piece", frag |-> f]

\* The cells from offset o are those of one fragment, the first n of them.
IsRun(o, n) == /\ file[o + 1] # Zero
               /\ \A i \in 1..n : file[o + i] = <<file[o + 1][1], i>>

(* ReadPhysicalRecord at every offset of the file, read from that offset on. *)
(* A record that is not intact drops the rest of its block, and ends the     *)
(* file in its last block.                                                   *)
Physical(initial) ==
    LET Events[o \in 0..Len(file)] ==
        LET block == o - (o % BlockSize) + BlockSize      \* end of the block
            eof == Len(file) < block
            end == IF eof THEN Len(file) ELSE block
            drop == IF eof THEN <<Eof>> ELSE Events[end]
        IN  IF end - o < HeaderSize THEN drop
            ELSE IF \A i \in 1..HeaderSize : file[o + i] = Zero THEN <<Bad(FALSE)>> \o drop
            ELSE IF ~IsRun(o, HeaderSize) THEN <<Bad(o >= initial)>> \o drop
            ELSE LET size == HeaderSize + file[o + 1][1].len
                 IN  IF size > end - o
                     THEN IF eof THEN <<Eof>> ELSE <<Bad(o >= initial)>> \o drop
                     ELSE IF ~IsRun(o, size) THEN <<Bad(o >= initial)>> \o drop
                     ELSE <<IF o < initial THEN Bad(FALSE) ELSE Piece(file[o + 1][1])>>
                              \o Events[o + size]
        inBlock == initial % BlockSize
        begin == initial - inBlock + (IF inBlock > BlockSize - (HeaderSize - 1)
                                      THEN BlockSize ELSE 0)
    IN  IF begin > Len(file) THEN <<Eof>> ELSE Events[begin]

(* ReadRecord, physical record by physical record, until it returns false:   *)
(* the records, each as the sequence of its fragments, and the drops it told *)
(* its reporter of.                                                          *)
ReaderAt(initial) == [out |-> <<>>, scratch |-> <<>>, inside |-> FALSE,
                      resyncing |-> initial > 0, drops |-> 0]
Bytes(frags) == FoldLeft(LAMBDA n, f : n + f.len, 0, frags)
Report(r, told) == [r EXCEPT !.drops = @ + (IF told THEN 1 ELSE 0)]
NoScratch(r) == [r EXCEPT !.scratch = <<>>, !.inside = FALSE]
PartialRecord(r) == Report(r, r.inside /\ Bytes(r.scratch) > 0)
Return(r, frags) == [NoScratch(r) EXCEPT !.out = Append(@, frags)]

ReadPiece(r, f) ==
    CASE f.first /\ f.last -> Return(PartialRecord(r), <<f>>)
      [] f.first /\ ~f.last -> [PartialRecord(r) EXCEPT !.scratch = <<f>>, !.inside = TRUE]
      [] ~f.first /\ ~r.inside -> Report(r, TRUE)
      [] ~f.first /\ r.inside /\ f.last -> Return(r, Append(r.scratch, f))
      [] OTHER -> [r EXCEPT !.scratch = Append(@, f)]

Skipped(r, e) == r.resyncing /\ e.kind = "piece" /\ ~e.frag.first
ReadEvent(r, e) ==
    IF Skipped(r, e) THEN [r EXCEPT !.resyncing = ~e.frag.last]
    ELSE LET q == [r EXCEPT !.resyncing = FALSE]
         IN  CASE e.kind = "piece" -> ReadPiece(q, e.frag)
               [] e.kind = "bad" -> NoScratch(Report(Report(q, e.loud), r.inside))
               [] OTHER -> NoScratch(q)

ReadRecords(initial) == FoldLeft(ReadEvent, ReaderAt(initial), Physical(initial))

-----------------------------------------------------------------------------
(* Properties. *)

(* Every promised record is one that was added, none is promised twice, and  *)
(* no writer has a block offset outside a block.                             *)
TypeOK ==
    /\ \A i \in DOMAIN file : file[i] = Zero \/ file[i][1].rec \in DOMAIN lengths
    /\ synced \in 0..Len(file)
    /\ blockOffset \in 0..BlockSize
    /\ adding # None => open /\ adding.from <= lengths[adding.rec]
    /\ \A i, j \in DOMAIN promised : i < j => promised[i] < promised[j]
    /\ IsPrefix(durable, promised)

(* A record read back is one that was added, whole: the reader never joins   *)
(* the beginning of one to the end of another, nor returns part of one,      *)
(* whatever an append that failed or a crash left in the file.               *)
Whole(frags) ==
    /\ frags[1].first /\ frags[Len(frags)].last
    /\ \A i \in DOMAIN frags : frags[i].rec = frags[1].rec
    /\ \A i \in 1..(Len(frags) - 1) : frags[i + 1].from = frags[i].from + frags[i].len
    /\ Bytes(frags) = lengths[frags[1].rec]
WholeRecords ==
    LET out == ReadRecords(0).out
    IN  /\ \A i \in DOMAIN out : Whole(out[i])
        /\ \A i, j \in DOMAIN out : i < j => out[i][1].rec < out[j][1].rec

(* The records acknowledged before the process crashed, and those synced     *)
(* before the machine did, are read back: what WriteOptions::sync says of    *)
(* both (include/leveldb/options.h:193).                                     *)
PromisesKept ==
    LET out == ReadRecords(0).out
    IN  \A i \in DOMAIN promised : \E j \in DOMAIN out : out[j][1].rec = promised[i]

(* A crash alone never makes the reader report a corruption: a record the    *)
(* writer was in the middle of is taken for the end of the file              *)
(* (log_reader.cc:154 and 240).                                              *)
CrashIsNoCorruption == ReadRecords(0).drops = 0

(* A reader that begins in the middle of a log finds the records that begin  *)
(* there or later, and only those.                                           *)
BeginsAt(o, rec) == file[o + 1] # Zero /\ file[o + 1][2] = 1 /\ file[o + 1][1].first
                    /\ file[o + 1][1].rec = rec
SkipsToOffset ==
    \A initial \in 1..Len(file) :
        ReadRecords(initial).out =
            SelectSeq(ReadRecords(0).out, LAMBDA frags :
                \E o \in initial..(Len(file) - 1) : BeginsAt(o, frags[1].rec))

=============================================================================
