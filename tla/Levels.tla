------------------------------- MODULE Levels -------------------------------
(* The levelled store of LevelDB (db/version_set.cc, and the compaction of   *)
(* db/db_impl.cc): where each entry is kept, how a flush chooses its level,  *)
(* how a compaction chooses its inputs, which entries it drops, and what a   *)
(* Get finds at the latest sequence number or at a snapshot.                 *)
(*                                                                           *)
(* An entry is its sequence number; writes[s] holds its user key and whether *)
(* it is a deletion, and s stands for its value.  A table file is the set of *)
(* its entries.  File sizes are left open: a threshold on bytes is a choice. *)
EXTENDS Integers, Sequences, FiniteSets, FiniteSetsExt

CONSTANTS Keys,         \* user keys, integers in comparator order
          Handles,      \* snapshots a program may hold
          NumLevels,    \* config::kNumLevels
          MaxMemLevel,  \* config::kMaxMemCompactLevel
          MaxWrites,    \* bound: entries written
          CutWithinKey, \* an output file may end between two entries of a user key
          Manual,       \* CompactRange is called
          InlineFlush   \* imm_ may become non-NULL while a compaction is merging

LevelsConstants ==
    /\ Keys \subseteq Nat /\ Keys # {}
    /\ NumLevels \in Nat \ {0, 1} /\ MaxMemLevel \in 0..(NumLevels - 1)
    /\ MaxWrites \in Nat
    /\ {CutWithinKey, Manual, InlineFlush} \subseteq BOOLEAN
ASSUME LevelsAssumption == LevelsConstants

VARIABLES writes,   \* every entry ever written, in sequence order
          mem,      \* entries of mem_
          imm,      \* entries of imm_; {} when it is NULL
          files,    \* current_->files_[level]
          held,     \* snapshots_: the sequence number each handle holds, or NoNumber
          merge     \* the compaction being merged, or Idle

vars == <<writes, mem, imm, files, held, merge>>

NoNumber == -1
Idle == [level |-> NoNumber, in0 |-> {}, in1 |-> {}, base |-> {}, snap |-> NoNumber]
Levels == 0..(NumLevels - 1)
LastSequence == Len(writes)
Absent == 0

Init ==
    /\ writes = <<>> /\ mem = {} /\ imm = {}
    /\ files = [l \in Levels |-> {}]
    /\ held = [h \in Handles |-> NoNumber]
    /\ merge = Idle

-----------------------------------------------------------------------------
(* Orders and ranges. *)

Key(s) == writes[s].key
IKey(k, s) == k * (MaxWrites + 1) - s    \* user key ascending, sequence descending
UserKey(ikey) == (ikey + MaxWrites) \div (MaxWrites + 1)

\* FileMetaData of the table with these entries.
File(entries) ==
    LET ikeys == {IKey(Key(s), s) : s \in entries}
    IN  [entries |-> entries, smallest |-> Min(ikeys), largest |-> Max(ikeys)]
UserKeys(fs) == {UserKey(f.smallest) : f \in fs} \cup {UserKey(f.largest) : f \in fs}
Span(fs) == Min(UserKeys(fs))..Max(UserKeys(fs))    \* VersionSet::GetRange
InSpan(k, f) == UserKey(f.smallest) <= k /\ k <= UserKey(f.largest)
Overlaps(f, r) == \E k \in r : InSpan(k, f)

(* Level 0 files may overlap each other, so a file found may widen the range *)
(* and restart the search: the result is the files of the least range that   *)
(* contains r and every file it meets.                                       *)
GetOverlappingInputs(l, r) ==
    LET ov(q) == {f \in files[l] : Overlaps(f, q)}
        wider == {q \in {a..b : a, b \in r \cup UserKeys(files[0])} :
                      r \subseteq q /\ \A f \in ov(q) : Span({f}) \subseteq q}
    IN  IF l > 0 THEN ov(r)
        ELSE {f \in files[0] : \A q \in wider : Overlaps(f, q)}

-----------------------------------------------------------------------------
(* Reading. *)

\* The first file of a sorted level whose largest key is not before ikey.
FindFile(l, ikey) ==
    {f \in files[l] : /\ f.largest >= ikey
                      /\ \A g \in files[l] : g.largest >= ikey => f.largest <= g.largest}

Visible(entries, k, snap) == {s \in entries : Key(s) = k /\ s <= snap}

\* Level 0 files are numbered, and searched, in the order of their flushes.
Newer(f, g) == Max(f.entries) > Max(g.entries)
NewestHit(k, snap) ==
    {f \in files[0] : /\ InSpan(k, f) /\ Visible(f.entries, k, snap) # {}
                      /\ \A g \in files[0] : Newer(g, f) /\ InSpan(k, g)
                             => Visible(g.entries, k, snap) = {}}

\* What a lookup sees at each place it looks: mem_, imm_, the levels in order.
Mem == -2
Imm == -1
Seen(place, k, snap) ==
    CASE place = Mem -> Visible(mem, k, snap)
      [] place = Imm -> Visible(imm, k, snap)
      [] place = 0 -> UNION {Visible(f.entries, k, snap) : f \in NewestHit(k, snap)}
      [] OTHER -> UNION {Visible(f.entries, k, snap) :
                            f \in {g \in FindFile(place, IKey(k, snap)) : InSpan(k, g)}}

\* The entry a lookup stops at; NoNumber when nothing is found.
Found(k, snap) ==
    IF \A p \in Mem..(NumLevels - 1) : Seen(p, k, snap) = {} THEN NoNumber
    ELSE LET stop == CHOOSE p \in Mem..(NumLevels - 1) :
                        /\ Seen(p, k, snap) # {}
                        /\ \A q \in Mem..(p - 1) : Seen(q, k, snap) = {}
         IN  CHOOSE s \in Seen(stop, k, snap) : \A t \in (s + 1)..snap : t \notin Seen(stop, k, snap)

Value(s) == IF s = NoNumber THEN Absent ELSE IF writes[s].del THEN Absent ELSE s
Get(k, snap) == Value(Found(k, snap))

-----------------------------------------------------------------------------
(* Writing, snapshots, memtables. *)

Write ==
    /\ LastSequence < MaxWrites
    /\ \E k \in Keys, d \in BOOLEAN : writes' = Append(writes, [key |-> k, del |-> d])
    /\ mem' = mem \cup {LastSequence + 1}
    /\ UNCHANGED <<imm, files, held, merge>>

GetOrReleaseSnapshot(h) ==
    /\ held' = [held EXCEPT ![h] = IF @ = NoNumber THEN LastSequence ELSE NoNumber]
    /\ UNCHANGED <<writes, mem, imm, files, merge>>

SwitchMemTable ==
    /\ imm = {} /\ mem # {}
    /\ merge = Idle \/ InlineFlush
    /\ imm' = mem /\ mem' = {}
    /\ UNCHANGED <<writes, files, held, merge>>

(* The database is closed or crashes, and is opened again: each log becomes  *)
(* a level 0 table (RecoverLogFile).  What a crash loses is in LogFile.      *)
Reopen ==
    /\ files' = [files EXCEPT ![0] = @ \cup {File(m) : m \in {mem, imm} \ {{}}}]
    /\ mem' = {} /\ imm' = {}
    /\ held' = [h \in Handles |-> NoNumber]
    /\ merge' = Idle
    /\ UNCHANGED writes

OverlapInLevel(l, r) == GetOverlappingInputs(l, r) # {}
HasGrandparents(l, r) == l + 2 < NumLevels /\ OverlapInLevel(l + 2, r)

(* As deep as MaxMemLevel while the file meets none below it; it may stop    *)
(* earlier over a level whose files below would be too much to merge with.   *)
PickLevelForMemTableOutput(r) ==
    IF OverlapInLevel(0, r) THEN {0}
    ELSE {l \in 0..MaxMemLevel :
            /\ \A m \in 1..l : ~OverlapInLevel(m, r)
            /\ \/ l = MaxMemLevel
               \/ OverlapInLevel(l + 1, r)
               \/ HasGrandparents(l, r)}

\* Also run by a compaction that finds imm_ set between two entries.
CompactMemTable ==
    /\ imm # {}
    /\ \E l \in PickLevelForMemTableOutput(Span({File(imm)})) :
           files' = [files EXCEPT ![l] = @ \cup {File(imm)}]
    /\ imm' = {}
    /\ UNCHANGED <<writes, mem, held, merge>>

-----------------------------------------------------------------------------
(* Compactions. *)

\* Any file may be the one whose level is too big, or that had too many seeks.
PickCompaction(l) ==
    {IF l = 0 THEN GetOverlappingInputs(0, Span({f})) ELSE {f} : f \in files[l]}

\* A level above 0 is cut to the first files whose size reaches the limit.
CompactRange(l, r) ==
    LET inputs == GetOverlappingInputs(l, r)
    IN  IF l = 0 THEN {inputs} \ {{}}
        ELSE {{f \in inputs : f.largest <= last.largest} : last \in inputs}

\* The inputs of both levels; more of level l is taken when that adds none of
\* level l + 1 and the total size allows it.
SetupOtherInputs(l, in0) ==
    LET in1 == GetOverlappingInputs(l + 1, Span(in0))
        expanded0 == GetOverlappingInputs(l, Span(in0 \cup in1))
        expanded1 == GetOverlappingInputs(l + 1, Span(expanded0))
        grows == /\ in1 # {}
                 /\ Cardinality(expanded0) > Cardinality(in0)
                 /\ Cardinality(expanded1) = Cardinality(in1)
    IN  {<<in0, in1>>} \cup (IF grows THEN {<<expanded0, expanded1>>} ELSE {})

Deeper(l) == UNION {files[m] : m \in (l + 2)..(NumLevels - 1)}
IsTrivialMove(in) == Cardinality(in[1]) = 1 /\ in[2] = {}
SmallestSnapshot == Min({LastSequence} \cup {held[h] : h \in {g \in Handles : held[g] # NoNumber}})

\* The version without the inputs of a compaction and with its outputs.
Applied(l, in0, in1, outputs) ==
    [files EXCEPT ![l] = @ \ in0, ![l + 1] = (@ \ in1) \cup outputs]

MoveTrivially(l) ==
    /\ merge = Idle /\ imm = {}
    /\ \E in0 \in PickCompaction(l) : \E in \in SetupOtherInputs(l, in0) :
           /\ IsTrivialMove(in)
           /\ files' = Applied(l, in[1], {}, in[1])
    /\ UNCHANGED <<writes, mem, imm, held, merge>>

CompactionBegin(l) ==
    /\ merge = Idle /\ imm = {}
    /\ \E r \in {a..b : a, b \in Keys} \ {{}}, byRange \in BOOLEAN :
       \E in0 \in (IF byRange THEN CompactRange(l, r) ELSE PickCompaction(l)) :
       \E in \in SetupOtherInputs(l, in0) :
           /\ byRange => Manual
           /\ ~byRange /\ IsTrivialMove(in) => HasGrandparents(l, Span(in[1]))
           /\ merge' = [level |-> l, in0 |-> in[1], in1 |-> in[2],
                        base |-> Deeper(l), snap |-> SmallestSnapshot]
    /\ UNCHANGED <<writes, mem, imm, files, held>>

Merged == UNION {f.entries : f \in merge.in0 \cup merge.in1}
NewerMerged(s) == {t \in Merged : Key(t) = Key(s) /\ t > s}
\* Fault: the levels below the output level are not looked at.
AlwaysBaseLevel(k) == k \in Keys

IsBaseLevelForKey(k) == \A f \in merge.base : ~InSpan(k, f)

\* Fault: an entry with a newer one of its key is dropped, snapshots or not.
DroppedWhenOlder(s) ==
    \/ NewerMerged(s) # {}
    \/ writes[s].del /\ s <= merge.snap /\ IsBaseLevelForKey(Key(s))

\* Hidden from the oldest snapshot by a newer entry of its key, or a deletion
\* that has nothing left to delete.
Dropped(s) ==
    \/ NewerMerged(s) # {} /\ Min(NewerMerged(s)) <= merge.snap
    \/ writes[s].del /\ s <= merge.snap /\ IsBaseLevelForKey(Key(s))

Kept == {s \in Merged : ~Dropped(s)}
CutPoints ==
    IF CutWithinKey THEN Kept
    ELSE {s \in Kept : \A t \in Kept : Key(t) = Key(s) => t <= s}

\* The output files when a new one is begun at each entry of cuts.
Outputs(cuts) ==
    LET number(s) == Cardinality({c \in cuts : IKey(Key(c), c) <= IKey(Key(s), s)})
    IN  {File({t \in Kept : number(t) = number(s)}) : s \in Kept}

DoCompactionWork ==
    /\ merge # Idle
    /\ \E cuts \in SUBSET CutPoints :
           files' = Applied(merge.level, merge.in0, merge.in1, Outputs(cuts))
    /\ merge' = Idle
    /\ UNCHANGED <<writes, mem, imm, held>>

\* An error, or the database is being closed: the version stays as it is.
CompactionFails ==
    /\ merge # Idle
    /\ merge' = Idle
    /\ UNCHANGED <<writes, mem, imm, files, held>>

Compaction ==
    \/ \E l \in 0..(NumLevels - 2) : MoveTrivially(l) \/ CompactionBegin(l)
    \/ DoCompactionWork \/ CompactionFails

Next ==
    \/ Write
    \/ \E h \in Handles : GetOrReleaseSnapshot(h)
    \/ SwitchMemTable
    \/ CompactMemTable
    \/ Reopen
    \/ Compaction

Spec == Init /\ [][Next]_vars

-----------------------------------------------------------------------------
(* Properties. *)

(* Every entry is a written one, and the tables of a level hold each entry   *)
(* of the store once.                                                        *)
TypeOK ==
    /\ writes \in Seq([key : Keys, del : BOOLEAN])
    /\ mem \cup imm \subseteq 1..LastSequence
    /\ \A l \in Levels : \A f \in files[l] :
           f.entries \in (SUBSET (1..LastSequence)) \ {{}} /\ f = File(f.entries)
    /\ held \in [Handles -> (0..LastSequence) \cup {NoNumber}]
    /\ merge # Idle => /\ merge.in0 \subseteq files[merge.level] /\ merge.in0 # {}
                       /\ merge.in1 \subseteq files[merge.level + 1]
                       /\ merge.snap \in 0..LastSequence

(* The files of a level above 0 do not overlap: what SaveTo and MaybeAddFile *)
(* assert of every version (version_set.cc:742 and 765), whatever was        *)
(* flushed while the compaction that made the files was running.             *)
LevelsDisjoint ==
    \A l \in Levels \ {0} : \A f, g \in files[l] :
        f # g => f.largest < g.smallest \/ g.largest < f.smallest

(* Where a shallower place has an entry of a user key, deeper ones have only *)
(* older entries of it: what Version::Get relies on when it stops at the     *)
(* first level with an entry (version_set.cc:346), and the comment (2) of    *)
(* DoCompactionWork when it drops a deletion.                                *)
Places == {<<Mem, mem>>, <<Imm, imm>>}
              \cup UNION {{<<l, f.entries>> : f \in files[l]} : l \in Levels}
Before(p, q) == \/ p[1] < q[1]
                \/ p[1] = 0 /\ q[1] = 0 /\ Max(p[2]) > Max(q[2])
EntriesNeverHop ==
    \A p, q \in Places : Before(p, q) =>
        \A s \in p[2], t \in q[2] : Key(s) = Key(t) => s > t

(* The store is the map it seems to be: a flush, a compaction, a move change *)
(* nothing a Get returns, at the latest sequence number or at any snapshot   *)
(* still held, however they interleave with writes and with each other.      *)
Store == INSTANCE SnapshotStore WITH
    Values <- 1..MaxWrites,
    current <- [k \in Keys |-> Get(k, LastSequence)],
    frozen <- [h \in Handles |-> [k \in Keys |->
                  IF held[h] = NoNumber THEN Absent ELSE Get(k, held[h])]]
ImplementsStore == Store!Spec

(* A compaction loses nothing a snapshot may ask for and adds nothing: the   *)
(* newest entry a held snapshot can see of each key stays somewhere, unless  *)
(* it is a deletion.                                                         *)
Stored == mem \cup imm \cup UNION {f.entries : f \in UNION {files[l] : l \in Levels}}
VisibleStays ==
    \A snap \in {LastSequence} \cup {held[h] : h \in Handles} : \A k \in Keys :
        LET all == Visible(1..LastSequence, k, snap)
        IN  all # {} => Max(all) \in Stored \/ writes[Max(all)].del

(* What Get, and every later flush and compaction, may rely on, whatever was *)
(* flushed while a compaction merged and whatever CompactRange cut off.      *)
LevelsSafe == TypeOK /\ LevelsDisjoint /\ EntriesNeverHop /\ VisibleStays
=============================================================================
