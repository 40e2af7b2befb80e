------------------------------- MODULE Repair -------------------------------
(* RepairDB (db/repair.cc): a database is rebuilt from the log files and the *)
(* tables found in its directory, whatever they are: the program may have    *)
(* ended in the middle of a flush or of a compaction, before it removed what *)
(* it no longer needed, and files may be damaged.  The first actions are the *)
(* database's (db/db_impl.cc, more of them in Levels): they make the         *)
(* directories that a repair can find.                                       *)
EXTENDS Integers, FiniteSets, FiniteSetsExt

CONSTANTS Keys,           \* user keys, naturals
          MaxWrites,      \* bound: entries written
          MaxNumber,      \* bound: file numbers the database uses
          Damages,        \* how many files may be damaged
          Crashes,        \* how many times a repair may be stopped
          BuildFails      \* may a table not be written?

RepairAssumption ==
    Keys \subseteq Nat /\ {MaxWrites, MaxNumber, Damages, Crashes} \subseteq Nat /\ BuildFails \in BOOLEAN

VARIABLES tables,    \* number -> [has, ok]: what can be read of it, and whether without an error
          logs,      \* number -> the entries that can be read of it
          live,      \* number -> level, of the tables in the version
          log, imm,  \* the logs of the two memtables; 0 for none
          merge,     \* the compaction's inputs and its output; 0 for none
          written,   \* how many entries were written
          next,      \* next_file_number_
          pc,        \* "up", or where the repair is
          found,     \* the logs and the tables left to do
          listed,    \* tables_: number -> [smallest, largest, seq]
          salvage,   \* RepairTable's table and its copy's number
          last,      \* the last sequence number in the new descriptor
          readable,  \* history: what could be read when the repair began
          damages, crashes, lost   \* history: faults; lost: by a failed build or a stopped salvage

db == <<live, log, imm, merge, written>>
repair == <<pc, found, listed, salvage, last, readable, crashes, lost>>
vars == <<tables, logs, next, damages, db, repair>>

NoFiles == [n \in {} |-> 0]
With(f, n, v) == [m \in DOMAIN f \cup {n} |-> IF m = n THEN v ELSE f[m]]
Without(f, S) == [m \in DOMAIN f \ S |-> f[m]]
NoMerge == [inputs |-> {}, out |-> 0]
NoSalvage == [table |-> 0, copy |-> 0]
Whole(S) == [has |-> S, ok |-> TRUE]

Init ==
    /\ tables = NoFiles /\ logs = With(NoFiles, 1, {}) /\ live = NoFiles
    /\ log = 1 /\ imm = 0 /\ merge = NoMerge /\ written = 0 /\ next = 2
    /\ pc = "up" /\ found = {} /\ listed = NoFiles /\ salvage = NoSalvage
    /\ last = 0 /\ readable = {}
    /\ damages = 0 /\ crashes = 0 /\ lost = FALSE

-----------------------------------------------------------------------------
(* The database. *)
Write ==
    /\ pc = "up" /\ written < MaxWrites
    /\ \E k \in Keys, type \in {"value", "deletion"} :
        logs' = [logs EXCEPT ![log] = @ \cup {[key |-> k, seq |-> written + 1, type |-> type]}]
    /\ written' = written + 1
    /\ UNCHANGED <<tables, next, damages, live, log, imm, merge, repair>>

\* MakeRoomForWrite: the memtable is full.
NewLog ==
    /\ pc = "up" /\ imm = 0 /\ logs[log] # {} /\ next <= MaxNumber
    /\ imm' = log /\ log' = next /\ next' = next + 1
    /\ logs' = With(logs, next, {})
    /\ UNCHANGED <<tables, damages, live, merge, written, repair>>

KeysOf(S) == {e.key : e \in S}
Overlap(S, T) ==
    S # {} /\ T # {} /\ Min(KeysOf(S)) <= Max(KeysOf(T)) /\ Min(KeysOf(T)) <= Max(KeysOf(S))
At(level) == {n \in DOMAIN live : live[n] = level}
Has(N) == UNION {tables[n].has : n \in N}

\* CompactMemTable, WriteLevel0Table: two levels are enough here.
Flush ==
    LET overlaps == \E n \in DOMAIN live : Overlap(logs[imm], tables[n].has) IN
    /\ pc = "up" /\ imm # 0 /\ next <= MaxNumber
    /\ tables' = With(tables, next, Whole(logs[imm]))
    /\ live' = With(live, next, IF overlaps THEN 0 ELSE 1)
    /\ next' = next + 1 /\ imm' = 0
    /\ UNCHANGED <<logs, damages, log, merge, written, repair>>

\* PickCompaction: a table of level 0, those it overlaps, and those of the
\* next level that all these overlap.
PickCompaction ==
    /\ pc = "up" /\ merge = NoMerge
    /\ \E n \in At(0) :
        LET up == {m \in At(0) : Overlap(tables[m].has, tables[n].has)}
            all == UNION {{m \in At(0) : Overlap(tables[m].has, tables[u].has)} : u \in up}
        IN  merge' = [inputs |-> all \cup {m \in At(1) : Overlap(tables[m].has, Has(all))}, out |-> 0]
    /\ UNCHANGED <<tables, logs, next, damages, live, log, imm, written, repair>>

\* DoCompactionWork keeps each key's newest entry, and no deletion: there is
\* no deeper level.  A flush may come between its beginning and this.
Merged(S) == {e \in S : e.type = "value" /\ \A f \in S : f.key = e.key => f.seq <= e.seq}
WriteOutput ==
    /\ pc = "up" /\ merge.inputs # {} /\ merge.out = 0 /\ next <= MaxNumber
    /\ LET out == Merged(Has(merge.inputs)) IN
        tables' = IF out = {} THEN tables ELSE With(tables, next, Whole(out))
    /\ merge' = [merge EXCEPT !.out = next] /\ next' = next + 1
    /\ UNCHANGED <<logs, damages, live, log, imm, written, repair>>

InstallOutput ==
    LET rest == Without(live, merge.inputs) IN
    /\ pc = "up" /\ merge.out # 0
    /\ live' = IF merge.out \in DOMAIN tables THEN With(rest, merge.out, 1) ELSE rest
    /\ merge' = NoMerge
    /\ UNCHANGED <<tables, logs, next, damages, log, imm, written, repair>>

\* DeleteObsoleteFiles, one file at a time.
DeleteObsolete ==
    /\ pc = "up"
    /\ \/ \E n \in DOMAIN tables \ (DOMAIN live \cup {merge.out}) :
            tables' = Without(tables, {n}) /\ UNCHANGED logs
       \/ \E n \in DOMAIN logs \ {log, imm} : logs' = Without(logs, {n}) /\ UNCHANGED tables
    /\ UNCHANGED <<next, damages, db, repair>>

\* The database ends here; some files may not be what they were.
Stop ==
    /\ pc = "up" /\ pc' = "damage"
    /\ UNCHANGED <<tables, logs, next, damages, db, found, listed, salvage, last, readable, crashes, lost>>

Damage ==
    /\ pc = "damage" /\ damages < Damages
    /\ \/ \E n \in DOMAIN tables : \E S \in SUBSET tables[n].has :
            tables' = [tables EXCEPT ![n] = [has |-> S, ok |-> FALSE]] /\ UNCHANGED logs
       \/ \E n \in DOMAIN logs : \E S \in SUBSET logs[n] :
            S # logs[n] /\ logs' = [logs EXCEPT ![n] = S] /\ UNCHANGED tables
    /\ damages' = damages + 1
    /\ UNCHANGED <<next, db, repair>>

-----------------------------------------------------------------------------
(* The repair. *)
Numbers == DOMAIN tables \cup DOMAIN logs

FindFiles ==
    /\ pc \in {"damage", "find"} /\ pc' = "convert"
    /\ next' = Max({0} \cup Numbers) + 1
    /\ found' = DOMAIN logs
    /\ readable' = IF pc = "damage" THEN Has(DOMAIN tables) \cup UNION {logs[n] : n \in DOMAIN logs} ELSE readable
    /\ listed' = NoFiles /\ salvage' = NoSalvage
    /\ UNCHANGED <<tables, logs, damages, db, last, crashes, lost>>

\* Fault: the table's number is used again.
SameNumber(n) ==
    /\ pc = "convert" /\ n \in found
    /\ tables' = IF logs[n] = {} THEN tables ELSE With(tables, next, Whole(logs[n]))
    /\ logs' = Without(logs, {n}) /\ found' = found \ {n}
    /\ UNCHANGED <<next, damages, db, pc, listed, salvage, last, readable, crashes, lost>>

\* ConvertLogToTable, then ArchiveFile whatever became of it.  The logs come
\* in the order of the directory: any.
ConvertLog(n) ==
    /\ pc = "convert" /\ n \in found
    /\ \/ /\ tables' = IF logs[n] = {} THEN tables ELSE With(tables, next, Whole(logs[n]))
          /\ UNCHANGED lost
       \/ BuildFails /\ lost' = TRUE /\ UNCHANGED tables
    /\ next' = next + 1
    /\ logs' = Without(logs, {n}) /\ found' = found \ {n}
    /\ UNCHANGED <<damages, db, pc, listed, salvage, last, readable, crashes>>

ExtractMetaData ==
    /\ pc = "convert" /\ found = {}
    /\ pc' = "scan" /\ found' = DOMAIN tables
    /\ UNCHANGED <<tables, logs, next, damages, db, listed, salvage, last, readable, crashes, lost>>

MetaData(S) ==
    [smallest |-> Min(KeysOf(S)), largest |-> Max(KeysOf(S)), seq |-> Max({e.seq : e \in S})]

ScanTable(n) ==
    /\ pc = "scan" /\ n \in found /\ tables[n].ok
    /\ listed' = With(listed, n, MetaData(tables[n].has))
    /\ found' = found \ {n}
    /\ UNCHANGED <<tables, logs, next, damages, db, pc, salvage, last, readable, crashes, lost>>

\* RepairTable: the entries are copied and the table is archived ...
RepairTable(n) ==
    /\ pc = "scan" /\ n \in found /\ ~tables[n].ok
    /\ \/ /\ tables' = With(Without(tables, {n}), next, [has |-> {}, ok |-> FALSE])
          /\ salvage' = [table |-> n, copy |-> next, has |-> tables[n].has]
          /\ pc' = "copy" /\ UNCHANGED lost
       \/ BuildFails /\ lost' = TRUE /\ UNCHANGED <<tables, salvage, pc>>
    /\ next' = next + 1 /\ found' = found \ {n}
    /\ UNCHANGED <<logs, damages, db, listed, last, readable, crashes>>

\* ... then the copy is finished and takes its place, or stays, empty.
RenameCopy ==
    LET others == Without(tables, {salvage.copy}) IN
    /\ pc = "copy"
    /\ \/ /\ salvage.has # {}
          /\ tables' = With(others, salvage.table, Whole(salvage.has))
          /\ listed' = With(listed, salvage.table, MetaData(salvage.has))
          /\ UNCHANGED lost
       \/ salvage.has = {} /\ UNCHANGED <<tables, listed, lost>>
       \/ BuildFails /\ lost' = TRUE /\ tables' = others /\ UNCHANGED listed
    /\ pc' = "scan" /\ salvage' = NoSalvage
    /\ UNCHANGED <<logs, next, damages, db, found, last, readable, crashes>>

WriteDescriptor ==
    /\ pc = "scan" /\ found = {} /\ pc' = "repaired"
    /\ last' = Max({0} \cup {listed[n].seq : n \in DOMAIN listed})
    /\ UNCHANGED <<tables, logs, next, damages, db, found, listed, salvage, readable, crashes, lost>>

\* The repair is stopped, or cannot write its descriptor, and is begun again:
\* what it had done to the files stays.
StopRepair ==
    /\ pc \in {"convert", "scan", "copy"} /\ crashes < Crashes
    /\ crashes' = crashes + 1 /\ pc' = "find"
    /\ UNCHANGED <<tables, logs, next, damages, db, found, listed, salvage, last, readable, lost>>

Next ==
    \/ Write \/ NewLog \/ Flush \/ PickCompaction \/ WriteOutput \/ InstallOutput \/ DeleteObsolete
    \/ Stop \/ Damage \/ FindFiles \/ (\E n \in found : ConvertLog(n)) \/ ExtractMetaData
    \/ (\E n \in found : ScanTable(n) \/ RepairTable(n)) \/ RenameCopy \/ WriteDescriptor \/ StopRepair
Spec == Init /\ [][Next]_vars

-----------------------------------------------------------------------------
Repaired == pc = "repaired"
Kept == Has(DOMAIN listed)
Newest(S, k) == {e \in S : e.key = k /\ \A f \in S : f.key = k => f.seq <= e.seq}

TypeOK ==
    /\ \A n \in DOMAIN tables : tables[n].has \subseteq [key : Keys, seq : 1..MaxWrites, type : {"value", "deletion"}]
    /\ DOMAIN live \subseteq DOMAIN tables \/ pc # "up"
    /\ Numbers \subseteq 1..(next - 1) \/ pc = "find"
    /\ pc \in {"up", "damage", "find", "convert", "scan", "copy", "repaired"}

\* What could be read when the repair began is in the repaired database,
\* unless a table could not be written ("resurrect as much of the contents of
\* the database as possible", include/leveldb/db.h).
ReadableKept == Repaired /\ ~lost => readable \subseteq Kept

\* Each table of the new descriptor is in the directory, can be read without
\* an error, and its entries are within its bounds; the numbers of the
\* descriptor are beyond everything that is left: what is written next is
\* newer than what was kept, in a file of its own.
DescriptorHolds ==
    Repaired =>
        /\ \A n \in DOMAIN listed :
            /\ n \in DOMAIN tables /\ tables[n].ok
            /\ \A e \in tables[n].has :
                e.key \in listed[n].smallest..listed[n].largest /\ e.seq <= last
        /\ \A n \in Numbers : n < next

\* Get looks through level 0 "in order from newest to oldest"
\* (Version::Get, db/version_set.cc): in the order of the tables' numbers.
Get(k) ==
    LET holds == {n \in DOMAIN listed : k \in KeysOf(tables[n].has)} IN
    IF holds = {} THEN {} ELSE Newest(tables[Max(holds)].has, k)

\* It finds the newest entry, as an iterator does.
NewestFirst == Repaired => \A k \in Keys : Get(k) = Newest(Kept, k)

(* What RepairDB promises.  A table may be lost when a repair that copies a  *)
(* damaged one is stopped: then not all that was readable is kept.           *)
RepairKeeps ==
    /\ TypeOK /\ DescriptorHolds
    /\ Damages = 0 \/ Crashes = 0 => ReadableKept
=============================================================================
