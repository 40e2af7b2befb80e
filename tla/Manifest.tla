------------------------------ MODULE Manifest ------------------------------
(* The files of a LevelDB database and what a crash leaves of them: how it   *)
(* is created and opened (DBImpl::Recover, VersionSet::Recover), how a       *)
(* version is made durable (VersionSet::LogAndApply, SetCurrentFile), and    *)
(* which files DBImpl::DeleteObsoleteFiles removes.                          *)
(*                                                                           *)
(* A write is a batch with a number of its own; a table, or a log, holds     *)
(* batches; levels are left to Levels and bytes to LogFile.  What happens to *)
(* the directory is taken to last from the moment it happens; what is        *)
(* written to a file lasts once the file is synced.                          *)
EXTENDS Integers, FiniteSets, Sequences, SequencesExt

CONSTANTS MaxBatches,      \* bound: batches written
          MaxNumber,       \* bound: file numbers used
          MaxCrashes,      \* bound: crashes, and opens that fail
          MaxOutputs,      \* bound: tables made by a compaction
          ApplyFails,      \* a write to the MANIFEST may fail
          CrashInNewDB     \* the machine may stop while CURRENT names NewDB's MANIFEST

ManifestConstants ==
    /\ MaxBatches \in Nat /\ MaxNumber \in Nat /\ MaxCrashes \in Nat /\ MaxOutputs \in Nat
    /\ {ApplyFails, CrashInNewDB} \subseteq BOOLEAN
ASSUME ManifestAssumption == ManifestConstants

VARIABLES current,     \* the MANIFEST that CURRENT names; 0 when there is none
          manifests,   \* number -> [after, synced]: what reading gives after each record
          tables,      \* number -> [has, whole]
          logs,        \* number -> [has, synced], the batches in order
          pc,          \* where DB::Open is; "up" once it has returned
          vs,          \* the VersionSet: version, next and log number, MANIFEST
          replay,      \* logs to replay, tables made of them
          log,         \* logfile_number_
          mem, imm,    \* batches of the memtables
          flush,       \* the table a memtable is written to; 0 when none
          merge,       \* the compaction under way
          applying,    \* the edit that LogAndApply is writing
          failed,      \* bg_error_
          reader,      \* tables of the version a reader holds
          written,     \* how many batches were written
          promised,    \* batches acknowledged and not excused by a crash
          durable,     \* those of them that were synced
          crashes

disk == <<current, manifests, tables, logs>>
memory == <<pc, vs, replay, log, mem, imm, flush, merge, applying, failed, reader>>
ghosts == <<written, promised, durable, crashes>>
vars == <<disk, memory, ghosts>>

NoFiles == [n \in {} |-> n]
With(f, n, v) == [m \in DOMAIN f \cup {n} |-> IF m = n THEN v ELSE f[m]]
Without(f, S) == [m \in DOMAIN f \ S |-> f[m]]
SetOf(s) == {s[i] : i \in DOMAIN s}

NoEdit == [log |-> 0, next |-> 0, add |-> {}, del |-> {}]
Nothing == [version |-> {}, log |-> 0, next |-> 0]
NoVersionSet == [version |-> {}, next |-> 2, log |-> 0, manifest |-> 0, opened |-> FALSE]
NoMerge == [inputs |-> {}, outs |-> {}, whole |-> FALSE]
NoApply == [who |-> "none", edit |-> NoEdit, stage |-> "none"]
NoReplay == [logs |-> {}, made |-> {}]

Forgotten ==     \* the memory of a process that has just begun
    /\ vs' = NoVersionSet /\ replay' = NoReplay /\ log' = 0
    /\ mem' = {} /\ imm' = {} /\ flush' = 0 /\ merge' = NoMerge
    /\ applying' = NoApply /\ failed' = FALSE /\ reader' = {}

Init ==
    /\ current = 0 /\ manifests = NoFiles /\ tables = NoFiles /\ logs = NoFiles
    /\ pc = "down" /\ vs = NoVersionSet /\ replay = NoReplay /\ log = 0
    /\ mem = {} /\ imm = {} /\ flush = 0 /\ merge = NoMerge
    /\ applying = NoApply /\ failed = FALSE /\ reader = {}
    /\ written = 0 /\ promised = {} /\ durable = {} /\ crashes = 0

-----------------------------------------------------------------------------
(* What VersionSet::Recover makes of a MANIFEST: each record is applied to   *)
(* what the ones before it gave.                                             *)

\* Fault: a later record's next file number is ignored.
KeepsFirstNext(v, e) ==
    [version |-> (v.version \ e.del) \cup e.add,
     log |-> IF e.log = 0 THEN v.log ELSE e.log,
     next |-> IF v.next = 0 THEN e.next ELSE v.next]
ApplyEdit(v, e) ==
    [version |-> (v.version \ e.del) \cup e.add,
     log |-> IF e.log = 0 THEN v.log ELSE e.log,
     next |-> IF e.next = 0 THEN v.next ELSE e.next]
Recovered(m) == IF manifests[m].after = <<>> THEN Nothing ELSE Last(manifests[m].after)

Readable(m) ==
    /\ m \in DOMAIN manifests
    /\ Recovered(m).next # 0
    /\ \A t \in Recovered(m).version : t \in DOMAIN tables
\* Fault: only logs newer than the one recorded are replayed.
ReplaysNewer(m) == {n \in DOMAIN logs : n > Recovered(m).log}
LogsToReplay(m) == {n \in DOMAIN logs : n >= Recovered(m).log}

\* The batches that opening the database now would find.
OnDisk ==
    IF current = 0 THEN {}
    ELSE (UNION {tables[t].has : t \in Recovered(current).version})
         \cup (UNION {SetOf(logs[n].has) : n \in LogsToReplay(current)})

-----------------------------------------------------------------------------
(* DB::Open. *)

\* The first MANIFEST is written and closed, but not synced.
NewDB ==
    /\ pc = "down" /\ current = 0
    /\ manifests' =
           With(manifests, 1,
                [after |-> <<ApplyEdit(Nothing, [NoEdit EXCEPT !.next = 2])>>, synced |-> 0])
    /\ pc' = "created"
    /\ UNCHANGED <<current, tables, logs, vs, replay, log, mem, imm, flush, merge,
                   applying, failed, reader, ghosts>>

NewDBCurrent ==
    /\ pc = "created"
    /\ current' = 1 /\ pc' = "recover"
    /\ UNCHANGED <<manifests, tables, logs, vs, replay, log, mem, imm, flush, merge,
                   applying, failed, reader, ghosts>>

\* A new MANIFEST will be written, under the number that was next.
Recover ==
    /\ pc \in {"recover", "down"} /\ current # 0
    /\ Readable(current)
    /\ LET r == Recovered(current)
       IN  vs' = [version |-> r.version, next |-> r.next + 1, log |-> r.log,
                  manifest |-> r.next, opened |-> FALSE]
    /\ replay' = [logs |-> LogsToReplay(current), made |-> {}]
    /\ pc' = "replay"
    /\ UNCHANGED <<disk, log, mem, imm, flush, merge, applying, failed, reader, ghosts>>

After(n, used) == IF n <= used THEN used + 1 ELSE n     \* MarkFileNumberUsed

\* The logs are replayed in order; one with batches becomes a table.
RecoverLogFile ==
    /\ pc = "replay"
    /\ \E n \in replay.logs :
           LET has == SetOf(logs[n].has)
               made == IF has = {} THEN {} ELSE {vs.next}
           IN  /\ \A k \in replay.logs : n <= k
               /\ tables' = IF has = {} THEN tables
                            ELSE With(tables, vs.next, [has |-> has, whole |-> TRUE])
               /\ replay' = [logs |-> replay.logs \ {n}, made |-> replay.made \cup made]
               /\ vs' = [vs EXCEPT !.next = After(vs.next + Cardinality(made), n)]
    /\ UNCHANGED <<current, manifests, logs, pc, log, mem, imm, flush, merge, applying,
                   failed, reader, ghosts>>

NewLog ==
    /\ pc = "replay" /\ replay.logs = {}
    /\ logs' = With(logs, vs.next, [has |-> <<>>, synced |-> 0])
    /\ log' = vs.next
    /\ vs' = [vs EXCEPT !.next = @ + 1]
    /\ applying' = [who |-> "open", stage |-> "record",
                    edit |-> [log |-> vs.next, next |-> vs.next + 1,
                              add |-> replay.made, del |-> {}]]
    /\ pc' = "apply"
    /\ UNCHANGED <<current, manifests, tables, replay, mem, imm, flush, merge, failed,
                   reader, ghosts>>

-----------------------------------------------------------------------------
(* VersionSet::LogAndApply. *)

Snapshot == ApplyEdit(Nothing, [NoEdit EXCEPT !.add = vs.version])     \* WriteSnapshot
WithRecord ==
    With(manifests, vs.manifest,
         IF vs.opened
         THEN [manifests[vs.manifest] EXCEPT !.after =
                   Append(@, ApplyEdit(Recovered(vs.manifest), applying.edit))]
         ELSE [after |-> <<Snapshot, ApplyEdit(Snapshot, applying.edit)>>, synced |-> 0])

ApplyRecord ==
    /\ applying.stage = "record"
    /\ manifests' = WithRecord
    /\ applying' = [applying EXCEPT !.stage = "sync"]
    /\ UNCHANGED <<current, tables, logs, pc, vs, replay, log, mem, imm, flush, merge,
                   failed, reader, ghosts>>

ApplySync ==
    /\ applying.stage = "sync"
    /\ manifests' = [manifests EXCEPT ![vs.manifest].synced =
                                          Len(manifests[vs.manifest].after)]
    /\ applying' = [applying EXCEPT !.stage = IF vs.opened THEN "install" ELSE "current"]
    /\ UNCHANGED <<current, tables, logs, pc, vs, replay, log, mem, imm, flush, merge,
                   failed, reader, ghosts>>

\* The temporary file is synced and renamed.
SetCurrentFile ==
    /\ applying.stage = "current"
    /\ current' = vs.manifest
    /\ applying' = [applying EXCEPT !.stage = "install"]
    /\ UNCHANGED <<manifests, tables, logs, pc, vs, replay, log, mem, imm, flush, merge,
                   failed, reader, ghosts>>

\* A first MANIFEST that failed is removed and DB::Open gives up; later ones
\* leave the error behind, and perhaps the record.
ApplyError ==
    /\ ApplyFails /\ applying.stage \in {"record", "sync", "current"}
    /\ IF applying.who = "open"
       THEN /\ crashes < MaxCrashes /\ crashes' = crashes + 1
            /\ manifests' = Without(manifests, {vs.manifest})
            /\ pc' = "down" /\ Forgotten
       ELSE /\ \/ UNCHANGED manifests
               \/ applying.stage = "record" /\ manifests' = WithRecord
            /\ failed' = TRUE /\ applying' = NoApply
            /\ flush' = IF applying.who = "flush" THEN 0 ELSE flush
            /\ merge' = IF applying.who = "merge" THEN NoMerge ELSE merge
            /\ UNCHANGED <<pc, vs, replay, log, mem, imm, reader, crashes>>
    /\ UNCHANGED <<current, tables, logs, written, promised, durable>>

-----------------------------------------------------------------------------
(* The new version is installed, and what it makes obsolete is removed.      *)

Installed == [vs EXCEPT !.version = (@ \ applying.edit.del) \cup applying.edit.add,
                        !.log = IF applying.edit.log = 0 THEN @ ELSE applying.edit.log,
                        !.opened = TRUE]

\* pending_outputs_ and the tables of every version still referred to.
Live(v, m) == v.version \cup m.inputs \cup m.outs \cup reader

ObsoleteLogs(v) == {n \in DOMAIN logs : n < v.log}
ObsoleteManifests(v) == {n \in DOMAIN manifests : n < v.manifest}
DeleteObsoleteFiles(v, m) ==
    IF failed THEN UNCHANGED <<tables, logs, manifests>>
    ELSE /\ tables' = Without(tables, DOMAIN tables \ Live(v, m))
         /\ logs' = Without(logs, ObsoleteLogs(v))
         /\ manifests' = Without(manifests, ObsoleteManifests(v))

Install ==
    /\ applying.stage = "install"
    /\ LET m == IF applying.who = "merge" THEN NoMerge ELSE merge
       IN  merge' = m /\ DeleteObsoleteFiles(Installed, m)
    /\ vs' = Installed /\ applying' = NoApply /\ replay' = NoReplay
    /\ IF applying.who = "flush" THEN imm' = {} /\ flush' = 0 ELSE UNCHANGED <<imm, flush>>
    /\ pc' = "up"
    /\ UNCHANGED <<current, log, mem, failed, reader, ghosts>>

-----------------------------------------------------------------------------
(* Writes, flushes, compactions, readers. *)

Up == pc = "up" /\ vs.next < MaxNumber

Write ==
    /\ Up /\ ~failed /\ written < MaxBatches
    /\ written' = written + 1
    /\ promised' = promised \cup {written'}
    /\ \E sync \in BOOLEAN :
           LET has == Append(logs[log].has, written')
           IN  /\ logs' = [logs EXCEPT ![log] =
                              [has |-> has, synced |-> IF sync THEN Len(has) ELSE @.synced]]
               /\ durable' = durable \cup (IF sync THEN {written'} ELSE {})
    /\ mem' = mem \cup {written'}
    /\ UNCHANGED <<current, manifests, tables, pc, vs, replay, log, imm, flush, merge,
                   applying, failed, reader, crashes>>

SwitchMemTable ==
    /\ Up /\ ~failed /\ imm = {} /\ mem # {}
    /\ imm' = mem /\ mem' = {}
    /\ logs' = With(logs, vs.next, [has |-> <<>>, synced |-> 0])
    /\ log' = vs.next /\ vs' = [vs EXCEPT !.next = @ + 1]
    /\ UNCHANGED <<current, manifests, tables, pc, replay, flush, merge, applying, failed,
                   reader, ghosts>>

\* One background thread: alone, or between two entries of a compaction.
FlushBegin ==
    /\ Up /\ imm # {} /\ flush = 0 /\ applying = NoApply
    /\ IF merge = NoMerge THEN ~failed ELSE ~merge.whole
    /\ flush' = vs.next /\ vs' = [vs EXCEPT !.next = @ + 1]
    /\ tables' = With(tables, vs.next, [has |-> {}, whole |-> FALSE])
    /\ UNCHANGED <<current, manifests, logs, pc, replay, log, mem, imm, merge, applying,
                   failed, reader, ghosts>>

\* The edit names the log of the memtable in use now.
FlushEnd ==
    /\ flush # 0 /\ applying = NoApply
    /\ tables' = [tables EXCEPT ![flush] = [has |-> imm, whole |-> TRUE]]
    /\ applying' = [who |-> "flush", stage |-> "record",
                    edit |-> [log |-> log, next |-> vs.next, add |-> {flush}, del |-> {}]]
    /\ UNCHANGED <<current, manifests, logs, pc, vs, replay, log, mem, imm, flush, merge,
                   failed, reader, ghosts>>

MergeBegin ==
    /\ Up /\ ~failed /\ imm = {} /\ flush = 0 /\ merge = NoMerge /\ applying = NoApply
    /\ \E inputs \in (SUBSET vs.version) \ {{}} : merge' = [NoMerge EXCEPT !.inputs = inputs]
    /\ UNCHANGED <<disk, pc, vs, replay, log, mem, imm, flush, applying, failed, reader,
                   ghosts>>

OpenCompactionOutputFile ==
    /\ Up /\ merge # NoMerge /\ ~merge.whole /\ flush = 0 /\ applying = NoApply
    /\ Cardinality(merge.outs) < MaxOutputs
    /\ merge' = [merge EXCEPT !.outs = @ \cup {vs.next}]
    /\ tables' = With(tables, vs.next, [has |-> {}, whole |-> FALSE])
    /\ vs' = [vs EXCEPT !.next = @ + 1]
    /\ UNCHANGED <<current, manifests, logs, pc, replay, log, mem, imm, flush, applying,
                   failed, reader, ghosts>>

\* Each output has entries of any of the inputs' batches.
InstallCompactionResults ==
    /\ merge.outs # {} /\ flush = 0 /\ applying = NoApply
    /\ tables' = [t \in DOMAIN tables |->
           IF t \in merge.outs
           THEN [has |-> UNION {tables[i].has : i \in merge.inputs}, whole |-> TRUE]
           ELSE tables[t]]
    /\ merge' = [merge EXCEPT !.whole = TRUE]
    /\ applying' = [who |-> "merge", stage |-> "record",
                    edit |-> [log |-> vs.log, next |-> vs.next,
                              add |-> merge.outs, del |-> merge.inputs]]
    /\ UNCHANGED <<current, manifests, logs, pc, vs, replay, log, mem, imm, flush, failed,
                   reader, ghosts>>

Read ==
    /\ pc = "up"
    /\ reader' \in {vs.version, {}}
    /\ UNCHANGED <<disk, pc, vs, replay, log, mem, imm, flush, merge, applying, failed, ghosts>>

-----------------------------------------------------------------------------
(* Crashes, at any step. *)

ProcessCrash == UNCHANGED <<disk, promised, durable>>

\* What the machine had not synced may be lost, from the end.
Cut(s, synced, lost) ==
    SubSeq(s, 1, IF Len(s) - lost < synced THEN synced ELSE Len(s) - lost)
MachineCrash ==
    /\ CrashInNewDB \/ current # 1
    /\ \E lost \in [DOMAIN manifests -> 0..2] :
           manifests' = [m \in DOMAIN manifests |->
               [manifests[m] EXCEPT !.after = Cut(@, manifests[m].synced, lost[m])]]
    /\ \E lost \in [DOMAIN logs -> 0..2] :
           logs' = [n \in DOMAIN logs |->
               [logs[n] EXCEPT !.has = Cut(@, logs[n].synced, lost[n])]]
    /\ promised' = durable
    /\ UNCHANGED <<current, tables, durable>>

Crash ==
    /\ pc # "down" /\ crashes < MaxCrashes
    /\ crashes' = crashes + 1
    /\ ProcessCrash \/ MachineCrash
    /\ pc' = "down" /\ Forgotten
    /\ UNCHANGED written

\* A crash in the middle of DeleteObsoleteFiles.
CrashInDelete ==
    /\ applying.stage = "install" /\ ~failed /\ crashes < MaxCrashes
    /\ LET m == IF applying.who = "merge" THEN NoMerge ELSE merge
       IN  \E S \in SUBSET (DOMAIN tables \ Live(Installed, m)),
              L \in SUBSET ObsoleteLogs(Installed),
              D \in SUBSET ObsoleteManifests(Installed) :
               /\ tables' = Without(tables, S) /\ logs' = Without(logs, L)
               /\ manifests' = Without(manifests, D)
    /\ crashes' = crashes + 1
    /\ pc' = "down" /\ Forgotten
    /\ UNCHANGED <<current, written, promised, durable>>

Open == NewDB \/ NewDBCurrent \/ Recover \/ RecoverLogFile \/ NewLog
LogAndApply == ApplyRecord \/ ApplySync \/ SetCurrentFile \/ ApplyError \/ Install
Background == FlushBegin \/ FlushEnd
              \/ MergeBegin \/ OpenCompactionOutputFile \/ InstallCompactionResults
Next == \/ Open \/ LogAndApply \/ Background
        \/ Write \/ SwitchMemTable \/ Read
        \/ Crash \/ CrashInDelete
Spec == Init /\ [][Next]_vars

-----------------------------------------------------------------------------
(* Properties. *)

(* Every batch in a file was written; what LogAndApply writes follows the    *)
(* steps of the code.                                                        *)
TypeOK ==
    /\ \A t \in DOMAIN tables : tables[t].has \subseteq 1..written
    /\ \A n \in DOMAIN logs : logs[n].synced \in 0..Len(logs[n].has)
    /\ \A m \in DOMAIN manifests : manifests[m].synced \in 0..Len(manifests[m].after)
    /\ pc \in {"down", "created", "recover", "replay", "apply", "up"}
    /\ pc = "up" => log \in DOMAIN logs /\ vs.opened
    /\ durable \subseteq promised /\ promised \subseteq 1..written

(* At every moment, a crash included, the database can be opened: CURRENT    *)
(* names a MANIFEST that says what is needed, and every table it lists is    *)
(* there and complete.                                                       *)
Opens ==
    current # 0 => /\ Readable(current)
                   /\ \A t \in Recovered(current).version : tables[t].whole

(* At every moment, a crash included, what opening would find has every      *)
(* batch that was promised: all those acknowledged before a crash of the     *)
(* process, the synced ones before a crash of the machine                    *)
(* (include/leveldb/options.h:193).  So no log is removed, nor left out of   *)
(* recovery, before a table with its batches is in a synced MANIFEST.        *)
NothingLost == promised \subseteq OnDisk

(* A table that a reader, the current version or a compaction may open is    *)
(* there and complete, whatever was flushed or removed since the reader took *)
(* its version.                                                              *)
LiveTablesExist ==
    \A t \in vs.version \cup reader \cup merge.inputs :
        t \in DOMAIN tables /\ tables[t].whole

(* At every moment, a crash included, the database can be opened, with every *)
(* batch that was promised and every table that may be opened                *)
(* (VersionSet::LogAndApply, Recover, DBImpl::DeleteObsoleteFiles).          *)
RecoveryHolds == TypeOK /\ Opens /\ NothingLost /\ LiveTablesExist

(* No file in use is written over: a table that some version or recovery     *)
(* needs never changes, a log only grows while it is the current one, and    *)
(* the MANIFEST that CURRENT names only grows.  So the numbers that the last *)
(* process took and never recorded are not given to files it still needs     *)
(* (VersionSet::Recover, MarkFileNumberUsed).                                *)
Overwrites ==
    /\ crashes' = crashes
    /\ \/ \E t \in DOMAIN tables \cap DOMAIN tables' :
              /\ tables'[t] # tables[t]
              /\ t \in vs.version \cup reader \cup merge.inputs \cup Recovered(current).version
       \/ \E n \in DOMAIN logs \cap DOMAIN logs' : logs'[n] # logs[n] /\ n # log
       \/ \E m \in DOMAIN manifests \cap DOMAIN manifests' :
              m = current /\ ~IsPrefix(manifests[m].after, manifests'[m].after)
NothingOverwritten == [][~Overwrites]_vars
=============================================================================
