------------------------------ MODULE MCFiles -------------------------------
(* Small instances of LogFile, Manifest and Repair: what is on the disk when *)
(* something crashes, fails or is damaged. They share no variable: `part`    *)
(* says which one a behaviour is of, the others stay in their initial state. *)
EXTENDS Manifest
VARIABLES part,
          file, synced, open, blockOffset, adding, lengths, acknowledged, onDisk,
          tableFiles, logFiles, live, logNumber, immNumber, compaction, entries, next, stage,
          found, listed, salvage, last, readable, damages, stops, lost
logVars == <<file, synced, open, blockOffset, adding, lengths, acknowledged, onDisk>>
repairVars == <<tableFiles, logFiles, live, logNumber, immNumber, compaction, entries, next, stage,
                found, listed, salvage, last, readable, damages, stops, lost>>
filesVars == <<part, logVars, vars, repairVars>>

\* Blocks of a few bytes, so that records span up to three of them and end at
\* every offset; then appends may fail and logs are reused.
Log == INSTANCE LogFile WITH
    BlockSize <- 7, HeaderSize <- 3, Lengths <- {0, 1, 2, 3, 9}, MaxRecords <- 3,
    Failures <- FALSE, Reuse <- FALSE, promised <- acknowledged, durable <- onDisk
FailingLog == INSTANCE LogFile WITH
    BlockSize <- 7, HeaderSize <- 3, Lengths <- {0, 1, 5}, MaxRecords <- 3,
    Failures <- TRUE, Reuse <- TRUE, promised <- acknowledged, durable <- onDisk
\* Manifest: besides the instance of the cfg, one in which a write to the
\* MANIFEST may fail.
FailingVersions == INSTANCE Manifest WITH ApplyFails <- TRUE
\* A damaged file, and tables that cannot be written; then a repair that is
\* stopped twice.
Damaged == INSTANCE Repair WITH
    Keys <- {1, 2}, MaxWrites <- 3, MaxNumber <- 5, Damages <- 1, Crashes <- 0, BuildFails <- TRUE,
    tables <- tableFiles, logs <- logFiles, log <- logNumber, imm <- immNumber,
    merge <- compaction, written <- entries, pc <- stage, crashes <- stops
Stopped == INSTANCE Repair WITH
    Keys <- {1, 2}, MaxWrites <- 3, MaxNumber <- 5, Damages <- 0, Crashes <- 2, BuildFails <- FALSE,
    tables <- tableFiles, logs <- logFiles, log <- logNumber, imm <- immNumber,
    merge <- compaction, written <- entries, pc <- stage, crashes <- stops
ASSUME FilesAssumption ==
    /\ Log!LogConstants /\ FailingLog!LogConstants
    /\ FailingVersions!ManifestConstants
    /\ Damaged!RepairAssumption /\ Stopped!RepairAssumption

FilesInit ==
    /\ part \in {"log", "failing_log", "versions", "failing_versions", "damaged", "stopped"}
    /\ Log!Init /\ Init /\ Damaged!Init
FilesNext ==
    /\ UNCHANGED part
    /\ \/ part = "log" /\ Log!Next /\ UNCHANGED <<vars, repairVars>>
       \/ part = "failing_log" /\ FailingLog!Next /\ UNCHANGED <<vars, repairVars>>
       \/ part = "versions" /\ Next /\ UNCHANGED <<logVars, repairVars>>
       \/ part = "failing_versions" /\ FailingVersions!Next /\ UNCHANGED <<logVars, repairVars>>
       \/ part = "damaged" /\ Damaged!Next /\ UNCHANGED <<logVars, vars>>
       \/ part = "stopped" /\ Stopped!Next /\ UNCHANGED <<logVars, vars>>
FilesSpec == FilesInit /\ [][FilesNext]_filesVars

(* Only whole records are read back, each one once and in order; those       *)
(* promised are, and a crash alone is never taken for a corruption, nor does *)
(* a reader that begins in the middle miss a record (log::Writer,            *)
(* log::Reader).                                                             *)
LogKept ==
    /\ part = "log" => /\ Log!TypeOK /\ Log!WholeRecords /\ Log!PromisesKept
                       /\ Log!CrashIsNoCorruption /\ Log!SkipsToOffset
    /\ part = "failing_log" => FailingLog!WholeRecords

(* What can be read when a repair begins is in the repaired database, unless *)
(* a table could not be written; its tables can be read and are within their *)
(* bounds (RepairDB).                                                        *)
RepairKeeps ==
    /\ part = "damaged" => Damaged!RepairKeeps
    /\ part = "stopped" => Stopped!RepairKeeps
=============================================================================
