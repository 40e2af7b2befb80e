----------------------------- MODULE FileLocks ------------------------------
(* The lock on a database (util/env_posix.cc): PosixLockTable keeps the      *)
(* threads of a process apart and fcntl keeps the processes apart.  A record *)
(* lock belongs to the process and the file, not to the descriptor: closing  *)
(* any descriptor of the file ends it (POSIX).  DestroyDB (db/db_impl.cc)    *)
(* removes the lock file after it has unlocked it.                           *)
EXTENDS Integers, FiniteSets

CONSTANTS Threads, Processes,
          ProcessOf,   \* [Threads -> Processes]
          Destroyers,  \* the threads that destroy the database when they have it
          None,
          MaxFiles     \* bound: files created under the lock's name

Files == 1..MaxFiles

LockAssumption ==
    /\ ProcessOf \in [Threads -> Processes] /\ MaxFiles \in Nat
    /\ None \notin Threads \cup Processes \cup Files

VARIABLES name,     \* the file the lock's name leads to, or None
          created,  \* how many files have had the name
          owner,    \* owner[f]: the process with the record lock on file f
          table,    \* table[p]: locked_files_ of process p holds the name
          pc, fd    \* of each thread: where it is, the file it has opened

vars == <<name, created, owner, table, pc, fd>>

Init ==
    /\ name = None /\ created = 0
    /\ owner = [f \in Files |-> None]
    /\ table = [p \in Processes |-> FALSE]
    /\ pc = [t \in Threads |-> "idle"] /\ fd = [t \in Threads |-> None]

Goto(t, l) == pc' = [pc EXCEPT ![t] = l]
\* close(fd_): the process loses its lock on the file.
Close(t) ==
    /\ owner' = [owner EXCEPT ![fd[t]] = IF @ = ProcessOf[t] THEN None ELSE @]
    /\ fd' = [fd EXCEPT ![t] = None]

\* LockFile: open with O_CREAT.
Open(t) ==
    /\ pc[t] = "idle"
    /\ \/ name # None /\ UNCHANGED <<name, created>>
       \/ name = None /\ created < MaxFiles /\ created' = created + 1 /\ name' = created'
    /\ fd' = [fd EXCEPT ![t] = name']
    /\ Goto(t, "insert")
    /\ UNCHANGED <<owner, table>>

\* locks_.Insert
Insert(t) ==
    /\ pc[t] = "insert"
    /\ IF table[ProcessOf[t]] THEN Goto(t, "refused") ELSE Goto(t, "lock")
    /\ table' = [table EXCEPT ![ProcessOf[t]] = TRUE]
    /\ UNCHANGED <<name, created, owner, fd>>

\* "already held by process"
Refuse(t) ==
    /\ pc[t] = "refused"
    /\ Close(t) /\ Goto(t, "idle")
    /\ UNCHANGED <<name, created, table>>

\* Fault: fcntl's answer is not looked at.
TakesItAnyway(t) ==
    /\ pc[t] = "lock"
    /\ owner' = [owner EXCEPT ![fd[t]] = ProcessOf[t]]
    /\ Goto(t, "held")
    /\ UNCHANGED <<name, created, table, fd>>

\* fcntl(F_SETLK) fails when another process has the lock, or for want of
\* room for one.
SetLock(t) ==
    /\ pc[t] = "lock"
    /\ \/ /\ owner[fd[t]] \in {None, ProcessOf[t]}
          /\ owner' = [owner EXCEPT ![fd[t]] = ProcessOf[t]]
          /\ Goto(t, "held")
       \/ Goto(t, "close") /\ UNCHANGED owner
    /\ UNCHANGED <<name, created, table, fd>>

BackOut(t) ==
    /\ pc[t] = "close"
    /\ Close(t) /\ Goto(t, "forget")
    /\ UNCHANGED <<name, created, table>>

Forget(t) ==
    /\ pc[t] = "forget"
    /\ table' = [table EXCEPT ![ProcessOf[t]] = FALSE]
    /\ Goto(t, "idle")
    /\ UNCHANGED <<name, created, owner, fd>>

\* UnlockFile: fcntl(F_UNLCK), whose failure is reported and no more.
Unlock(t) ==
    /\ pc[t] = "held"
    /\ \/ owner' = [owner EXCEPT ![fd[t]] = IF @ = ProcessOf[t] THEN None ELSE @]
       \/ UNCHANGED owner
    /\ Goto(t, "remove")
    /\ UNCHANGED <<name, created, table, fd>>

Remove(t) ==
    /\ pc[t] = "remove"
    /\ table' = [table EXCEPT ![ProcessOf[t]] = FALSE]
    /\ Goto(t, "release")
    /\ UNCHANGED <<name, created, owner, fd>>

Release(t) ==
    /\ pc[t] = "release"
    /\ Close(t) /\ Goto(t, IF t \in Destroyers THEN "delete" ELSE "idle")
    /\ UNCHANGED <<name, created, table>>

\* DestroyDB: DeleteFile(lockname)
Delete(t) ==
    /\ pc[t] = "delete"
    /\ name' = None
    /\ Goto(t, "idle")
    /\ UNCHANGED <<created, owner, table, fd>>

\* A process ends: its descriptors and its locks go.
Crash(p) ==
    /\ \E t \in Threads : ProcessOf[t] = p /\ pc[t] # "idle"
    /\ owner' = [f \in Files |-> IF owner[f] = p THEN None ELSE owner[f]]
    /\ table' = [table EXCEPT ![p] = FALSE]
    /\ pc' = [t \in Threads |-> IF ProcessOf[t] = p THEN "idle" ELSE pc[t]]
    /\ fd' = [t \in Threads |-> IF ProcessOf[t] = p THEN None ELSE fd[t]]
    /\ UNCHANGED <<name, created>>

Step(t) ==
    Open(t) \/ Insert(t) \/ Refuse(t) \/ SetLock(t) \/ BackOut(t) \/ Forget(t)
    \/ Unlock(t) \/ Remove(t) \/ Release(t) \/ Delete(t)
Next == (\E t \in Threads : Step(t)) \/ (\E p \in Processes : Crash(p))
Spec == Init /\ [][Next]_vars

-----------------------------------------------------------------------------
TypeOK ==
    /\ name \in Files \cup {None} /\ created \in 0..MaxFiles
    /\ owner \in [Files -> Processes \cup {None}]
    /\ table \in [Processes -> BOOLEAN]
    /\ pc \in [Threads -> {"idle", "insert", "refused", "lock", "close", "forget",
                           "held", "remove", "release", "delete"}]
    /\ \A t \in Threads : (fd[t] # None) = (pc[t] \notin {"idle", "forget", "delete"})

\* "Used to prevent concurrent access to the same db by multiple processes"
\* (include/leveldb/env.h): one thread at a time has the database.
Exclusive == \A t, u \in Threads : (pc[t] = "held" /\ pc[u] = "held") => t = u

\* A lock is left behind by nobody: with no thread of the process inside
\* LockFile or holding the lock, the table and the file are free.
NothingLeft ==
    \A p \in Processes :
        (\A t \in Threads : ProcessOf[t] = p => pc[t] = "idle") =>
            ~table[p] /\ \A f \in Files : owner[f] # p

\* Whoever has the database still has the record lock that tells the other
\* processes so.
HeldIsLocked == \A t \in Threads : pc[t] = "held" => owner[fd[t]] = ProcessOf[t]

(* The table is enough for the threads of a process, and the record lock for *)
(* processes that use one thread each and do not remove the file; not both   *)
(* at once, as a refused thread's close ends the lock of its process.        *)
OneProcessOnly == \A t, u \in Threads : ProcessOf[t] = ProcessOf[u]
OneThreadEach == Destroyers = {} /\ \A t, u \in Threads : ProcessOf[t] = ProcessOf[u] => t = u
LocksSafe ==
    /\ TypeOK /\ NothingLeft
    /\ OneProcessOnly \/ OneThreadEach => Exclusive
    /\ OneThreadEach => HeldIsLocked
=============================================================================
