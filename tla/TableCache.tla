----------------------------- MODULE TableCache -----------------------------
(* LevelDB's cache of open tables (db/table_cache.cc) over a shard of the    *)
(* LRU cache: threads that read the tables of the version they hold, and the *)
(* removal of tables no version needs (DBImpl::DeleteObsoleteFiles).         *)
(*                                                                           *)
(* A thread that does not find its table opens the file with no lock held,   *)
(* so two may open the same one.  A table is charged 1; its entry keeps the  *)
(* file open until the deleter has run.                                      *)
EXTENDS Integers, FiniteSets

CONSTANTS Threads, Files, None, Capacity, MaxEntries

VARIABLES shard, made, held, last,   \* the cache
          thread,                    \* what each thread is doing
          live,                      \* tables of the current version
          files                      \* tables there are files of

cacheVars == <<shard, made, held, last>>
vars == <<cacheVars, thread, live, files>>

Cache == INSTANCE LRUCache WITH Keys <- Files, Charges <- {1},
                                MaxHeld <- Cardinality(Threads)

Idle == [at |-> "idle", file |-> None, entry |-> None]

Init ==
    /\ Cache!Init
    /\ thread = [t \in Threads |-> Idle]
    /\ live = Files /\ files = Files

-----------------------------------------------------------------------------
(* The version a thread holds while it reads was current when it began.      *)

FindTableHit(t, f) ==
    /\ thread[t] = Idle /\ f \in live
    /\ Cache!Lookup(f)
    /\ thread' = [thread EXCEPT ![t] = [at |-> "use", file |-> f, entry |-> shard.table[f]]]
    /\ UNCHANGED <<live, files>>

FindTableMiss(t, f) ==
    /\ thread[t] = Idle /\ f \in live /\ shard.table[f] = None
    /\ thread' = [thread EXCEPT ![t] = [at |-> "open", file |-> f, entry |-> None]]
    /\ UNCHANGED <<cacheVars, live, files>>

TableOpened(t) ==
    /\ thread[t].at = "open" /\ thread[t].file \in files
    /\ Cache!Insert(thread[t].file, 1)
    /\ thread' = [thread EXCEPT ![t].at = "use", ![t].entry = made']
    /\ UNCHANGED <<live, files>>

\* Errors are not cached.
OpenFails(t) ==
    /\ thread[t].at = "open"
    /\ thread' = [thread EXCEPT ![t] = Idle]
    /\ UNCHANGED <<cacheVars, live, files>>

\* Get releases the handle, an iterator does when it is deleted.
UnrefEntry(t) ==
    /\ thread[t].at = "use"
    /\ Cache!Release(thread[t].entry)
    /\ thread' = [thread EXCEPT ![t] = Idle]
    /\ UNCHANGED <<live, files>>

\* A compaction's version no longer lists the table.
Compacted(f) ==
    /\ f \in live
    /\ live' = live \ {f}
    /\ UNCHANGED <<cacheVars, thread, files>>

InUse(f) == f \in live \/ \E t \in Threads : thread[t].file = f
DeleteTable(f) ==
    /\ f \in files /\ ~InUse(f)
    /\ Cache!Erase(f)
    /\ files' = files \ {f}
    /\ UNCHANGED <<thread, live>>

Next ==
    \/ \E t \in Threads :
           \/ \E f \in Files : FindTableHit(t, f) \/ FindTableMiss(t, f)
           \/ TableOpened(t) \/ OpenFails(t) \/ UnrefEntry(t)
    \/ \E f \in Files : Compacted(f) \/ DeleteTable(f)

Spec == Init /\ [][Next]_vars

-----------------------------------------------------------------------------
(* Properties. *)

OpenTables == {e \in 1..made : shard.deleted[e] = 0}

TypeOK ==
    /\ Cache!TypeOK
    /\ live \subseteq files
    /\ \A t \in Threads : thread[t].at = "use" <=> thread[t].entry \in 1..made

(* The table a thread reads is the one it asked for and is still open, also  *)
(* when another thread opened the same file, or when the cache gave it up.   *)
ReadsOpenTable ==
    \A t \in Threads : thread[t].at = "use" =>
        /\ thread[t].entry \in OpenTables
        /\ shard.key[thread[t].entry] = thread[t].file

(* A file that is deleted is closed: nothing in the cache, and no thread,    *)
(* keeps it open (DBImpl::DeleteObsoleteFiles evicts it first).              *)
DeletedIsClosed == \A e \in OpenTables : shard.key[e] \in files

(* However the threads' misses, releases and deletions interleave, no more   *)
(* files are open than the cache's capacity and one for each thread.         *)
OpenFilesBounded ==
    Cardinality(OpenTables) <= Capacity + Cardinality(Threads)
=============================================================================
