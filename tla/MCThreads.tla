----------------------------- MODULE MCThreads ------------------------------
(* Small instances, with their fairness, of BackgroundThread and of          *)
(* WriteQueue with manual compactions and the closing of the database. They  *)
(* share no variable: `part` says which one a behaviour is of, the other     *)
(* stays in its initial state.                                               *)
EXTENDS BackgroundThread, TLC
CONSTANTS Clients
VARIABLES part,
          mutex, asleep, writers, at, call, group, force, delay, lastSequence, logs, mem, imm,
          hasImm, tables, level0, bgError, compacting, bgPc, editLog, manual, pieces,
          shuttingDown, ops, ranges, outcome, syncs, late
queueVars == <<mutex, asleep, writers, at, call, group, force, delay, lastSequence, logs, mem, imm,
               hasImm, tables, level0, bgError, compacting, bgPc, editLog, manual, pieces,
               shuttingDown, ops, ranges, outcome, syncs, late>>
threadsVars == <<part, backgroundVars, queueVars>>

Writes == INSTANCE WriteQueue WITH
    Threads <- Clients, Kinds <- {"write", "compact", "close"}, MaxRanges <- 2, MaxOps <- 2,
    Sizes <- {1}, SmallBatch <- 1, GroupMax <- 3, MemCap <- 0, L0Trigger <- 1, L0Slow <- 1,
    L0Stop <- 2, MaxPieces <- 1, IOErrors <- FALSE, pc <- at, scheduled <- compacting

ThreadsInit == part \in {"queue", "background"} /\ BackgroundInit /\ Writes!Init
ThreadsNext ==
    /\ UNCHANGED part
    /\ \/ part = "background" /\ BackgroundNext /\ UNCHANGED queueVars
       \/ part = "queue" /\ Writes!Next /\ UNCHANGED backgroundVars
ThreadsSpec == ThreadsInit /\ [][ThreadsNext]_threadsVars /\ Fairness /\ Writes!Fairness

(* Every call returns: no signal is lost between the writers' queue, the     *)
(* memtable switch, manual compactions and the background thread             *)
(* (DBImpl::Write, MakeRoomForWrite, TEST_CompactRange, ~DBImpl).            *)
CallsReturn == Writes!CallsReturn
=============================================================================
