--------------------------- MODULE ReadableFiles ----------------------------
(* Files open for reading (util/env_posix.cc): NewRandomAccessFile maps a    *)
(* file while mmap_limit_ has room, else keeps its descriptor while          *)
(* fd_limit_ has, else opens the file anew for each read.  Threads open,     *)
(* read and close tables at any time; a Limiter's permits are what they      *)
(* share.                                                                    *)
EXTENDS Integers, FiniteSets

CONSTANTS Threads,     \* each with one file
          None,
          MaxMmaps,    \* mmap_limit_
          MaxFds       \* fd_limit_

Limiters == {"mmap", "fd"}
ReadableAssumption == MaxMmaps \in Nat /\ MaxFds \in Nat /\ None \notin Limiters
Limit == [l \in Limiters |-> IF l = "mmap" THEN MaxMmaps ELSE MaxFds]

VARIABLES allowed,   \* allowed_ of each Limiter
          pc,        \* of each thread: inside a call, or the kind of its file
          permit,    \* the Limiter the thread's file must give a permit back to
          fd         \* has the thread's file a descriptor open?

vars == <<allowed, pc, permit, fd>>

Init ==
    /\ allowed = Limit
    /\ pc = [t \in Threads |-> "none"]
    /\ permit = [t \in Threads |-> None]
    /\ fd = [t \in Threads |-> FALSE]

Goto(t, l) == pc' = [pc EXCEPT ![t] = l]
Descriptor(t, b) == fd' = [fd EXCEPT ![t] = b]

Open(t) ==
    /\ pc[t] = "none"
    /\ Descriptor(t, TRUE) /\ Goto(t, "mmap room")
    /\ UNCHANGED <<allowed, permit>>

\* Limiter::Acquire looks before it takes the mutex ...
Look(t, l, here, next, else) ==
    /\ pc[t] = here
    /\ Goto(t, IF allowed[l] > 0 THEN next ELSE else)
    /\ UNCHANGED <<allowed, permit, fd>>

\* ... and again when it has it.
Take(t, l, here, next, else) ==
    /\ pc[t] = here
    /\ IF allowed[l] > 0
       THEN /\ allowed' = [allowed EXCEPT ![l] = @ - 1]
            /\ permit' = [permit EXCEPT ![t] = l]
            /\ Goto(t, next)
       ELSE Goto(t, else) /\ UNCHANGED <<allowed, permit>>
    /\ UNCHANGED fd

\* Limiter::Release
Release(t, here) ==
    /\ pc[t] = here
    /\ allowed' = [l \in Limiters |-> IF l = permit[t] THEN allowed[l] + 1 ELSE allowed[l]]
    /\ permit' = [permit EXCEPT ![t] = None]
    /\ Goto(t, "none")
    /\ UNCHANGED fd

\* NewRandomAccessFile
TryMmap(t) ==
    \/ Look(t, "mmap", "mmap room", "mmap permit", "fd room")
    \/ Take(t, "mmap", "mmap permit", "map", "fd room")

\* GetFileSize and mmap; the descriptor is closed either way.
Map(t) ==
    /\ pc[t] = "map"
    /\ Descriptor(t, FALSE)
    /\ Goto(t, "mapped") \/ Goto(t, "give back")
    /\ UNCHANGED <<allowed, permit>>

\* PosixRandomAccessFile's constructor
TryFd(t) ==
    \/ Look(t, "fd", "fd room", "fd permit", "close")
    \/ Take(t, "fd", "fd permit", "kept", "close")

CloseFd(t) ==
    /\ pc[t] = "close"
    /\ Descriptor(t, FALSE) /\ Goto(t, "temporary")
    /\ UNCHANGED <<allowed, permit>>

\* PosixRandomAccessFile::Read of a file without a descriptor; it may fail to
\* open the file.
BeginRead(t) ==
    /\ pc[t] = "temporary"
    /\ Descriptor(t, TRUE) /\ Goto(t, "reading")
    /\ UNCHANGED <<allowed, permit>>

EndRead(t) ==
    /\ pc[t] = "reading"
    /\ Descriptor(t, FALSE) /\ Goto(t, "temporary")
    /\ UNCHANGED <<allowed, permit>>

\* The destructors: munmap or close, then Release.
Delete(t) ==
    /\ pc[t] \in {"mapped", "kept", "temporary"}
    /\ Descriptor(t, FALSE)
    /\ Goto(t, IF pc[t] = "temporary" THEN "none" ELSE "give back")
    /\ UNCHANGED <<allowed, permit>>

GiveBack(t) == Release(t, "give back")

Step(t) ==
    Open(t) \/ TryMmap(t) \/ Map(t) \/ TryFd(t) \/ CloseFd(t) \/ BeginRead(t) \/ EndRead(t)
    \/ Delete(t) \/ GiveBack(t)
Next == \E t \in Threads : Step(t)
Spec == Init /\ [][Next]_vars

-----------------------------------------------------------------------------
TypeOK ==
    /\ allowed \in [Limiters -> Int]
    /\ pc \in [Threads -> {"none", "mmap room", "mmap permit", "map", "mapped", "fd room", "fd permit",
                           "kept", "close", "temporary", "reading", "give back"}]
    /\ permit \in [Threads -> Limiters \cup {None}]
    /\ fd \in [Threads -> BOOLEAN]
    /\ \A t \in Threads : pc[t] = "none" => permit[t] = None

\* A Limiter has given out what is missing from its allowance, and never more
\* than it had: threads that see the same last permit do not both get it.
Permits == \A l \in Limiters :
    allowed[l] >= 0 /\ allowed[l] + Cardinality({t \in Threads : permit[t] = l}) = Limit[l]

\* "so that we do not end up running out of file descriptors" (env_posix.cc):
\* a descriptor beyond fd_limit_ is open only while a call is in progress.
FewDescriptors ==
    /\ Cardinality({t \in Threads : fd[t] /\ pc[t] \in {"mapped", "kept", "temporary", "none"}}) <= MaxFds
    /\ \A t \in Threads : pc[t] = "mapped" => ~fd[t]

PermitsSafe == TypeOK /\ Permits /\ FewDescriptors
=============================================================================
