-------------------------- MODULE BackgroundThread --------------------------
(* The one background thread of PosixEnv (util/env_posix.cc): Schedule puts  *)
(* an item in the queue, BGThread runs the items one at a time.  Any thread  *)
(* schedules, and so does the function that is running: BackgroundCall ends  *)
(* in MaybeScheduleCompaction (db/db_impl.cc).                               *)
EXTENDS Integers, Sequences

CONSTANTS Callers,   \* the threads that call Schedule
          Bg,        \* the background thread
          None,
          MaxCalls   \* bound: calls of Schedule by one thread

ASSUME BackgroundAssumption == Bg \notin Callers /\ None \notin Callers \cup {Bg} /\ MaxCalls \in Nat

Threads == Callers \cup {Bg}
Items == [by : Threads, n : Nat]

VARIABLES mu,          \* who holds mu_, or None
          started,     \* started_bgthread_
          queue,       \* queue_
          pc,          \* of each thread inside Schedule
          bg,          \* where BGThread is
          hand,        \* the item it took from the queue
          scheduled,   \* history: the items put in the queue
          ran,         \* history: the items whose function was called
          calls        \* history: the calls of each thread

schedule == <<started, queue, pc, scheduled, calls>>
backgroundVars == <<mu, started, queue, pc, bg, hand, scheduled, ran, calls>>

BackgroundInit ==
    /\ mu = None /\ started = FALSE /\ queue = <<>>
    /\ pc = [t \in Threads |-> "idle"]
    /\ bg = "absent" /\ hand = None
    /\ scheduled = <<>> /\ ran = <<>> /\ calls = [t \in Threads |-> 0]

\* The background thread calls from inside the function it runs.
Schedule(t) ==
    /\ pc[t] = "idle" /\ calls[t] < MaxCalls
    /\ t = Bg => bg = "run"
    /\ pc' = [pc EXCEPT ![t] = "lock"]
    /\ calls' = [calls EXCEPT ![t] = @ + 1]
    /\ UNCHANGED <<mu, started, queue, bg, hand, scheduled, ran>>

Lock(t) ==
    /\ pc[t] = "lock" /\ mu = None
    /\ mu' = t
    /\ pc' = [pc EXCEPT ![t] = "start"]
    /\ UNCHANGED <<started, queue, bg, hand, scheduled, ran, calls>>

StartBgThread(t) ==
    /\ pc[t] = "start"
    /\ started' = TRUE
    /\ bg' = IF started THEN bg ELSE "lock"
    /\ pc' = [pc EXCEPT ![t] = "signal"]
    /\ UNCHANGED <<mu, queue, hand, scheduled, ran, calls>>

\* Fault: signals when there is something in the queue.
SignalsWhenFull(t) ==
    /\ pc[t] = "signal"
    /\ bg' = IF queue # <<>> /\ bg = "waiting" THEN "woken" ELSE bg
    /\ pc' = [pc EXCEPT ![t] = "push"]
    /\ UNCHANGED <<mu, started, queue, hand, scheduled, ran, calls>>

\* pthread_cond_signal wakes a thread that waits; else it does nothing.
Signal(t) ==
    /\ pc[t] = "signal"
    /\ bg' = IF queue = <<>> /\ bg = "waiting" THEN "woken" ELSE bg
    /\ pc' = [pc EXCEPT ![t] = "push"]
    /\ UNCHANGED <<mu, started, queue, hand, scheduled, ran, calls>>

Push(t) ==
    LET item == [by |-> t, n |-> calls[t]] IN
    /\ pc[t] = "push"
    /\ queue' = Append(queue, item)
    /\ scheduled' = Append(scheduled, item)
    /\ pc' = [pc EXCEPT ![t] = "unlock"]
    /\ UNCHANGED <<mu, started, bg, hand, ran, calls>>

Unlock(t) ==
    /\ pc[t] = "unlock"
    /\ mu' = None
    /\ pc' = [pc EXCEPT ![t] = "idle"]
    /\ UNCHANGED <<started, queue, bg, hand, scheduled, ran, calls>>

-----------------------------------------------------------------------------
\* pthread_mutex_lock, and the return of pthread_cond_wait.
BgLock ==
    /\ bg \in {"lock", "woken"} /\ mu = None
    /\ mu' = Bg /\ bg' = "check"
    /\ UNCHANGED <<schedule, hand, ran>>

\* pthread_cond_wait gives the mutex back.
BgWait ==
    /\ bg = "check" /\ queue = <<>>
    /\ mu' = None /\ bg' = "waiting"
    /\ UNCHANGED <<schedule, hand, ran>>

SpuriousWakeup ==
    /\ bg = "waiting"
    /\ bg' = "woken"
    /\ UNCHANGED <<mu, schedule, hand, ran>>

\* Fault: takes the newest item.
TakesLast ==
    /\ bg = "check" /\ queue # <<>>
    /\ hand' = queue[Len(queue)] /\ queue' = SubSeq(queue, 1, Len(queue) - 1)
    /\ bg' = "taken"
    /\ UNCHANGED <<mu, started, pc, scheduled, ran, calls>>

BgTake ==
    /\ bg = "check" /\ queue # <<>>
    /\ hand' = Head(queue) /\ queue' = Tail(queue)
    /\ bg' = "taken"
    /\ UNCHANGED <<mu, started, pc, scheduled, ran, calls>>

BgRun ==
    /\ bg = "taken"
    /\ mu' = None
    /\ bg' = "run" /\ ran' = Append(ran, hand)
    /\ UNCHANGED <<schedule, hand>>

BgReturn ==
    /\ bg = "run" /\ pc[Bg] = "idle"
    /\ bg' = "lock" /\ hand' = None
    /\ UNCHANGED <<mu, schedule, ran>>

Inside(t) == Lock(t) \/ StartBgThread(t) \/ Signal(t) \/ Push(t) \/ Unlock(t)
BgStep == BgLock \/ BgWait \/ BgTake \/ BgRun \/ BgReturn
BackgroundNext == (\E t \in Threads : Schedule(t) \/ Inside(t)) \/ BgStep \/ SpuriousWakeup

\* Each thread takes its next step if it can.  Nothing says who gets a mutex
\* that several threads wait for: a call may wait as long as the background
\* thread keeps waking for nothing, and MaxCalls bounds what holds up that one.
Fairness == WF_backgroundVars(BgStep) /\ \A t \in Threads : WF_backgroundVars(Inside(t))
BackgroundSpec == BackgroundInit /\ [][BackgroundNext]_backgroundVars /\ Fairness

-----------------------------------------------------------------------------
Prefix(r, s) == Len(r) <= Len(s) /\ \A i \in 1..Len(r) : r[i] = s[i]

BackgroundTypeOK ==
    /\ mu \in Threads \cup {None} /\ started \in BOOLEAN
    /\ queue \in Seq(Items) /\ scheduled \in Seq(Items) /\ ran \in Seq(Items)
    /\ pc \in [Threads -> {"idle", "lock", "start", "signal", "push", "unlock"}]
    /\ bg \in {"absent", "lock", "check", "waiting", "woken", "taken", "run"}
    /\ IF bg \in {"taken", "run"} THEN hand \in Items ELSE hand = None
    /\ calls \in [Threads -> Nat]

\* Each item's function is called once, in the order the items were put in
\* the queue, one after the other (queue_, env_posix.cc).
Taken == Len(ran) + (IF bg = "taken" THEN 1 ELSE 0)
InOrder ==
    /\ Prefix(ran, scheduled)
    /\ bg = "taken" => Taken <= Len(scheduled) /\ hand = scheduled[Taken]
    /\ Len(scheduled) = Taken + Len(queue)
    /\ \A i \in 1..Len(queue) : queue[i] = scheduled[Taken + i]

\* No wakeup is lost: the thread does not wait while there is an item in the
\* queue, though Schedule signals only when the queue was empty and does so
\* before it adds the item.
NoneAsleep == bg = "waiting" => queue = <<>>

\* A function that schedules another does not wait for itself: it does not
\* run with the mutex held.
RunsUnlocked == (bg = "run" /\ mu = Bg) => pc[Bg] \notin {"idle", "lock"}
=============================================================================
