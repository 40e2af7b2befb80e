----------------------------- MODULE WriteQueue -----------------------------
(* The locks, queues and condition variables of DBImpl: the writers_ queue   *)
(* that groups the batches of several threads into one log record, the       *)
(* switch of memtables, the single background thread that flushes and        *)
(* compacts, manual compactions and the destructor.                          *)
(*                                                                           *)
(* mutex_ is explicit: a step of a thread either holds it or takes it while  *)
(* it is free (Lock), and the phases the code runs without it (appending,    *)
(* syncing, inserting, sleeping, building a table, writing the manifest) are *)
(* steps of their own that leave it alone.                                   *)
EXTENDS Integers, FiniteSets, Sequences, SequencesExt

CONSTANTS
    Threads,     \* client threads of one DBImpl
    None,        \* no thread: a free mutex, no manual compaction
    Kinds,       \* the calls the clients make: "write", "compact", "close"
    MaxOps,      \* bound on the number of batches written
    MaxRanges,   \* bound on the number of CompactRange calls
    Sizes,       \* sizes of a batch, also its number of entries
    SmallBatch,  \* 128 KB: below it a group may grow by this much only
    GroupMax,    \* 1 MB: the largest group
    MemCap,      \* write_buffer_size, in entries
    L0Trigger, L0Slow, L0Stop,  \* config::kL0_*: 4, 8 and 12 files
    MaxPieces,   \* compactions a manual range may need
    IOErrors     \* whether appends, syncs and table writes may fail

ASSUME WriteQueueAssumption ==
    /\ None \notin Threads
    /\ IOErrors \in BOOLEAN
    /\ MaxOps \in Nat /\ MaxRanges \in Nat /\ MaxPieces \in Nat
    /\ Sizes \subseteq Nat \ {0}
    /\ L0Trigger \in Nat /\ L0Slow \in Nat /\ L0Stop \in Nat
    /\ L0Trigger <= L0Stop /\ L0Trigger > 0

VARIABLES
    mutex,         \* mutex_: the thread that holds it
    asleep,        \* threads in a Wait() nobody has signalled
    writers,       \* writers_
    pc,            \* where each thread is
    call,          \* the Writer of each thread: batch, sync, done, status ...
    group,         \* the batches the thread at the front is writing
    force,         \* local of MakeRoomForWrite
    delay,         \* allow_delay, local of MakeRoomForWrite
    lastSequence,  \* versions_->LastSequence()
    logs,          \* the log files not deleted, oldest first; the last is log_
    mem, imm,      \* entries of the memtables, oldest first
    hasImm,        \* imm_ != NULL
    tables,        \* entries flushed to tables, oldest first
    level0,        \* versions_->NumLevelFiles(0)
    bgError,       \* ~bg_error_.ok()
    scheduled,     \* bg_compaction_scheduled_
    bgPc,          \* where the background thread is
    editLog,       \* the log number in the background thread's VersionEdit
    manual,        \* manual_compaction_, by the thread whose record it is
    pieces,        \* compactions left of each manual range, and `done`
    shuttingDown,  \* shutting_down_
    ops, ranges,   \* batches submitted and ranges begun so far
    outcome,       \* what the caller of each batch is told
    syncs,         \* batches whose caller asked for sync
    late           \* batches submitted after bg_error_ was set

locals == <<group, force, delay>>
store == <<lastSequence, logs, mem, imm, hasImm, tables, level0>>
back == <<bgError, scheduled, bgPc, editLog, manual, pieces>>
hist == <<ops, ranges, outcome, syncs, late>>
world == <<locals, store, back, shuttingDown, hist>>
vars == <<mutex, asleep, writers, pc, call, group, force, delay, lastSequence,
          logs, mem, imm, hasImm, tables, level0, bgError,
          scheduled, bgPc, editLog, manual, pieces, shuttingDown, ops,
          ranges, outcome, syncs, late>>

NullBatch == 0
IdleCall == [id |-> NullBatch, size |-> 0, sync |-> FALSE, done |-> TRUE,
             ok |-> TRUE, seen |-> {}]
EmptyLog == [recs |-> <<>>, synced |-> 0]

Init ==
    /\ mutex = None
    /\ asleep = {}
    /\ writers = <<>>
    /\ pc = [t \in Threads |-> "idle"]
    /\ call = [t \in Threads |-> IdleCall]
    /\ group = <<>>
    /\ force = FALSE
    /\ delay = FALSE
    /\ lastSequence = 0
    /\ logs = <<EmptyLog>>
    /\ mem = <<>>
    /\ imm = <<>>
    /\ hasImm = FALSE
    /\ tables = <<>>
    /\ level0 = 0
    /\ bgError = FALSE
    /\ scheduled = FALSE
    /\ bgPc = "idle"
    /\ editLog = 1
    /\ manual = None
    /\ pieces = [t \in Threads |-> [left |-> 0, done |-> TRUE]]
    /\ shuttingDown = FALSE
    /\ ops = 0
    /\ ranges = 0
    /\ outcome = [b \in 1 .. MaxOps |-> "none"]
    /\ syncs = {}
    /\ late = {}

(* ------------------------ mutex and condition variables ----------------- *)

\* Thread t runs with mutex_ held: it holds it already, or is awake and takes
\* it free.
Lock(t) == mutex \in {t, None} /\ t \notin asleep

\* bg_cv_.SignalAll(): the threads left asleep wait on their own Writer.
OnBgCv == {t \in Threads : pc[t] \in {"room", "memwait", "manual", "close"}}
SignalAll == asleep \ OnBgCv

\* The mutex goes from t to nobody, to t itself, or t sleeps on a condition.
Unlock == mutex' = None /\ UNCHANGED asleep
Keep(t) == mutex' = t /\ UNCHANGED asleep
Sleep(t) == mutex' = None /\ asleep' = asleep \cup {t}

Goto(t, p) == pc' = [pc EXCEPT ![t] = p]
Stay == UNCHANGED pc

\* MaybeScheduleCompaction with bg_error_ = err, (imm_ != NULL) = immediate,
\* manual_compaction_ = man and files in level 0: whether there is work to do.
HasWork(err, immediate, man, files) ==
    ~shuttingDown /\ ~err /\ (immediate \/ man # None \/ files >= L0Trigger)

MaybeSchedule(immediate, man) ==
    /\ scheduled' = (scheduled \/ HasWork(bgError, immediate, man, level0))
    /\ bgPc' = IF scheduled' /\ ~scheduled THEN "queued" ELSE bgPc
    /\ UNCHANGED <<bgError, editLog, pieces>>

(* ------------------------------- DBImpl::Write -------------------------- *)

\* A call enters Write: its Writer joins the queue.
Enqueue(t, id, size, sync) ==
    /\ pc[t] = "idle" /\ Lock(t)
    /\ ~shuttingDown
    /\ Keep(t)
    /\ writers' = Append(writers, t)
    /\ call' = [call EXCEPT ![t] =
                  [id |-> id, size |-> size, sync |-> sync, done |-> FALSE, ok |-> TRUE,
                   seen |-> {b \in 1 .. ops : id = NullBatch /\ outcome[b] = "ok"}]]
    /\ Goto(t, "check")
    /\ UNCHANGED <<locals, store, back, shuttingDown, outcome>>

WriteBegin(t) ==
    /\ "write" \in Kinds /\ ops < MaxOps
    /\ ops' = ops + 1
    /\ \E size \in Sizes, sync \in BOOLEAN :
          /\ Enqueue(t, ops', size, sync)
          /\ syncs' = IF sync THEN syncs \cup {ops'} ELSE syncs
    /\ late' = IF bgError THEN late \cup {ops'} ELSE late
    /\ UNCHANGED ranges

\* CompactRange: every range starts by flushing the memtable, for which it
\* queues a writer with no batch.
CompactRangeBegin(t) ==
    /\ "compact" \in Kinds /\ ranges < MaxRanges
    /\ ranges' = ranges + 1
    /\ Enqueue(t, NullBatch, 0, FALSE)
    /\ UNCHANGED <<ops, syncs, late>>

IsRange(t) == call[t].id = NullBatch

\* Where a thread goes when its Write returns.
AfterWrite(t, ok) == IF ~IsRange(t) THEN "idle" ELSE IF ok THEN "memwait" ELSE "start"

\* while (!w.done && &w != writers_.front()) w.cv.Wait()
WriteCheck(t) ==
    /\ pc[t] = "check" /\ Lock(t)
    /\ \/ /\ call[t].done
          /\ Unlock /\ Goto(t, AfterWrite(t, call[t].ok))
          /\ UNCHANGED <<force, delay>>
       \/ /\ ~call[t].done /\ t # Head(writers)
          /\ Sleep(t) /\ Stay
          /\ UNCHANGED <<force, delay>>
       \/ /\ ~call[t].done /\ t = Head(writers)
          /\ Keep(t) /\ Goto(t, "room")
          /\ force' = IsRange(t)
          /\ delay' = ~IsRange(t)
    /\ UNCHANGED <<writers, call, group, store, back, shuttingDown, hist>>

(* --------------------------- MakeRoomForWrite --------------------------- *)

\* It returns an error, which Write goes on to answer.
RoomFails(t) ==
    /\ Keep(t) /\ Goto(t, "answer")
    /\ group' = <<t>>
    /\ call' = [call EXCEPT ![t].ok = FALSE]
    /\ UNCHANGED <<writers, force, delay, store, back, shuttingDown, hist>>

RoomError(t) == pc[t] = "room" /\ Lock(t) /\ bgError /\ RoomFails(t)

\* Close to the limit of level 0, a write is delayed once by 1 ms.
MustDelay == delay /\ level0 >= L0Slow
RoomDelay(t) ==
    /\ \/ /\ pc[t] = "room" /\ Lock(t) /\ ~bgError /\ MustDelay
          /\ Unlock /\ Goto(t, "delayed")
       \/ /\ pc[t] = "delayed" /\ Lock(t)
          /\ Keep(t) /\ Goto(t, "room")
    /\ delay' = FALSE
    /\ UNCHANGED <<writers, call, group, force, store, back, shuttingDown, hist>>

\* How many entries the batches of m have.
Entries(m) == Cardinality(UNION {{i} \X (1 .. m[i].size) : i \in DOMAIN m})
HasRoom == ~force /\ Entries(mem) <= MemCap

\* Fault: the group takes every waiting writer.
BuildBatchGroupOfAll == writers

\* The writers from the front that one log record serves: none past a sync
\* writer the first one would not sync for, nor past the batch that makes the
\* group too large.
BuildBatchGroup ==
    LET first == call[Head(writers)]
        limit == IF first.size <= SmallBatch THEN first.size + SmallBatch ELSE GroupMax
        bytes(n) == Entries([i \in 1 .. n |-> call[writers[i]]])
        fits(n) == \A i \in 2 .. n :
                      /\ call[writers[i]].sync => first.sync
                      /\ call[writers[i]].id # NullBatch => bytes(i) <= limit
    IN  SubSeq(writers, 1, CHOOSE n \in DOMAIN writers :
                              fits(n) /\ (n = Len(writers) \/ ~fits(n + 1)))

RoomFound(t) ==
    /\ pc[t] = "room" /\ Lock(t) /\ ~bgError /\ ~MustDelay
    /\ HasRoom
    /\ \/ /\ IsRange(t)
          /\ Keep(t) /\ Goto(t, "answer")
          /\ group' = <<t>>
       \/ /\ ~IsRange(t)
          /\ Unlock /\ Goto(t, "append")
          /\ group' = BuildBatchGroup
    /\ UNCHANGED <<writers, call, force, delay, store, back, shuttingDown, hist>>

RoomWait(t) ==
    /\ pc[t] = "room" /\ Lock(t) /\ ~bgError /\ ~MustDelay
    /\ ~HasRoom
    /\ hasImm \/ level0 >= L0Stop
    /\ Sleep(t) /\ Stay
    /\ UNCHANGED <<writers, call, world>>

MustSwitch(t) ==
    /\ pc[t] = "room" /\ Lock(t) /\ ~bgError /\ ~MustDelay
    /\ ~HasRoom
    /\ ~hasImm /\ level0 < L0Stop

\* A new log file and a new memtable; the old memtable becomes imm_ and the
\* background thread is asked to flush it.
RoomSwitch(t) ==
    /\ MustSwitch(t)
    /\ Keep(t) /\ Stay
    /\ logs' = Append(logs, EmptyLog)
    /\ imm' = mem
    /\ hasImm' = TRUE
    /\ mem' = <<>>
    /\ force' = FALSE
    /\ MaybeSchedule(TRUE, manual)
    /\ UNCHANGED <<writers, call, group, delay, lastSequence, tables, level0,
                   manual, shuttingDown, hist>>

\* NewWritableFile fails: the write fails, and no background error is set.
RoomNoFile(t) == IOErrors /\ MustSwitch(t) /\ RoomFails(t)

(* ------------- the unlocked phase of Write: log, sync, memtable --------- *)

\* The k-th smallest of the places S.
Nth(S, k) == CHOOSE i \in S : Cardinality({j \in S : j <= i}) = k

\* The batches of m, without the calls of CompactRange, numbered from n + 1.
NumberedFrom(m, n) ==
    LET batches == {i \in DOMAIN m : m[i].id # NullBatch}
        At(k) == Nth(batches, k)
    IN  [k \in 1 .. Cardinality(batches) |->
           [id |-> m[At(k)].id, size |-> m[At(k)].size,
            seq |-> n + 1 + Entries(SubSeq(m, 1, At(k) - 1))]]

\* The batches of the group, numbered from LastSequence() + 1.
Updates == [i \in DOMAIN group |-> call[group[i]]]
Numbered == NumberedFrom(Updates, lastSequence)

AddRecord(t) ==
    /\ pc[t] = "append"
    /\ \/ /\ logs' = [logs EXCEPT ![Len(logs)].recs = Append(@, Numbered)]
          /\ Goto(t, IF call[t].sync THEN "sync" ELSE "insert")
       \/ /\ IOErrors /\ UNCHANGED logs
          /\ Goto(t, "failed")
    /\ UNCHANGED <<mutex, asleep, writers, call, locals, lastSequence, mem, imm,
                   hasImm, tables, level0, back, shuttingDown, hist>>

SyncLog(t) ==
    /\ pc[t] = "sync"
    /\ \/ /\ logs' = [logs EXCEPT ![Len(logs)].synced = Len(logs[Len(logs)].recs)]
          /\ Goto(t, "insert")
       \/ /\ IOErrors /\ UNCHANGED logs
          /\ Goto(t, "syncfailed")
    /\ UNCHANGED <<mutex, asleep, writers, call, locals, lastSequence, mem, imm,
                   hasImm, tables, level0, back, shuttingDown, hist>>

\* WriteBatchInternal::InsertInto, one batch of the group at a time.
Inserted == Cardinality({i \in DOMAIN mem : mem[i].seq > lastSequence})
InsertInto(t) ==
    /\ pc[t] = "insert"
    /\ mem' = Append(mem, Numbered[Inserted + 1])
    /\ Goto(t, IF Inserted + 1 = Len(Numbered) THEN "written" ELSE "insert")
    /\ UNCHANGED <<mutex, asleep, writers, call, locals, lastSequence, logs, imm,
                   hasImm, tables, level0, back, shuttingDown, hist>>

\* Fault: a failed append or sync is answered OK.
RelockOk(t) ==
    /\ pc[t] \in {"written", "failed", "syncfailed"} /\ Lock(t)
    /\ mutex' = t
    /\ lastSequence' = lastSequence + Entries(Updates)
    /\ Goto(t, "answer")
    /\ UNCHANGED <<asleep, writers, call, locals, logs, mem, imm, hasImm, tables,
                   level0, back, shuttingDown, hist>>

\* mutex_ again: a failed sync stops the database, and the sequence numbers
\* of the group are used up whether the write succeeded or not.
Relock(t) ==
    /\ pc[t] \in {"written", "failed", "syncfailed"} /\ Lock(t)
    /\ mutex' = t
    /\ bgError' = (bgError \/ pc[t] = "syncfailed")
    /\ asleep' = IF bgError' # bgError THEN SignalAll ELSE asleep
    /\ lastSequence' = lastSequence + Entries(Updates)
    /\ call' = [call EXCEPT ![t].ok = (pc[t] = "written")]
    /\ Goto(t, "answer")
    /\ UNCHANGED <<writers, locals, logs, mem, imm, hasImm, tables, level0,
                   scheduled, bgPc, editLog, manual, pieces, shuttingDown, hist>>

\* Fault: the new front of the queue is not woken.
AnswerSilently(t) ==
    /\ pc[t] = "answer" /\ mutex = t
    /\ writers' = SubSeq(writers, Len(group) + 1, Len(writers))
    /\ asleep' = asleep \ (ToSet(group) \ OnBgCv)
    /\ call' = [u \in Threads |->
                  IF u \in ToSet(group)
                  THEN [call[u] EXCEPT !.done = TRUE, !.ok = call[t].ok] ELSE call[u]]
    /\ outcome' = [b \in DOMAIN outcome |->
                     IF b \in {call[u].id : u \in ToSet(group)}
                     THEN IF call[t].ok THEN "ok" ELSE "error" ELSE outcome[b]]
    /\ mutex' = None
    /\ Goto(t, AfterWrite(t, call[t].ok))
    /\ group' = <<>> /\ force' = FALSE /\ delay' = FALSE
    /\ UNCHANGED <<store, back, shuttingDown, ops, ranges, syncs, late>>

\* Pop the group, hand its status to every other writer of it and wake them,
\* wake the new front of the queue, return.
Answer(t) ==
    /\ pc[t] = "answer" /\ mutex = t
    /\ LET served == ToSet(group)
           rest == SubSeq(writers, Len(group) + 1, Len(writers))
           front == IF rest = <<>> THEN {} ELSE {Head(rest)}
       IN  /\ writers' = rest
           /\ asleep' = asleep \ ((served \cup front) \ OnBgCv)
           /\ call' = [u \in Threads |->
                         IF u \in served
                         THEN [call[u] EXCEPT !.done = TRUE, !.ok = call[t].ok]
                         ELSE call[u]]
           /\ outcome' = [b \in DOMAIN outcome |->
                            IF b \in {call[u].id : u \in served}
                            THEN IF call[t].ok THEN "ok" ELSE "error"
                            ELSE outcome[b]]
    /\ mutex' = None
    /\ Goto(t, AfterWrite(t, call[t].ok))
    /\ group' = <<>> /\ force' = FALSE /\ delay' = FALSE
    /\ UNCHANGED <<store, back, shuttingDown, ops, ranges, syncs, late>>

(* ----------- TEST_CompactMemTable and TEST_CompactRange ----------------- *)

\* while (imm_ != NULL && bg_error_.ok()) bg_cv_.Wait()
MemTableWait(t) ==
    /\ pc[t] = "memwait" /\ Lock(t)
    /\ \/ hasImm /\ ~bgError /\ Sleep(t) /\ Stay
       \/ (~hasImm \/ bgError) /\ Unlock /\ Goto(t, "start")
    /\ UNCHANGED <<writers, call, world>>

\* TEST_CompactRange fills in its ManualCompaction, whatever became of the
\* memtable.
RangeStart(t) ==
    /\ pc[t] = "start"
    /\ \E n \in 0 .. MaxPieces :
          pieces' = [pieces EXCEPT ![t] = [left |-> n, done |-> FALSE]]
    /\ Goto(t, "manual")
    /\ UNCHANGED <<mutex, asleep, writers, call, locals, store, bgError,
                   scheduled, bgPc, editLog, manual, shuttingDown, hist>>

RangeGoesOn(t) == ~pieces[t].done /\ ~shuttingDown /\ ~bgError

\* One round of its loop: take the manual compaction, or wait for it.
RangeLoop(t) ==
    /\ pc[t] = "manual" /\ Lock(t)
    /\ RangeGoesOn(t)
    /\ \/ /\ manual = None
          /\ manual' = t
          /\ Keep(t)
          /\ MaybeSchedule(hasImm, t)
       \/ /\ manual # None
          /\ Sleep(t)
          /\ UNCHANGED back
    /\ Stay
    /\ UNCHANGED <<writers, call, locals, store, shuttingDown, hist>>

RangeReturn(t) ==
    /\ pc[t] = "manual" /\ Lock(t)
    /\ ~RangeGoesOn(t)
    /\ manual' = IF manual = t THEN None ELSE manual
    /\ Unlock /\ Goto(t, "idle")
    /\ UNCHANGED <<writers, call, locals, store, bgError, scheduled, bgPc,
                   editLog, pieces, shuttingDown, hist>>

(* ----------------------------- DBImpl::~DBImpl -------------------------- *)

\* The caller deletes the database once all its own calls have returned.
CloseBegin(t) ==
    /\ "close" \in Kinds
    /\ \A u \in Threads : pc[u] = "idle"
    /\ mutex = None
    /\ ~shuttingDown
    /\ shuttingDown' = TRUE
    /\ Keep(t) /\ Goto(t, "close")
    /\ UNCHANGED <<writers, call, locals, store, back, hist>>

CloseWait(t) ==
    /\ pc[t] = "close" /\ Lock(t)
    /\ \/ scheduled /\ Sleep(t) /\ Stay
       \/ ~scheduled /\ Unlock /\ Goto(t, "deleted")
    /\ UNCHANGED <<writers, call, world>>

(* --------------------------- the background thread ---------------------- *)

BgLock == mutex = None

\* The end of BackgroundCall: the flag is cleared, more work is scheduled,
\* everybody on bg_cv_ is woken.
BackgroundDone(err, immediate, man, files) ==
    /\ scheduled' = HasWork(err, immediate, man, files)
    /\ bgPc' = IF scheduled' THEN "queued" ELSE "idle"
    /\ asleep' = SignalAll

\* Nothing to do: the database is closing or stopped by an error, or there is
\* neither a memtable nor a range nor a level to compact.
BackgroundNothing ==
    /\ bgPc = "queued" /\ BgLock
    /\ shuttingDown \/ bgError \/ (~hasImm /\ manual = None /\ level0 < L0Trigger)
    /\ BackgroundDone(bgError, hasImm, manual, level0)
    /\ UNCHANGED <<mutex, writers, pc, call, locals, store, bgError, editLog,
                   manual, pieces, shuttingDown, hist>>

\* BackgroundCall starts what has priority: the memtable, the manual range
\* if it has files left, a level that has too many.  All go on unlocked.
BackgroundBegin ==
    /\ bgPc = "queued" /\ BgLock /\ ~shuttingDown /\ ~bgError
    /\ \/ hasImm /\ bgPc' = "flush"
       \/ ~hasImm /\ manual # None /\ pieces[manual].left > 0 /\ bgPc' = "manual"
       \/ ~hasImm /\ manual = None /\ level0 >= L0Trigger /\ bgPc' = "auto"
    /\ UNCHANGED <<mutex, asleep, writers, pc, call, locals, store, bgError,
                   scheduled, editLog, manual, pieces, shuttingDown, hist>>

\* CompactRange found no file left in the manual range.
ManualFinished ==
    /\ bgPc = "queued" /\ BgLock /\ ~shuttingDown /\ ~bgError /\ ~hasImm
    /\ manual # None /\ pieces[manual].left = 0
    /\ pieces' = [pieces EXCEPT ![manual].done = TRUE]
    /\ manual' = None
    /\ BackgroundDone(bgError, hasImm, None, level0)
    /\ UNCHANGED <<mutex, writers, pc, call, locals, store, bgError, editLog,
                   shuttingDown, hist>>

\* CompactMemTable: the table is built unlocked, mutex_ is taken to fill in
\* the version edit, and LogAndApply releases it again to write the manifest.
\* A compaction that notices imm_ (has_imm_) does this on its way.
InlineFlush == [auto |-> "autoflush", manual |-> "manualflush"]
FlushPhase == [flush |-> "apply", autoflush |-> "autoapply", manualflush |-> "manualapply"]
Building == DOMAIN FlushPhase
Applying == {FlushPhase[p] : p \in Building}

FlushStep ==
    /\ BgLock
    /\ \/ /\ bgPc \in DOMAIN InlineFlush /\ hasImm
          /\ bgPc' = InlineFlush[bgPc]
          /\ UNCHANGED editLog
       \/ /\ bgPc \in Building /\ ~shuttingDown
          /\ editLog' = Len(logs)
          /\ bgPc' = FlushPhase[bgPc]
    /\ UNCHANGED <<mutex, asleep, writers, pc, call, locals, store, bgError,
                   scheduled, manual, pieces, shuttingDown, hist>>

\* Go on after a flush: to the end of BackgroundCall, or back to the
\* compaction it interrupted, waking those MakeRoomForWrite left asleep.
AfterFlush(err, immediate, files) ==
    IF bgPc \in {"flush", "apply"}
    THEN BackgroundDone(err, immediate, manual, files)
    ELSE /\ bgPc' = IF bgPc \in {"autoflush", "autoapply"} THEN "auto" ELSE "manual"
         /\ asleep' = SignalAll
         /\ UNCHANGED scheduled

\* The new version is installed: imm_ is dropped, and DeleteObsoleteFiles
\* removes the logs older than the one the version names.
FlushInstalled ==
    /\ bgPc \in Applying /\ BgLock
    /\ tables' = tables \o imm
    /\ imm' = <<>>
    /\ hasImm' = FALSE
    /\ logs' = SubSeq(logs, editLog, Len(logs))
    /\ editLog' = 1
    /\ level0' \in IF imm = <<>> THEN {level0} ELSE {level0, level0 + 1}
    /\ AfterFlush(bgError, FALSE, level0')
    /\ UNCHANGED <<mutex, writers, pc, call, locals, lastSequence, mem, bgError,
                   manual, pieces, shuttingDown, hist>>

FlushFails ==
    /\ bgPc \in Building \cup Applying /\ BgLock
    /\ IOErrors \/ (shuttingDown /\ bgPc \in Building)
    /\ bgError' = TRUE
    /\ editLog' = 1
    /\ AfterFlush(TRUE, hasImm, level0)
    /\ UNCHANGED <<mutex, writers, pc, call, locals, store, manual, pieces,
                   shuttingDown, hist>>

\* The compaction of a level is over.  For a manual one BackgroundCompaction
\* goes on to update *manual_compaction_, which it reads again: if the caller
\* has taken its record back meanwhile, this dereferences NULL.
CompactionEnds(ok) ==
    /\ bgPc \in {"auto", "manual"} /\ BgLock
    /\ bgError' = (bgError \/ ~ok)
    /\ level0' \in IF ~ok THEN {level0}
                   ELSE IF bgPc = "auto" THEN 0 .. level0 - 1 ELSE 0 .. level0
    /\ CASE bgPc = "auto" ->
              /\ BackgroundDone(bgError', hasImm, manual, level0')
              /\ UNCHANGED <<pieces, manual>>
         [] bgPc = "manual" /\ manual # None ->
              /\ pieces' = [pieces EXCEPT ![manual] = [left |-> @.left - 1, done |-> ~ok]]
              /\ manual' = None
              /\ BackgroundDone(bgError', hasImm, None, level0')
         [] OTHER ->
              /\ bgPc' = "crashed"
              /\ UNCHANGED <<asleep, scheduled, pieces, manual>>
    /\ UNCHANGED <<mutex, writers, pc, call, locals, lastSequence, logs, mem,
                   imm, hasImm, tables, editLog, shuttingDown, hist>>

CompactionSucceeds == CompactionEnds(TRUE)
CompactionFails == (IOErrors \/ shuttingDown) /\ CompactionEnds(FALSE)

(* ---------------------------- the specification ------------------------- *)

WriteStep(t) ==
    \/ WriteCheck(t)
    \/ RoomError(t) \/ RoomDelay(t) \/ RoomFound(t)
    \/ RoomWait(t) \/ RoomSwitch(t) \/ RoomNoFile(t)
    \/ AddRecord(t) \/ SyncLog(t) \/ InsertInto(t) \/ Relock(t) \/ Answer(t)

RangeStep(t) == MemTableWait(t) \/ RangeStart(t) \/ RangeLoop(t) \/ RangeReturn(t)

Compaction == CompactionSucceeds \/ CompactionFails
BackgroundStep ==
    \/ BackgroundNothing \/ BackgroundBegin \/ ManualFinished
    \/ FlushStep \/ FlushInstalled \/ FlushFails \/ Compaction

Running == bgPc # "crashed"
ThreadStep(t) == Running /\ (WriteStep(t) \/ RangeStep(t) \/ CloseWait(t))
BgStep == Running /\ BackgroundStep

Next ==
    \/ \E t \in Threads : Running /\ (WriteBegin(t) \/ CompactRangeBegin(t) \/ CloseBegin(t))
    \/ \E t \in Threads : ThreadStep(t)
    \/ BgStep

\* No thread starves at mutex_ (strong fairness: the mutex is free again and
\* again, not all the time), a call that began goes on, the Env runs what was
\* scheduled, and a compaction, whose input is finite, ends.  Nobody has to
\* begin a call.
Fairness ==
    /\ \A t \in Threads : SF_vars(ThreadStep(t))
    /\ SF_vars(BgStep)
    /\ SF_vars(Running /\ Compaction)

Spec == Init /\ [][Next]_vars

(* ------------------------------- properties ----------------------------- *)

Stored == tables \o imm \o mem

TypeOK ==
    /\ mutex \in Threads \cup {None}
    /\ asleep \subseteq Threads
    /\ ToSet(writers) \subseteq Threads
    /\ DOMAIN pc = Threads /\ DOMAIN call = Threads
    /\ \A t \in Threads : call[t].id \in 0 .. MaxOps /\ call[t].size \in Nat
    /\ ToSet(group) \subseteq Threads
    /\ {force, delay, hasImm, bgError, scheduled, shuttingDown} \subseteq BOOLEAN
    /\ lastSequence \in Nat /\ editLog \in 1 .. Len(logs) /\ level0 \in Nat
    /\ manual \in Threads \cup {None}
    /\ \A t \in Threads : pieces[t].left \in 0 .. MaxPieces
    /\ outcome \in [1 .. MaxOps -> {"none", "ok", "error"}]

\* Only the thread at the front of writers_ makes room, logs and inserts, so
\* log_ and mem_ are never used by two threads although mutex_ is released.
AtWork == {t \in Threads : pc[t] \in {"room", "delayed", "append", "sync", "insert",
                                      "written", "failed", "syncfailed", "answer"}}
OneLogger == \A t \in AtWork : writers # <<>> /\ t = Head(writers)

\* A reader, who sees what is numbered up to LastSequence(), sees every batch
\* whole or not at all, and the batches of all threads are numbered without
\* overlap in the order in which they are stored: a flush or a switch of
\* memtables in between reorders nothing.
BatchesWhole ==
    /\ \A i \in DOMAIN Stored :
          Stored[i].seq + Stored[i].size - 1 <= lastSequence \/ Stored[i].seq > lastSequence
    /\ \A i, j \in DOMAIN Stored :
          i < j => Stored[i].seq + Stored[i].size <= Stored[j].seq

\* Whatever is only in a memtable can be replayed from a log file that
\* is still there, even while the background thread is between building the table
\* and installing it and other threads go on writing.
InLogs(e) ==
    \E i \in DOMAIN logs :
       \E k \in DOMAIN logs[i].recs : e \in ToSet(logs[i].recs[k])
Recoverable == \A e \in ToSet(mem) \cup ToSet(imm) : InLogs(e)

\* A caller that asked for sync and was answered OK loses nothing to a crash
\* of the machine: its batch is in a table, or in the synced part of a log
\* that is still there, also when another thread logged it for the group.
Synced(b) ==
    \/ \E e \in ToSet(tables) : e.id = b
    \/ \E i \in DOMAIN logs : \E k \in 1 .. logs[i].synced :
          \E e \in ToSet(logs[i].recs[k]) : e.id = b
SyncDurable == \A b \in syncs : outcome[b] = "ok" => Synced(b)

\* Once a background error is recorded no batch submitted later is accepted,
\* whoever leads the group it would have joined.
ErrorSticks == \A b \in late : outcome[b] # "ok"

\* When the destructor goes on to free the database, no background work is
\* scheduled or running.
QuietWhenDeleted ==
    (\E t \in Threads : pc[t] = "deleted") => ~scheduled /\ bgPc = "idle"

\* What DBImpl::Write keeps, whatever fails and whoever leads a group.
WritesSafe == /\ OneLogger /\ BatchesWhole /\ Recoverable
              /\ SyncDurable /\ ErrorSticks /\ QuietWhenDeleted

\* The calls refine the journal: a batch becomes visible once and whole, and
\* the caller is answered OK exactly for the batches that did.
VisibleUpTo(s, n) ==
    LET seen == {i \in DOMAIN s : s[i].seq <= n}
    IN  [k \in 1 .. Cardinality(seen) |-> s[Nth(seen, k)].id]
JournalOfCalls ==
    INSTANCE Journal WITH
        Batches <- 1 .. MaxOps,
        submitted <- 1 .. ops,
        journal <- VisibleUpTo(Stored, lastSequence),
        outcome <- outcome
ImplementsJournal == JournalOfCalls!Spec

\* Every call returns: no signal is lost between the writers' queue, the
\* memtable switch, manual compactions and the background thread.
CallsReturn ==
    \A t \in Threads : pc[t] # "idle" ~> pc[t] \in {"idle", "deleted"}

=============================================================================
