# TLA+ verification of _BreakPoint

_BreakPoint is an iOS social network: users sign in with an email or with
Google, post to a common feed, form groups and chat in them.  The program is a
few view controllers and two services (`AuthService`, `DataService`) written in
Swift on top of two libraries, Firebase Auth and Firebase Realtime Database.
There is no server code of its own; all state that outlives a screen is in
Firebase.  The repository also holds, and builds into the app, the C and C++
those libraries rest on: LevelDB, Firebase Database's store for persisted data,
and nanopb, its protocol buffers.  They are most of the executable code here and
the part with threads, crashes and files.  This directory holds the modules that
model the program, the TLC instances that check them and the theorems TLAPS
proves about them.

Paths below are relative to `src/_BreakPoint/_BreakPoint/`; those that start with
`Pods/` are relative to `src/_BreakPoint/`, `db/`, `table/` and `util/` to
`Pods/leveldb-library/`, and `pb_*.c` to `Pods/nanopb/`.

## 1. The system

| Component | State it keeps | Operations | Talks to |
|---|---|---|---|
| `AppDelegate` | none of its own | launch: present `LoginVC` when nobody is signed in | Firebase Auth (`currentUser`) |
| `LoginVC` | being on screen; `GIDSignIn`'s delegate | email button, Google sign-in, `viewDidAppear` leaves when somebody is signed in | Auth, `DataService.createDBUser` |
| `LoginEmailVC` | two text fields | Login: log in, on any failure register, then log in again; close | `AuthService` |
| `AuthService` | none | `registerUser` (account, then `/users` record), `loginUser` | Auth, `DataService` |
| `ProfileVC` | the logout sheet | sign out and present a new `LoginVC` | Auth |
| `DataService` | none (references) | `createDBUser`, `uploadPost`, `getAllMessages`, `getAllFeedMessages`, `getUsername`, `getEmail`, `getIds`, `createGroup`, `getAllGroups` | Realtime Database |
| `GroupsVC` | `groupsArray`, a listener per appearance, never removed | appear, new group, select a row | `DataService` |
| `NewGroupVC` | `emailArray`, `choosenOnes`, the form | search, choose, Done, close | `DataService.getEmail`, `getIds`, `createGroup` |
| `GroupFeedVC` | `group`, `messages`, text field, Send button, a listener | appear, send, close | `DataService` |
| `FeedVC`, `PostVC` | `messagesArray`; a text view | read once per appearance; post | `DataService` |
| Firebase Auth | `currentUser`, kept in the keychain; accounts on the server | sign in, create, sign out | work queue, then main queue |
| Realtime Database | server data; per client a cache, pending writes, listeners | write locally, send, send again after a reconnection, acknowledge, deliver | its own serial queue, then main queue |
| LevelDB, write path | `mutex_`, `writers_`, `mem_`, `imm_`, the log, `bg_error_`, one background compaction | `Write`, `MakeRoomForWrite`, flush, compaction, `TEST_CompactRange`, `~DBImpl` | `PosixEnv::Schedule`, log, versions |
| LevelDB, versions | the tables of each level, snapshots | flush, pick, merge, install, `Get` | MANIFEST, tables |
| LevelDB, files | log, MANIFEST, `CURRENT`, tables, file numbers | append, sync, `NewDB`, `Recover`, `LogAndApply`, `DeleteObsoleteFiles`, `RepairDB` | the file system, crashes |
| LevelDB, readers | memtable, blocks, tables, iterators, caches | seek, move, lookup, insert and evict | several threads without the mutex |
| LevelDB, `PosixEnv` | background queue, `locked_files_`, `Limiter`s | `Schedule`, `LockFile`, `NewRandomAccessFile` | threads and processes |
| nanopb | an input or output stream, the message structure | `pb_decode`, `pb_encode` and their callbacks | bytes from anywhere |

All of the app's code runs on the main queue, so nothing of it is preempted; but
almost every operation is cut into several turns of that queue, and what
happens between two turns is where the program can go wrong:

* an Auth call sets `currentUser` on its work queue, and the app's closure runs
  in a later turn.  In between the user may edit the fields, close the screen,
  log out, or have another call answered.  Closures read the text fields and
  `currentUser` again instead of what they held when the call was made;
* a database listener does not use its data: it asks for the location once more
  and assigns the result one turn later, so three turns and two readings lie
  between a change and the screen;
* listeners are never removed: they outlive the session they were attached in;
* registration is two operations, an account and a record, on two services;
* local writes show at once and success is reported before the server has them;
* the process can die anywhere; only the server and the keychain survive.

The app never enables persistence, so in this program nanopb and LevelDB are linked and
idle; their code is modelled for what it promises any caller.  What is hard in
LevelDB:

* writers form groups: one thread logs and inserts for others and drops the
  mutex while it does, and an append, a sync or a flush may fail in that window;
* a flush, an automatic and a manual compaction use one background thread, and a
  flush can run inside a compaction; snapshots come and go while it merges;
* readers hold no lock: they walk a list that grows, tables another thread evicts,
  and blocks that may be damaged;
* the machine may stop between any two file operations: what was synced must be
  found again, what is still needed must not be removed or written over;
* wakeups: four kinds of waiter share one condition variable.

nanopb must survive any bytes with arrays of fixed size, and lengths written in a
first pass must fit what the second writes.

What makes the components correct:

* *sign-in*: the tabs are only reachable by somebody signed in; every record
  belongs to an account; every account gets its record; a sign-in ends in the
  tabs;
* *database*: nobody has a message without its group; what is shown does not
  flicker; together the clients see one growing board;
* *groups*: what the screens settle on is right for the user who is signed in;
  one press sends one message; only members are in a chat; whoever asks for a
  group is a member of it; no unwrapped `nil`;
* *search*: the list settles on what the typed text finds, whatever listeners
  of earlier texts bring; the check marks tell the choice;
* *feed*: a row shows its own post; one's own post is listed after posting, and
  no reading of `/feed` loses what an earlier one showed;
* *LevelDB*: a batch is applied once, whole and in order, and its caller is told
  the truth; compaction is invisible; what was promised survives a crash; an
  iterator shows its snapshot; caches and locks count correctly; every call ends;
* *nanopb*: no byte sequence leads outside the memory or the lengths given; what
  was written is what is read.

`PROJECT.json` lists the hazards at their lines and the properties aimed at them.

## 2. The modules

| Module | Models |
|---|---|
| `Session` | sign-in, registration, Google, logout on several phones sharing one Auth project |
| `Database` | the Realtime Database client and server for one listened location |
| `Board` | abstract: a growing set of nodes, of which each client shows a part |
| `Groups` | the groups tab on top of `Board` (`B == INSTANCE Board`, whose actions are used by name) |
| `UserSearch` | `NewGroupVC`'s search, its rows and check marks |
| `Feed` | `FeedVC`, `PostVC`, and the cells names are fetched for |
| `Journal` | abstract: what `DB::Write` promises its callers |
| `WriteQueue` | `db/db_impl.cc`: writers, memtable switch, background thread, manual compaction, closing |
| `SnapshotStore` | abstract: a map that changes key by key, and snapshots of it |
| `Levels` | `db/version_set.cc`, `DoCompactionWork`: which entries are in which table, what a `Get` finds |
| `LogFile` | `db/log_writer.cc`, `db/log_reader.cc`: fragments, blocks, crashes, failed appends |
| `Manifest` | creation, `Recover`, `LogAndApply`, `DeleteObsoleteFiles` and crashes between them |
| `Repair` | `db/repair.cc` over the directories a database and its crashes leave |
| `SkipList` | `db/skiplist.h`, one load or store of a shared pointer a step |
| `LRUCache`, `TableCache` | `util/cache.cc`; `db/table_cache.cc` over it |
| `FileLocks`, `ReadableFiles`, `BackgroundThread` | `util/env_posix.cc`: `LockFile`, the `Limiter`s, `Schedule` |
| `Cursor` | abstract: an iterator over a snapshot |
| `Merger`, `DBIter` | `table/merger.cc` and `table/two_level_iterator.cc`; `db/db_iter.cc` over them |
| `Block`, `Table` | `table/block*.cc`; `table/table*.cc`, `table/filter_block.cc` |
| `Wire`, `PbDecode`, `PbEncode`, `PbRoundTrip` | nanopb: the wire format, the two directions, and both in a row |
| `FirebaseProofs` (of `Session` and `Database`), `GroupsProofs`, `UserSearchProofs`, `FeedProofs`, `WriteQueueProofs`, `LevelsProofs` (of `Levels` and `Repair`), `ManifestProofs`, `ThreadsProofs` (of `SkipList`, `BackgroundThread`, `FileLocks` and `ReadableFiles`) | theorems |
| `MCSession`, `MCGroups`, `MCSearch`, `MCFeed`, `MCLive`, `MCStore`, `MCThreads`, `MCMemory`, `MCFiles`, `MCReads` | instances for TLC |

Four modules are shown to implement an abstract one: `Database` implements
`Board`, `WriteQueue` implements `Journal` and `Levels` implements `SnapshotStore`
(checked and proved), `DBIter` implements `Cursor` (checked).

`Database` implements `Board` (`Database!IsBoard`, checked and proved), and
`Groups` is built from `Board`'s actions `Post`, `Accept`, `Learn` and
`Restart`; so what `Groups` assumes of Firebase's data is what the client code
was shown to give.  (A client that `Groups` does not model posts and has its
write taken in one step: nobody sees its write before the server has it.)

### Session

One action per handler or closure.  `screen` is the topmost view controller;
`calls[d][slot]` is an Auth call with the stage it has reached: `login` →
`loginOk`/`loginErr` → `register` → `registerOk` → `relogin`, and `google` →
`googleOk` → `dismiss`.  `here` says that the view controller that made the call
is still on screen; when it goes, `typed` keeps what its fields held, as the
closure holds on to it.  `LoginAnswered`, `RegisterAnswered` and `GoogleAnswered`
are what Firebase does on its queue (`FIRAuth.m`: `updateCurrentUser`, then the
callback on the main queue); `LoginSucceeded`, `LoginFailed`,
`RegisterSucceeded`, `GoogleSucceeded` and `GoogleDismiss` are the closures.
`dismiss` on a view controller that presents another dismisses that one, and on
one that is not presented does nothing (`DismissEmail`, `DismissLogin`, `Stay`).
An answer may fail, or be lost after the server did its part (`AnswerLost`).
`cut` and `late` are history variables that say which exceptions a property
has to grant.  A uid stands for its email: Auth keeps one account per email.
`AppDelegate.sign(_:didSignInFor:)` is not modelled: `LoginVC.viewDidLoad` takes
over the delegate before any sign-in can be asked for.

### Database and Board

`Put` applies a write locally and queues it; `Commit` is the server taking the
first write of a client it does not have yet (`restoreState` sends outstanding
puts again in ascending order, and repeating a merge of the same nodes changes
nothing); `Deliver` is data for the listener; `Ack` removes an acknowledged
write, which `sendPut` defers while a listen is incomplete; `Die` loses the view
and the queue, as persistence is never enabled.  `View(c)` is server data
overlaid with pending writes.  `Needs` says which nodes a node refers to (a
message needs its group).

### Groups

`work` and `main` are Firebase's serial queue and the main queue, as sequences of
items.  A change makes one `groupsEvent` per listener (and a `chatEvent`); the
closure queues `readGroups`; its answer is `groupsSnap`, where `getAllGroups`
filters by `currentUser`, or ends the process when that is nil; the rows are
assigned by `groupsAssign`.  `messagesSnap`/`messagesAssign` do the same for the
chat.  `DonePressed` queues a `getIds` call in `asks`, answered over the network
whenever `/users` arrives; its closure reads `currentUser`, queues the write and
asks for `close`.  `SendPressed` queues the write and the closure that clears the
field.  `Logout` leaves the tab bar and its listeners alive, as `ProfileVC` does.
Once a chat is closed its closures can change nothing that is seen and are
dropped from the queues.  Text is abstracted to whether there is some; the order
of rows and the labels with names are left out.  `owner`, `replaced`, `foreign`
and `loggedOut` are history variables.

No security rules are in the repository; the model lets every client read and
write `/groups`, also a signed-out one.  (The crash below does not depend on
that: a list that is being read when the user confirms the logout is enough.)

### UserSearch

`Type` and `Clear` are the two branches of `newInputChange`; `Attach`, `Receive`,
`Called` and `Assign` take a query through Firebase's queue, the listener's
closure in `getEmail(forSearchQuery:)`, whose array is one per call of it and is
only ever added to (`made`), and the assignment to `emailArray`.  A row has the
table's selection and the cell's mark.  UIKit calls `setSelected` once when it
displays a cell and once per tap; the first call brings `UserCell.showing` in
step with the mark, so that `showing` is not needed in the state.
`allowsMultipleSelection` makes a tap on a selected row a deselection, which
`NewGroupVC` does not implement (`Deselect`).  `Redisplay` is a row scrolled out
and back.  The order of `choosenOnes`, which only the label shows, is left out.
`regrown`, `calm` and `odd` are history variables.

### Feed

`work` carries the phone's writes and requests for `/feed` in the order they were
made; `AnswerFeed` serves all waiting requests with one state of the server, no
older than the last answer, under the phone's own writes; `AssignFeed` replaces
the list and reloads the table.  `viewDidAppear` follows when PostVC has been
dismissed, as it covers the whole screen.  `CellForRow` queues a `getUsername` call that carries the
cell and the post; `NameArrives` fills the cell, or does nothing when the author
has no record (an account `Session!NoOrphanUnlessCut` speaks of).  `Scroll` hands
the cell of the row that leaves to the row that enters.  `seen` and `cached` say
that Firebase's answers do not go back in time; answers about one location are
given in the order of the requests.  `mine` and `unnamed` are history variables.
An empty text is posted like any other: `sendPost`'s condition is always true.

### WriteQueue and Journal

`mutex_` is explicit: a step of a thread holds it or takes it while it is free,
and the phases the code runs without it (append, sync, insert, sleep, build a
table, write the MANIFEST) are steps that leave it alone.  `writers` is the queue
of `Writer`s; `WriteCheck` is the front of `Write`, the `Room...` actions are the
branches of `MakeRoomForWrite`'s loop, `AddRecord`, `SyncLog`, `InsertInto`,
`Relock` and `Answer` the rest.  `asleep` is the set of threads nobody has signalled
since they waited; `bg_cv_` wakes all of them.  `BackgroundBegin` and what follows
is `BackgroundCall`; a compaction is one unit here (`CompactionEnds`), as `Levels` has
its content.  `Journal`'s `submitted`, `journal` and `outcome` are read off
`writers`, the inserted batches and what each caller was told.

### Levels and SnapshotStore

An entry is its sequence number, `writes[s]` has its key and whether it deletes, a
table is the set of its entries.  `PickLevelForMemTableOutput`, `PickCompaction`,
`SetupOtherInputs`, `DoCompactionWork`'s drop rules
and where its outputs end, trivial moves, `CompactRange` and a reopening are
modelled; a threshold on bytes is a choice (`CutWithinKey`: whether an output may
end between two entries of a key).  `SnapshotStore`'s map is what `Get` returns.

### LogFile, Manifest, Repair

`LogFile`'s file is a sequence of cells, one per byte; a crash keeps what was
synced and any prefix of the rest, a failed append leaves any prefix of itself.
`Manifest` keeps of a MANIFEST what reading it gives after each of its records, so
that a record cut off by a crash is a state less; a log is the batches in it.  The
machine may stop before every file operation; `reader` is a version an iterator
holds.
`Repair` begins with the directories a database and its crashes can leave and a
file that may be damaged; one step scans or converts or moves one file.

### SkipList, caches, files, threads

`SkipList` makes each load and each `Release_Store` a step; the height is read with
no barrier and may be old.  `LRUCache` makes a function of the shard an operator
from one state of it to the next; `TableCache` adds the opening of a file with no
lock held.  `FileLocks` has POSIX's rule that closing any descriptor of a file
ends the process's lock on it.  `BackgroundThread` allows wakeups out of nothing.

### Cursor, Merger, DBIter, Block, Table

`Merger` is the operators of `MergingIterator` and of `TwoLevelIterator` on the
children's positions; `DBIter` makes a round of each loop a step, so a write can
come between any two.  `Block` has real prefixes, restarts and varints over a
small byte (`Base` is 128 in the code), read back whole or with one byte changed.
`Table` has the builder's pending index entry, the filter's offsets and errors.

### nanopb

`Wire` is the arithmetic at a parameterised width that keeps what it depends on:
the last byte of a varint has more bits than the word has left.  In `PbDecode` a step is one field, one entry of
a packed array or one callback; `frames` is the C stack with the limited stream of
each call.  In `PbEncode` a nested message is sized and then written, and a
callback may give other bytes the second time.  Allocation is off, as the pod is
built, so a field that would be allocated is an error.

## 3. What is checked

| Run | Instance | Properties |
|---|---|---|
| `sign_in` | `MCSession`: 1 phone, 2 emails, 2 overlapping calls | `AuthGate`, `StuckOnlyWhenLate`, `RecordsHaveAccounts`, `NoOrphanUnlessCut` |
| `groups` | `MCGroups`: 1 phone, 2 users; parts `chats`, `busy`, `form`, `sends` | `ScreensSettle`, `ChatMembership`, `GroupOfItsMaker`, `CrashNeedsLogout`, `NoDoubleSend` |
| `search` | `MCSearch`: 3 users, 2 texts, 2 listeners | `SearchSettles`, `RepeatsNeedChange`, `MarksTellChoice` |
| `feed` | `MCFeed`: 3 posts by 2 users, 2 cells, 2 readings, 2 names | `FeedSettles`, `FeedOnlyGrows` |
| `app_live` | `MCLive`, with fairness: parts `database`, `sign_in`, `groups`, `search`, `feed` | `Causal`, `ViewGrows`, `IsBoard`, `SignInReachesTabs`, `SendComesBack`, `SearchAnswered`, `PostComesBack` |
| `groups_crash` | `Groups` | `NoCrash`, violated |
| `writes` | `MCStore`: 3 threads, one of which closes the database | `WritesSafe`, `ImplementsJournal` |
| `levels_split` | `Levels` | `EntriesNeverHop`, violated |
| `threads` | `MCThreads`, with fairness: parts `queue`, `background` | `InOrder`, `NoneAsleep`, `CallsReturn` |
| `memory` | `MCMemory`: parts `list`, `lru`, `tables`, `readable`, `threads`, `processes`; and, of nanopb, `arrays`, `unions`, `callbacks`, `word`, `delimited`, `merged`, `older` | `ScanIsComplete`, `CachesSafe`, `LocksSafe`, `DecodesSafely`, `ReadsWhatWasWritten` |
| `files` | `MCFiles`: parts `log`, `failing_log`, `versions`, `failing_versions`, `damaged`, `stopped` | `LogKept`, `RecoveryHolds`, `RepairKeeps`, `NothingOverwritten` |
| `reads` | `MCReads`: parts `levels`, `ranges`, `snapshot`, `errors`, `written`, `damaged`, `table` | `LevelsSafe`, `ReadsTruthful`, `LookupsFind`, `ReadsSnapshot`, `ImplementsStore` |

**Parts.**  Components that share no state are checked in one run, one at a time:
`part` is chosen at the start and never changes, the actions of that part alone are
enabled, the variables of the others stay in an initial state, and each property
says which part it speaks of.  The states of the run are the sum of those of its
parts, not their product.  The same device gives one component several instances
whose bounds differ (`levels` and `ranges` are two of `Levels`).  A
property of a run that joins several is a conjunction of named ones, defined in the
component's module with the comment that explains it.

**Sign-in.**  `AuthGate`: nobody reaches the tabs signed out, although closures
that dismiss screens outlive sessions.  `RecordsHaveAccounts` and
`NoOrphanUnlessCut`: accounts and records agree up to what a lost answer or a
death cut off, in spite of fields edited between the two operations.
`StuckOnlyWhenLate` gives the one way to be signed in and face an idle `LoginVC`:
closing the email screen before the answer (the user can still leave by signing in
again).  `SignInReachesTabs` is its liveness counterpart.  The run has one phone;
that two phones may register one email at once is covered by the theorems, which
are for any number of them.

**Database.**  `Causal` is what readers that cast the members of every node of
`/groups` rely on; `ViewGrows` says that between the local copy, the server's and
the acknowledgement nothing disappears; `IsBoard` is the refinement.

**Groups.**  `ScreensSettle` says what list and chat are once both queues are
empty; `ChatMembership` names the cases in which somebody sits in the chat of a
group they are not in (the rows of the user before, or a user replaced by a late
answer); `GroupOfItsMaker` that a form still on screen makes the presser's group;
`CrashNeedsLogout` that the unwraps need a logout in the same process;
`NoDoubleSend` one message per press.

**Search.**  `SearchSettles` holds because listeners are called oldest first and
every assignment takes one more turn, not because old listeners are removed; it
includes that an emptied list fills again only when `/users` changes or was being
read.  `RepeatsNeedChange` (users are listed twice only after `/users` has changed
under a listener) and `MarksTellChoice` (marks are wrong only after a second tap on
a row, or a tap on another row of the same user) fence in what the code gets wrong.

**Feed.**  `FeedSettles`: once the names asked for have come, each cell shows its
row's post, unless the last author asked for had no record: then the cell keeps
an earlier row's text; and one's own posts are listed.  It and `PostComesBack`
depend on the write of a post preceding the reading that the closing of `PostVC`
causes.  `FeedOnlyGrows`: no list takes the place of one with a post it lacks.

**Writes.**  `WritesSafe` joins: one thread at a time logs and inserts;
a group's batches are numbered whole and in order; what is only in a memtable is in
a log; a synced batch is on the disk; a background error is never forgotten, so
that a log that may be half written gets no further record; nothing runs when the
database is deleted.  `ImplementsJournal` is what callers see of all that.

**Threads.**  `CallsReturn`: every write, manual compaction and closing comes to its
end, though writers, the memtable switch, manual compactions and the background
thread share condition variables.  `NoneAsleep` and `InOrder`: `Schedule` signals
only an empty queue, before the item is in it, and no wakeup is lost.

**Memory.**  `ScanIsComplete`: a reader without a lock passes over no key
inserted before it began.  `CachesSafe`: references are counted, an entry is freed
once and only when nobody has it, an evicted table is closed after its last reader,
open tables are bounded.  `LocksSafe`: at most one thread of one process has the
database, and no permit for a mapping or a descriptor is lost or made.

**Files.**  `LogKept`: whole records, once, in order, those promised among them; a
crash alone is no corruption.  `RecoveryHolds`: at every moment, crashes included,
the database opens with everything promised and every table it may open.
`NothingOverwritten`: a file number that was taken and not recorded is not given to
a file still needed.  `RepairKeeps`: what could be read when a repair begins is in
the repaired database, also after it was stopped and begun again.

**Reads.**  `LevelsSafe`: tables of a level below 0 are disjoint, a deeper place has
only older entries of a key, and no entry a held snapshot may ask for is dropped.
`ImplementsStore`: flush, move, merge and reopening change nothing that is read.
Part `levels` has a snapshot and flushes inside compactions, part `ranges` manual
compactions and outputs that end inside a key.  `ReadsSnapshot`: the iterator implements a cursor over its snapshot.
`ReadsTruthful`: the merged iterator stands where `DBIter` supposes, and over
damaged data no answer is wrong while the status is ok.  `LookupsFind`: blocks and
tables give the entry asked for.

**nanopb.**  `DecodesSafely`: whatever the bytes, the decoder stays in its arrays
and in each length, and accepts or refuses for a reason.  `ReadsWhatWasWritten`:
what was written is read, by an older reader as far as it knows the fields, and
merged as the two messages say.

### Findings

`NoCrash` is violated: `GroupsVC`'s listeners stay attached after a logout, and the
first change of `/groups` makes `getAllGroups` unwrap a nil `currentUser`
(`Services/DataService.swift:188`).

`EntriesNeverHop` is violated: a compaction may end an output between two entries
of one key (neither `ShouldStopBefore` nor the size limit looks at the key), and
`PickCompaction` (`db/version_set.cc:1310`) then takes the first of the two files
alone.  The newer entry moves below the older one, which `Get` returns from then
on; the comment of `Version::Get` (`db/version_set.cc:346`) says entries never hop
across levels.  It takes an entry that a snapshot kept.  Where outputs end between
keys (`CutWithinKey` is FALSE, part `levels` of `reads`) the invariant holds, and where
they do not it holds if no snapshot is ever taken (part `ranges`): a merge then keeps
one entry of a key.  `EntriesStayInOrder` proves both for any number of keys and levels.

### Behaviour met while modelling that the instances leave out

Each of these is what the source does; most are in the modules and would violate a
property of the run, so the instances keep its conditions apart or the property
grants it:

* `db/db_impl.cc:759`: after a manual compaction `BackgroundCompaction` reads
  `manual_compaction_` again; if an error woke its owner meanwhile, the owner has set
  it to NULL.  `WriteQueue.CompactionEnds` has that case.  Errors and manual
  compactions are therefore in different instances;
* `db/db_impl.cc:1311`: `TEST_CompactMemTable`'s empty batch can join another
  writer's group, and then switches no memtable;
* `db/db_impl.cc:922`: a flush inside a manual compaction may put its table at a level
  between the inputs and the outputs.  Part `ranges` of `reads`, which has manual
  compactions, has no such flush (`InlineFlush` is FALSE), and `LevelsStayDisjoint` has
  the hypothesis that not both happen;
* `db/log_writer.cc:107`: after a failed append `block_offset_` is advanced as if the
  record was there; later records of the file may be lost to a reader.
  `failing_log` promises nothing but whole records, and `DBImpl` takes no further
  writes after an error of a sync (`WritesSafe`);
* `db/db_impl.cc:463`: with `reuse_logs` a log that ends in a torn record is
  continued, and what follows the tear may be taken for a corruption;
* `db/log_reader.cc:88`: a reader that begins at an offset skips the rest of the
  record it fell into silently (`log_reader.h:77`), but a bad fragment, also one that
  merely begins before the offset, ends that mode, and the rest is then reported;
* `db/db_impl.cc:196`: `NewDB` does not sync the first MANIFEST before `CURRENT` names
  it; a crash there leaves a database that does not open (`CrashInNewDB` is FALSE);
* `db/repair.cc:343`: a damaged table is moved away before its copy is complete; a
  stop or a failed write in between loses the table (`RepairKeeps` excepts the
  write that failed, and asks nothing of repairs that meet damage and are stopped);
* `db/repair.cc:398`: every table goes to level 0, where lookups take the newest file
  number first; a compaction's output has a newer number than its data are.
  `RepairKeeps` says which entries are kept, not which of them a lookup finds first;
* `util/env_posix.cc:471`: a second opening of the lock file in a process, even one
  that fails, closes a descriptor and so ends the process's record lock; other
  threads are still kept out by `locked_files_`.  `threads` and `processes` are apart;
* `db/db_impl.cc:1562`: `DestroyDB` unlocks the lock file and then deletes it;
  another process may hold it by then;
* `table/merger.cc:103`: `Prev` after `Next` seeks each child to the current key and,
  if there is nothing there, to its last entry; an entry written to the memtable
  between the two leaves that child beyond the key.  `DBIter` passes over it, as it is
  newer than the snapshot;
* `pb_decode.c:947`: with a multiple of 32 required fields the last mask is a shift
  by 32, so a complete message may be refused.  `word` checks everything but
  `RefusedForReason`;
* `pb_encode.c:227`: whether a nested message without presence is all zero, and so left
  out, is decided for an array in it by the array's first entry alone.

### Bounds

*App.*  `Slots` bounds overlapping Auth calls; two are enough for a call to be
answered while the other's screen has gone or its user was replaced.  In `Groups`,
`Keys` bounds nodes (two groups, or a group and a message); `MaxListeners` bounds
how often `GroupsVC` appears in one process (three: open the tab, return from a
chat, and come back as another user); `MaxQueued` bounds the work queued when new
data arrive (one: new data come between the two readings of a listener); `MaxAsks`
bounds overlapping `getIds` calls.  In `UserSearch` two listeners are an old text's
and the current one's, and three users leave two to find, so that a change of
`/users` under both repeats rows.  In `Feed` three posts on two cells make rows
scroll; `MaxReads` (two) lets a reading start while another is under way, and
`MaxNames` (two) lets a cell be recycled while its name is on its way.  All bound
when users or the network start something new, never how work in progress ends.

*LevelDB.*  Three threads are a leader, a member of its group and one behind; sizes 1
and 2 against `GroupMax` 3 and `SmallBatch` 1 reach both limits on a group; a memtable
of one batch makes the third write wait for a flush, and `L0Slow` 1, `L0Stop` 2 reach
the delay and the stop.  `Levels`: three levels, so that something lies below the
outputs and moves are possible; three writes to two keys give an entry in each place.
That a fourth write or a third key changes nothing is proved.  `LogFile`: blocks of 7 with headers of 3 and records up to 9
long span three blocks and end at every offset.  `Manifest`: two batches and two
crashes allow a recovery of a recovery; `MaxNumber` bounds file numbers.  `SkipList`:
three keys and three levels, one reader.  `LRUCache`: two charges against a capacity
of two, four entries.  `DBIter`: every history of three writes and one more during
the reading, over a memtable and up to two tables.  `Block`: every set of up to four
(damaged: three) of the keys of up to two bytes.  `PbDecode`: all buffers of up to
five bytes from tags, lengths and values of the schema; `WordBits` and `MaxRequired`
shrink `fields_seen`.

Deadlock is checked in `sign_in`, `groups` and `groups_crash`, where somebody can
always go on; in the other runs what a user may start is bounded, or a part comes to
its end.  Symmetry is used for devices, emails, passwords, slots, users, keys, cells and
threads, never with a liveness property.

### Fairness

`app_live`: for a sign-in, weak fairness of every closure queued on the main queue
and of `viewDidAppear` of a screen being presented (`Session!Fairness`); for each
of the other screens, weak fairness of its steps together that need no user: the next
item of each serial queue, the appearance of a screen that is coming up, and for
`Feed` that requests are answered, that is, a connection that comes back
(`PostComesBack` promises nothing offline).  That is what GCD and UIKit guarantee a
living process.

`threads`: for the background queue, weak fairness of the background thread and of a
thread inside `Schedule`.  For the write path, strong fairness of each thread's
steps and of the background's, since a step that needs `mutex_` is enabled only
while it is free: a `pthread` mutex that is freed again and again is given to a waiter
in the end; and strong fairness of the end of a compaction, which a flush may
interrupt.  Nothing is assumed of the callers.

## 4. What is proved

For all values of the constants, from the assumptions named in the modules.  They
only say what the constants are: `SentinelAssumption`, `GroupsAssumption` and
`WriteQueueAssumption`, that the markers for nobody, no group and no thread are told
apart from real ones; `LevelsAssumption`, that keys are numbers, that a flush
chooses a level there is, and that the three switches are Boolean; `NeedsAssumption`, that references are a function to sets of
nodes; `SearchAssumption`, that a query finds some of the users and the empty text is no
query; `FeedAssumption`, that the table has finitely many cells; `SkipListConstants`
and `BackgroundAssumption`, that the processes are told apart; and that the bounds are
numbers, which is all that `ManifestAssumption` and `RepairAssumption` say next to keys
being numbers and switches Boolean; `LockAssumption` and `ReadableAssumption`, besides,
that no file or limiter is the marker for none.  TLC evaluates each of them in a run.
`FeedAssumption`, `RepairAssumption`, `LockAssumption` and `ReadableAssumption` are
hypotheses of their theorems, and conditions on the instances in `MCFeed`, `MCFiles`
and `MCMemory`.

In every component the invariant that a run checks is not inductive, as it only speaks
of the moment when nothing is under way.  The inductive one (`IInv` where the component
has a single one) says what each item still under way will do.

* `FirebaseProofs`, of `Session`: `TypeCorrect`, `AuthGateHolds`, `StuckOnlyWhenLateHolds`,
  `RecordsHaveAccountsHolds`, `NoOrphanUnlessCutHolds`.  None of the invariants is
  inductive alone.  `CallsOK` fixes which credentials a call of each stage can
  carry; `ScreenInv` adds that a call that is `here` belongs to the screen that
  is up (`HereOK`), that a pending `dismiss` has a signed-in user or a screen
  that is going (`DismissOK`, `AppearOK`): without it a Google closure could be
  thought to dismiss the screen of a later session.  `RecordInv` adds that
  whatever closure or write still owes a record names an existing account
  (`OwedHaveAccounts`).
* `FirebaseProofs`, of `Database`: `DatabaseTypesHold`, `CausalHolds`, `ViewGrowsHolds` and
  `ImplementsBoard`.  The inductive invariant says that the log refers backwards
  only (`LogCausal`), that a pending write refers to data received or to earlier
  pending writes (`PendingCausal`), and that no listener is ahead of the log
  (`SeenOK`).  One lemma per action says what it does to the views; from these
  follow both `ViewGrowsHolds` and the step simulation of `Board`.
* `GroupsProofs`: `TypesHold`, `ScreensShowTheView`, `ChatOfItsMembers`,
  `MakersInTheirGroups`, `CrashesNeedLogout`, and the action property `OneSend`.  What a
  queued closure carries depends on its kind (`TypeInv`).  `ListContent` is the argument
  for the list: either a listener's event or a reading is still queued, and will see
  everything; or the *last* `groupsSnap` carries the present view, or there is none and
  the last `groupsAssign` carries the rows of that view, or there is none and the screen
  has them.  Items before the last do not matter, so neither does how many listeners
  there are.  `ListOwner` says the same of the user the rows are for, and `ChatContent`
  of the chat's messages.  `FormCalls` and `MakerIn` follow a press of Done over its two
  turns, with the user it was made by; `Sessions` says in which places a `nil` user may
  still have closures queued; `SendOff` that the button is off while the field holds what
  is being sent.  `NoCrash`, which `groups_crash` refutes, is what remains false:
  `CrashesNeedLogout` proves that its counterexamples all contain a logout.
* `UserSearchProofs`: `TypesHold`, `SearchSettlesHolds`, `RepeatsNeedChangeHolds`,
  `MarksTellChoiceHolds`.  The newest listener, attached or still queued, is that of the
  text (`Newest`); of the calls queued the last is the newest listener's with all the
  data there are, and behind the calls the last assignment, then the list itself, has
  what that listener found (`LastIsNewest`).  It needs that no call has more than
  Firebase had (`Heard`), which keeps what a listener has collected within what is there.
  For an emptied text `Still` says that nothing is on its way.  `CalledOnce` says why
  rows do not repeat before `/users` changes: until then each listener has at most one
  call, before which it has collected nothing.  The check marks need only one row for
  each result (`RowsOK`): a reload, of whatever results, brings marks and choice in step.
* `FeedProofs`: `TypesHold`, `FeedSettlesHolds`, and the action property `FeedGrows`.
  `Growing` orders what is under way: the list on the screen, the lists queued for it and
  the last answer each have all posts of the one before, so no assignment loses one.
  `Listed` says of each post of this phone where it still is (`Coming`): on the screen,
  in the last list queued, in `/feed` with a request on the wire, or behind its own write
  in Firebase's queue.  `TableOK` and `CellOK` are about the recycled cells: each row on
  screen has exactly one cell (when the table scrolls by one, the cell of the row that
  leaves: as many rows as cells, so every cell has a row), and the *last* call for a cell
  is for the post of its row, whatever earlier calls for it are still to be answered.
* `WriteQueueProofs`: `TypesHold`, `WritesSafeHolds`, and the refinement
  `JournalImplemented`.  `Queue`: the queue has the threads in `Write` that are not
  served, once each, and only its front works.  `Tickets`: a batch belongs to one writer,
  and has no outcome before it is served.  `Group`: the group is the front of the queue,
  and its leader syncs if one of it asks to.  `Inserting`: while the mutex is dropped the
  end of the memtable is a part of the group, and only that is invisible.  `Flushed`,
  `Logged`, `Durable`: what is visible is whole and in order, what is in a memtable is in
  a log, the group is the last record of the last log, and a batch with `sync` is safe in
  a table or a synced record by the time its caller may be told OK.  `Background`: what
  the background thread runs, also when an error made the owner of a manual compaction
  take its record back, and what the destructor waits for.  `Accepted`: nothing is
  answered OK that came after an error.  For the refinement `Journaled` adds that a
  queued writer's batch is visible only while its group is about to be answered OK; then
  each step is a step of `Journal` or a stutter: `Relock`, which publishes the sequence
  number, appends the whole group, and each `Answer` gives the outcomes.
* `LevelsProofs`: `TypesHold`, `LevelsStayDisjoint`, `EntriesStayInOrder`,
  `NothingVisibleIsLost`, all of them together as `LevelsSafeHolds`, and the refinement
  `StoreIsImplemented`.  A merge is three steps between which writes, flushes, and
  snapshots taken and released come, so each invariant says what the inputs chosen
  earlier still mean.  `InOrder`, for disjointness: a file left in the output level lies on
  one side of all the inputs (`SidesKept`), and so does a flush that comes later, as the
  inputs overlap one another without a gap it would fit into (`GapsFilled`).
  `Aging`, for `EntriesNeverHop`: level 0 is in order of time, a deeper level has older
  entries, the memtable the newest (`ZeroInTime`, `DeeperOlder`, `MemNewest`); no two
  files of a level below 0 share a key (`KeysApart`), nor does a file left in the output
  level share one with the inputs (`SharesNothing`).
  `Whole`, for `VisibleStays`: the newest entry at or below a snapshot's number, or below
  the number at which the merge began to drop, is somewhere (`AllThere`), and that number
  is no newer than any snapshot held (`OldestKnown`).  For the refinement, `BaseKnown`
  says that where a merge may drop a deletion nothing older of its key lies deeper, also
  if a flush came since, and `NothingOlder` that an entry of a key whose newest one is
  missing is no longer there; then `Get` finds what the writes say (`GetIsTruth`) and
  every step is a step of `SnapshotStore` or a stutter (`StepsOfTheStore`).  Two
  hypotheses, each with a behaviour of the code it leaves out: `KeysWhole`, that outputs
  end between keys unless no snapshot is ever taken (`levels_split` shows what happens
  otherwise), for what rests on the order of age; and `~(Manual /\ InlineFlush)`
  (`db/db_impl.cc:922`) for what rests on disjointness.  `TypesHold` and
  `NothingVisibleIsLost` have none.
* `LevelsProofs`, of `Repair`: `RepairKeepsHolds`, for any damages, crashes of the
  repair and failed builds; it is what run `files` checks as `RepairKeeps`.  `ListedOK`
  says where a repair is with each table it found: still to be looked at, listed with the
  bounds and the last sequence number of what is in it, or without content; and that a
  copy being made has a number of its own.  `TablesOK`, that a table without an error has
  entries, so that its bounds exist; `CountsOK`, that the next number is beyond all
  files, in a repair as in the database before it; `ReadableThere` follows every entry
  that could be read from its log to a table and from a damaged table to its copy.  The
  last holds unless a table could not be written, and a repair that is stopped while it
  copies a damaged table may lose what it had read of it: the property is of repairs
  that find no damage or are not stopped.
* `ManifestProofs`: `FilesTyped`, `RecoveryAlwaysHolds`, and the action property
  `NothingIsOverwritten`.  A crash of the process keeps every file as it is; one of the
  machine may cut the MANIFEST that `CURRENT` names after any record from the last
  synced one on, and the logs likewise.  So `CurrentOK` asks something of each of these
  states, not only of the last: that its tables are whole and have lower numbers than the
  next one it will give out, and that the synced batches are in its tables or in the
  synced part of a log that it still replays (`Good`); the tables of an earlier
  state have lower numbers than those that a later one will give out; and the last one
  finds every batch promised.  `RecordOK` relates the disk to memory: the same, or, after an error of
  `LogAndApply`, which leaves its record there or not, no less.  `OutputsOK` says that
  the tables being written are in no version that can be recovered, so a new table
  harms none; `LogsOK` that each batch of an older log that recovery replays is in the
  memtable being flushed or in a table, so a log may go when the record that says so is
  written; `EditOK`, that the edit replaces tables by tables with the same batches;
  `Replaying`, `Writing` and `OpeningOK`, that a recovery that stops anywhere leaves what
  it found.  `RemovalIsSafe` is the argument for `DeleteObsoleteFiles`, `FoundAgain` that
  for the reopening.  For numbers given out twice, `NothingIsOverwritten` adds that
  each number the version set gives out is above those of all tables needed
  (`TablesStay`).  The one hypothesis, `~CrashInNewDB`, leaves out the crash that
  `db/db_impl.cc:196` does not survive (§3).
* `ThreadsProofs`, of `SkipList`: `TypesKept`, `ListLinked` (the nodes of each level are linked in
  order, none of them skipped), `LinksSet` (a reader never follows a link no one has
  set), `NothingPassed` and `ScansComplete`, for any number of keys, readers and
  levels.  `IInv` says what the list is at every store (`ListOK`), that every search,
  with whatever old height it began, stands before or on the key it looks for
  (`SearchesOK`), what `prev` of a half finished insert is (`InsertOK`), and what a
  reader has passed (`ReadersOK`).
* `ThreadsProofs`, of `BackgroundThread`: `Types`, `NoLostWakeup`, `RunsInOrder`,
  `NeverRunsLocked`.  Mutual exclusion (`Exclusion`), that the thread exists once it
  was started (`Created`), that only the running function makes the background thread
  schedule (`FromTheFunction`) and that whoever is about to push has woken it
  (`Announced`) make `NoneAsleep` inductive; the order of items is carried beside it.
* `ThreadsProofs`, of `FileLocks`: `LocksSafeHolds`, with `PermitsSafeHolds` of
  `ReadableFiles` what run `memory` checks as `LocksSafe`.  `TableOK` says that
  `locked_files_` has the name for exactly one thread of a process, from the insertion to
  the removal; `OwnersOpen`, that a record lock belongs to a process that has the file
  open; `OneFile`, that there is one file while nobody destroys the database.  Exclusion
  holds in one process whatever it does, or among processes of one thread that do not
  destroy the database: a thread that is refused closes the file, and with it goes the
  lock its process may have on it.  For `ReadableFiles`, where a file is says which
  permit it has, and the permits allowed and those held add up to the limit.

Only model-checked: liveness (`SignInReachesTabs`, `SendComesBack`, `SearchAnswered`,
`PostComesBack`, `CallsReturn`) and deadlock, which are out of the prover's reach; what
is about recursive definitions (nanopb's varints, blocks, logs), for the same reason;
and the caches and iterators of LevelDB, as evicting is a fold over the list of entries
and an iterator's steps are recursive operators.  To be proved
about, `Feed` orders posts and rows by their ranks and not by a sorting operator of the
library, of which the provers know no facts.

## 5. Plan

Done in this order: `Session` and its proofs; `Database`, `Board` and the
refinement; `Groups`; `UserSearch`; `Feed`; then LevelDB from the write path to
`Repair`, nanopb, and the proofs about `SkipList` and `BackgroundThread`; then the
proofs about `Groups`, `UserSearch`, `WriteQueue` with its refinement, `Feed`,
`Levels` with its refinement, `Manifest`, `FileLocks`, `ReadableFiles` and `Repair`.
Next:

1. The proof that `DBIter` implements `Cursor`, with the iterator's loops as the first
   position that satisfies a condition.
2. The composition of `Levels` with `Manifest`: a compaction's edit made durable while
   readers hold its inputs, with reference counts of versions.
3. `Connection`: `FPersistentConnection`'s outstanding puts, reconnections and
   deferred acknowledgements in detail, shown to implement `Database`'s queue.
4. The name labels of the chat, which `GroupFeedVC` fills as `FeedVC` does while its
   list also changes under a listener.

## 6. What is not modelled

* The app: layout, images and animation; `ProfileVC`'s picture (never stored); the
  Facebook button (an empty method); Google's own screens (an input).
* Firebase: the features the app does not use (queries, transactions, priorities,
  persistence, rules), token refresh, the other providers; header files and
  binaries of pods the app only links.
* LevelDB: the C interface, the dump and test utilities, statistics and approximate
  sizes, which forward or print; hashes, checksums and the atomic pointer's
  assembly, taken for what they promise; compression, the arena and the encodings of
  `util/coding.cc`, abstracted; Windows.
* Three hazards have no property, because nothing in the repository says what should
  hold: a second press of Done makes a second group (`Controllers/NewGroupVC.swift:85`);
  every appearance of a chat or of the groups tab adds a listener that is never
  removed (`Controllers/GroupFeedVC.swift:35`); and `db/db_impl.cc:759` above.  An empty
  post is sent like any other: the condition of `Controllers/PostVC.swift:69` is true of
  every text.
