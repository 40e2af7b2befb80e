-------------------------------- MODULE Feed --------------------------------
(***************************************************************************)
(* The feed tab of one phone: FeedVC's list and its recycled cells,        *)
(* PostVC's Post, and DataService's uploadPost, getAllFeedMessages and     *)
(* getUsername under them.  /feed is read once per appearance, without a   *)
(* listener.  A cell gets its text and its author only when the author's   *)
(* name arrives; by then the table may have given the cell to another row, *)
(* and for an author without a record under /users nothing arrives at all. *)
(***************************************************************************)
EXTENDS Naturals, Sequences, FiniteSets, SequencesExt

CONSTANTS Me,        \* the uid of who uses the phone
          Users,     \* all uids
          Cells,     \* the table's cells
          Blank,     \* a cell nothing was shown in yet
          MaxPosts,  \* bound: posts in /feed
          MaxReads,  \* bound: readings of /feed under way when the user acts
          MaxNames   \* bound: getUsername calls under way when the user acts

\* What a theorem supposes of the constants, and an instance has to meet.
FeedAssumption ==
    /\ Me \in Users /\ IsFiniteSet(Cells)
    /\ MaxPosts \in Nat /\ MaxReads \in Nat /\ MaxNames \in Nat

VARIABLES
    feed,           \* /feed, in order of arrival; own writes as soon as made locally
    records,        \* uids with a node under /users
    place,          \* the screen: feed, PostVC over it, another tab, feed coming up
    work,           \* Firebase's queue: own writes, and requests for /feed
    reads,          \* how many requests for /feed are not answered
    cached,         \* how much of /feed the last answer had
    seen,           \* the records the last answer of /users had
    main,           \* lists of posts on their way to FeedVC
    messagesArray,  \* FeedVC.messagesArray, newest first
    top,            \* rows scrolled out at the top
    rowOf,          \* cell -> its row, 0 in the table's pool
    shows,          \* cell -> the post its labels show
    names,          \* getUsername calls not answered, in order
    mine,           \* history: posts of this phone
    unnamed         \* history: cell -> its last answered call found no record

screen == <<place, messagesArray, top, rowOf>>
labels == <<shows, names, seen, unnamed>>
vars   == <<feed, records, work, reads, cached, main, mine, screen, labels>>

Posts == [key : 1..MaxPosts, senderId : Users]
Items == [kind : {"put"}, post : Posts] \union [kind : {"read"}]
Calls == [cell : Cells, post : Posts]

TypeOK ==
    /\ feed \in Seq(Posts) /\ mine \subseteq Posts /\ records \subseteq Users
    /\ place \in {"feed", "post", "other", "coming"}
    /\ work \in Seq(Items) /\ reads \in Nat /\ cached \in 0..Len(feed)
    /\ main \in Seq(SUBSET Posts) /\ seen \subseteq records
    /\ messagesArray \in Seq(Posts) /\ top \in 0..MaxPosts
    /\ rowOf \in [Cells -> 0..MaxPosts] /\ shows \in [Cells -> Posts \union {Blank}]
    /\ names \in Seq(Calls) /\ unnamed \in [Cells -> BOOLEAN]

\* Signed in, with the feed about to appear for the first time.
Init ==
    /\ feed = <<>> /\ mine = {} /\ records \in SUBSET Users
    /\ place = "coming" /\ work = <<>> /\ reads = 0 /\ cached = 0 /\ main = <<>>
    /\ seen = {} /\ messagesArray = <<>> /\ top = 0
    /\ rowOf = [c \in Cells |-> 0] /\ shows = [c \in Cells |-> Blank]
    /\ names = <<>> /\ unnamed = [c \in Cells |-> FALSE]

-----------------------------------------------------------------------------
(* The user, and the others. *)

UsedKeys == {p.key : p \in mine \union ToSet(feed)}

\* What is under way: the user is assumed not to outrun it.
Slack == Len(work) + reads + Len(main) < MaxReads /\ Len(names) < MaxNames

Go(from, to) ==
    /\ place = from
    /\ place' = to
    /\ UNCHANGED <<feed, records, work, reads, cached, main, mine, messagesArray, top, rowOf, labels>>

ComposePressed == Slack /\ Go("feed", "post")
Close          == Go("post", "coming")
LeaveTab       == Go("feed", "other")
EnterTab       == Slack /\ Go("other", "coming")

\* The post: of two of this phone, the later one has the greater key.
Post ==
    \E k \in 1..MaxPosts \ UsedKeys :
        LET p == [key |-> k, senderId |-> Me] IN
        /\ \A q \in mine : q.key < k
        /\ mine' = mine \union {p}
        /\ work' = Append(work, [kind |-> "put", post |-> p])

\* Fault: PostVC is not closed.
SendPostStays ==
    /\ place = "post" /\ place' = "post" /\ Post
    /\ UNCHANGED <<feed, records, reads, cached, main, messagesArray, top, rowOf, labels>>

\* The completion runs inside uploadPost and closes PostVC.  sendPost's
\* condition on the text is true of every text, the empty one included.
SendPost ==
    /\ place = "post" /\ place' = "coming" /\ Post
    /\ UNCHANGED <<feed, records, reads, cached, main, messagesArray, top, rowOf, labels>>

\* viewDidAppear.
FeedDidAppear ==
    /\ place = "coming"
    /\ place' = "feed"
    /\ work' = Append(work, [kind |-> "read"])
    /\ UNCHANGED <<feed, records, reads, cached, main, mine, messagesArray, top, rowOf, labels>>

OtherPosts(u) ==
    /\ \E k \in 1..MaxPosts \ UsedKeys : feed' = Append(feed, [key |-> k, senderId |-> u])
    /\ UNCHANGED <<records, work, reads, cached, main, mine, screen, labels>>

\* createDBUser on some phone.
RecordWritten(u) ==
    /\ u \notin records
    /\ records' = records \union {u}
    /\ UNCHANGED <<feed, work, reads, cached, main, mine, screen, labels>>

-----------------------------------------------------------------------------
(* Firebase. *)

DoWork ==
    /\ work # <<>>
    /\ work' = Tail(work)
    /\ \/ /\ Head(work).kind = "put"
          /\ feed' = Append(feed, Head(work).post)
          /\ reads' = reads
       \/ /\ Head(work).kind = "read"
          /\ reads' = reads + 1
          /\ feed' = feed
    /\ UNCHANGED <<records, cached, main, mine, screen, labels>>

\* What a request gets of the server may have come for an earlier one that is
\* still listening, but is never older than the answer before; own writes are
\* laid over it.
Answer(n) == {feed[j] : j \in 1..n} \union (ToSet(feed) \intersect mine)

\* Fault: an answer may be older than the one before.
AnswerFeedStale ==
    /\ reads > 0 /\ reads' = 0
    /\ \E n \in 0..Len(feed) : main' = main \o [i \in 1..reads |-> Answer(n)] /\ cached' = n
    /\ UNCHANGED <<feed, records, work, mine, screen, labels>>

\* One answer serves every request waiting.  getAllFeedMessages makes the list,
\* which FeedVC assigns in a later turn of the main queue.
AnswerFeed ==
    /\ reads > 0
    /\ \E n \in cached..Len(feed) :
          /\ main' = main \o [i \in 1..reads |-> Answer(n)]
          /\ cached' = n
    /\ reads' = 0
    /\ UNCHANGED <<feed, records, work, mine, screen, labels>>

-----------------------------------------------------------------------------
(* The table. *)

NewestFirst(S) ==
    [i \in 1..Cardinality(S) |-> CHOOSE p \in S : Cardinality({q \in S : q.key >= p.key}) = i]

TopDown(R) ==
    [i \in 1..Cardinality(R) |-> CHOOSE r \in R : Cardinality({s \in R : s <= r}) = i]

OnScreen(t, list) == {r \in DOMAIN list : t < r /\ r <= t + Cardinality(Cells)}

\* The getUsername calls for the rows of R, which the table has put in these
\* cells.
Asked(R, list, at) ==
    [i \in 1..Cardinality(R) |-> [cell |-> CHOOSE c \in Cells : at[c] = TopDown(R)[i],
                                post |-> list[TopDown(R)[i]]]]

\* Fault: a recycled cell that shows a post already is not filled again.
CellForRowOnce(R, list, at) ==
    names' = names \o Asked({r \in R : \A c \in Cells : at[c] = r => shows[c] = Blank}, list, at)

\* cellForRowAt for the rows of R.
CellForRow(R, list, at) == names' = names \o Asked(R, list, at)

\* reloadData: every row on screen is filled anew.
Reload(list) ==
    LET R == OnScreen(top, list) IN
    \E at \in [Cells -> R \union {0}] :
        /\ \A r \in R : Cardinality({c \in Cells : at[c] = r}) = 1
        /\ rowOf' = at
        /\ CellForRow(R, list, at)

\* The list replaces the old one; the table is told in the same turn.
AssignFeed ==
    /\ main # <<>> /\ main' = Tail(main)
    /\ messagesArray' = NewestFirst(Head(main))
    /\ Reload(messagesArray')
    /\ UNCHANGED <<feed, records, work, reads, cached, mine, place, top, shows, seen, unnamed>>

\* The table takes the cell of the row that leaves for the row that enters.
Scroll ==
    /\ place = "feed"
    /\ Len(names) < MaxNames
    /\ \E t \in {top - 1, top + 1} :
          /\ t >= 0 /\ t + Cardinality(Cells) <= Len(messagesArray)
          /\ LET R  == OnScreen(t, messagesArray)
                 entering == {r \in R : \A c \in Cells : rowOf[c] # r}
                 at == [c \in Cells |-> IF rowOf[c] \in R THEN rowOf[c] ELSE CHOOSE r \in entering : TRUE]
             IN /\ top' = t
                /\ rowOf' = at
                /\ CellForRow(entering, messagesArray, at)
    /\ UNCHANGED <<feed, records, work, reads, cached, main, mine, place, messagesArray, shows, seen, unnamed>>

\* /users is answered; the handler is called with the author's name, or, when
\* the author has no record in the answer, not at all.
NameArrives ==
    /\ names # <<>>
    /\ names' = Tail(names)
    /\ \E S \in SUBSET records :
          LET call  == Head(names)
              found == call.post.senderId \in S
          IN /\ seen \subseteq S
             /\ seen' = S
             /\ shows' = IF found THEN [shows EXCEPT ![call.cell] = call.post] ELSE shows
             /\ unnamed' = [unnamed EXCEPT ![call.cell] = ~found]
    /\ UNCHANGED <<feed, records, work, reads, cached, main, mine, screen>>

-----------------------------------------------------------------------------
User   == ComposePressed \/ SendPost \/ Close \/ LeaveTab \/ EnterTab \/ Scroll
World  == \E u \in Users : RecordWritten(u) \/ (u # Me /\ OtherPosts(u))
System == FeedDidAppear \/ DoWork \/ AnswerFeed \/ AssignFeed \/ NameArrives
Next   == User \/ World \/ System

Spec == Init /\ [][Next]_vars

-----------------------------------------------------------------------------
\* Once the names asked for have come, every cell on the screen shows the post
\* of its row, however it was recycled while they were under way; the one
\* exception is a cell whose author has no record under /users, which keeps
\* the text of the row it showed before (FeedVC.cellForRowAt, getUsername).
RowsSettle ==
    names = <<>> => \A c \in Cells : rowOf[c] # 0 =>
                        shows[c] = messagesArray[rowOf[c]] \/ unnamed[c]

\* When nothing is under way the feed on the screen has every post of this
\* phone: PostVC's write precedes the reading its closing causes.
OwnPostListed ==
    place = "feed" /\ work = <<>> /\ reads = 0 /\ main = <<>>
        => mine \subseteq ToSet(messagesArray)

\* What the feed settles on.
FeedSettles == RowsSettle /\ OwnPostListed

\* A list never takes the place of one with a post it lacks: readings of /feed
\* are answered and assigned in the order they were asked in.
FeedOnlyGrows == [][ToSet(messagesArray) \subseteq ToSet(messagesArray')]_vars

\* A post made on this phone comes up in its feed, without another act of the
\* user (sendPost, close, viewDidAppear, getAllFeedMessages).
PostComesBack ==
    \A k \in 1..MaxPosts :
        (\E p \in mine : p.key = k) ~> (\E p \in ToSet(messagesArray) : p.key = k)
=============================================================================
