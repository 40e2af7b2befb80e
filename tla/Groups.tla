------------------------------- MODULE Groups -------------------------------
(***************************************************************************)
(* The groups tab: GroupsVC's list, NewGroupVC's Done, GroupFeedVC's chat, *)
(* and the DataService calls under them, on the shared /groups of Board.   *)
(*                                                                         *)
(* The app's code and every Firebase callback run on the main queue, one   *)
(* at a time; Firebase does its own work on one serial queue.  A listener  *)
(* does not use the data it is called with: it asks for /groups once more, *)
(* and only the second answer, turned into rows, is assigned to the screen *)
(* in a third turn of the main queue.  In between the data, the screen and *)
(* the signed-in user may change.  No listener is ever removed.            *)
(***************************************************************************)
EXTENDS Naturals, Sequences, FiniteSets

CONSTANTS Devices,       \* running copies of the app
          Users, NoUser, \* uids, and Auth.auth().currentUser being nil
          NoGroup,       \* no chat is open
          Keys,          \* bound: child keys there are
          MaxListeners,  \* bound: listeners GroupsVC attaches in one process
          MaxQueued,     \* bound: queued work under which new work may start
          MaxAsks        \* bound: getIds calls under way

\* Nodes of /groups and of a group's messages, under keys of childByAutoId.
GroupNodes   == [key : Keys, members : (SUBSET Users) \ {{}}]
MessageNodes == [key : Keys, to : GroupNodes, sender : Users]
Nodes        == GroupNodes \union MessageNodes
Refs         == [w \in Nodes |-> IF w \in MessageNodes THEN {w.to} ELSE {}]

ASSUME GroupsAssumption ==
    /\ NoUser \notin Users /\ NoGroup \notin GroupNodes
    /\ MaxListeners \in Nat /\ MaxQueued \in Nat /\ MaxAsks \in Nat

VARIABLES
    board, shown,  \* Board: the server's nodes, and those each device has
    currentUser,   \* device -> Auth.auth().currentUser
    place,         \* device -> the screen on top
    loaded,        \* device -> the /groups listeners have had their first data
    listeners,     \* device -> listeners of GroupsVC attached so far
    groupsArray,   \* device -> GroupsVC.groupsArray
    owner,         \* history: device -> the user groupsArray was made for
    chat,          \* device -> GroupFeedVC.group
    chatOn,        \* device -> that GroupFeedVC's listener is attached
    messages,      \* device -> GroupFeedVC.messages
    draft,         \* device -> the message field: empty, typed or already sent
    sendEnabled,   \* device -> sendButton.isEnabled
    asks,          \* device -> getIds calls waiting for /users, in order
    work,          \* device -> Firebase's queue
    main,          \* device -> the main queue
    replaced,      \* history: device -> the user changed since GroupsVC last appeared
    foreign,       \* history: device -> the chat was not opened from its user's own list
    loggedOut      \* history: device -> somebody logged out since the launch

B == INSTANCE Board WITH Clients <- Devices, Writes <- Nodes, Needs <- Refs

data     == <<board, shown>>
session  == <<currentUser, replaced, loggedOut>>
listing  == <<loaded, listeners>>
rows     == <<groupsArray, owner>>
chatting == <<chat, chatOn, messages, draft, sendEnabled, foreign>>
queues   == <<asks, work, main>>
vars     == <<data, session, place, listing, rows, chatting, queues>>

\* One closure or request in a queue: what it carries, the user it was made
\* for, and whether the screen that made it is still there.
Item(kind, load, by, here) == [kind |-> kind, load |-> load, by |-> by, here |-> here]
Plain(kind) == Item(kind, {}, NoUser, TRUE)

Kinds == {"observeGroups", "observeChat", "readGroups", "readMessages", "putGroup",
          "putMessage", "groupsEvent", "groupsSnap", "groupsAssign", "chatEvent",
          "messagesSnap", "messagesAssign", "ids", "close", "sent"}

Items == [kind : Kinds, load : (SUBSET Nodes) \union (SUBSET Users),
          by : Users \union {NoUser}, here : BOOLEAN]

Places == {"off", "crashed", "login", "tabs", "groups", "newGroup", "chat"}

Elems(q) == {q[i] : i \in DOMAIN q}

TypeOK ==
    /\ board \subseteq Nodes /\ shown \in [Devices -> SUBSET Nodes]
    /\ currentUser \in [Devices -> Users \union {NoUser}]
    /\ place \in [Devices -> Places]
    /\ loaded \in [Devices -> BOOLEAN] /\ listeners \in [Devices -> Nat]
    /\ groupsArray \in [Devices -> SUBSET GroupNodes]
    /\ owner \in [Devices -> Users \union {NoUser}]
    /\ chat \in [Devices -> GroupNodes \union {NoGroup}] /\ chatOn \in [Devices -> BOOLEAN]
    /\ messages \in [Devices -> SUBSET MessageNodes]
    /\ draft \in [Devices -> {"empty", "typed", "sent"}]
    /\ sendEnabled \in [Devices -> BOOLEAN]
    /\ \A q \in {asks, work, main} : DOMAIN q = Devices /\ \A d \in Devices : q[d] \in Seq(Items)
    /\ {replaced, foreign, loggedOut} \subseteq [Devices -> BOOLEAN]

Init ==
    /\ B!Init
    /\ currentUser = [d \in Devices |-> NoUser]
    /\ place = [d \in Devices |-> "off"]
    /\ loaded = [d \in Devices |-> FALSE]
    /\ listeners = [d \in Devices |-> 0]
    /\ groupsArray = [d \in Devices |-> {}]
    /\ owner = [d \in Devices |-> NoUser]
    /\ chat = [d \in Devices |-> NoGroup]
    /\ chatOn = [d \in Devices |-> FALSE]
    /\ messages = [d \in Devices |-> {}]
    /\ draft = [d \in Devices |-> "empty"]
    /\ sendEnabled = [d \in Devices |-> TRUE]
    /\ asks = [d \in Devices |-> <<>>]
    /\ work = [d \in Devices |-> <<>>]
    /\ main = [d \in Devices |-> <<>>]
    /\ replaced = [d \in Devices |-> FALSE]
    /\ foreign = [d \in Devices |-> FALSE]
    /\ loggedOut = [d \in Devices |-> FALSE]

-----------------------------------------------------------------------------
(* Keys, queues, and the bounds on them. *)

FreeKeys == Keys \ {w.key : w \in board \union UNION {shown[d] : d \in Devices}}

\* Queued writes and getIds calls, each of which will take a key.
Promised(q) == UNION {{<<d, i>> : i \in {j \in DOMAIN q[d] :
                    q[d][j].kind \in {"putGroup", "putMessage", "ids"}}} : d \in Devices}

Room == Cardinality(FreeKeys)
            > Cardinality(Promised(asks)) + Cardinality(Promised(work)) + Cardinality(Promised(main))

Slack(d) == Len(work[d]) + Len(main[d]) <= MaxQueued

\* Listeners of GroupsVC, those still to be attached included.
Attached(d) == listeners[d] + Cardinality({i \in DOMAIN work[d] : work[d][i].kind = "observeGroups"})

Grps(S) == S \intersect GroupNodes
MessagesOf(g, S) == {m \in S \intersect MessageNodes : m.to = g}

\* The screen that made these closures is gone.
Abandon(q) == [i \in DOMAIN q |->
    IF q[i].kind \in {"ids", "close"} THEN [q[i] EXCEPT !.here = FALSE] ELSE q[i]]

\* A GroupFeedVC that is gone changes nothing any more: its closures are left
\* out, in the order of the others.
ChatKinds == {"observeChat", "readMessages", "chatEvent", "messagesSnap", "messagesAssign", "sent"}
WithoutChat(q) ==
    LET kept == {i \in DOMAIN q : q[i].kind \notin ChatKinds}
    IN  [n \in 1..Cardinality(kept) |->
            q[CHOOSE i \in kept : Cardinality({j \in kept : j <= i}) = n]]

ChatGone(d) ==
    /\ chat' = [chat EXCEPT ![d] = NoGroup]
    /\ chatOn' = [chatOn EXCEPT ![d] = FALSE]
    /\ messages' = [messages EXCEPT ![d] = {}]
    /\ draft' = [draft EXCEPT ![d] = "empty"]
    /\ sendEnabled' = [sendEnabled EXCEPT ![d] = TRUE]
    /\ foreign' = [foreign EXCEPT ![d] = FALSE]

\* The process ends: by the system, or on an unwrapped nil.
Die(d, how) ==
    /\ B!Restart(d)
    /\ place' = [place EXCEPT ![d] = how]
    /\ loaded' = [loaded EXCEPT ![d] = FALSE]
    /\ listeners' = [listeners EXCEPT ![d] = 0]
    /\ groupsArray' = [groupsArray EXCEPT ![d] = {}]
    /\ owner' = [owner EXCEPT ![d] = NoUser]
    /\ ChatGone(d)
    /\ asks' = [asks EXCEPT ![d] = <<>>]
    /\ work' = [work EXCEPT ![d] = <<>>]
    /\ main' = [main EXCEPT ![d] = <<>>]
    /\ replaced' = [replaced EXCEPT ![d] = FALSE]
    /\ UNCHANGED <<currentUser, loggedOut>>

Running(d) == place[d] \notin {"off", "crashed"}
Kill(d) == Running(d) /\ Die(d, "off")
Crash(d) == Die(d, "crashed")

-----------------------------------------------------------------------------
(* Sessions, as far as this tab sees them (Session has the whole story).   *)

\* Fault: the launch code does not ask for the session.
LaunchAnyway(d) ==
    /\ ~Running(d)
    /\ place' = [place EXCEPT ![d] = "tabs"]
    /\ loggedOut' = [loggedOut EXCEPT ![d] = FALSE]
    /\ UNCHANGED <<data, currentUser, replaced, listing, rows, chatting, queues>>

Launch(d) ==
    /\ ~Running(d)
    /\ place' = [place EXCEPT ![d] = IF currentUser[d] = NoUser THEN "login" ELSE "tabs"]
    /\ loggedOut' = [loggedOut EXCEPT ![d] = FALSE]
    /\ UNCHANGED <<data, currentUser, replaced, listing, rows, chatting, queues>>

SignIn(d, u) ==
    /\ place[d] = "login"
    /\ currentUser' = [currentUser EXCEPT ![d] = u]
    /\ place' = [place EXCEPT ![d] = "tabs"]
    /\ UNCHANGED <<data, replaced, loggedOut, listing, rows, chatting, queues>>

\* A sign-in asked for on a screen that has gone is answered now.
LateAnswer(d, u) ==
    /\ Running(d)
    /\ u # currentUser[d]
    /\ currentUser' = [currentUser EXCEPT ![d] = u]
    /\ replaced' = [replaced EXCEPT ![d] = TRUE]
    /\ foreign' = [foreign EXCEPT ![d] = (chat[d] # NoGroup)]
    /\ UNCHANGED <<data, place, loggedOut, listing, rows, chat, chatOn, messages,
                   draft, sendEnabled, queues>>

\* ProfileVC's logout.  The tab bar, GroupsVC and its listeners stay alive
\* under the LoginVC that is presented.
Logout(d) ==
    /\ place[d] = "tabs"
    /\ currentUser' = [currentUser EXCEPT ![d] = NoUser]
    /\ place' = [place EXCEPT ![d] = "login"]
    /\ loggedOut' = [loggedOut EXCEPT ![d] = TRUE]
    /\ UNCHANGED <<data, replaced, listing, rows, chatting, queues>>

-----------------------------------------------------------------------------
(* What the user does on the groups tab.                                   *)

Observe(d) == work' = [work EXCEPT ![d] = Append(@, Plain("observeGroups"))]

\* Fault: the listener is attached once, when the view loads.
GroupsDidAppearOnce(d) ==
    /\ IF Attached(d) = 0 THEN Observe(d) ELSE UNCHANGED work
    /\ replaced' = [replaced EXCEPT ![d] = FALSE]

\* GroupsVC.viewDidAppear: one more listener, whose first call reads the list again.
GroupsDidAppear(d) ==
    /\ Observe(d)
    /\ replaced' = [replaced EXCEPT ![d] = FALSE]

OpenGroups(d) ==
    /\ place[d] = "tabs"
    /\ Slack(d) /\ Attached(d) < MaxListeners
    /\ place' = [place EXCEPT ![d] = "groups"]
    /\ GroupsDidAppear(d)
    /\ UNCHANGED <<data, currentUser, loggedOut, listing, rows, chatting, asks, main>>

OtherTab(d) ==
    /\ place[d] = "groups"
    /\ place' = [place EXCEPT ![d] = "tabs"]
    /\ UNCHANGED <<data, session, listing, rows, chatting, queues>>

NewGroupPressed(d) ==
    /\ place[d] = "groups"
    /\ Attached(d) < MaxListeners
    /\ place' = [place EXCEPT ![d] = "newGroup"]
    /\ UNCHANGED <<data, session, listing, rows, chatting, queues>>

\* NewGroupVC.donePressed, the form being filled in; the button stays enabled
\* and shows only when somebody is chosen.
DonePressed(d, chosen) ==
    /\ place[d] = "newGroup"
    /\ chosen # {}
    /\ Room /\ Len(asks[d]) < MaxAsks
    /\ asks' = [asks EXCEPT ![d] = Append(@, Item("ids", chosen, currentUser[d], TRUE))]
    /\ UNCHANGED <<data, session, place, listing, rows, chatting, work, main>>

\* Fault: a form that is gone goes on as if it were on screen.
FormGoneForgotten(d, as, ms) ==
    /\ place' = [place EXCEPT ![d] = "groups"]
    /\ asks' = [asks EXCEPT ![d] = as]
    /\ main' = [main EXCEPT ![d] = ms]
    /\ GroupsDidAppear(d)

\* NewGroupVC goes away, leaving these calls and closures behind; the list appears.
FormGone(d, as, ms) ==
    /\ place' = [place EXCEPT ![d] = "groups"]
    /\ asks' = [asks EXCEPT ![d] = Abandon(as)]
    /\ main' = [main EXCEPT ![d] = Abandon(ms)]
    /\ GroupsDidAppear(d)

\* The form's dismiss button.
CloseForm(d) ==
    /\ place[d] = "newGroup"
    /\ FormGone(d, asks[d], main[d])
    /\ UNCHANGED <<data, currentUser, loggedOut, listing, rows, chatting>>

\* GroupsVC.didSelectRowAt and GroupFeedVC.viewWillAppear.
SelectRow(d, g) ==
    /\ place[d] = "groups"
    /\ g \in groupsArray[d]
    /\ Slack(d) /\ Attached(d) < MaxListeners
    /\ place' = [place EXCEPT ![d] = "chat"]
    /\ chat' = [chat EXCEPT ![d] = g]
    /\ foreign' = [foreign EXCEPT ![d] = (owner[d] # currentUser[d])]
    /\ work' = [work EXCEPT ![d] = Append(@, Plain("observeChat"))]
    /\ UNCHANGED <<data, session, listing, rows, chatOn, messages, draft, sendEnabled, asks, main>>

EditMessage(d) ==
    /\ place[d] = "chat"
    /\ draft' = [draft EXCEPT ![d] = "typed"]
    /\ UNCHANGED <<data, session, place, listing, rows, chat, chatOn, messages,
                   sendEnabled, foreign, queues>>

\* DataService.uploadPost: the write is queued, its completion runs at once
\* and asks for a turn of the main queue.
UploadPost(d, g, u) ==
    /\ work' = [work EXCEPT ![d] = Append(@, Item("putMessage", {g}, u, TRUE))]
    /\ main' = [main EXCEPT ![d] = Append(@, Plain("sent"))]

\* Fault: the button stays enabled while the message is sent.
SendPressedAgain(d) ==
    /\ place[d] = "chat" /\ draft[d] # "empty" /\ Room
    /\ UploadPost(d, chat[d], currentUser[d])
    /\ draft' = [draft EXCEPT ![d] = "sent"]
    /\ UNCHANGED <<data, session, place, listing, rows, chat, chatOn, messages,
                   sendEnabled, foreign, asks>>

\* GroupFeedVC.sendPressed.
SendPressed(d) ==
    /\ place[d] = "chat" /\ draft[d] # "empty" /\ sendEnabled[d] /\ Room
    /\ IF currentUser[d] = NoUser THEN Crash(d)
       ELSE /\ UploadPost(d, chat[d], currentUser[d])
            /\ draft' = [draft EXCEPT ![d] = "sent"]
            /\ sendEnabled' = [sendEnabled EXCEPT ![d] = FALSE]
            /\ UNCHANGED <<data, session, place, listing, rows, chat, chatOn, messages,
                           foreign, asks>>

\* GroupFeedVC.close.
CloseChat(d) ==
    /\ place[d] = "chat"
    /\ place' = [place EXCEPT ![d] = "groups"]
    /\ ChatGone(d)
    /\ work' = [work EXCEPT ![d] = Append(WithoutChat(@), Plain("observeGroups"))]
    /\ main' = [main EXCEPT ![d] = WithoutChat(@)]
    /\ replaced' = [replaced EXCEPT ![d] = FALSE]
    /\ UNCHANGED <<data, currentUser, loggedOut, listing, rows, asks>>

-----------------------------------------------------------------------------
(* Firebase: its own queue, the network, and the rest of the world.        *)

NextWork(d, kind) == work[d] # <<>> /\ Head(work[d]).kind = kind
WorkDone(d) == work' = [work EXCEPT ![d] = Tail(@)]

\* Every listener is called for every change.
Calls(d) == [i \in 1..listeners[d] |-> Plain("groupsEvent")]
            \o (IF chatOn[d] THEN <<Plain("chatEvent")>> ELSE <<>>)

Tell(d, items) == main' = [main EXCEPT ![d] = @ \o items]

\* A listener is attached; when the data are here it is called at once.
AttachGroups(d) ==
    /\ NextWork(d, "observeGroups") /\ WorkDone(d)
    /\ listeners' = [listeners EXCEPT ![d] = @ + 1]
    /\ Tell(d, IF loaded[d] THEN <<Plain("groupsEvent")>> ELSE <<>>)
    /\ UNCHANGED <<data, session, place, loaded, rows, chatting, asks>>

AttachChat(d) ==
    /\ NextWork(d, "observeChat") /\ WorkDone(d)
    /\ chatOn' = [chatOn EXCEPT ![d] = TRUE]
    /\ Tell(d, IF loaded[d] THEN <<Plain("chatEvent")>> ELSE <<>>)
    /\ UNCHANGED <<data, session, place, listing, rows, chat, messages, draft,
                   sendEnabled, foreign, asks>>

\* A single read of a location that is listened to is answered from the cache.
ReadGroups(d) ==
    /\ NextWork(d, "readGroups") /\ WorkDone(d)
    /\ Tell(d, <<Item("groupsSnap", Grps(shown[d]), NoUser, TRUE)>>)
    /\ UNCHANGED <<data, session, place, listing, rows, chatting, asks>>

ReadMessages(d) ==
    /\ NextWork(d, "readMessages") /\ WorkDone(d)
    /\ Tell(d, <<Item("messagesSnap", MessagesOf(chat[d], shown[d]), NoUser, TRUE)>>)
    /\ UNCHANGED <<data, session, place, listing, rows, chatting, asks>>

\* A queued write becomes part of the local view.
Write(d, node) ==
    /\ B!Post(d, node) /\ WorkDone(d)
    /\ Tell(d, IF loaded[d] THEN Calls(d) ELSE <<>>)
    /\ UNCHANGED <<session, place, listing, rows, chatting, asks>>

WriteGroup(d) ==
    /\ NextWork(d, "putGroup")
    /\ \E k \in FreeKeys : Write(d, [key |-> k, members |-> Head(work[d]).load])

WriteMessage(d) ==
    /\ NextWork(d, "putMessage")
    /\ \E k \in FreeKeys, g \in Head(work[d]).load :
          Write(d, [key |-> k, to |-> g, sender |-> Head(work[d]).by])

\* The first data for the listeners, which may be none, or news.
Receive(d) ==
    /\ Running(d) /\ listeners[d] > 0 /\ Slack(d)
    /\ B!Learn(d) \/ (~loaded[d] /\ UNCHANGED data)
    /\ loaded' = [loaded EXCEPT ![d] = TRUE]
    /\ Tell(d, Calls(d))
    /\ UNCHANGED <<session, place, listeners, rows, chatting, asks, work>>

\* /users arrives for the oldest getIds call.
IdsArrive(d) ==
    /\ asks[d] # <<>>
    /\ Tell(d, <<Head(asks[d])>>)
    /\ asks' = [asks EXCEPT ![d] = Tail(@)]
    /\ UNCHANGED <<data, session, place, listing, rows, chatting, work>>

\* The server takes a write of a device, or one of a client not modelled:
\* such a client is seen only through what the server has of it.
World ==
    /\ \/ \E w \in (UNION {shown[d] : d \in Devices}) \ board : B!Accept(w)
       \/ /\ Room
          /\ \E w \in Nodes : /\ w.key \in FreeKeys
                             /\ Refs[w] \subseteq board
                             /\ board' = board \union {w}
          /\ UNCHANGED shown
    /\ UNCHANGED <<session, place, listing, rows, chatting, queues>>

-----------------------------------------------------------------------------
(* Closures on the main queue.                                             *)

NextMain(d, kind) == main[d] # <<>> /\ Head(main[d]).kind = kind
MainDone(d) == main' = [main EXCEPT ![d] = Tail(@)]
Then(d, item) == main' = [main EXCEPT ![d] = Append(Tail(@), item)]

\* The listeners' closures: getAllGroups and getAllMessages ask again.
GroupsEvent(d) ==
    /\ NextMain(d, "groupsEvent") /\ MainDone(d)
    /\ work' = [work EXCEPT ![d] = Append(@, Plain("readGroups"))]
    /\ UNCHANGED <<data, session, place, listing, rows, chatting, asks>>

ChatEvent(d) ==
    /\ NextMain(d, "chatEvent") /\ MainDone(d)
    /\ work' = [work EXCEPT ![d] = Append(@, Plain("readMessages"))]
    /\ UNCHANGED <<data, session, place, listing, rows, chatting, asks>>

\* Fault: every group is listed.
GroupsSnapAll(d) ==
    /\ NextMain(d, "groupsSnap")
    /\ Then(d, Item("groupsAssign", Head(main[d]).load, currentUser[d], TRUE))
    /\ UNCHANGED <<data, session, place, listing, rows, chatting, asks, work>>

\* getAllGroups: the groups the user who is signed in now is a member of;
\* with nobody signed in, the first group there is ends the process.
GroupsSnap(d) ==
    /\ NextMain(d, "groupsSnap")
    /\ LET snapshot == Head(main[d]).load IN
       IF currentUser[d] = NoUser /\ snapshot # {} THEN Crash(d)
       ELSE /\ Then(d, Item("groupsAssign", {g \in snapshot : currentUser[d] \in g.members},
                            currentUser[d], TRUE))
            /\ UNCHANGED <<data, session, place, listing, rows, chatting, asks, work>>

GroupsAssign(d) ==
    /\ NextMain(d, "groupsAssign") /\ MainDone(d)
    /\ groupsArray' = [groupsArray EXCEPT ![d] = Head(main[d]).load]
    /\ owner' = [owner EXCEPT ![d] = Head(main[d]).by]
    /\ UNCHANGED <<data, session, place, listing, chatting, asks, work>>

MessagesSnap(d) ==
    /\ NextMain(d, "messagesSnap")
    /\ Then(d, Item("messagesAssign", Head(main[d]).load, NoUser, TRUE))
    /\ UNCHANGED <<data, session, place, listing, rows, chatting, asks, work>>

MessagesAssign(d) ==
    /\ NextMain(d, "messagesAssign") /\ MainDone(d)
    /\ messages' = [messages EXCEPT ![d] = Head(main[d]).load]
    /\ UNCHANGED <<data, session, place, listing, rows, chat, chatOn, draft,
                   sendEnabled, foreign, asks, work>>

\* getIds answered NewGroupVC: create the group with the chosen ones and
\* whoever is signed in now; the completion runs at once and asks for close().
Ids(d) ==
    /\ NextMain(d, "ids")
    /\ LET it == Head(main[d]) IN
       IF currentUser[d] = NoUser THEN Crash(d)
       ELSE /\ work' = [work EXCEPT ![d] = Append(@,
                  Item("putGroup", it.load \union {currentUser[d]}, it.by, it.here /\ ~replaced[d]))]
            /\ Then(d, Item("close", {}, NoUser, it.here))
            /\ UNCHANGED <<data, session, place, listing, rows, chatting, asks>>

\* NewGroupVC.close from the completion: nothing when the form is gone.
Close(d) ==
    /\ NextMain(d, "close")
    /\ IF Head(main[d]).here
       THEN FormGone(d, asks[d], Tail(main[d]))
       ELSE MainDone(d) /\ UNCHANGED <<place, asks, work, replaced>>
    /\ UNCHANGED <<data, currentUser, loggedOut, listing, rows, chatting>>

\* Fault: the button is not enabled again.
SentDisabled(d) ==
    /\ NextMain(d, "sent") /\ MainDone(d)
    /\ draft' = [draft EXCEPT ![d] = "empty"]
    /\ UNCHANGED <<data, session, place, listing, rows, chat, chatOn, messages,
                   sendEnabled, foreign, asks, work>>

\* The completion of uploadPost.
Sent(d) ==
    /\ NextMain(d, "sent") /\ MainDone(d)
    /\ draft' = [draft EXCEPT ![d] = "empty"]
    /\ sendEnabled' = [sendEnabled EXCEPT ![d] = TRUE]
    /\ UNCHANGED <<data, session, place, listing, rows, chat, chatOn, messages,
                   foreign, asks, work>>

-----------------------------------------------------------------------------
UserStep(d) ==
    \/ \E u \in Users : SignIn(d, u)
    \/ Logout(d)
    \/ OpenGroups(d)
    \/ OtherTab(d)
    \/ NewGroupPressed(d)
    \/ \E chosen \in SUBSET (Users \ {currentUser[d]}) : DonePressed(d, chosen)
    \/ CloseForm(d)
    \/ \E g \in groupsArray[d] : SelectRow(d, g)
    \/ EditMessage(d)
    \/ SendPressed(d)
    \/ CloseChat(d)

WorkStep(d) ==
    \/ AttachGroups(d) \/ AttachChat(d)
    \/ ReadGroups(d)   \/ ReadMessages(d)
    \/ WriteGroup(d)   \/ WriteMessage(d)

MainStep(d) ==
    \/ GroupsEvent(d)    \/ GroupsSnap(d)   \/ GroupsAssign(d)
    \/ ChatEvent(d)      \/ MessagesSnap(d) \/ MessagesAssign(d)
    \/ Ids(d) \/ Close(d) \/ Sent(d)

Next ==
    \/ \E d \in Devices :
        \/ Launch(d) \/ Kill(d)
        \/ \E u \in Users : LateAnswer(d, u)
        \/ UserStep(d) \/ WorkStep(d) \/ MainStep(d)
        \/ Receive(d) \/ IdsArrive(d)
    \/ World

Spec == Init /\ [][Next]_vars

-----------------------------------------------------------------------------
(* Properties.                                                             *)

\* Nothing of Firebase or of the app is left to run on d.
Quiet(d) == loaded[d] /\ work[d] = <<>> /\ main[d] = <<>>

\* The list settles on the right rows: once the queues are empty the groups
\* tab shows exactly the user's groups in the local view, however the two
\* readings, other clients' writes and changes of user interleaved; they are
\* another user's only when a late answer changed the user under the screen.
ListSettles == \A d \in Devices : Quiet(d) /\ place[d] = "groups" =>
    /\ groupsArray[d] = {g \in Grps(shown[d]) : owner[d] \in g.members}
    /\ owner[d] = currentUser[d] \/ replaced[d]

\* So does an open chat: every message of its group in the local view, the
\* user's own included, and no other.
ChatSettles == \A d \in Devices : Quiet(d) /\ place[d] = "chat" =>
    messages[d] = MessagesOf(chat[d], shown[d])

\* What the two screens settle on.
ScreensSettle == ListSettles /\ ChatSettles

\* Who is in a chat is a member of its group, and so is the sender of what is
\* written there, unless the row belonged to the list of another user or the
\* user was replaced by a late answer.
ChatMembership == \A d \in Devices : place[d] = "chat" =>
    currentUser[d] \in chat[d].members \/ foreign[d]

\* A group made from a form that stayed on screen has the user who pressed
\* Done as a member, although the uid is read only when /users has arrived.
GroupOfItsMaker == \A d \in Devices : \A it \in Elems(work[d]) :
    it.kind = "putGroup" /\ it.here => it.by \in it.load

\* The unwrapped uids end a process only after a logout in it.
CrashNeedsLogout == \A d \in Devices : place[d] = "crashed" => loggedOut[d]

\* One press of Send, one message: what was sent is not sent again while it
\* is still in the text field.
SendsOnce == \A d \in Devices :
    Len(work'[d]) > Len(work[d]) /\ work'[d][Len(work'[d])].kind = "putMessage"
        => draft[d] = "typed"
NoDoubleSend == [][SendsOnce]_vars

\* After Send the button works again, unless the chat was left.
SendComesBack == \A d \in Devices :
    place[d] = "chat" /\ ~sendEnabled[d] ~> place[d] # "chat" \/ sendEnabled[d]

\* What the code's own `!` states: somebody is signed in whenever groups are
\* listed or made.
NoCrash == \A d \in Devices : place[d] # "crashed"
=============================================================================
