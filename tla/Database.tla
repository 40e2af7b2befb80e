------------------------------ MODULE Database ------------------------------
(***************************************************************************)
(* The part of Firebase Realtime Database the app stands on: a location    *)
(* every client listens to and adds nodes to (/groups and /feed: nodes are *)
(* only ever added, under keys no other client uses).  A write is applied  *)
(* to the local view at once and kept until the server acknowledges it;    *)
(* the server takes the writes of a client in order, again those sent      *)
(* before a connection was lost (the same nodes, so a repetition changes   *)
(* nothing); a listener receives what the server took, in its order.       *)
(* Persistence on disk is never enabled: a client that dies loses its      *)
(* view and its unacknowledged writes.                                     *)
(***************************************************************************)
EXTENDS Naturals, Sequences

CONSTANTS Clients,  \* running copies of the app
          Writes,   \* the nodes that may be added
          Needs     \* Needs[w]: the nodes w refers to

ASSUME NeedsAssumption == Needs \in [Writes -> SUBSET Writes]

VARIABLES
    log,      \* the writes the server took, in order
    pending,  \* client -> its unacknowledged writes, in order
    seen      \* client -> how much of the log its listener has received

databaseVars == <<log, pending, seen>>

Committed == {log[i] : i \in DOMAIN log}
Seen(c)   == {log[i] : i \in 1..seen[c]}
Mine(c)   == {pending[c][i] : i \in DOMAIN pending[c]}

\* What the app reads: the server's data as received, its own writes on top.
View(c) == Seen(c) \union Mine(c)

DatabaseTypeOK ==
    /\ log \in Seq(Writes)
    /\ pending \in [Clients -> Seq(Writes)]
    /\ seen \in [Clients -> Nat]

DatabaseInit ==
    /\ log = <<>>
    /\ pending = [c \in Clients |-> <<>>]
    /\ seen = [c \in Clients |-> 0]

\* Fault: a write may refer to nodes nobody sees.
PutAnything(c, w) ==
    /\ w \notin Committed \union UNION {Mine(x) : x \in Clients}
    /\ pending' = [pending EXCEPT ![c] = Append(@, w)]
    /\ UNCHANGED <<log, seen>>

\* updateChildValues: a write under a key of its own (childByAutoId) that
\* refers to nodes the client sees.
Put(c, w) ==
    /\ w \notin Committed \union UNION {Mine(x) : x \in Clients}
    /\ Needs[w] \subseteq View(c)
    /\ pending' = [pending EXCEPT ![c] = Append(@, w)]
    /\ UNCHANGED <<log, seen>>

\* Fault: outstanding writes are sent again in no particular order.
CommitAny(c) ==
    \E i \in DOMAIN pending[c] :
        /\ pending[c][i] \notin Committed
        /\ log' = Append(log, pending[c][i])
        /\ UNCHANGED <<pending, seen>>

\* The server takes the first write of c it has not taken yet.
Commit(c) ==
    \E i \in DOMAIN pending[c] :
        /\ pending[c][i] \notin Committed
        /\ \A j \in 1..(i - 1) : pending[c][j] \in Committed
        /\ log' = Append(log, pending[c][i])
        /\ UNCHANGED <<pending, seen>>

\* Fault: an acknowledged write leaves the local view before its data arrives.
AckAtOnce(c) ==
    /\ pending[c] # <<>>
    /\ Head(pending[c]) \in Committed
    /\ pending' = [pending EXCEPT ![c] = Tail(@)]
    /\ UNCHANGED <<log, seen>>

\* The answer to the oldest write.  The server sends a listener the data of a
\* write before its acknowledgement.
Ack(c) ==
    /\ pending[c] # <<>>
    /\ Head(pending[c]) \in Seen(c)
    /\ pending' = [pending EXCEPT ![c] = Tail(@)]
    /\ UNCHANGED <<log, seen>>

\* New data: one write or, after a reconnection, many at once.
Deliver(c) ==
    \E n \in (seen[c] + 1)..Len(log) :
        /\ seen' = [seen EXCEPT ![c] = n]
        /\ UNCHANGED <<log, pending>>

\* The process ends.
Die(c) ==
    /\ pending' = [pending EXCEPT ![c] = <<>>]
    /\ seen' = [seen EXCEPT ![c] = 0]
    /\ UNCHANGED log

DatabaseNext == \E c \in Clients :
    \/ \E w \in Writes : Put(c, w)
    \/ Commit(c)
    \/ Ack(c)
    \/ Deliver(c)
    \/ Die(c)

DatabaseSpec == DatabaseInit /\ [][DatabaseNext]_databaseVars

-----------------------------------------------------------------------------
(* Properties. *)

Closed(S) == \A w \in S : Needs[w] \subseteq S

\* Nobody, the server included, ever has a node without those it refers to:
\* readers unwrap what a node refers to (getAllGroups casts the members of
\* every node of /groups, and a lone message would be such a node).
Causal == Closed(Committed) /\ \A c \in Clients : Closed(View(c))

\* What a client shows does not vanish while it runs: between its own write,
\* the server's copy of it and the acknowledgement nothing flickers.
ViewGrows == [][\A c \in Clients : View(c) \subseteq View(c)' \/ Die(c)]_databaseVars

\* The abstract specification, read off the log and the views.
B == INSTANCE Board WITH board <- Committed, shown <- [c \in Clients |-> View(c)]

\* The listeners, queues, acknowledgements and repetitions of the client
\* amount to a shared board: every behaviour is one of Board.
IsBoard == B!Spec
=============================================================================
