------------------------------- MODULE Board -------------------------------
(***************************************************************************)
(* What the app may rely on in a location of the database that everybody   *)
(* listens to: an abstract specification of Database.  A shared set of     *)
(* nodes only grows, each client shows a part of it and its own additions, *)
(* what a client shows only grows until it restarts, and neither the       *)
(* server nor a client has a node without the nodes that one refers to.    *)
(***************************************************************************)
CONSTANTS Clients, Writes, Needs  \* as in Database

VARIABLES
    board,  \* the nodes the server has
    shown   \* client -> the nodes it shows

vars == <<board, shown>>

Closed(S) == \A w \in S : Needs[w] \subseteq S

Init ==
    /\ board = {}
    /\ shown = [c \in Clients |-> {}]

\* Client c adds a node and shows it at once.
Post(c, w) ==
    /\ w \notin board \union UNION {shown[x] : x \in Clients}
    /\ Needs[w] \subseteq shown[c]
    /\ shown' = [shown EXCEPT ![c] = @ \union {w}]
    /\ UNCHANGED board

\* The server takes a node some client added.
Accept(w) ==
    /\ \E c \in Clients : w \in shown[c]
    /\ Needs[w] \subseteq board
    /\ board' = board \union {w}
    /\ UNCHANGED shown

\* Client c comes to show more of what the server has.
Learn(c) ==
    \E new \in SUBSET (board \ shown[c]) :
        /\ new # {}
        /\ Closed(shown[c] \union new)
        /\ shown' = [shown EXCEPT ![c] = @ \union new]
        /\ UNCHANGED board

Restart(c) ==
    /\ shown' = [shown EXCEPT ![c] = {}]
    /\ UNCHANGED board

Next ==
    \/ \E c \in Clients :
        \/ \E w \in Writes : Post(c, w)
        \/ Learn(c)
        \/ Restart(c)
    \/ \E w \in Writes : Accept(w)

Spec == Init /\ [][Next]_vars
=============================================================================
