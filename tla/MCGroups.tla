------------------------------ MODULE MCGroups ------------------------------
(* Small instances of Groups that differ in their bounds, in one run: `part` *)
(* says which one a behaviour is of. Their users and keys are among those of *)
(* Groups itself, whose properties hold of each.                             *)
EXTENDS Groups, TLC
CONSTANTS u1, k1, k2
VARIABLE part

\* Many listeners; new work behind old; the form that makes a group; and one
\* user, who may send two messages.
Chats == INSTANCE Groups WITH Keys <- {k1, k2}, MaxListeners <- 3, MaxQueued <- 0, MaxAsks <- 0
Busy  == INSTANCE Groups WITH Keys <- {k1, k2}, MaxListeners <- 2, MaxQueued <- 1, MaxAsks <- 0
Form  == INSTANCE Groups WITH Keys <- {k1, k2}, MaxListeners <- 2, MaxQueued <- 0, MaxAsks <- 2
Sends == INSTANCE Groups WITH Users <- {u1}, MaxListeners <- 2, MaxQueued <- 0, MaxAsks <- 0
ASSUME PartsAssumption == {k1, k2} \subseteq Keys /\ u1 \in Users
Symmetry == Permutations(Users) \union Permutations({k1, k2})

PartsInit == part \in {"chats", "busy", "form", "sends"} /\ Init
PartsNext ==
    /\ UNCHANGED part
    /\ \/ part = "chats" /\ Chats!Next
       \/ part = "busy" /\ Busy!Next
       \/ part = "form" /\ Form!Next
       \/ part = "sends" /\ Sends!Next
PartsSpec == PartsInit /\ [][PartsNext]_<<part, vars>>
=============================================================================
