--------------------------- MODULE SnapshotStore ---------------------------
(* What a LevelDB database is to the program that uses it: a map from keys   *)
(* to values that changes one key at a time, and snapshots, each of which    *)
(* goes on showing the map as it was when it was taken.  Nothing else, in    *)
(* particular no flush and no compaction, is visible.  Levels implements it. *)
EXTENDS Naturals

CONSTANTS Keys,      \* user keys
          Values,    \* values a key can have
          Absent,    \* the key has no value
          Handles    \* the snapshots a program may hold

VARIABLES current,   \* the map now
          frozen     \* the map each held snapshot shows

svars == <<current, frozen>>
Empty == [k \in Keys |-> Absent]

Init == current = Empty /\ frozen = [h \in Handles |-> Empty]

\* At most one key has another value than before.
Write ==
    /\ current' \in [Keys -> Values \cup {Absent}]
    /\ \E k \in Keys : \A j \in Keys \ {k} : current'[j] = current[j]
    /\ UNCHANGED frozen

\* A handle that holds no snapshot shows nothing.
TakeOrRelease(h) ==
    /\ \E map \in {current, Empty} : frozen' = [frozen EXCEPT ![h] = map]
    /\ UNCHANGED current

\* The program ends, and with it its snapshots.
Reopen == frozen' = [h \in Handles |-> Empty] /\ UNCHANGED current

Next == Write \/ Reopen \/ \E h \in Handles : TakeOrRelease(h)
Spec == Init /\ [][Next]_svars
=============================================================================
