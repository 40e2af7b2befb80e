------------------------------- MODULE Cursor -------------------------------
(* What an iterator over a LevelDB database promises (leveldb/iterator.h,    *)
(* with the snapshot of ReadOptions): a cursor over the keys of a snapshot,  *)
(* in order, that moves by one key at a time, whatever is written meanwhile. *)
EXTENDS Integers

CONSTANTS Keys, None
VARIABLES view,  \* the snapshot: key -> value, or None
          at     \* None, or the key and the value the cursor shows

vars == <<view, at>>

Present == {k \in Keys : view[k] # None}
Show(k) == [key |-> k, value |-> view[k]]

Least(S) == IF S = {} THEN None ELSE Show(CHOOSE k \in S : \A j \in S : k <= j)
Greatest(S) == IF S = {} THEN None ELSE Show(CHOOSE k \in S : \A j \in S : k >= j)

Target(name, arg, from) ==
    CASE name = "Seek"        -> Least({k \in Present : k >= arg})
      [] name = "SeekToFirst" -> Least(Present)
      [] name = "SeekToLast"  -> Greatest(Present)
      [] name = "Next"        -> Least({k \in Present : k > from.key})
      [] name = "Prev"        -> Greatest({k \in Present : k < from.key})

Move(name, arg) ==
    /\ name \in {"Next", "Prev"} => at # None
    /\ at' = Target(name, arg, at)
    /\ UNCHANGED view

Next ==
    \/ \E k \in Keys : Move("Seek", k)
    \/ \E name \in {"SeekToFirst", "SeekToLast", "Next", "Prev"} : Move(name, None)

Init == at = None
Spec == Init /\ [][Next]_vars
=============================================================================
