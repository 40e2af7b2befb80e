------------------------------ MODULE LRUCache ------------------------------
(* A shard of LevelDB's cache (util/cache.cc): entries counted by their      *)
(* references, on one of two lists, thrown out least recently used first.    *)
(*                                                                           *)
(* Every operation holds the shard's mutex, so each is one step; what a      *)
(* function of the code does to the shard is an operator from one state of   *)
(* it to the next.  The hash table is the function from key to entry that    *)
(* HandleTable keeps; an entry is the number of the Insert that made it.     *)
EXTENDS Integers, FiniteSets, FiniteSetsExt, Sequences, SequencesExt

CONSTANTS Keys, None,
          Capacity,    \* capacity_
          Charges,     \* charges of the entries inserted
          MaxEntries,  \* bound: entries ever made
          MaxHeld      \* bound: references a client takes to one entry

LRUCacheConstants ==
    /\ Capacity \in Nat /\ MaxEntries \in Nat /\ MaxHeld \in Nat
    /\ Charges \subseteq Nat /\ None = 0

VARIABLES shard,   \* the shard, and the entries it made
          made,    \* how many entries were made
          held,    \* entry -> references its clients have yet to release
          last     \* history: key -> the entry last inserted, unless erased

vars == <<shard, made, held, last>>

Entries == 1..MaxEntries
Lists == {"lru", "in_use"}

Init ==
    /\ shard = [table |-> [k \in Keys |-> None],
                lists |-> [l \in Lists |-> <<>>],
                key |-> [e \in Entries |-> None], charge |-> [e \in Entries |-> 0],
                refs |-> [e \in Entries |-> 0], in_cache |-> {}, usage |-> 0,
                deleted |-> [e \in Entries |-> 0]]
    /\ made = 0
    /\ held = [e \in Entries |-> 0]
    /\ last = [k \in Keys |-> None]

-----------------------------------------------------------------------------
(* The shard. *)

LRU_Remove(c, e) ==
    [c EXCEPT !.lists = [l \in Lists |-> SelectSeq(@[l], LAMBDA x : x # e)]]
LRU_Append(c, list, e) == [c EXCEPT !.lists[list] = Append(@, e)]
MoveTo(c, list, e) == LRU_Append(LRU_Remove(c, e), list, e)

Ref(c, e) ==
    LET moved == IF c.refs[e] = 1 /\ e \in c.in_cache THEN MoveTo(c, "in_use", e) ELSE c
    IN  [moved EXCEPT !.refs[e] = @ + 1]

\* Fault: the deleter runs while one reference is left.
DeletesEarly(c, e) ==
    LET less == [c EXCEPT !.refs[e] = @ - 1]
    IN  IF less.refs[e] <= 1 /\ e \notin c.in_cache
        THEN [less EXCEPT !.deleted[e] = @ + 1]
        ELSE IF e \in c.in_cache /\ less.refs[e] = 1 THEN MoveTo(less, "lru", e)
        ELSE less
\* The last reference runs the deleter.
Unref(c, e) ==
    LET less == [c EXCEPT !.refs[e] = @ - 1]
    IN  IF less.refs[e] = 0 THEN [less EXCEPT !.deleted[e] = @ + 1]
        ELSE IF e \in c.in_cache /\ less.refs[e] = 1 THEN MoveTo(less, "lru", e)
        ELSE less

FinishErase(c, e) ==
    IF e = None THEN c
    ELSE Unref([LRU_Remove(c, e) EXCEPT !.in_cache = @ \ {e}, !.usage = @ - c.charge[e]], e)

Removed(c, k) == FinishErase([c EXCEPT !.table[k] = None], c.table[k])

\* Entries nobody uses go, the oldest first, while there are too many.
Shrink(c, limit) ==
    FoldLeft(LAMBDA d, e : IF d.usage > limit THEN Removed(d, d.key[e]) ELSE d,
             c, c.lists["lru"])

NewEntry(c, e, k, charge) ==
    [c EXCEPT !.key[e] = k, !.charge[e] = charge, !.refs[e] = 1]
\* The cache's own reference; the entry that had the key leaves.
Cached(c, e, k) ==
    LET kept == [LRU_Append(c, "in_use", e) EXCEPT
                    !.refs[e] = @ + 1, !.in_cache = @ \cup {e},
                    !.usage = @ + c.charge[e], !.table[k] = e]
    IN  FinishErase(kept, c.table[k])

-----------------------------------------------------------------------------
(* The operations. *)

\* A handle is returned, with a reference of the client's.
Lookup(k) ==
    LET e == shard.table[k] IN
    /\ e # None /\ held[e] < MaxHeld
    /\ shard' = Ref(shard, e)
    /\ held' = [held EXCEPT ![e] = @ + 1]
    /\ UNCHANGED <<made, last>>

Insert(k, charge) ==
    LET e == made + 1
        new == NewEntry(shard, e, k, charge)
    IN  /\ made < MaxEntries
        /\ made' = e
        /\ shard' = Shrink(IF Capacity > 0 THEN Cached(new, e, k) ELSE new, Capacity)
        /\ held' = [held EXCEPT ![e] = 1]
        /\ last' = IF Capacity > 0 THEN [last EXCEPT ![k] = e] ELSE last

Release(e) ==
    /\ held[e] > 0
    /\ shard' = Unref(shard, e)
    /\ held' = [held EXCEPT ![e] = @ - 1]
    /\ UNCHANGED <<made, last>>

Erase(k) ==
    /\ shard' = Removed(shard, k)
    /\ last' = [last EXCEPT ![k] = None]
    /\ UNCHANGED <<made, held>>

Prune ==
    /\ shard' = FoldLeft(LAMBDA d, e : Removed(d, d.key[e]), shard, shard.lists["lru"])
    /\ UNCHANGED <<made, held, last>>

Next ==
    \/ \E k \in Keys : Lookup(k) \/ Erase(k) \/ \E charge \in Charges : Insert(k, charge)
    \/ \E e \in Entries : Release(e)
    \/ Prune

Spec == Init /\ [][Next]_vars

-----------------------------------------------------------------------------
(* Properties. *)

TypeOK ==
    /\ made \in 0..MaxEntries
    /\ shard.table \in [Keys -> Entries \cup {None}]
    /\ shard.in_cache \subseteq 1..made
    /\ \A l \in Lists : shard.lists[l] \in Seq(Entries)
    /\ shard.refs \in [Entries -> 0..(MaxHeld + 1)]
    /\ held \in [Entries -> 0..MaxHeld]

(* An entry has one reference for each handle its clients hold, and one for  *)
(* the cache while it is cached; its deleter ran, once, when the last went:  *)
(* never while a client may still use the value, and always in the end       *)
(* (util/cache.cc:20-37).                                                    *)
RefsCounted ==
    \A e \in 1..made :
        /\ shard.refs[e] = held[e] + (IF e \in shard.in_cache THEN 1 ELSE 0)
        /\ shard.deleted[e] = (IF shard.refs[e] = 0 THEN 1 ELSE 0)

(* "All items in the cache are in one list or the other, and never both":    *)
(* in lru_ when only the cache refers to them, in in_use_ when a client      *)
(* does, and in neither once they have left (util/cache.cc:27-35); the table *)
(* finds exactly the cached ones.                                            *)
ListsPartition ==
    /\ \A l \in Lists : IsInjective(shard.lists[l])
    /\ ToSet(shard.lists["lru"]) = {e \in shard.in_cache : shard.refs[e] = 1}
    /\ ToSet(shard.lists["in_use"]) = {e \in shard.in_cache : shard.refs[e] > 1}
    /\ shard.in_cache = {shard.table[k] : k \in Keys} \ {None}
    /\ \A k \in Keys : shard.table[k] # None => shard.key[shard.table[k]] = k

(* usage_ is what the cached entries are charged.                            *)
UsageCounted ==
    shard.usage = MapThenSumSet(LAMBDA e : shard.charge[e], shard.in_cache)

(* What Lookup finds is what was last inserted with the key: never an entry  *)
(* that was replaced or erased.                                              *)
FindsLatest == \A k \in Keys : shard.table[k] \in {None, last[k]}
=============================================================================
