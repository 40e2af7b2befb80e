------------------------------ MODULE SkipList ------------------------------
(* The skip list a LevelDB memtable is made of (db/skiplist.h): one writer   *)
(* inserts, holding a lock, while readers that hold none walk the list.      *)
(* One load or store of a shared pointer is one step.                        *)
(*                                                                           *)
(* Keys are numbers, so that the head comes before every key and NULL, which *)
(* the code takes for infinity, after.  The stores of the links are released *)
(* and their loads acquired; the height is read with no barrier, so a reader *)
(* may see an old one.                                                       *)
EXTENDS Integers

CONSTANTS MaxKey, MaxHeight,  \* keys are 1..MaxKey; a node has up to MaxHeight links
          Readers, Writer

ASSUME SkipListConstants ==
    /\ MaxKey \in Nat /\ MaxHeight \in Nat \ {0}
    /\ Writer \notin Readers

HeadNode == 0
Keys == 1..MaxKey
Null == MaxKey + 1
Unset == -1                     \* a link of a node that was only allocated
Nodes == Keys \cup {HeadNode}
Levels == 0..(MaxHeight - 1)

VARIABLES next,       \* next[node][level]
          maxHeight,  \* max_height_
          linked,     \* history: the keys that can be reached at each level
          search,     \* process -> the search it is in
          prev,       \* prev[level], filled by the writer's search
          insert,     \* the writer's Insert
          pos,        \* reader -> its node_
          answer,     \* history: reader -> what its last answer claims
          due         \* history: reader -> keys its scan has yet to return

vars == <<next, maxHeight, linked, search, prev, insert, pos, answer, due>>
readerVars == <<pos, answer, due>>

Procs == Readers \cup {Writer}
NoSearch == [op |-> "none", target |-> 0, x |-> HeadNode, level |-> 0, since |-> {}]
NoInsert == [at |-> "idle", key |-> 1, height |-> 1, level |-> 0]

Init ==
    /\ next = [n \in Nodes |-> [l \in Levels |-> IF n = HeadNode THEN Null ELSE Unset]]
    /\ maxHeight = 1
    /\ linked = [l \in Levels |-> {}]
    /\ search = [p \in Procs |-> NoSearch]
    /\ prev = [l \in Levels |-> HeadNode]
    /\ insert = NoInsert
    /\ pos = [r \in Readers |-> Null]
    /\ answer = [r \in Readers |-> [lo |-> HeadNode, hi |-> Null, since |-> {}]]
    /\ due = [r \in Readers |-> {}]

-----------------------------------------------------------------------------
(* FindGreaterOrEqual, FindLessThan and FindLast, the last being the search  *)
(* for what comes before NULL.                                               *)

\* A reader may see any height the list has had.
Begin(p, op, target) ==
    \E height \in (IF p = Writer THEN {maxHeight} ELSE 1..maxHeight) :
        search' = [search EXCEPT ![p] = [op |-> op, target |-> target, x |-> HeadNode,
                                         level |-> height - 1, since |-> linked[0]]]

Loaded(p) == next[search[p].x][search[p].level]
KeyIsAfterNode(key, n) == n < key

Forward(p) ==
    /\ search[p].op # "none"
    /\ KeyIsAfterNode(search[p].target, Loaded(p))
    /\ search' = [search EXCEPT ![p].x = Loaded(p)]
    /\ UNCHANGED <<next, maxHeight, linked, prev, insert, readerVars>>

FillPrev(p) ==
    IF p = Writer THEN prev' = [prev EXCEPT ![search[p].level] = search[p].x]
    ELSE UNCHANGED prev
Down(p) ==
    /\ search[p].op # "none" /\ search[p].level > 0
    /\ ~KeyIsAfterNode(search[p].target, Loaded(p))
    /\ search' = [search EXCEPT ![p].level = @ - 1]
    /\ FillPrev(p)
    /\ UNCHANGED <<next, maxHeight, linked, insert, readerVars>>

Bottom(p) ==
    /\ search[p].op # "none" /\ search[p].level = 0
    /\ ~KeyIsAfterNode(search[p].target, Loaded(p))
    /\ search' = [search EXCEPT ![p] = NoSearch]

\* The answer of reader r: no key of `since' lies strictly between lo and hi.
Answer(r, node, lo, hi, since) ==
    /\ pos' = [pos EXCEPT ![r] = node]
    /\ answer' = [answer EXCEPT ![r] = [lo |-> lo, hi |-> hi, since |-> since]]

SearchEnds(r) ==
    LET s == search[r] IN
    /\ Bottom(r)
    /\ \/ /\ s.op = "greaterOrEqual"
          /\ Answer(r, Loaded(r), s.target - 1, Loaded(r), s.since)
       \/ /\ s.op = "lessThan"
          /\ Answer(r, IF s.x = HeadNode THEN Null ELSE s.x, s.x, s.target, s.since)
    /\ due' = [due EXCEPT ![r] = {}]
    /\ UNCHANGED <<next, maxHeight, linked, prev, insert>>

-----------------------------------------------------------------------------
(* The iterator of a reader. *)

Seek(r, target) ==
    /\ search[r].op = "none"
    /\ Begin(r, "greaterOrEqual", target)
    /\ UNCHANGED <<next, maxHeight, linked, prev, insert, readerVars>>

SeekToFirst(r) ==
    /\ search[r].op = "none"
    /\ Answer(r, next[HeadNode][0], HeadNode, next[HeadNode][0], linked[0])
    /\ due' = [due EXCEPT ![r] = linked[0] \ {next[HeadNode][0]}]
    /\ UNCHANGED <<next, maxHeight, linked, search, prev, insert>>

\* Fault: a node that was just inserted is stepped over, with the one after.
NextOfNext(r) ==
    /\ search[r].op = "none" /\ pos[r] # Null
    /\ LET n == next[pos[r]][0]
           to == IF n # Null /\ n = insert.key THEN next[n][0] ELSE n
       IN  /\ Answer(r, to, n, to, linked[0])
           /\ due' = [due EXCEPT ![r] = @ \ {to}]
    /\ UNCHANGED <<next, maxHeight, linked, search, prev, insert>>
NextNode(r) ==
    /\ search[r].op = "none" /\ pos[r] # Null
    /\ Answer(r, next[pos[r]][0], pos[r], next[pos[r]][0], linked[0])
    /\ due' = [due EXCEPT ![r] = @ \ {next[pos[r]][0]}]
    /\ UNCHANGED <<next, maxHeight, linked, search, prev, insert>>

Prev(r) ==
    /\ search[r].op = "none" /\ pos[r] # Null
    /\ Begin(r, "lessThan", pos[r])
    /\ UNCHANGED <<next, maxHeight, linked, prev, insert, readerVars>>

SeekToLast(r) ==
    /\ search[r].op = "none"
    /\ Begin(r, "lessThan", Null)
    /\ UNCHANGED <<next, maxHeight, linked, prev, insert, readerVars>>

-----------------------------------------------------------------------------
(* Insert: a search that fills prev, then the links from the bottom up.      *)

Insert(key) ==
    /\ insert.at = "idle" /\ key \notin linked[0]
    /\ insert' = [NoInsert EXCEPT !.at = "search", !.key = key]
    /\ Begin(Writer, "greaterOrEqual", key)
    /\ UNCHANGED <<next, maxHeight, linked, prev, readerVars>>

\* RandomHeight: at the new levels, the head comes before the key.
Grow(height) ==
    /\ insert.at = "search"
    /\ Bottom(Writer)
    /\ prev' = [l \in Levels |-> IF l = 0 THEN search[Writer].x
                                 ELSE IF l \in maxHeight..(height - 1) THEN HeadNode
                                 ELSE prev[l]]
    /\ maxHeight' = IF height > maxHeight THEN height ELSE maxHeight
    /\ insert' = [insert EXCEPT !.at = "point", !.height = height, !.level = 0]
    /\ UNCHANGED <<next, linked, readerVars>>

PointNode ==
    LET i == insert.level IN
    /\ insert.at = "point"
    /\ next' = [next EXCEPT ![insert.key][i] = next[prev[i]][i]]
    /\ insert' = [insert EXCEPT !.at = "publish"]
    /\ UNCHANGED <<maxHeight, linked, search, prev, readerVars>>

PublishNode ==
    LET i == insert.level IN
    /\ insert.at = "publish"
    /\ next' = [next EXCEPT ![prev[i]][i] = insert.key]
    /\ linked' = [linked EXCEPT ![i] = @ \cup {insert.key}]
    /\ insert' = IF i + 1 = insert.height THEN NoInsert
                 ELSE [insert EXCEPT !.at = "point", !.level = i + 1]
    /\ UNCHANGED <<maxHeight, search, prev, readerVars>>

Read(r) ==
    \/ \E target \in Keys : Seek(r, target)
    \/ SeekToFirst(r) \/ NextNode(r) \/ Prev(r) \/ SeekToLast(r)
Step(p) == Forward(p) \/ Down(p)
Write ==
    \/ \E key \in Keys : Insert(key)
    \/ \E height \in 1..MaxHeight : Grow(height)
    \/ PointNode \/ PublishNode

Next ==
    \/ Write
    \/ \E p \in Procs : Step(p)
    \/ \E r \in Readers : Read(r) \/ SearchEnds(r)

Spec == Init /\ [][Next]_vars

-----------------------------------------------------------------------------
(* Properties. *)

TypeOK ==
    /\ next \in [Nodes -> [Levels -> Nodes \cup {Null, Unset}]]
    /\ maxHeight \in 1..MaxHeight
    /\ linked \in [Levels -> SUBSET Keys]
    /\ search \in [Procs -> [op : {"none", "greaterOrEqual", "lessThan"},
                             target : 0..Null, x : Nodes, level : Levels,
                             since : SUBSET Keys]]
    /\ prev \in [Levels -> Nodes]
    /\ insert \in [at : {"idle", "search", "point", "publish"}, key : Keys \cup {1},
                   height : 1..MaxHeight, level : Levels]
    /\ pos \in [Readers -> Keys \cup {Null}]
    /\ answer \in [Readers -> [lo : Nodes, hi : Keys \cup {Null}, since : SUBSET Keys]]
    /\ due \in [Readers -> SUBSET Keys]

(* At every level, at every moment of an insertion, the link of a node that  *)
(* can be reached leads to the least key after it that can be reached, and   *)
(* what can be reached at a level can be reached below: so a reader that     *)
(* comes down from any level finds links that are set.                       *)
LevelsLinked ==
    \A l \in Levels : \A n \in linked[l] \cup {HeadNode} :
        /\ next[n][l] \in linked[l] \cup {Null}
        /\ n < next[n][l]
        /\ \A k \in linked[l] : ~(n < k /\ k < next[n][l])
LevelsNested ==
    \A l \in Levels : \A i \in 0..l : linked[l] \subseteq linked[i]
Linked == LevelsLinked /\ LevelsNested

(* A reader never follows a link that was not set: the writer's stores with  *)
(* no barrier are never seen (db/skiplist.h:14-27).                          *)
FollowsSetLinks ==
    \A p \in Procs : search[p].op # "none" => Loaded(p) # Unset

(* A reader that seeks, steps or steps back passes over no key that was      *)
(* there when it began, whatever height it saw and however the insertions    *)
(* interleave with its loads.                                                *)
PassesOverNothing ==
    \A r \in Readers :
        /\ pos[r] \in linked[0] \cup {Null}
        /\ \A k \in answer[r].since : ~(answer[r].lo < k /\ k < answer[r].hi)

(* A scan from the first node returns every key that was there when it       *)
(* began: those not yet returned lie ahead, and at the end there are none.   *)
ScanIsComplete == \A r \in Readers : \A k \in due[r] : pos[r] < k

=============================================================================
