--------------------------- MODULE ThreadsProofs ---------------------------
(* Threads that share memory, for any number of them.  SkipList: the list    *)
(* keeps its order, and no reader is misled, for any number of keys, levels  *)
(* and readers.  BackgroundThread, whose definitions carry its name where    *)
(* both have one: what is scheduled runs once and in order, and the thread   *)
(* never sleeps on an item, for any number of callers and calls.  FileLocks  *)
(* and ReadableFiles, as instances: one thread has the database, and the     *)
(* permits for mappings and descriptors are neither lost nor given twice.    *)
EXTENDS SkipList, BackgroundThread, SequenceTheorems, FiniteSetTheorems, TLAPS

-----------------------------------------------------------------------------
(* SkipList. *)


\* The list.  No node reaches the levels above max_height_, so a new level
\* begins with the head alone.
ListOK ==
    /\ next \in [Nodes -> [Levels -> Nodes \cup {Null, Unset}]]
    /\ maxHeight \in 1..MaxHeight
    /\ linked \in [Levels -> SUBSET Keys]
    /\ LevelsLinked /\ LevelsNested
    /\ \A l \in Levels : l >= maxHeight => linked[l] = {}

\* A search stands on a node it can go on from, before what it looks for.
SearchOK(s) ==
    s.op # "none" =>
        /\ s.target \in Keys \cup {Null}
        /\ s.x \in linked[s.level] \cup {HeadNode}
        /\ s.x < s.target
        /\ s.since \subseteq linked[0]
SearchesOK ==
    /\ search \in [Procs -> [op : {"none", "greaterOrEqual", "lessThan"},
                             target : 0..Null, x : Nodes, level : Levels,
                             since : SUBSET Keys]]
    /\ \A p \in Procs : SearchOK(search[p])

\* Between prev[l] and what follows it, the key is to be linked at level l.
PrevOK(l) ==
    /\ prev[l] \in linked[l] \cup {HeadNode}
    /\ prev[l] < insert.key
    /\ insert.key < next[prev[l]][l]
InsertOK ==
    /\ prev \in [Levels -> Nodes]
    /\ insert \in [at : {"idle", "search", "point", "publish"}, key : Keys \cup {1},
                   height : 1..MaxHeight, level : Levels]
    /\ search[Writer].op # "none" <=> insert.at = "search"
    /\ insert.at # "idle" => insert.key \in Keys
    /\ insert.at = "search" =>
           /\ insert.key \notin linked[0]
           /\ search[Writer].target = insert.key
           /\ search[Writer].level < maxHeight
           /\ \A l \in Levels : search[Writer].level < l /\ l < maxHeight => PrevOK(l)
    /\ insert.at \in {"point", "publish"} =>
           /\ insert.level < insert.height /\ insert.height <= maxHeight
           /\ \A l \in Levels : l < insert.level => insert.key \in linked[l]
           /\ \A l \in Levels : insert.level <= l => insert.key \notin linked[l]
           /\ \A l \in Levels : insert.level <= l /\ l < insert.height => PrevOK(l)
    /\ insert.at = "publish" =>
           next[insert.key][insert.level] = next[prev[insert.level]][insert.level]

\* What a reader was told, and what is left of its scan.
ReadersOK ==
    /\ pos \in [Readers -> Keys \cup {Null}]
    /\ answer \in [Readers -> [lo : Nodes, hi : Keys \cup {Null}, since : SUBSET Keys]]
    /\ due \in [Readers -> SUBSET Keys]
    /\ PassesOverNothing
    /\ \A r \in Readers : \A k \in due[r] : pos[r] < k /\ k \in linked[0]

IInv == ListOK /\ SearchesOK /\ InsertOK /\ ReadersOK

USE SkipListConstants

-----------------------------------------------------------------------------
\* The empty list.
LEMMA InitOK == Init => IInv
<1> SUFFICES ASSUME Init PROVE IInv
  OBVIOUS
<1> USE DEF Init, Levels, Nodes, Keys, HeadNode, Null, Unset, Procs
<1>1. ListOK
  BY DEF ListOK, LevelsLinked, LevelsNested
<1>2. SearchesOK
  BY DEF SearchesOK, SearchOK, NoSearch
<1>3. InsertOK
  BY DEF InsertOK, NoInsert, NoSearch
<1>4. ReadersOK
  BY DEF ReadersOK, PassesOverNothing
<1> QED BY <1>1, <1>2, <1>3, <1>4 DEF IInv

\* A search loads a link that is set, and of the level it is at.
LEMMA LoadOK ==
    ASSUME ListOK, SearchesOK, NEW p \in Procs, search[p].op # "none"
    PROVE  LET l == search[p].level IN
           /\ l \in Levels
           /\ Loaded(p) \in linked[l] \cup {Null}
           /\ search[p].x < Loaded(p)
           /\ \A k \in linked[l] : ~(search[p].x < k /\ k < Loaded(p))
BY DEF ListOK, SearchesOK, SearchOK, LevelsLinked, Loaded

-----------------------------------------------------------------------------
(* What each step leaves alone. *)

\* A list whose links are not touched stays linked.
LEMMA SameList ==
    ASSUME ListOK, UNCHANGED <<next, maxHeight, linked>>
    PROVE  ListOK'
BY DEF ListOK, LevelsLinked, LevelsNested

\* So do readers and what they have passed.
LEMMA SameReaders ==
    ASSUME ReadersOK, UNCHANGED readerVars, linked[0] \subseteq linked'[0]
    PROVE  ReadersOK'
BY DEF ReadersOK, PassesOverNothing, readerVars

\* So does a half finished insert.
LEMMA SameInsert ==
    ASSUME InsertOK, UNCHANGED <<next, maxHeight, linked, prev, insert>>,
           search'[Writer] = search[Writer]
    PROVE  InsertOK'
BY DEF InsertOK, PrevOK

\* So do searches.
LEMMA SameSearches ==
    ASSUME SearchesOK, UNCHANGED <<linked, search>>
    PROVE  SearchesOK'
BY DEF SearchesOK, SearchOK

\* A search that begins stands on the head.
LEMMA BeginOK ==
    ASSUME ListOK, SearchesOK, UNCHANGED linked, NEW p \in Procs,
           NEW op \in {"greaterOrEqual", "lessThan"},
           NEW target \in Keys \cup {Null}, Begin(p, op, target)
    PROVE  /\ SearchesOK'
           /\ search'[p].op = op /\ search'[p].target = target
           /\ search'[p].level < maxHeight
           /\ p = Writer => search'[p].level = maxHeight - 1
           /\ p # Writer => search'[Writer] = search[Writer]
<1>1. PICK height \in (IF p = Writer THEN {maxHeight} ELSE 1..maxHeight) :
          search' = [search EXCEPT ![p] = [op |-> op, target |-> target, x |-> HeadNode,
                                           level |-> height - 1, since |-> linked[0]]]
  BY DEF Begin
<1>2. height \in 1..maxHeight /\ height - 1 \in Levels /\ 0 \in Levels
  BY DEF ListOK, Levels
<1>3. linked[0] \in SUBSET Keys /\ HeadNode \in Nodes /\ target \in 0..Null
  BY <1>2 DEF ListOK, Nodes, HeadNode, Keys, Null
<1>4. /\ search \in [Procs -> [op : {"none", "greaterOrEqual", "lessThan"},
                               target : 0..Null, x : Nodes, level : Levels,
                               since : SUBSET Keys]]
      /\ \A q \in Procs : SearchOK(search[q])
  BY DEF SearchesOK
<1>5. /\ search' \in [Procs -> [op : {"none", "greaterOrEqual", "lessThan"},
                                target : 0..Null, x : Nodes, level : Levels,
                                since : SUBSET Keys]]
      /\ search'[p] = [op |-> op, target |-> target, x |-> HeadNode,
                       level |-> height - 1, since |-> linked[0]]
      /\ \A q \in Procs : q # p => search'[q] = search[q]
  BY <1>1, <1>2, <1>3, <1>4
<1>6. \A q \in Procs : SearchOK(search[q])'
  BY <1>4, <1>5, <1>2 DEF SearchOK, HeadNode, Keys, Null
<1>7. Writer \in Procs
  BY DEF Procs
<1> QED BY <1>1, <1>2, <1>5, <1>6, <1>7 DEF SearchesOK

-----------------------------------------------------------------------------
(* The steps of a search. *)

\* Loading forward, the search stays at its level and before its target.
LEMMA ForwardOK ==
    ASSUME IInv, NEW p \in Procs, Forward(p)
    PROVE  IInv'
<1> USE DEF IInv
<1>1. ListOK' /\ ReadersOK'
  BY SameList, SameReaders DEF Forward
<1>2. LET l == search[p].level IN
      /\ l \in Levels
      /\ Loaded(p) \in linked[l] \cup {Null}
      /\ Loaded(p) < search[p].target
  BY LoadOK DEF Forward, KeyIsAfterNode
<1>3. Loaded(p) \in linked[search[p].level] /\ Loaded(p) \in Nodes
  BY <1>2 DEF SearchesOK, SearchOK, Forward, ListOK, Keys, Null, Nodes
<1>4. search' = [search EXCEPT ![p] = [search[p] EXCEPT !.x = Loaded(p)]]
  BY DEF Forward, SearchesOK
<1>5. /\ search' \in [Procs -> [op : {"none", "greaterOrEqual", "lessThan"},
                                target : 0..Null, x : Nodes, level : Levels,
                                since : SUBSET Keys]]
      /\ search'[p] = [search[p] EXCEPT !.x = Loaded(p)]
      /\ \A q \in Procs : q # p => search'[q] = search[q]
  BY <1>3, <1>4 DEF SearchesOK
<1>6. \A q \in Procs : SearchOK(search[q])'
  BY <1>2, <1>3, <1>5 DEF SearchesOK, SearchOK, Forward
<1>7. InsertOK'
  <2>1. search'[Writer].op = search[Writer].op /\ search'[Writer].level = search[Writer].level
        /\ search'[Writer].target = search[Writer].target
    BY <1>5 DEF Procs, SearchesOK
  <2> QED BY <2>1 DEF InsertOK, PrevOK, Forward
<1> QED BY <1>1, <1>5, <1>6, <1>7 DEF SearchesOK

\* Down a level, what was reached is still reached, and the writer's prev is
\* followed by no key before the one to be inserted.
LEMMA DownOK ==
    ASSUME IInv, NEW p \in Procs, Down(p)
    PROVE  IInv'
<1> USE DEF IInv
<1>1. ListOK' /\ ReadersOK'
  BY SameList, SameReaders DEF Down
<1>2. /\ search[p].level \in Levels /\ search[p].level - 1 \in Levels
      /\ linked[search[p].level] \subseteq linked[search[p].level - 1]
  <2>1. search[p].level \in Levels /\ search[p].level > 0
    BY DEF Down, SearchesOK
  <2>2. search[p].level - 1 \in 0..search[p].level /\ search[p].level - 1 \in Levels
    BY <2>1 DEF Levels
  <2> QED BY <2>1, <2>2 DEF ListOK, LevelsNested
<1>3. search' = [search EXCEPT ![p] = [search[p] EXCEPT !.level = search[p].level - 1]]
  BY DEF Down, SearchesOK
<1>4. /\ search' \in [Procs -> [op : {"none", "greaterOrEqual", "lessThan"},
                                target : 0..Null, x : Nodes, level : Levels,
                                since : SUBSET Keys]]
      /\ search'[p] = [search[p] EXCEPT !.level = search[p].level - 1]
      /\ \A q \in Procs : q # p => search'[q] = search[q]
  BY <1>2, <1>3 DEF SearchesOK
<1>5. \A q \in Procs : SearchOK(search[q])'
  BY <1>2, <1>4 DEF SearchesOK, SearchOK, Down
<1>6. CASE p # Writer
  <2>1. search'[Writer] = search[Writer] /\ UNCHANGED prev
    BY <1>4, <1>6 DEF Procs, Down, FillPrev
  <2>2. InsertOK'
    BY <2>1, SameInsert DEF Down
  <2> QED BY <1>1, <1>4, <1>5, <2>2 DEF SearchesOK
<1>7. CASE p = Writer
  <2> DEFINE i == search[Writer].level
  <2>1. insert.at = "search" /\ insert' = insert
    BY <1>7 DEF InsertOK, Down
  <2>2. prev' = [prev EXCEPT ![i] = search[Writer].x]
    BY <1>7 DEF Down, FillPrev
  <2>3. /\ search[Writer].x \in linked[i] \cup {HeadNode}
        /\ search[Writer].x < insert.key
        /\ search[Writer].x \in Nodes
    BY <1>7, <2>1 DEF SearchesOK, SearchOK, InsertOK, Down
  <2>4. insert.key < next[search[Writer].x][i]
    <3>1. ~(Loaded(Writer) < insert.key) /\ Loaded(Writer) \in linked[i] \cup {Null}
      BY <1>7, <2>1, LoadOK DEF Down, KeyIsAfterNode, InsertOK
    <3>2. insert.key \notin linked[i] /\ insert.key \in Keys
      BY <1>2, <1>7, <2>1 DEF InsertOK, ListOK, LevelsNested, Levels
    <3>3. Loaded(Writer) \in Int /\ Loaded(Writer) # insert.key
      BY <1>2, <1>7, <3>1, <3>2 DEF ListOK, Keys, Null
    <3> QED BY <3>1, <3>2, <3>3 DEF Loaded, Keys
  <2>5. /\ search'[Writer].op = search[Writer].op
        /\ search'[Writer].target = search[Writer].target
        /\ search'[Writer].level = i - 1 /\ i - 1 < maxHeight
    BY <1>2, <1>4, <1>7, <2>1 DEF SearchesOK, InsertOK, ListOK, Levels
  <2>6. \A l \in Levels : i - 1 < l /\ l < maxHeight => PrevOK(l)'
    <3> SUFFICES ASSUME NEW l \in Levels, i - 1 < l, l < maxHeight PROVE PrevOK(l)'
      OBVIOUS
    <3>1. CASE l = i
      BY <1>2, <1>7, <2>1, <2>2, <2>3, <2>4, <3>1 DEF PrevOK, InsertOK, Down
    <3>2. CASE l # i
      <4>1. i < l
        BY <1>2, <1>7, <3>2 DEF Levels
      <4>2. PrevOK(l) /\ prev'[l] = prev[l]
        BY <2>1, <2>2, <3>2, <4>1 DEF InsertOK
      <4> QED BY <2>1, <4>2 DEF PrevOK, Down
    <3> QED BY <3>1, <3>2
  <2>7. prev' \in [Levels -> Nodes]
    BY <1>2, <1>7, <2>2, <2>3 DEF InsertOK
  <2>8. InsertOK'
    BY <2>1, <2>5, <2>6, <2>7 DEF InsertOK, Down
  <2> QED BY <1>1, <1>4, <1>5, <2>8 DEF SearchesOK
<1> QED BY <1>6, <1>7

-----------------------------------------------------------------------------
(* The readers. *)

\* What a reader is told of two nodes it goes between.
LEMMA AnswerOK ==
    ASSUME IInv, NEW r \in Readers, UNCHANGED linked,
           NEW node \in linked[0] \cup {Null}, NEW lo \in Nodes, NEW hi \in Keys \cup {Null},
           NEW since \in SUBSET linked[0],
           \A k \in linked[0] : ~(lo < k /\ k < hi),
           Answer(r, node, lo, hi, since),
           \/ due' = [due EXCEPT ![r] = {}]
           \/ due' = [due EXCEPT ![r] = @ \ {node}] /\ lo = pos[r] /\ hi = node
           \/ due' = [due EXCEPT ![r] = linked[0] \ {node}] /\ lo = HeadNode /\ hi = node
    PROVE  ReadersOK'
<1> USE DEF IInv
<1>1. /\ linked[0] \in SUBSET Keys
      /\ pos' = [pos EXCEPT ![r] = node]
      /\ answer' = [answer EXCEPT ![r] = [lo |-> lo, hi |-> hi, since |-> since]]
  BY DEF Answer, ListOK, Levels
<1>2. /\ pos' \in [Readers -> Keys \cup {Null}]
      /\ answer' \in [Readers -> [lo : Nodes, hi : Keys \cup {Null}, since : SUBSET Keys]]
      /\ due' \in [Readers -> SUBSET Keys]
  BY <1>1 DEF ReadersOK
<1>3. PassesOverNothing'
  BY <1>1 DEF ReadersOK, PassesOverNothing
<1>4. \A q \in Readers : \A k \in due'[q] : pos'[q] < k /\ k \in linked[0]
  <2> SUFFICES ASSUME NEW q \in Readers, NEW k \in due'[q]
               PROVE  pos'[q] < k /\ k \in linked[0]
    OBVIOUS
  <2>1. CASE q # r
    BY <1>1, <2>1 DEF ReadersOK
  <2>2. CASE q = r
    <3>1. pos'[r] = node
      BY <1>1 DEF ReadersOK
    <3>2. k \in linked[0] /\ k # node /\ lo < k /\ hi = node
      BY <1>1, <2>2 DEF ReadersOK, HeadNode, Keys
    <3>3. ~(k < node) /\ k \in Int /\ node \in Int
      BY <1>1, <3>2 DEF Keys, Null
    <3> QED BY <2>2, <3>1, <3>2, <3>3
  <2> QED BY <2>1, <2>2
<1> QED BY <1>2, <1>3, <1>4 DEF ReadersOK

\* At the bottom the search has on either side what its answer names.
LEMMA SearchEndsOK ==
    ASSUME IInv, NEW r \in Readers, SearchEnds(r)
    PROVE  IInv'
<1> USE DEF IInv
<1> DEFINE s == search[r]
<1>1. r \in Procs /\ s.op # "none" /\ s.level = 0
  BY DEF SearchEnds, Bottom, Procs
<1>2. /\ Loaded(r) \in linked[0] \cup {Null} /\ ~(Loaded(r) < s.target)
      /\ \A k \in linked[0] : ~(s.x < k /\ k < Loaded(r))
  BY <1>1, LoadOK DEF SearchEnds, Bottom, KeyIsAfterNode
<1>3. /\ s.x \in linked[0] \cup {HeadNode} /\ s.x < s.target /\ s.since \in SUBSET linked[0]
      /\ s.target \in Keys \cup {Null}
  BY <1>1 DEF SearchesOK, SearchOK
<1>4. linked[0] \in SUBSET Keys /\ s.target - 1 \in Nodes
  BY <1>3 DEF ListOK, Levels, Nodes, Keys, HeadNode, Null
<1>5. \A k \in linked[0] : /\ ~(s.target - 1 < k /\ k < Loaded(r))
                            /\ ~(s.x < k /\ k < s.target)
  BY <1>2, <1>3, <1>4 DEF Keys, Null, HeadNode
<1>6. ReadersOK'
  <2>1. CASE Answer(r, Loaded(r), s.target - 1, Loaded(r), s.since)
    BY <1>2, <1>3, <1>4, <1>5, <2>1, AnswerOK DEF SearchEnds
  <2>2. CASE Answer(r, IF s.x = HeadNode THEN Null ELSE s.x, s.x, s.target, s.since)
    BY <1>2, <1>3, <1>4, <1>5, <2>2, AnswerOK DEF SearchEnds, Nodes
  <2> QED BY <2>1, <2>2 DEF SearchEnds
<1>7. SearchesOK' /\ search'[Writer] = search[Writer]
  BY DEF SearchEnds, Bottom, SearchesOK, SearchOK, NoSearch, Nodes, Levels, HeadNode, Null, Keys,
         Procs
<1>8. ListOK' /\ InsertOK'
  BY <1>7, SameList, SameInsert DEF SearchEnds
<1> QED BY <1>6, <1>7, <1>8

\* The first link of a node leads past no key, and a scan goes that way.
LEMMA StepsOK ==
    ASSUME IInv, NEW r \in Readers, SeekToFirst(r) \/ NextNode(r)
    PROVE  IInv'
<1> USE DEF IInv
<1>1. 0 \in Levels /\ linked[0] \in SUBSET Keys
  BY DEF ListOK, Levels
<1>2. ListOK' /\ SearchesOK' /\ InsertOK'
  BY SameList, SameSearches, SameInsert DEF SeekToFirst, NextNode
<1>3. ReadersOK'
  <2>1. CASE SeekToFirst(r)
    <3>1. /\ next[HeadNode][0] \in linked[0] \cup {Null} /\ HeadNode \in Nodes
          /\ \A k \in linked[0] : ~(HeadNode < k /\ k < next[HeadNode][0])
      BY <1>1 DEF ListOK, LevelsLinked, Nodes
    <3> QED BY <1>1, <2>1, <3>1, AnswerOK DEF SeekToFirst
  <2>2. CASE NextNode(r)
    <3>1. pos[r] \in linked[0] /\ pos[r] \in Nodes
      BY <1>1, <2>2 DEF NextNode, ReadersOK, PassesOverNothing, Nodes
    <3>2. /\ next[pos[r]][0] \in linked[0] \cup {Null}
          /\ \A k \in linked[0] : ~(pos[r] < k /\ k < next[pos[r]][0])
      BY <1>1, <3>1 DEF ListOK, LevelsLinked
    <3> QED BY <1>1, <2>2, <3>1, <3>2, AnswerOK DEF NextNode
  <2> QED BY <2>1, <2>2
<1> QED BY <1>2, <1>3

\* A reader that begins a search does not concern the writer's.
LEMMA SeeksOK ==
    ASSUME IInv, NEW r \in Readers,
           \/ \E target \in Keys : Seek(r, target)
           \/ Prev(r) \/ SeekToLast(r)
    PROVE  IInv'
<1> USE DEF IInv
<1>1. r \in Procs /\ r # Writer
  BY DEF Procs
<1>2. /\ UNCHANGED <<next, maxHeight, linked, prev, insert, readerVars>>
      /\ \E op \in {"greaterOrEqual", "lessThan"} : \E target \in Keys \cup {Null} :
             Begin(r, op, target)
  BY DEF Seek, Prev, SeekToLast, ReadersOK
<1>3. SearchesOK' /\ search'[Writer] = search[Writer]
  BY <1>1, <1>2, BeginOK
<1> QED BY <1>2, <1>3, SameList, SameReaders, SameInsert

-----------------------------------------------------------------------------
(* The writer. *)

\* A search of the writer that has come to its end begins the insert.
LEMMA InsertBegins ==
    ASSUME IInv, NEW key \in Keys, Insert(key)
    PROVE  IInv'
<1> USE DEF IInv
<1>1. /\ SearchesOK'
      /\ search'[Writer].op = "greaterOrEqual" /\ search'[Writer].target = key
      /\ search'[Writer].level = maxHeight - 1
  BY BeginOK DEF Insert, Procs
<1>2. /\ insert'.at = "search" /\ insert'.key = key /\ key \notin linked[0]
      /\ insert' \in [at : {"idle", "search", "point", "publish"}, key : Keys \cup {1},
                      height : 1..MaxHeight, level : Levels]
  <2>1. insert' = [at |-> "search", key |-> key, height |-> 1, level |-> 0]
    BY DEF Insert, NoInsert
  <2>2. 1 \in 1..MaxHeight /\ 0 \in Levels
    BY DEF Levels
  <2> QED BY <2>1, <2>2 DEF Insert
<1>3. InsertOK'
  BY <1>1, <1>2 DEF InsertOK, Insert, ListOK, Levels
<1> QED BY <1>1, <1>3, SameList, SameReaders DEF Insert

\* At the levels that are new, the head is followed by NULL.
LEMMA GrowOK ==
    ASSUME IInv, NEW height \in 1..MaxHeight, Grow(height)
    PROVE  IInv'
<1> USE DEF IInv
<1> DEFINE s == search[Writer]
<1>1. /\ Writer \in Procs /\ s.op # "none" /\ s.level = 0 /\ s.target = insert.key
      /\ insert.key \in Keys /\ insert.key \notin linked[0] /\ 0 \in Levels
  BY DEF Grow, Bottom, InsertOK, Procs, Levels
<1>2. /\ SearchesOK' /\ search'[Writer] = NoSearch
  BY <1>1 DEF Grow, Bottom, SearchesOK, SearchOK, NoSearch, Nodes, Levels, HeadNode, Null, Keys
<1>3. maxHeight' \in 1..MaxHeight /\ maxHeight <= maxHeight' /\ height <= maxHeight'
  BY DEF Grow, ListOK
<1>4. ListOK'
  BY <1>3 DEF ListOK, Grow, LevelsLinked, LevelsNested, Levels
<1>5. \A l \in Levels : insert.key \notin linked[l]
  BY <1>1 DEF ListOK, LevelsNested, Levels
<1>6. s.x \in linked[0] \cup {HeadNode} /\ s.x < insert.key /\ s.x \in Nodes
  BY <1>1 DEF SearchesOK, SearchOK
<1>7. insert.key < next[s.x][0]
  <2>1. Loaded(Writer) \in linked[0] \cup {Null} /\ ~(Loaded(Writer) < insert.key)
    BY <1>1, LoadOK DEF Grow, Bottom, KeyIsAfterNode
  <2>2. Loaded(Writer) \in Int /\ Loaded(Writer) # insert.key
    BY <1>1, <2>1 DEF ListOK, Keys, Null
  <2> QED BY <1>1, <2>1, <2>2 DEF Loaded, Keys
<1>8. /\ insert'.at = "point" /\ insert'.key = insert.key /\ insert'.height = height
      /\ insert'.level = 0
      /\ insert' \in [at : {"idle", "search", "point", "publish"}, key : Keys \cup {1},
                      height : 1..MaxHeight, level : Levels]
  BY <1>1 DEF Grow, InsertOK
<1>9. prev' = [l \in Levels |-> IF l = 0 THEN s.x
                                ELSE IF l \in maxHeight..(height - 1) THEN HeadNode
                                ELSE prev[l]]
  BY DEF Grow
<1>10. \A l \in Levels : l < height => PrevOK(l)'
  <2> SUFFICES ASSUME NEW l \in Levels, l < height PROVE PrevOK(l)'
    OBVIOUS
  <2>1. CASE l = 0
    BY <1>1, <1>6, <1>7, <1>8, <1>9, <2>1 DEF PrevOK, Grow
  <2>2. CASE l # 0 /\ l >= maxHeight
    <3>1. prev'[l] = HeadNode
      BY <1>9, <2>2 DEF Levels, ListOK
    <3>2. next[HeadNode][l] = Null
      BY <2>2 DEF ListOK, LevelsLinked
    <3> QED BY <1>1, <1>8, <3>1, <3>2 DEF PrevOK, Grow, HeadNode, Null, Keys
  <2>3. CASE l # 0 /\ l < maxHeight
    <3>1. prev'[l] = prev[l]
      BY <1>9, <2>3 DEF Levels, ListOK
    <3>2. PrevOK(l)
      BY <1>1, <2>3 DEF InsertOK, Grow, Levels
    <3> QED BY <1>8, <3>1, <3>2 DEF PrevOK, Grow
  <2> QED BY <2>1, <2>2, <2>3 DEF ListOK, Levels
<1>11. prev' \in [Levels -> Nodes]
  BY <1>6, <1>9 DEF InsertOK, Nodes
<1>12. linked' = linked /\ next' = next /\ UNCHANGED readerVars
  BY DEF Grow
<1>13. InsertOK'
  BY <1>2, <1>3, <1>1, <1>5, <1>8, <1>10, <1>11, <1>12 DEF InsertOK, NoSearch, Levels
<1> QED BY <1>2, <1>4, <1>12, <1>13, SameReaders

\* The links of the node being inserted are read by nobody yet.
LEMMA PointNodeOK ==
    ASSUME IInv, PointNode
    PROVE  IInv'
<1> USE DEF IInv
<1> DEFINE i == insert.level
<1> DEFINE x == insert.key
<1>1. /\ x \in Keys /\ x \in Nodes /\ i \in Levels /\ x \notin linked[i]
      /\ prev[i] \in linked[i] \cup {HeadNode} /\ prev[i] \in Nodes
      /\ x # HeadNode
  <2>1. i \in Levels /\ i < insert.height /\ i <= i /\ x \in Keys
    BY DEF PointNode, InsertOK, Levels
  <2>2. PrevOK(i) /\ x \notin linked[i] /\ prev[i] \in Nodes
    BY <2>1 DEF PointNode, InsertOK
  <2> QED BY <2>1, <2>2 DEF PrevOK, Nodes, Keys, HeadNode
<1>2. /\ next' = [next EXCEPT ![x] = [next[x] EXCEPT ![i] = next[prev[i]][i]]]
      /\ next[prev[i]][i] \in Nodes \cup {Null, Unset}
  BY <1>1 DEF PointNode, ListOK
<1>3. /\ next' \in [Nodes -> [Levels -> Nodes \cup {Null, Unset}]]
      /\ next'[x][i] = next[prev[i]][i]
      /\ \A n \in Nodes : \A l \in Levels : n # x \/ l # i => next'[n][l] = next[n][l]
  BY <1>1, <1>2 DEF ListOK
<1>4. \A l \in Levels : \A n \in linked[l] \cup {HeadNode} : n \in Nodes /\ next'[n][l] = next[n][l]
  BY <1>1, <1>3 DEF ListOK, Nodes
<1>5. ListOK'
  BY <1>3, <1>4 DEF ListOK, LevelsLinked, LevelsNested, PointNode
<1>6. InsertOK'
  <2>1. /\ insert'.at = "publish" /\ insert'.key = x /\ insert'.level = i
        /\ insert'.height = insert.height
        /\ insert' \in [at : {"idle", "search", "point", "publish"}, key : Keys \cup {1},
                        height : 1..MaxHeight, level : Levels]
    BY DEF PointNode, InsertOK
  <2>2. \A l \in Levels : i <= l /\ l < insert.height => PrevOK(l)'
    BY <1>4, <2>1 DEF InsertOK, PointNode, PrevOK
  <2>3. next'[prev[i]][i] = next[prev[i]][i]
    BY <1>1, <1>4
  <2> QED BY <1>3, <2>1, <2>2, <2>3 DEF InsertOK, PointNode
<1> QED BY <1>5, <1>6, SameSearches, SameReaders DEF PointNode

\* Linked between prev and what followed it, the node takes its place.
LEMMA PublishNodeOK ==
    ASSUME IInv, PublishNode
    PROVE  IInv'
<1> USE DEF IInv
<1> DEFINE i == insert.level
<1> DEFINE x == insert.key
<1> DEFINE b == prev[i]
<1>1. /\ x \in Keys /\ x \in Nodes /\ i \in Levels /\ x \notin linked[i]
      /\ b \in linked[i] \cup {HeadNode} /\ b \in Nodes /\ b < x /\ x < next[b][i]
      /\ next[x][i] = next[b][i] /\ i < insert.height /\ insert.height <= maxHeight
  <2>1. /\ i \in Levels /\ i < insert.height /\ i <= i /\ x \in Keys
        /\ insert.height <= maxHeight /\ next[x][i] = next[b][i]
    BY DEF PublishNode, InsertOK, Levels
  <2>2. PrevOK(i) /\ x \notin linked[i] /\ b \in Nodes
    BY <2>1 DEF PublishNode, InsertOK
  <2> QED BY <2>1, <2>2 DEF PrevOK, Nodes
<1>2. /\ next' = [next EXCEPT ![b] = [next[b] EXCEPT ![i] = x]]
      /\ linked' = [linked EXCEPT ![i] = linked[i] \cup {x}]
  BY DEF PublishNode
<1>3. /\ next' \in [Nodes -> [Levels -> Nodes \cup {Null, Unset}]]
      /\ next'[b][i] = x
      /\ \A n \in Nodes : \A l \in Levels : n # b \/ l # i => next'[n][l] = next[n][l]
  BY <1>1, <1>2 DEF ListOK
<1>4. /\ linked' \in [Levels -> SUBSET Keys]
      /\ linked'[i] = linked[i] \cup {x}
      /\ \A l \in Levels : l # i => linked'[l] = linked[l]
      /\ \A l \in Levels : linked[l] \subseteq linked'[l]
  BY <1>1, <1>2 DEF ListOK
<1>5. ListOK'
  <2>1. LevelsLinked'
    <3> SUFFICES ASSUME NEW l \in Levels, NEW n \in linked'[l] \cup {HeadNode}
                 PROVE  /\ next'[n][l] \in linked'[l] \cup {Null}
                        /\ n < next'[n][l]
                        /\ \A k \in linked'[l] : ~(n < k /\ k < next'[n][l])
      BY DEF LevelsLinked
    <3>1. n \in Nodes /\ linked[l] \subseteq Keys
      BY <1>4 DEF Nodes, ListOK
    <3>2. CASE l # i
      BY <1>3, <1>4, <3>1, <3>2 DEF ListOK, LevelsLinked
    <3>3. CASE l = i /\ n = b
      <4>1. /\ next[b][i] \in linked[i] \cup {Null} /\ linked[i] \subseteq Keys
            /\ \A k \in linked[i] : ~(b < k /\ k < next[b][i])
        BY <1>1 DEF ListOK, LevelsLinked
      <4>2. \A k \in linked[i] : ~(b < k /\ k < x)
        BY <1>1, <4>1 DEF Keys, Null, Nodes, HeadNode
      <4> QED BY <1>1, <1>3, <1>4, <3>3, <4>2 DEF Keys
    <3>4. CASE l = i /\ n = x
      <4>1. next'[n][l] = next[b][i]
        BY <1>1, <1>3, <3>4, <3>1 DEF Nodes, Keys, HeadNode
      <4>2. next[b][i] \in linked[i] \cup {Null}
            /\ \A k \in linked[i] : ~(b < k /\ k < next[b][i])
        BY <1>1 DEF ListOK, LevelsLinked
      <4> QED BY <1>1, <1>4, <3>1, <3>4, <4>1, <4>2 DEF Keys, Nodes, HeadNode, Null
    <3>5. CASE l = i /\ n # b /\ n # x
      <4>1. next'[n][l] = next[n][i] /\ n \in linked[i] \cup {HeadNode}
        BY <1>3, <1>4, <3>1, <3>5
      <4>2. /\ next[n][i] \in linked[i] \cup {Null} /\ n < next[n][i]
            /\ \A k \in linked[i] : ~(n < k /\ k < next[n][i])
        BY <1>1, <4>1 DEF ListOK, LevelsLinked
      <4>3. ~(n < x /\ x < next[n][i])
        <5>1. CASE b < n
          <6>1. next[b][i] <= n
            BY <1>1, <3>1, <4>1, <5>1 DEF ListOK, LevelsLinked, Nodes, Keys, HeadNode, Null
          <6> QED BY <1>1, <3>1, <6>1 DEF ListOK, LevelsLinked, Nodes, Keys, HeadNode, Null
        <5>2. CASE n < b
          <6>1. next[n][i] <= b
            <7>1. b \in linked[i] /\ linked[i] \subseteq Keys
              BY <1>1, <3>1, <3>5, <5>2 DEF Nodes, Keys, HeadNode
            <7>2. ~(b < next[n][i])
              BY <4>2, <5>2, <7>1
            <7> QED BY <3>1, <4>2, <7>1, <7>2 DEF Keys, Null
          <6>2. next[n][i] \in Int
            BY <3>1, <3>5, <4>2 DEF Keys, Null
          <6> QED BY <1>1, <6>1, <6>2 DEF Nodes, Keys, HeadNode
        <5> QED BY <1>1, <3>1, <3>5, <5>1, <5>2 DEF Nodes, Keys, HeadNode
      <4> QED BY <1>4, <3>5, <4>1, <4>2, <4>3
    <3> QED BY <1>4, <3>2, <3>3, <3>4, <3>5
  <2>2. LevelsNested'
    <3>1. \A l \in Levels : l < i => x \in linked[l]
      BY DEF PublishNode, InsertOK
    <3>2. LevelsNested /\ \A l \in Levels : l \in Int
      BY DEF ListOK, Levels
    <3> QED BY <1>1, <1>4, <3>1, <3>2 DEF LevelsNested, Levels
  <2>3. \A l \in Levels : l >= maxHeight => linked'[l] = {}
    <3>1. i < maxHeight
      BY <1>1 DEF ListOK, InsertOK, Levels
    <3> QED BY <1>1, <1>4, <3>1 DEF ListOK, Levels
  <2> QED BY <1>3, <1>4, <2>1, <2>2, <2>3 DEF ListOK, PublishNode
<1>6. SearchesOK'
  BY <1>1, <1>4 DEF SearchesOK, SearchOK, PublishNode, Levels
<1>7. InsertOK'
  <2>1. search' = search /\ prev' = prev /\ maxHeight' = maxHeight
    BY DEF PublishNode
  <2>2. insert.at = "publish" /\ insert.level \in Levels /\ insert.height \in 1..MaxHeight
    BY DEF PublishNode, InsertOK
  <2>3. CASE i + 1 = insert.height
    <3>1. insert' = NoInsert
      BY <2>3 DEF PublishNode
    <3> QED BY <2>1, <2>2, <3>1 DEF InsertOK, NoInsert, Levels
  <2>4. CASE i + 1 # insert.height
    <3>1. i + 1 \in Levels /\ i + 1 < insert.height
      BY <1>1, <2>2, <2>4 DEF Levels
    <3>2. /\ insert'.at = "point" /\ insert'.key = x /\ insert'.level = i + 1
          /\ insert'.height = insert.height
          /\ insert' \in [at : {"idle", "search", "point", "publish"}, key : Keys \cup {1},
                          height : 1..MaxHeight, level : Levels]
      BY <2>4, <3>1 DEF PublishNode, InsertOK
    <3>3. \A l \in Levels : i + 1 <= l /\ l < insert.height => PrevOK(l)'
      <4> SUFFICES ASSUME NEW l \in Levels, i + 1 <= l, l < insert.height PROVE PrevOK(l)'
        OBVIOUS
      <4>1. PrevOK(l) /\ l # i
        BY <2>2 DEF InsertOK, Levels
      <4>2. next'[prev[l]][l] = next[prev[l]][l] /\ linked'[l] = linked[l]
        BY <1>3, <1>4, <4>1 DEF InsertOK
      <4> QED BY <2>1, <3>2, <4>1, <4>2 DEF PrevOK
    <3>4. /\ \A l \in Levels : l < i + 1 => x \in linked'[l]
          /\ \A l \in Levels : i + 1 <= l => x \notin linked'[l]
      BY <1>4, <2>2 DEF InsertOK, Levels
    <3> QED BY <1>1, <2>1, <2>2, <3>1, <3>2, <3>3, <3>4 DEF InsertOK
  <2> QED BY <2>3, <2>4
<1>8. ReadersOK'
  BY <1>4, SameReaders DEF PublishNode, Levels
<1> QED BY <1>5, <1>6, <1>7, <1>8

-----------------------------------------------------------------------------
\* Every step keeps the invariant.
LEMMA StepOK == IInv /\ [Next]_vars => IInv'
<1> SUFFICES ASSUME IInv, [Next]_vars PROVE IInv'
  OBVIOUS
<1>1. CASE Write
  BY <1>1, InsertBegins, GrowOK, PointNodeOK, PublishNodeOK DEF Write
<1>2. ASSUME NEW p \in Procs, Step(p) PROVE IInv'
  BY <1>2, ForwardOK, DownOK DEF Step
<1>3. ASSUME NEW r \in Readers, Read(r) \/ SearchEnds(r) PROVE IInv'
  BY <1>3, StepsOK, SeeksOK, SearchEndsOK DEF Read
<1>4. CASE UNCHANGED vars
  BY <1>4, SameList, SameReaders, SameInsert, SameSearches DEF vars, IInv, readerVars
<1> QED BY <1>1, <1>2, <1>3, <1>4 DEF Next

\* The invariant holds always: what the list, the searches, the insert and the readers are at every store (db/skiplist.h).
THEOREM Inductive == Spec => []IInv
BY InitOK, StepOK, PTL DEF Spec

(* Every variable stays in its range: no level or link out of bounds is      *)
(* reached by SkipList::Insert or its readers.                               *)
THEOREM TypesKept == Spec => []TypeOK
<1>1. IInv => TypeOK
  BY DEF IInv, ListOK, SearchesOK, InsertOK, ReadersOK, TypeOK
<1> QED BY <1>1, Inductive, PTL

(* Each level is in order, and a sublist of the one below, after every       *)
(* single store of SkipList::Insert.                                         *)
THEOREM ListLinked == Spec => []Linked
<1>1. IInv => Linked
  BY DEF IInv, ListOK, Linked
<1> QED BY <1>1, Inductive, PTL

(* No reader follows a link before the writer has set it.                    *)
THEOREM LinksSet == Spec => []FollowsSetLinks
<1>1. IInv => FollowsSetLinks
  BY LoadOK DEF IInv, FollowsSetLinks, ListOK, Keys, Null, Unset
<1> QED BY <1>1, Inductive, PTL

(* Whatever the heights and the interleaving, a reader passes over no key    *)
(* that was in the list when it began.                                       *)
THEOREM NothingPassed == Spec => []PassesOverNothing
<1>1. IInv => PassesOverNothing
  BY DEF IInv, ReadersOK
<1> QED BY <1>1, Inductive, PTL

(* A scan by SkipList::Iterator::Next returns every key that was there.      *)
THEOREM ScansComplete == Spec => []ScanIsComplete
<1>1. IInv => ScanIsComplete
  BY DEF IInv, ReadersOK, ScanIsComplete
<1> QED BY <1>1, Inductive, PTL

-----------------------------------------------------------------------------
(* BackgroundThread. *)


Section == {"start", "signal", "push", "unlock"}

\* mu_ is held by the thread inside Schedule or by BGThread around the queue.
Exclusion ==
    \A t \in Threads :
        (mu = t) <=> (pc[t] \in Section \/ (t = Bg /\ bg \in {"check", "taken"}))

\* The background thread schedules only from the function it runs.
FromTheFunction == pc[Bg] # "idle" => bg = "run"

\* The item about to be added was announced to a thread that waited.
Announced == \A t \in Threads : pc[t] = "push" => bg # "waiting"

\* started_bgthread_ says whether there is a background thread.
Created == started <=> bg # "absent"

BackgroundInv == BackgroundTypeOK /\ Exclusion /\ Created /\ FromTheFunction /\ Announced /\ NoneAsleep

\* No thread is told apart from the callers and the background thread.
LEMMA NoneIsNoThread == None \notin Threads /\ Bg \in Threads
BY BackgroundAssumption DEF Threads

\* The invariant and the order hold at first.
LEMMA BackgroundInitOK == BackgroundInit => BackgroundInv /\ InOrder
<1> SUFFICES ASSUME BackgroundInit PROVE BackgroundInv /\ InOrder
  OBVIOUS
<1>1. BackgroundTypeOK
  <2>1. calls \in [Threads -> Nat] /\ queue \in Seq(Items) /\ scheduled \in Seq(Items) /\ ran \in Seq(Items)
    BY EmptySeq, SMT DEF BackgroundInit
  <2> QED BY <2>1 DEF BackgroundInit, BackgroundTypeOK
<1>2. Exclusion /\ Created /\ FromTheFunction /\ Announced /\ NoneAsleep
  BY NoneIsNoThread DEF BackgroundInit, Exclusion, Created, FromTheFunction, Announced, NoneAsleep, Section
<1>3. InOrder
  BY DEF BackgroundInit, InOrder, Prefix, Taken
<1> QED BY <1>1, <1>2, <1>3 DEF BackgroundInv

\* Every step keeps the types.
LEMMA TypeKept == BackgroundInv /\ [BackgroundNext]_backgroundVars => BackgroundTypeOK'
<1> SUFFICES ASSUME BackgroundInv, [BackgroundNext]_backgroundVars PROVE BackgroundTypeOK'
  OBVIOUS
<1> USE NoneIsNoThread DEF BackgroundInv, BackgroundTypeOK
<1>1. ASSUME NEW t \in Threads, Schedule(t) PROVE BackgroundTypeOK'
  BY <1>1 DEF Schedule
<1>2. ASSUME NEW t \in Threads, Lock(t) PROVE BackgroundTypeOK'
  BY <1>2 DEF Lock
<1>3. ASSUME NEW t \in Threads, StartBgThread(t) PROVE BackgroundTypeOK'
  BY <1>3 DEF StartBgThread, Created
<1>4. ASSUME NEW t \in Threads, Signal(t) PROVE BackgroundTypeOK'
  BY <1>4 DEF Signal
<1>5. ASSUME NEW t \in Threads, Push(t) PROVE BackgroundTypeOK'
  <2>1. [by |-> t, n |-> calls[t]] \in Items
    BY DEF Items
  <2> QED BY <1>5, <2>1 DEF Push
<1>6. ASSUME NEW t \in Threads, Unlock(t) PROVE BackgroundTypeOK'
  BY <1>6 DEF Unlock
<1>7. CASE BgLock
  BY <1>7 DEF BgLock, schedule
<1>8. CASE BgWait
  BY <1>8 DEF BgWait, schedule
<1>9. CASE BgTake
  BY <1>9 DEF BgTake
<1>10. CASE BgRun
  BY <1>10 DEF BgRun, schedule
<1>11. CASE BgReturn
  BY <1>11 DEF BgReturn, schedule
<1>12. CASE SpuriousWakeup
  BY <1>12 DEF SpuriousWakeup, schedule
<1>13. CASE UNCHANGED backgroundVars
  BY <1>13 DEF backgroundVars
<1> QED BY <1>1, <1>2, <1>3, <1>4, <1>5, <1>6, <1>7, <1>8, <1>9, <1>10, <1>11, <1>12, <1>13
        DEF BackgroundNext, Inside, BgStep

\* Every step keeps the mutex exclusive, the thread created before it runs, and what only the function does.
LEMMA ControlKept == BackgroundInv /\ [BackgroundNext]_backgroundVars => (Exclusion /\ Created /\ FromTheFunction)'
<1> SUFFICES ASSUME BackgroundInv, [BackgroundNext]_backgroundVars PROVE (Exclusion /\ Created /\ FromTheFunction)'
  OBVIOUS
<1> USE NoneIsNoThread DEF BackgroundInv, BackgroundTypeOK, Exclusion, Created, FromTheFunction, Section
<1>1. ASSUME NEW t \in Threads, Schedule(t) PROVE (Exclusion /\ Created /\ FromTheFunction)'
  BY <1>1 DEF Schedule
<1>2. ASSUME NEW t \in Threads, Lock(t) PROVE (Exclusion /\ Created /\ FromTheFunction)'
  BY <1>2 DEF Lock
<1>3. ASSUME NEW t \in Threads, StartBgThread(t) PROVE (Exclusion /\ Created /\ FromTheFunction)'
  BY <1>3 DEF StartBgThread
<1>4. ASSUME NEW t \in Threads, Signal(t) PROVE (Exclusion /\ Created /\ FromTheFunction)'
  BY <1>4 DEF Signal
<1>5. ASSUME NEW t \in Threads, Push(t) PROVE (Exclusion /\ Created /\ FromTheFunction)'
  BY <1>5 DEF Push
<1>6. ASSUME NEW t \in Threads, Unlock(t) PROVE (Exclusion /\ Created /\ FromTheFunction)'
  BY <1>6 DEF Unlock
<1>7. CASE BgLock
  BY <1>7 DEF BgLock, schedule
<1>8. CASE BgWait
  BY <1>8 DEF BgWait, schedule
<1>9. CASE BgTake
  BY <1>9 DEF BgTake
<1>10. CASE BgRun
  BY <1>10 DEF BgRun, schedule
<1>11. CASE BgReturn
  BY <1>11 DEF BgReturn, schedule
<1>12. CASE SpuriousWakeup
  BY <1>12 DEF SpuriousWakeup, schedule
<1>13. CASE UNCHANGED backgroundVars
  BY <1>13 DEF backgroundVars
<1> QED BY <1>1, <1>2, <1>3, <1>4, <1>5, <1>6, <1>7, <1>8, <1>9, <1>10, <1>11, <1>12, <1>13
        DEF BackgroundNext, Inside, BgStep

\* The thread that waits for an item is woken by the first call that brings
\* one, while that call holds the mutex: it sees the item when it looks.
LEMMA SleepKept == BackgroundInv /\ [BackgroundNext]_backgroundVars => (Announced /\ NoneAsleep)'
<1> SUFFICES ASSUME BackgroundInv, [BackgroundNext]_backgroundVars PROVE (Announced /\ NoneAsleep)'
  OBVIOUS
<1> USE NoneIsNoThread DEF BackgroundInv, BackgroundTypeOK, Exclusion, Created, Announced, NoneAsleep, Section
<1>1. ASSUME NEW t \in Threads, Schedule(t) PROVE (Announced /\ NoneAsleep)'
  BY <1>1 DEF Schedule
<1>2. ASSUME NEW t \in Threads, Lock(t) PROVE (Announced /\ NoneAsleep)'
  BY <1>2 DEF Lock
<1>3. ASSUME NEW t \in Threads, StartBgThread(t) PROVE (Announced /\ NoneAsleep)'
  BY <1>3 DEF StartBgThread
<1>4. ASSUME NEW t \in Threads, Signal(t) PROVE (Announced /\ NoneAsleep)'
  BY <1>4 DEF Signal
<1>5. ASSUME NEW t \in Threads, Push(t) PROVE (Announced /\ NoneAsleep)'
  <2>1. bg' = bg /\ bg # "waiting"
    BY <1>5 DEF Push
  <2> QED BY <2>1
<1>6. ASSUME NEW t \in Threads, Unlock(t) PROVE (Announced /\ NoneAsleep)'
  BY <1>6 DEF Unlock
<1>7. CASE BgLock
  BY <1>7 DEF BgLock, schedule
<1>8. CASE BgWait
  <2>1. mu = Bg /\ \A t \in Threads : pc[t] # "push" \/ t = Bg
    BY <1>8 DEF BgWait
  <2>2. pc[Bg] # "push"
    BY <1>8 DEF BgWait, FromTheFunction
  <2> QED BY <1>8, <2>1, <2>2 DEF BgWait, schedule
<1>9. CASE BgTake
  BY <1>9 DEF BgTake
<1>10. CASE BgRun
  BY <1>10 DEF BgRun, schedule
<1>11. CASE BgReturn
  BY <1>11 DEF BgReturn, schedule
<1>12. CASE SpuriousWakeup
  BY <1>12 DEF SpuriousWakeup, schedule
<1>13. CASE UNCHANGED backgroundVars
  BY <1>13 DEF backgroundVars
<1> QED BY <1>1, <1>2, <1>3, <1>4, <1>5, <1>6, <1>7, <1>8, <1>9, <1>10, <1>11, <1>12, <1>13
        DEF BackgroundNext, Inside, BgStep

\* Every step runs the items in the order they were scheduled in.
LEMMA OrderKept == BackgroundInv /\ InOrder /\ [BackgroundNext]_backgroundVars => InOrder'
<1> SUFFICES ASSUME BackgroundInv, InOrder, [BackgroundNext]_backgroundVars PROVE InOrder'
  OBVIOUS
<1> USE DEF BackgroundInv, BackgroundTypeOK, InOrder, Prefix, Taken
<1>1. ASSUME UNCHANGED <<queue, ran, scheduled, hand>>, (bg = "taken") = (bg' = "taken") PROVE InOrder'
  BY <1>1
<1>2. ASSUME NEW t \in Threads, Push(t) PROVE InOrder'
  <2> DEFINE item == [by |-> t, n |-> calls[t]]
  <2>1. item \in Items
    BY DEF Items
  <2>2. /\ UNCHANGED <<ran, hand, bg>>
        /\ queue' = Append(queue, item) /\ scheduled' = Append(scheduled, item)
    BY <1>2 DEF Push
  <2> HIDE DEF item
  <2>3. /\ Len(queue') = Len(queue) + 1 /\ queue'[Len(queue) + 1] = item
        /\ \A i \in 1..Len(queue) : queue'[i] = queue[i]
    BY <2>1, <2>2
  <2>4. /\ Len(scheduled') = Len(scheduled) + 1 /\ scheduled'[Len(scheduled) + 1] = item
        /\ \A i \in 1..Len(scheduled) : scheduled'[i] = scheduled[i]
    BY <2>1, <2>2
  <2>5. Taken \in Nat /\ Taken' = Taken
    BY <2>2
  <2>6. Len(queue) \in Nat /\ Len(scheduled) \in Nat /\ Len(scheduled) = Taken + Len(queue)
    OBVIOUS
  <2>7. \A i \in 1..Len(queue') : queue'[i] = scheduled'[Taken' + i]
    <3> SUFFICES ASSUME NEW i \in 1..Len(queue') PROVE queue'[i] = scheduled'[Taken' + i]
      OBVIOUS
    <3> HIDE DEF Taken
    <3>1. CASE i = Len(queue) + 1
      BY <2>3, <2>4, <2>5, <2>6, <3>1
    <3>2. CASE i \in 1..Len(queue)
      <4>1. Taken + i \in 1..Len(scheduled)
        BY <2>5, <2>6, <3>2
      <4> QED BY <2>3, <2>4, <2>5, <3>2, <4>1
    <3> QED BY <2>3, <2>6, <3>1, <3>2
  <2>8. Prefix(ran', scheduled')
    BY <2>2, <2>4
  <2>9. bg' = "taken" => Taken' <= Len(scheduled') /\ hand' = scheduled'[Taken']
    <3> SUFFICES ASSUME bg = "taken" PROVE Taken <= Len(scheduled') /\ hand = scheduled'[Taken]
      BY <2>2, <2>5
    <3>1. Taken \in 1..Len(scheduled) /\ hand = scheduled[Taken]
      BY <2>5
    <3> HIDE DEF Taken
    <3> QED BY <2>4, <3>1
  <2>10. Len(scheduled') = Taken' + Len(queue')
    <3> HIDE DEF Taken
    <3> QED BY <2>3, <2>4, <2>5, <2>6
  <2> QED BY <2>7, <2>8, <2>9, <2>10
<1>3. CASE BgTake
  <2>1. /\ bg = "check" /\ bg' = "taken" /\ queue # <<>> /\ queue' = Tail(queue)
        /\ hand' = Head(queue) /\ UNCHANGED <<ran, scheduled>>
    BY <1>3 DEF BgTake
  <2>2. Taken' = Taken + 1 /\ Taken = Len(ran) /\ Len(ran) \in Nat
    BY <2>1
  <2>3. /\ Len(queue) >= 1 /\ Len(queue') = Len(queue) - 1 /\ hand' = queue[1]
        /\ \A i \in 1..Len(queue') : queue'[i] = queue[i + 1]
    BY <2>1, HeadTailProperties
  <2>4. \A i \in 1..Len(queue') : queue'[i] = scheduled'[Taken' + i]
    <3> SUFFICES ASSUME NEW i \in 1..Len(queue') PROVE queue'[i] = scheduled'[Taken' + i]
      OBVIOUS
    <3>1. i + 1 \in 1..Len(queue)
      BY <2>3
    <3>2. queue'[i] = scheduled[Taken + (i + 1)]
      BY <2>3, <3>1
    <3> QED BY <2>1, <2>2, <3>2
  <2>5. hand' = scheduled'[Taken'] /\ Taken' <= Len(scheduled')
    BY <2>1, <2>2, <2>3
  <2>6. Len(scheduled') = Taken' + Len(queue')
    <3>1. Len(scheduled) = Taken + Len(queue) /\ Taken \in Nat /\ Len(queue) \in Nat
      BY <2>2
    <3>2. Taken' = Taken + 1 /\ Len(queue') = Len(queue) - 1 /\ scheduled' = scheduled
      BY <2>1, <2>2, <2>3
    <3> HIDE DEF Taken, BackgroundTypeOK, InOrder, BackgroundInv, Prefix
    <3>3. Len(scheduled) = (Taken + 1) + (Len(queue) - 1)
      BY <3>1
    <3>4. Len(scheduled') = Len(scheduled)
      BY <3>2
    <3> QED BY <3>2, <3>3, <3>4
  <2>7. Prefix(ran', scheduled')
    BY <2>1
  <2> QED BY <2>4, <2>5, <2>6, <2>7
<1>4. CASE BgRun
  <2>1. /\ bg = "taken" /\ bg' = "run" /\ ran' = Append(ran, hand)
        /\ hand \in Items /\ UNCHANGED <<queue, scheduled>>
    BY <1>4 DEF BgRun, schedule
  <2>2. /\ Len(ran') = Len(ran) + 1 /\ ran'[Len(ran) + 1] = hand
        /\ \A i \in 1..Len(ran) : ran'[i] = ran[i]
    BY <2>1
  <2>3. Taken = Len(ran) + 1 /\ Taken' = Taken
    BY <2>1, <2>2
  <2>4. Prefix(ran', scheduled')
    BY <2>1, <2>2, <2>3
  <2> QED BY <2>1, <2>3, <2>4
<1>5. ASSUME NEW t \in Threads, StartBgThread(t) PROVE InOrder'
  BY <1>1, <1>5 DEF StartBgThread, Created
<1>6. ASSUME NEW t \in Threads, Signal(t) PROVE InOrder'
  BY <1>1, <1>6 DEF Signal
<1>7. ASSUME NEW t \in Threads, Schedule(t) \/ Lock(t) \/ Unlock(t) PROVE InOrder'
  BY <1>1, <1>7 DEF Schedule, Lock, Unlock
<1>8. CASE BgLock \/ BgWait \/ SpuriousWakeup
  BY <1>1, <1>8 DEF BgLock, BgWait, SpuriousWakeup, schedule
<1>9. CASE BgReturn
  BY <1>9 DEF BgReturn, schedule
<1>10. CASE UNCHANGED backgroundVars
  BY <1>1, <1>10 DEF backgroundVars
<1> QED BY <1>2, <1>3, <1>4, <1>5, <1>6, <1>7, <1>8, <1>9, <1>10 DEF BackgroundNext, Inside, BgStep

\* BackgroundSpec keeps BackgroundTypeOK: util/env_posix.cc, the queue of the background thread.
THEOREM Types == BackgroundSpec => []BackgroundTypeOK
<1>1. BackgroundInv /\ [BackgroundNext]_backgroundVars => BackgroundInv'
  BY TypeKept, ControlKept, SleepKept DEF BackgroundInv
<1>2. BackgroundInv => BackgroundTypeOK
  BY DEF BackgroundInv
<1> QED BY BackgroundInitOK, <1>1, <1>2, PTL DEF BackgroundSpec

\* The thread never waits while the queue holds an item: Schedule's signal,
\* sent only to an empty queue and before the item is in it, is enough.
THEOREM NoLostWakeup == BackgroundSpec => []NoneAsleep
<1>1. BackgroundInv /\ [BackgroundNext]_backgroundVars => BackgroundInv'
  BY TypeKept, ControlKept, SleepKept DEF BackgroundInv
<1>2. BackgroundInv => NoneAsleep
  BY DEF BackgroundInv
<1> QED BY BackgroundInitOK, <1>1, <1>2, PTL DEF BackgroundSpec

\* Each item is run once, in the order of the queue.
THEOREM RunsInOrder == BackgroundSpec => []InOrder
<1>1. BackgroundInv /\ InOrder /\ [BackgroundNext]_backgroundVars => (BackgroundInv /\ InOrder)'
  BY TypeKept, ControlKept, SleepKept, OrderKept DEF BackgroundInv
<1> QED BY BackgroundInitOK, <1>1, PTL DEF BackgroundSpec

\* The function runs with the mutex free, except while it calls Schedule.
THEOREM NeverRunsLocked == BackgroundSpec => []RunsUnlocked
<1>1. BackgroundInv /\ [BackgroundNext]_backgroundVars => BackgroundInv'
  BY TypeKept, ControlKept, SleepKept DEF BackgroundInv
<1>2. BackgroundInv => RunsUnlocked
  BY NoneIsNoThread DEF BackgroundInv, BackgroundTypeOK, Exclusion, RunsUnlocked, Section
<1> QED BY BackgroundInitOK, <1>1, <1>2, PTL DEF BackgroundSpec

-----------------------------------------------------------------------------
(* FileLocks. *)
CONSTANTS Lockers, Processes, ProcessOf, Destroyers, Nobody, MaxFiles
VARIABLES lockName, created, owner, locked, at, opened
Locks == INSTANCE FileLocks WITH Threads <- Lockers, None <- Nobody, name <- lockName,
                                 table <- locked, pc <- at, fd <- opened

\* Between Insert, which took the name, and Remove.
HasName(t) == at[t] \in {"lock", "close", "forget", "held", "remove"}

LocksTyped == Locks!TypeOK /\ opened \in [Lockers -> 1..MaxFiles \cup {Nobody}]

\* locked_files_ has the name for exactly one thread of a process.
TableOK ==
    /\ \A t, u \in Lockers : HasName(t) /\ HasName(u) /\ ProcessOf[t] = ProcessOf[u] => t = u
    /\ \A p \in Processes : locked[p] <=> \E t \in Lockers : HasName(t) /\ ProcessOf[t] = p

\* A record lock is that of a process which has the file open.
OwnersOpen ==
    \A f \in 1..MaxFiles : owner[f] # Nobody =>
        \E t \in Lockers : ProcessOf[t] = owner[f] /\ opened[t] = f

\* While nobody destroys a database there is one file.
OneFile ==
    /\ \A t \in Lockers : at[t] = "delete" => t \in Destroyers
    /\ Locks!OneThreadEach =>
           /\ \A t \in Lockers : opened[t] # Nobody => opened[t] = lockName
           /\ Locks!HeldIsLocked

LocksInv == LocksTyped /\ TableOK /\ OwnersOpen /\ OneFile

\* Nothing is open at first.
LEMMA LocksInit == ASSUME Locks!LockAssumption, Locks!Init PROVE LocksInv
<1> USE DEF Locks!LockAssumption, Locks!Init, Locks!Files
<1>1. LocksTyped
  BY DEF LocksTyped, Locks!TypeOK
<1>2. TableOK
  BY DEF TableOK, HasName
<1>3. OwnersOpen
  BY DEF OwnersOpen
<1>4. OneFile
  BY DEF OneFile, Locks!HeldIsLocked
<1> QED BY <1>1, <1>2, <1>3, <1>4 DEF LocksInv

\* Types.
LEMMA LocksStayTyped ==
    ASSUME Locks!LockAssumption, LocksInv, [Locks!Next]_Locks!vars
    PROVE  LocksTyped'
<1> USE DEF LocksInv, LocksTyped, Locks!TypeOK, Locks!Files, Locks!LockAssumption, Locks!Goto, Locks!Close
<1>1. CASE UNCHANGED Locks!vars
  BY <1>1 DEF Locks!vars
<1>2. ASSUME NEW t \in Lockers, Locks!Open(t) PROVE LocksTyped'
  <2>1. lockName' \in 1..MaxFiles /\ created' \in 0..MaxFiles
    BY <1>2 DEF Locks!Open
  <2> QED BY <1>2, <2>1 DEF Locks!Open
<1>3. ASSUME NEW t \in Lockers, Locks!Insert(t) PROVE LocksTyped'
  BY <1>3 DEF Locks!Insert
<1>4. ASSUME NEW t \in Lockers, Locks!Refuse(t) PROVE LocksTyped'
  BY <1>4 DEF Locks!Refuse
<1>5. ASSUME NEW t \in Lockers, Locks!SetLock(t) PROVE LocksTyped'
  BY <1>5 DEF Locks!SetLock
<1>6. ASSUME NEW t \in Lockers, Locks!BackOut(t) PROVE LocksTyped'
  BY <1>6 DEF Locks!BackOut
<1>7. ASSUME NEW t \in Lockers, Locks!Forget(t) PROVE LocksTyped'
  BY <1>7 DEF Locks!Forget
<1>8. ASSUME NEW t \in Lockers, Locks!Unlock(t) PROVE LocksTyped'
  BY <1>8 DEF Locks!Unlock
<1>9. ASSUME NEW t \in Lockers, Locks!Remove(t) PROVE LocksTyped'
  BY <1>9 DEF Locks!Remove
<1>10. ASSUME NEW t \in Lockers, Locks!Release(t) PROVE LocksTyped'
  BY <1>10 DEF Locks!Release
<1>11. ASSUME NEW t \in Lockers, Locks!Delete(t) PROVE LocksTyped'
  BY <1>11 DEF Locks!Delete
<1>12. ASSUME NEW p \in Processes, Locks!Crash(p) PROVE LocksTyped'
  BY <1>12 DEF Locks!Crash
<1> QED BY <1>1, <1>2, <1>3, <1>4, <1>5, <1>6, <1>7, <1>8, <1>9, <1>10, <1>11,
          <1>12 DEF Locks!Next, Locks!Step

\* Insert finds the name taken, or takes it; Remove and Forget give it back.
LEMMA TableKept ==
    ASSUME Locks!LockAssumption, LocksInv, LocksTyped', [Locks!Next]_Locks!vars
    PROVE  TableOK'
<1> USE DEF LocksInv, LocksTyped, Locks!TypeOK, Locks!Files, Locks!LockAssumption, Locks!Goto, Locks!Close,
            TableOK, HasName
<1>1. CASE UNCHANGED Locks!vars
  BY <1>1 DEF Locks!vars
<1>2. ASSUME NEW t \in Lockers, Locks!Open(t) PROVE TableOK'
  BY <1>2 DEF Locks!Open
<1>3. ASSUME NEW t \in Lockers, Locks!Insert(t) PROVE TableOK'
  BY <1>3 DEF Locks!Insert
<1>4. ASSUME NEW t \in Lockers, Locks!Refuse(t) PROVE TableOK'
  BY <1>4 DEF Locks!Refuse
<1>5. ASSUME NEW t \in Lockers, Locks!SetLock(t) PROVE TableOK'
  <2>1. \A u \in Lockers : HasName(u)' <=> HasName(u)
    BY <1>5 DEF Locks!SetLock
  <2>2. locked' = locked
    BY <1>5 DEF Locks!SetLock
  <2> HIDE DEF HasName
  <2> QED BY <2>1, <2>2
<1>6. ASSUME NEW t \in Lockers, Locks!BackOut(t) PROVE TableOK'
  BY <1>6 DEF Locks!BackOut
<1>7. ASSUME NEW t \in Lockers, Locks!Forget(t) PROVE TableOK'
  BY <1>7 DEF Locks!Forget
<1>8. ASSUME NEW t \in Lockers, Locks!Unlock(t) PROVE TableOK'
  BY <1>8 DEF Locks!Unlock
<1>9. ASSUME NEW t \in Lockers, Locks!Remove(t) PROVE TableOK'
  BY <1>9 DEF Locks!Remove
<1>10. ASSUME NEW t \in Lockers, Locks!Release(t) PROVE TableOK'
  BY <1>10 DEF Locks!Release
<1>11. ASSUME NEW t \in Lockers, Locks!Delete(t) PROVE TableOK'
  BY <1>11 DEF Locks!Delete
<1>12. ASSUME NEW p \in Processes, Locks!Crash(p) PROVE TableOK'
  BY <1>12 DEF Locks!Crash
<1> QED BY <1>1, <1>2, <1>3, <1>4, <1>5, <1>6, <1>7, <1>8, <1>9, <1>10, <1>11,
          <1>12 DEF Locks!Next, Locks!Step

\* close(fd_), by any thread of the process, ends the lock.
LEMMA OwnersKept ==
    ASSUME Locks!LockAssumption, LocksInv, LocksTyped', [Locks!Next]_Locks!vars
    PROVE  OwnersOpen'
<1> USE DEF LocksInv, LocksTyped, Locks!TypeOK, Locks!Files, Locks!LockAssumption, Locks!Goto, Locks!Close,
            OwnersOpen
<1>1. CASE UNCHANGED Locks!vars
  BY <1>1 DEF Locks!vars
<1>2. ASSUME NEW t \in Lockers, Locks!Open(t) PROVE OwnersOpen'
  BY <1>2 DEF Locks!Open
<1>3. ASSUME NEW t \in Lockers, Locks!Insert(t) PROVE OwnersOpen'
  BY <1>3 DEF Locks!Insert
<1>4. ASSUME NEW t \in Lockers, Locks!Refuse(t) PROVE OwnersOpen'
  BY <1>4 DEF Locks!Refuse
<1>5. ASSUME NEW t \in Lockers, Locks!SetLock(t) PROVE OwnersOpen'
  BY <1>5 DEF Locks!SetLock
<1>6. ASSUME NEW t \in Lockers, Locks!BackOut(t) PROVE OwnersOpen'
  BY <1>6 DEF Locks!BackOut
<1>7. ASSUME NEW t \in Lockers, Locks!Forget(t) PROVE OwnersOpen'
  BY <1>7 DEF Locks!Forget
<1>8. ASSUME NEW t \in Lockers, Locks!Unlock(t) PROVE OwnersOpen'
  BY <1>8 DEF Locks!Unlock
<1>9. ASSUME NEW t \in Lockers, Locks!Remove(t) PROVE OwnersOpen'
  BY <1>9 DEF Locks!Remove
<1>10. ASSUME NEW t \in Lockers, Locks!Release(t) PROVE OwnersOpen'
  BY <1>10 DEF Locks!Release
<1>11. ASSUME NEW t \in Lockers, Locks!Delete(t) PROVE OwnersOpen'
  BY <1>11 DEF Locks!Delete
<1>12. ASSUME NEW p \in Processes, Locks!Crash(p) PROVE OwnersOpen'
  BY <1>12 DEF Locks!Crash
<1> QED BY <1>1, <1>2, <1>3, <1>4, <1>5, <1>6, <1>7, <1>8, <1>9, <1>10, <1>11,
          <1>12 DEF Locks!Next, Locks!Step

\* A close ends only locks of the thread's own process.
LEMMA OneFileKept ==
    ASSUME Locks!LockAssumption, LocksInv, LocksTyped', [Locks!Next]_Locks!vars
    PROVE  OneFile'
<1> USE DEF LocksInv, LocksTyped, Locks!TypeOK, Locks!Files, Locks!LockAssumption, Locks!Goto, Locks!Close,
            OneFile, Locks!HeldIsLocked, Locks!OneThreadEach
<1>1. CASE UNCHANGED Locks!vars
  BY <1>1 DEF Locks!vars
<1>2. ASSUME NEW t \in Lockers, Locks!Open(t) PROVE OneFile'
  BY <1>2 DEF Locks!Open
<1>3. ASSUME NEW t \in Lockers, Locks!Insert(t) PROVE OneFile'
  BY <1>3 DEF Locks!Insert
<1>4. ASSUME NEW t \in Lockers, Locks!Refuse(t) PROVE OneFile'
  BY <1>4 DEF Locks!Refuse
<1>5. ASSUME NEW t \in Lockers, Locks!SetLock(t) PROVE OneFile'
  BY <1>5 DEF Locks!SetLock
<1>6. ASSUME NEW t \in Lockers, Locks!BackOut(t) PROVE OneFile'
  BY <1>6 DEF Locks!BackOut
<1>7. ASSUME NEW t \in Lockers, Locks!Forget(t) PROVE OneFile'
  BY <1>7 DEF Locks!Forget
<1>8. ASSUME NEW t \in Lockers, Locks!Unlock(t) PROVE OneFile'
  BY <1>8 DEF Locks!Unlock
<1>9. ASSUME NEW t \in Lockers, Locks!Remove(t) PROVE OneFile'
  BY <1>9 DEF Locks!Remove
<1>10. ASSUME NEW t \in Lockers, Locks!Release(t) PROVE OneFile'
  BY <1>10 DEF Locks!Release
<1>11. ASSUME NEW t \in Lockers, Locks!Delete(t) PROVE OneFile'
  BY <1>11 DEF Locks!Delete
<1>12. ASSUME NEW p \in Processes, Locks!Crash(p) PROVE OneFile'
  BY <1>12 DEF Locks!Crash
<1> QED BY <1>1, <1>2, <1>3, <1>4, <1>5, <1>6, <1>7, <1>8, <1>9, <1>10, <1>11,
          <1>12 DEF Locks!Next, Locks!Step

\* What the invariant is for.
LEMMA LocksHold == ASSUME Locks!LockAssumption, LocksInv PROVE Locks!LocksSafe
<1>1. Locks!TypeOK
  BY DEF LocksInv, LocksTyped
<1>2. Locks!NothingLeft
  <2> SUFFICES ASSUME NEW p \in Processes, \A t \in Lockers : ProcessOf[t] = p => at[t] = "idle"
               PROVE  ~locked[p] /\ \A f \in Locks!Files : owner[f] # p
    BY DEF Locks!NothingLeft
  <2>1. ~locked[p]
    BY DEF LocksInv, TableOK, HasName
  <2>2. ASSUME NEW f \in Locks!Files, owner[f] = p PROVE FALSE
    BY <2>2 DEF LocksInv, OwnersOpen, LocksTyped, Locks!TypeOK, Locks!Files, Locks!LockAssumption
  <2> QED BY <2>1, <2>2
<1>3. ASSUME Locks!OneProcessOnly PROVE Locks!Exclusive
  BY <1>3 DEF Locks!OneProcessOnly, Locks!Exclusive, LocksInv, TableOK, HasName
<1>4. ASSUME Locks!OneThreadEach PROVE Locks!Exclusive /\ Locks!HeldIsLocked
  BY <1>4 DEF Locks!OneThreadEach, Locks!Exclusive, Locks!HeldIsLocked, LocksInv, OneFile, LocksTyped, Locks!TypeOK
<1> QED BY <1>1, <1>2, <1>3, <1>4 DEF Locks!LocksSafe

(* One thread at a time has the database, and neither an entry of             *)
(* locked_files_ nor a record lock outlives its holder, for any threads and   *)
(* processes: exclusion for the threads of one process, or for processes of   *)
(* one thread that do not destroy the database.                               *)
THEOREM LocksSafeHolds == ASSUME Locks!LockAssumption PROVE Locks!Spec => []Locks!LocksSafe
<1>1. Locks!Init => LocksInv
  BY LocksInit
<1>2. LocksInv /\ [Locks!Next]_Locks!vars => LocksInv'
  <2> SUFFICES ASSUME LocksInv, [Locks!Next]_Locks!vars PROVE LocksInv'
    OBVIOUS
  <2>1. LocksTyped'
    BY LocksStayTyped
  <2>2. TableOK' /\ OwnersOpen' /\ OneFile'
    BY <2>1, TableKept, OwnersKept, OneFileKept
  <2> QED BY <2>1, <2>2 DEF LocksInv
<1>3. LocksInv => Locks!LocksSafe
  BY LocksHold
<1> QED BY <1>1, <1>2, <1>3, PTL DEF Locks!Spec
-----------------------------------------------------------------------------
(* ReadableFiles. *)
CONSTANTS Openers, NoPermit, MaxMmaps, MaxFds
VARIABLES allowed, opening, permit, descriptor
Readable == INSTANCE ReadableFiles WITH Threads <- Openers, None <- NoPermit,
                                        pc <- opening, fd <- descriptor

\* Where a thread's file is says which permit it has, and its descriptor.
OpenAt == {"mmap room", "mmap permit", "map", "fd room", "fd permit", "kept", "close", "reading"}
FileOK(t) ==
    /\ opening[t] \in {"map", "mapped"} => permit[t] = "mmap"
    /\ opening[t] = "kept" => permit[t] = "fd"
    /\ opening[t] = "give back" => permit[t] \in Readable!Limiters
    /\ opening[t] \notin {"map", "mapped", "kept", "give back"} => permit[t] = NoPermit
    /\ descriptor[t] <=> opening[t] \in OpenAt

Holders(l) == {t \in Openers : permit[t] = l}
Counted(l) ==
    /\ allowed[l] >= 0 /\ IsFiniteSet(Holders(l))
    /\ allowed[l] + Cardinality(Holders(l)) = Readable!Limit[l]

ReadableInv ==
    /\ Readable!TypeOK
    /\ \A t \in Openers : FileOK(t)
    /\ \A l \in Readable!Limiters : Counted(l)

\* The instance counts as the library does.
LEMMA SameCount == ASSUME NEW S PROVE Readable!Cardinality(S) = Cardinality(S)
  BY DEF Readable!Cardinality, Cardinality

\* No permit is out at first.
LEMMA ReadableInit == ASSUME Readable!ReadableAssumption, Readable!Init PROVE ReadableInv
<1> USE DEF Readable!ReadableAssumption, Readable!Init, Readable!Limiters
<1>1. Readable!TypeOK
  BY DEF Readable!TypeOK, Readable!Limit
<1>2. \A t \in Openers : FileOK(t)
  BY DEF FileOK, OpenAt
<1>3. ASSUME NEW l \in Readable!Limiters PROVE Counted(l)
  <2>1. Holders(l) = {}
    BY DEF Holders
  <2> QED BY <2>1, FS_EmptySet DEF Counted, Readable!Limit
<1> QED BY <1>1, <1>2, <1>3 DEF ReadableInv

\* What a step does to the permits: nothing, take one that there is, or give one
\* back.
Takes(t, l) ==
    /\ permit[t] = NoPermit /\ allowed[l] > 0
    /\ allowed' = [allowed EXCEPT ![l] = @ - 1] /\ permit' = [permit EXCEPT ![t] = l]
Gives(t, l) ==
    /\ permit[t] = l
    /\ allowed' = [allowed EXCEPT ![l] = @ + 1] /\ permit' = [permit EXCEPT ![t] = NoPermit]

\* One more, one less.
LEMMA OneMore ==
    ASSUME NEW S, NEW x, x \notin S, IsFiniteSet(S)
    PROVE  /\ IsFiniteSet(S \cup {x}) /\ Cardinality(S \cup {x}) = Cardinality(S) + 1
           /\ Cardinality(S) \in Nat
  BY FS_AddElement, FS_CardinalityType
\* Likewise for a permit given back.
LEMMA OneLess ==
    ASSUME NEW S, NEW x \in S, IsFiniteSet(S)
    PROVE  /\ IsFiniteSet(S \ {x}) /\ Cardinality(S \ {x}) = Cardinality(S) - 1
           /\ Cardinality(S) \in Nat
  BY FS_RemoveElement, FS_CardinalityType

\* The other Limiter is left alone, and this one's count follows its permits.
LEMMA CountKept ==
    ASSUME Readable!ReadableAssumption, ReadableInv,
           NEW t \in Openers, NEW m \in Readable!Limiters,
           UNCHANGED <<allowed, permit>> \/ Takes(t, m) \/ Gives(t, m),
           NEW l \in Readable!Limiters
    PROVE  Counted(l)'
<1> USE DEF ReadableInv, Readable!TypeOK, Readable!Limiters, Readable!ReadableAssumption, Readable!Limit
<1>1. Counted(l) /\ allowed[l] \in Int
  OBVIOUS
<1>2. CASE UNCHANGED <<allowed, permit>>
  BY <1>1, <1>2 DEF Counted, Holders
<1>3. CASE Takes(t, m)
  <2>1. CASE l # m
    <3>1. Holders(l)' = Holders(l) /\ allowed'[l] = allowed[l]
      BY <1>3, <2>1 DEF Takes, Holders
    <3> QED BY <1>1, <3>1 DEF Counted
  <2>2. CASE l = m
    <3>1. Holders(l)' = Holders(l) \cup {t} /\ t \notin Holders(l) /\ allowed'[l] = allowed[l] - 1
      BY <1>3, <2>2 DEF Takes, Holders
    <3>2. /\ IsFiniteSet(Holders(l) \cup {t}) /\ Cardinality(Holders(l)) \in Nat
          /\ Cardinality(Holders(l) \cup {t}) = Cardinality(Holders(l)) + 1
      BY <1>1, <3>1, OneMore DEF Counted
    <3>3. allowed[l] > 0
      BY <1>3, <2>2 DEF Takes
    <3>4. Readable!Limit[l]' = Readable!Limit[l] /\ Readable!Limit[l] \in Nat
      OBVIOUS
    <3> HIDE DEF ReadableInv, Readable!TypeOK, Readable!Limit
    <3> QED BY <1>1, <3>1, <3>2, <3>3, <3>4 DEF Counted
  <2> QED BY <2>1, <2>2
<1>4. CASE Gives(t, m)
  <2>1. CASE l # m
    <3>1. /\ permit' = [permit EXCEPT ![t] = NoPermit] /\ permit \in [Openers -> Readable!Limiters \cup {NoPermit}]
          /\ allowed' = [allowed EXCEPT ![m] = @ + 1] /\ allowed \in [Readable!Limiters -> Int]
          /\ permit[t] = m /\ l # NoPermit
      BY <1>4, <2>1 DEF Gives
    <3>2. \A u \in Openers : permit'[u] = l <=> permit[u] = l
      BY <2>1, <3>1
    <3>3. Holders(l)' = Holders(l)
      BY <3>2 DEF Holders
    <3>4. allowed'[l] = allowed[l]
      BY <2>1, <3>1
    <3>5. Readable!Limit[l]' = Readable!Limit[l]
      OBVIOUS
    <3> HIDE DEF ReadableInv, Readable!TypeOK, Readable!Limit
    <3> QED BY <1>1, <3>3, <3>4, <3>5 DEF Counted
  <2>2. CASE l = m
    <3>1. Holders(l)' = Holders(l) \ {t} /\ t \in Holders(l) /\ allowed'[l] = allowed[l] + 1
      BY <1>4, <2>2 DEF Gives, Holders
    <3>2. /\ IsFiniteSet(Holders(l) \ {t}) /\ Cardinality(Holders(l)) \in Nat
          /\ Cardinality(Holders(l) \ {t}) = Cardinality(Holders(l)) - 1
      BY <1>1, <3>1, OneLess DEF Counted
    <3>3. Readable!Limit[l]' = Readable!Limit[l] /\ Readable!Limit[l] \in Nat
      OBVIOUS
    <3> HIDE DEF ReadableInv, Readable!TypeOK, Readable!Limit
    <3> QED BY <1>1, <3>1, <3>2, <3>3 DEF Counted
  <2> QED BY <2>1, <2>2
<1> QED BY <1>2, <1>3, <1>4

\* One step of a thread.
LEMMA FileKept ==
    ASSUME Readable!ReadableAssumption, ReadableInv, NEW t \in Openers, Readable!Step(t)
    PROVE  /\ Readable!TypeOK' /\ \A u \in Openers : FileOK(u)'
           /\ \E m \in Readable!Limiters :
                  UNCHANGED <<allowed, permit>> \/ Takes(t, m) \/ Gives(t, m)
<1> DEFINE Goal == /\ Readable!TypeOK' /\ \A u \in Openers : FileOK(u)'
                   /\ \E m \in Readable!Limiters :
                          UNCHANGED <<allowed, permit>> \/ Takes(t, m) \/ Gives(t, m)
<1> USE DEF ReadableInv, Readable!TypeOK, Readable!Limiters, Readable!ReadableAssumption,
            Readable!Goto, Readable!Descriptor, FileOK, OpenAt
<1>1. CASE Readable!Open(t)
  BY <1>1 DEF Readable!Open
<1>2. CASE Readable!TryMmap(t)
  <2>1. CASE Readable!Look(t, "mmap", "mmap room", "mmap permit", "fd room")
    BY <2>1 DEF Readable!Look
  <2>2. CASE Readable!Take(t, "mmap", "mmap permit", "map", "fd room") /\ allowed["mmap"] > 0
    <3>1. Takes(t, "mmap")
      BY <2>2 DEF Readable!Take, Takes
    <3>2. \A u \in Openers : FileOK(u)'
      <4>1. /\ opening' = [opening EXCEPT ![t] = "map"] /\ permit' = [permit EXCEPT ![t] = "mmap"]
            /\ descriptor' = descriptor /\ opening[t] = "mmap permit"
        BY <2>2 DEF Readable!Take
      <4>2. FileOK(t)'
        BY <4>1
      <4>3. ASSUME NEW u \in Openers, u # t PROVE FileOK(u)'
        BY <4>1, <4>3
      <4> QED BY <4>2, <4>3
    <3>3. allowed' \in [Readable!Limiters -> Int] /\ permit' \in [Openers -> Readable!Limiters \cup {NoPermit}]
      <4>1. /\ allowed' = [allowed EXCEPT !["mmap"] = @ - 1] /\ permit' = [permit EXCEPT ![t] = "mmap"]
            /\ allowed \in [Readable!Limiters -> Int] /\ permit \in [Openers -> Readable!Limiters \cup {NoPermit}]
        BY <3>1 DEF Takes
      <4> QED BY ONLY <4>1 DEF Readable!Limiters
    <3>4. Readable!TypeOK'
      BY <2>2, <3>3 DEF Readable!Take
    <3> QED BY <3>1, <3>2, <3>4
  <2>3. CASE Readable!Take(t, "mmap", "mmap permit", "map", "fd room") /\ ~(allowed["mmap"] > 0)
    BY <2>3 DEF Readable!Take
  <2> QED BY <1>2, <2>1, <2>2, <2>3 DEF Readable!TryMmap
<1>3. CASE Readable!Map(t)
  BY <1>3 DEF Readable!Map
<1>4. CASE Readable!TryFd(t)
  <2>1. CASE Readable!Look(t, "fd", "fd room", "fd permit", "close")
    BY <2>1 DEF Readable!Look
  <2>2. CASE Readable!Take(t, "fd", "fd permit", "kept", "close") /\ allowed["fd"] > 0
    <3>1. Takes(t, "fd")
      BY <2>2 DEF Readable!Take, Takes
    <3>2. \A u \in Openers : FileOK(u)'
      <4>1. /\ opening' = [opening EXCEPT ![t] = "kept"] /\ permit' = [permit EXCEPT ![t] = "fd"]
            /\ descriptor' = descriptor /\ opening[t] = "fd permit"
        BY <2>2 DEF Readable!Take
      <4>2. FileOK(t)'
        BY <4>1
      <4>3. ASSUME NEW u \in Openers, u # t PROVE FileOK(u)'
        BY <4>1, <4>3
      <4> QED BY <4>2, <4>3
    <3>3. allowed' \in [Readable!Limiters -> Int] /\ permit' \in [Openers -> Readable!Limiters \cup {NoPermit}]
      <4>1. /\ allowed' = [allowed EXCEPT !["fd"] = @ - 1] /\ permit' = [permit EXCEPT ![t] = "fd"]
            /\ allowed \in [Readable!Limiters -> Int] /\ permit \in [Openers -> Readable!Limiters \cup {NoPermit}]
        BY <3>1 DEF Takes
      <4> QED BY ONLY <4>1 DEF Readable!Limiters
    <3>4. Readable!TypeOK'
      BY <2>2, <3>3 DEF Readable!Take
    <3> QED BY <3>1, <3>2, <3>4
  <2>3. CASE Readable!Take(t, "fd", "fd permit", "kept", "close") /\ ~(allowed["fd"] > 0)
    BY <2>3 DEF Readable!Take
  <2> QED BY <1>4, <2>1, <2>2, <2>3 DEF Readable!TryFd
<1>5. CASE Readable!CloseFd(t)
  BY <1>5 DEF Readable!CloseFd
<1>6. CASE Readable!BeginRead(t)
  BY <1>6 DEF Readable!BeginRead
<1>7. CASE Readable!EndRead(t)
  BY <1>7 DEF Readable!EndRead
<1>8. CASE Readable!Delete(t)
  BY <1>8 DEF Readable!Delete
<1>9. CASE Readable!GiveBack(t)
  <2>1. PICK m \in Readable!Limiters : permit[t] = m
    BY <1>9 DEF Readable!GiveBack, Readable!Release
  <2>2. Gives(t, m)
    BY <1>9, <2>1 DEF Readable!GiveBack, Readable!Release, Gives
  <2>3. \A u \in Openers : FileOK(u)'
    <3>1. /\ opening' = [opening EXCEPT ![t] = "none"] /\ permit' = [permit EXCEPT ![t] = NoPermit]
          /\ descriptor' = descriptor /\ opening[t] = "give back"
      BY <1>9 DEF Readable!GiveBack, Readable!Release
    <3>2. FileOK(t)'
      BY <3>1
    <3>3. ASSUME NEW u \in Openers, u # t PROVE FileOK(u)'
      BY <3>1, <3>3
    <3> QED BY <3>2, <3>3
  <2>4. allowed' \in [Readable!Limiters -> Int] /\ permit' \in [Openers -> Readable!Limiters \cup {NoPermit}]
    <3>1. /\ allowed' = [allowed EXCEPT ![m] = @ + 1] /\ permit' = [permit EXCEPT ![t] = NoPermit]
          /\ allowed \in [Readable!Limiters -> Int] /\ permit \in [Openers -> Readable!Limiters \cup {NoPermit}]
      BY <2>2 DEF Gives
    <3> QED BY ONLY <3>1, m \in Readable!Limiters DEF Readable!Limiters
  <2>5. Readable!TypeOK'
    BY <1>9, <2>4 DEF Readable!GiveBack, Readable!Release
  <2> QED BY <2>2, <2>3, <2>5
<1> QED BY <1>1, <1>2, <1>3, <1>4, <1>5, <1>6, <1>7, <1>8, <1>9 DEF Readable!Step

\* A descriptor that stays open has one of fd_limit_'s permits.
LEMMA PermitsHold == ASSUME Readable!ReadableAssumption, ReadableInv PROVE Readable!PermitsSafe
<1> USE DEF ReadableInv
<1>1. Readable!Permits
  <2> SUFFICES ASSUME NEW l \in Readable!Limiters
               PROVE  /\ allowed[l] >= 0
                      /\ allowed[l] + Readable!Cardinality({t \in Openers : permit[t] = l})
                             = Readable!Limit[l]
    BY DEF Readable!Permits
  <2>1. Counted(l)
    OBVIOUS
  <2> QED BY <2>1, SameCount DEF Counted, Holders
<1>2. Readable!FewDescriptors
  <2> DEFINE Open == {t \in Openers : descriptor[t] /\ opening[t] \in {"mapped", "kept", "temporary", "none"}}
  <2>1. Open \subseteq Holders("fd")
    BY DEF FileOK, OpenAt, Holders, Readable!TypeOK
  <2>2. Counted("fd") /\ Readable!Limit["fd"] = MaxFds /\ allowed["fd"] \in Int
    BY DEF Readable!Limiters, Readable!Limit, Readable!TypeOK
  <2>3. Cardinality(Open) <= Cardinality(Holders("fd")) /\ Cardinality(Open) \in Nat
    BY <2>1, <2>2, FS_Subset, FS_CardinalityType DEF Counted
  <2>4. Cardinality(Holders("fd")) \in Nat
    BY <2>2, FS_CardinalityType DEF Counted
  <2>5. Cardinality(Open) <= MaxFds
    BY <2>2, <2>3, <2>4 DEF Counted, Readable!ReadableAssumption
  <2>6. \A t \in Openers : opening[t] = "mapped" => ~descriptor[t]
    BY DEF FileOK, OpenAt
  <2> HIDE DEF ReadableInv
  <2> QED BY <2>5, <2>6, SameCount DEF Readable!FewDescriptors
<1> QED BY <1>1, <1>2 DEF Readable!PermitsSafe

(* No permit of a Limiter is lost or given twice, and the descriptors kept     *)
(* open do not exceed fd_limit_, for any number of threads and files and any   *)
(* limits, though Acquire looks at its count before it takes the mutex.        *)
THEOREM PermitsSafeHolds ==
    ASSUME Readable!ReadableAssumption PROVE Readable!Spec => []Readable!PermitsSafe
<1>1. Readable!Init => ReadableInv
  BY ReadableInit
<1>2. ReadableInv /\ [Readable!Next]_Readable!vars => ReadableInv'
  <2> SUFFICES ASSUME ReadableInv, [Readable!Next]_Readable!vars PROVE ReadableInv'
    OBVIOUS
  <2>1. CASE UNCHANGED Readable!vars
    BY <2>1 DEF Readable!vars, ReadableInv, Readable!TypeOK, FileOK, Counted, Holders
  <2>2. ASSUME NEW t \in Openers, Readable!Step(t) PROVE ReadableInv'
    BY <2>2, FileKept, CountKept DEF ReadableInv
  <2> QED BY <2>1, <2>2 DEF Readable!Next
<1>3. ReadableInv => Readable!PermitsSafe
  BY PermitsHold
<1> QED BY <1>1, <1>2, <1>3, PTL DEF Readable!Spec
=============================================================================
