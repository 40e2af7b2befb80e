----------------------------- MODULE FeedProofs -----------------------------
(***************************************************************************)
(* Theorems about Feed, for any users, any cells and any bounds: its       *)
(* types, what the rows and the list settle on (FeedSettles), and that no  *)
(* list takes the place of one with a post it lacks (FeedOnlyGrows).       *)
(***************************************************************************)
EXTENDS Feed, FiniteSetTheorems, TLAPS

USE DEF FeedAssumption

-----------------------------------------------------------------------------
(* Sequences and ranks. *)

\* A sequence's items are its set.
LEMMA Elements ==
    ASSUME NEW T, NEW s \in Seq(T)
    PROVE  /\ Len(s) \in Nat /\ DOMAIN s = 1..Len(s)
           /\ \A i \in 1..Len(s) : s[i] \in T /\ s[i] \in ToSet(s)
           /\ \A x : x \in ToSet(s) <=> \E i \in 1..Len(s) : s[i] = x
           /\ ToSet(s) \subseteq T
BY DEF ToSet

\* What is left when the head is taken.
LEMMA TailAt ==
    ASSUME NEW T, NEW s \in Seq(T), s # <<>>
    PROVE  /\ Tail(s) \in Seq(T) /\ Len(Tail(s)) = Len(s) - 1 /\ Len(s) \in Nat \ {0}
           /\ DOMAIN s = 1..Len(s) /\ DOMAIN Tail(s) = 1..(Len(s) - 1)
           /\ Head(s) = s[1] /\ Head(s) \in T
           /\ \A i \in 1..(Len(s) - 1) : Tail(s)[i] = s[i + 1]
OBVIOUS

\* What is there when one is put at the end.
LEMMA AppendAt ==
    ASSUME NEW T, NEW s \in Seq(T), NEW x \in T
    PROVE  /\ Append(s, x) \in Seq(T) /\ Len(Append(s, x)) = Len(s) + 1 /\ Len(s) \in Nat
           /\ DOMAIN s = 1..Len(s) /\ DOMAIN Append(s, x) = 1..(Len(s) + 1)
           /\ \A i \in 1..Len(s) : Append(s, x)[i] = s[i]
           /\ Append(s, x)[Len(s) + 1] = x
           /\ ToSet(Append(s, x)) = ToSet(s) \union {x}
<1>1. /\ Append(s, x) \in Seq(T) /\ Len(Append(s, x)) = Len(s) + 1 /\ Len(s) \in Nat
      /\ DOMAIN s = 1..Len(s) /\ DOMAIN Append(s, x) = 1..(Len(s) + 1)
      /\ \A i \in 1..Len(s) : Append(s, x)[i] = s[i]
      /\ Append(s, x)[Len(s) + 1] = x
  OBVIOUS
<1> DEFINE a == Append(s, x)
<1> HIDE DEF a
<1>2. \A y \in ToSet(a) : y \in ToSet(s) \union {x}
  BY <1>1 DEF ToSet, a
<1>3. \A i \in 1..Len(s) : s[i] \in ToSet(a)
  BY <1>1 DEF ToSet, a
<1>4. x \in ToSet(a)
  BY <1>1 DEF ToSet, a
<1>5. ToSet(a) = ToSet(s) \union {x}
  BY <1>1, <1>2, <1>3, <1>4 DEF ToSet
<1> QED BY <1>1, <1>5 DEF a

\* What is there when others are put at the end.
LEMMA ConcatAt ==
    ASSUME NEW T, NEW s \in Seq(T), NEW t \in Seq(T)
    PROVE  /\ s \o t \in Seq(T) /\ Len(s \o t) = Len(s) + Len(t)
           /\ Len(s) \in Nat /\ Len(t) \in Nat
           /\ DOMAIN s = 1..Len(s) /\ DOMAIN t = 1..Len(t)
           /\ DOMAIN (s \o t) = 1..(Len(s) + Len(t))
           /\ \A i \in 1..Len(s) : (s \o t)[i] = s[i]
           /\ \A i \in 1..Len(t) : (s \o t)[Len(s) + i] = t[i]
OBVIOUS

\* How many of S have at most the number of s, and S in the order of the numbers.
RankBy(S, num, s) == Cardinality({t \in S : num[t] <= num[s]})
SortedBy(S, num)  == [i \in 1..Cardinality(S) |-> CHOOSE s \in S : RankBy(S, num, s) = i]

\* The items of a finite set in the order of a number each has for itself: as
\* the numbers tell the items apart, so do their ranks, and since there are as
\* many ranks as items every rank is taken.
LEMMA Ranked ==
    ASSUME NEW S, IsFiniteSet(S), NEW num \in [S -> Int],
           \A s, t \in S : num[s] = num[t] => s = t,
           NEW g, g = SortedBy(S, num)
    PROVE  /\ g \in Seq(S) /\ Len(g) = Cardinality(S) /\ Cardinality(S) \in Nat
           /\ ToSet(g) = S
<1> DEFINE n == Cardinality(S)
           P == [s \in S |-> RankBy(S, num, s)]
<1>1. n \in Nat /\ \A s \in S : num[s] \in Int
  BY FS_CardinalityType
<1>2. ASSUME NEW s \in S
      PROVE  RankBy(S, num, s) \in 1..n
  <2> DEFINE B == {t \in S : num[t] <= num[s]}
  <2>1. B \in SUBSET S /\ s \in B
    BY <1>1
  <2>2. IsFiniteSet(B) /\ Cardinality(B) <= n /\ Cardinality(B) \in Nat
    BY <2>1, FS_Subset, FS_CardinalityType
  <2>3. Cardinality(B) # 0
    BY <2>1, <2>2, FS_EmptySet
  <2> QED BY <1>1, <2>2, <2>3 DEF RankBy
<1>3. ASSUME NEW s \in S, NEW t \in S, num[s] < num[t]
      PROVE  RankBy(S, num, s) # RankBy(S, num, t)
  <2> DEFINE A == {x \in S : num[x] <= num[s]}
             B == {x \in S : num[x] <= num[t]}
  <2>1. A \in SUBSET B /\ t \in B /\ t \notin A /\ B \in SUBSET S
    <3>1. \A x \in S : num[x] <= num[s] => num[x] <= num[t]
      BY <1>1, <1>3
    <3>2. num[t] <= num[t] /\ ~(num[t] <= num[s])
      BY <1>1, <1>3
    <3> QED BY <3>1, <3>2
  <2>2. IsFiniteSet(B)
    BY <2>1, FS_Subset
  <2> QED BY <2>1, <2>2, FS_Subset DEF RankBy
<1>4. ASSUME NEW s \in S, NEW t \in S, RankBy(S, num, s) = RankBy(S, num, t)
      PROVE  s = t
  <2>1. num[s] < num[t] \/ num[t] < num[s] \/ num[s] = num[t]
    BY <1>1
  <2> QED BY <1>3, <1>4, <2>1
<1>5. P \in Injection(S, 1..n)
  <2>1. P \in [S -> 1..n]
    BY <1>2
  <2>2. \A s, t \in S : P[s] = P[t] => s = t
    BY <1>4
  <2> HIDE DEF P
  <2> QED BY <2>1, <2>2 DEF Injection, IsInjective
<1>6. P \in Surjection(S, 1..n)
  <2>1. IsFiniteSet(1..n) /\ Cardinality(1..n) = n
    BY <1>1, FS_Interval
  <2> HIDE DEF P
  <2> QED BY <1>5, <2>1, FS_Injection
<1>7. ASSUME NEW i \in 1..n
      PROVE  g[i] \in S /\ RankBy(S, num, g[i]) = i
  <2>1. \E s \in S : RankBy(S, num, s) = i
    BY <1>6 DEF Surjection
  <2>2. g[i] = CHOOSE s \in S : RankBy(S, num, s) = i
    BY DEF SortedBy
  <2> QED BY <2>1, <2>2
<1>8. DOMAIN g = 1..n /\ g = [i \in 1..n |-> g[i]]
  BY DEF SortedBy
<1>9. g \in [1..n -> S]
  <2> HIDE DEF n
  <2> QED BY <1>7, <1>8
<1>10. g \in Seq(S) /\ Len(g) = n
  BY <1>1, <1>9
<1>11. \A s \in S : g[RankBy(S, num, s)] = s
  BY <1>2, <1>4, <1>7
<1>12. ToSet(g) = S
  <2>1. \A s \in S : \E i \in 1..n : g[i] = s
    BY <1>2, <1>11
  <2> HIDE DEF n
  <2> QED BY <1>7, <1>8, <2>1 DEF ToSet
<1> QED BY <1>1, <1>10, <1>12

\* The newest posts first: all of them, each once.
LEMMA NewestFirstIs ==
    ASSUME FeedAssumption, NEW S \in SUBSET Posts, IsFiniteSet(S),
           \A p, q \in S : p.key = q.key => p = q
    PROVE  /\ NewestFirst(S) \in Seq(S) /\ ToSet(NewestFirst(S)) = S
           /\ Len(NewestFirst(S)) = Cardinality(S) /\ Cardinality(S) \in Nat
           /\ Cardinality(S) <= MaxPosts
<1>1. \A p \in S : p.key \in 1..MaxPosts
  BY DEF Posts
<1>2. PICK num : num = [p \in S |-> 0 - p.key]
  OBVIOUS
<1>3. num \in [S -> Int] /\ \A p, q \in S : num[p] = num[q] => p = q
  BY <1>1, <1>2
<1>4. \A p \in S : {q \in S : q.key >= p.key} = {q \in S : num[q] <= num[p]}
  BY <1>1, <1>2
<1>5. NewestFirst(S) = SortedBy(S, num)
  <2> DEFINE a(i) == CHOOSE p \in S : Cardinality({q \in S : q.key >= p.key}) = i
             b(i) == CHOOSE p \in S : RankBy(S, num, p) = i
  <2>1. \A i : a(i) = b(i)
    BY <1>4 DEF RankBy
  <2>2. NewestFirst(S) = [i \in 1..Cardinality(S) |-> a(i)]
    BY DEF NewestFirst
  <2>3. SortedBy(S, num) = [i \in 1..Cardinality(S) |-> b(i)]
    BY DEF SortedBy
  <2> HIDE DEF a, b
  <2> QED BY <2>1, <2>2, <2>3
<1>6. PICK keys : keys = [p \in S |-> p.key]
  OBVIOUS
<1>7. keys \in Injection(S, 1..MaxPosts)
  BY <1>1, <1>6 DEF Injection, IsInjective
<1>8. Cardinality(S) <= MaxPosts
  <2>1. IsFiniteSet(1..MaxPosts) /\ Cardinality(1..MaxPosts) = MaxPosts
    BY FS_Interval
  <2> QED BY <1>7, <2>1, FS_Injection
<1> QED BY <1>3, <1>5, <1>8, Ranked

\* The rows from the top: all of them, each once.
LEMMA TopDownIs ==
    ASSUME NEW R \in SUBSET Nat, IsFiniteSet(R)
    PROVE  /\ TopDown(R) \in Seq(R) /\ ToSet(TopDown(R)) = R
           /\ Len(TopDown(R)) = Cardinality(R) /\ Cardinality(R) \in Nat
<1>1. PICK num : num = [r \in R |-> r]
  OBVIOUS
<1>2. num \in [R -> Int] /\ \A r, s \in R : num[r] = num[s] => r = s
  BY <1>1
<1>3. \A r \in R : {s \in R : s <= r} = {s \in R : num[s] <= num[r]}
  BY <1>1
<1>4. TopDown(R) = SortedBy(R, num)
  <2> DEFINE a(i) == CHOOSE r \in R : Cardinality({s \in R : s <= r}) = i
             b(i) == CHOOSE r \in R : RankBy(R, num, r) = i
  <2>1. \A i : a(i) = b(i)
    BY <1>3 DEF RankBy
  <2>2. TopDown(R) = [i \in 1..Cardinality(R) |-> a(i)]
    BY DEF TopDown
  <2>3. SortedBy(R, num) = [i \in 1..Cardinality(R) |-> b(i)]
    BY DEF SortedBy
  <2> HIDE DEF a, b
  <2> QED BY <2>1, <2>2, <2>3
<1>5. PICK g : g = SortedBy(R, num)
  OBVIOUS
<1>6. IsFiniteSet(R) /\ num \in [R -> Int]
  BY <1>2
<1>7. \A r, s \in R : num[r] = num[s] => r = s
  BY <1>2
<1>8. g \in Seq(R) /\ Len(g) = Cardinality(R) /\ Cardinality(R) \in Nat /\ ToSet(g) = R
  BY <1>5, <1>6, <1>7, Ranked
<1>9. g = TopDown(R)
  BY <1>4, <1>5
<1> QED BY <1>8, <1>9

\* Each row of R has one cell.
Placed(R, at) == \A r \in R : \E c \in Cells : \A d \in Cells : at[d] = r <=> d = c

\* The calls A are for the cells of R's rows, with the posts of these.
AskFor(A, R, list, at) ==
    /\ A \in Seq(Calls) /\ Len(A) \in Nat
    /\ \A i \in 1..Len(A) : at[A[i].cell] \in R /\ A[i].post = list[at[A[i].cell]]
    /\ \A c \in Cells : at[c] \in R => \E i \in 1..Len(A) : A[i].cell = c

\* Every row of R is asked for, for its cell and with its post.
LEMMA AskedIs ==
    ASSUME NEW R \in SUBSET Nat, IsFiniteSet(R), NEW list \in Seq(Posts), R \subseteq DOMAIN list,
           NEW at, Placed(R, at), NEW A, A = Asked(R, list, at)
    PROVE  AskFor(A, R, list, at)
<1> DEFINE In(r) == CHOOSE c \in Cells : at[c] = r
<1>1. PICK rows : rows = TopDown(R)
  OBVIOUS
<1>2. PICK n : n = Cardinality(R)
  OBVIOUS
<1>3. /\ n \in Nat /\ DOMAIN rows = 1..n /\ ToSet(rows) = R
      /\ \A i \in 1..n : rows[i] \in R
  <2>1. rows \in Seq(R) /\ ToSet(rows) = R /\ Len(rows) = n /\ n \in Nat
    BY <1>1, <1>2, TopDownIs
  <2> QED BY <2>1
<1>4. \A r \in R : In(r) \in Cells /\ at[In(r)] = r /\ \A c \in Cells : at[c] = r => c = In(r)
  BY DEF Placed
<1>5. /\ DOMAIN A = 1..n
      /\ A = [i \in 1..n |-> [cell |-> In(rows[i]), post |-> list[rows[i]]]]
  BY <1>1, <1>2 DEF Asked
<1>6. \A i \in 1..n : /\ A[i].cell = In(rows[i]) /\ A[i].post = list[rows[i]]
                     /\ A[i] = [cell |-> In(rows[i]), post |-> list[rows[i]]]
  BY <1>5
<1> HIDE DEF In
<1>7. \A r \in R : list[r] \in Posts
  BY Elements
<1>8. \A i \in 1..n : A[i] \in Calls
  <2> SUFFICES ASSUME NEW i \in 1..n PROVE A[i] \in Calls
    OBVIOUS
  <2>1. rows[i] \in R /\ In(rows[i]) \in Cells /\ list[rows[i]] \in Posts
    BY <1>3, <1>4, <1>7
  <2>2. A[i] = [cell |-> In(rows[i]), post |-> list[rows[i]]]
    BY <1>6
  <2> QED BY <2>1, <2>2 DEF Calls
<1>9. A \in Seq(Calls) /\ Len(A) = n
  <2>1. A \in [1..n -> Calls]
    BY <1>5, <1>8
  <2> QED BY <1>3, <2>1
<1>10. \A i \in 1..n : at[A[i].cell] = rows[i]
  BY <1>3, <1>4, <1>6
<1>11. ASSUME NEW c \in Cells, at[c] \in R
       PROVE  \E i \in 1..n : A[i].cell = c
  <2>1. PICK i \in 1..n : rows[i] = at[c]
    BY <1>3, <1>11 DEF ToSet
  <2>2. In(rows[i]) = c
    BY <1>4, <1>11, <2>1
  <2> QED BY <1>6, <2>2
<1>12. \A i \in 1..n : at[A[i].cell] \in R /\ A[i].post = list[at[A[i].cell]]
  <2> SUFFICES ASSUME NEW i \in 1..n
               PROVE  at[A[i].cell] \in R /\ A[i].post = list[at[A[i].cell]]
    OBVIOUS
  <2>1. at[A[i].cell] = rows[i] /\ rows[i] \in R
    BY <1>3, <1>10
  <2>2. A[i].post = list[rows[i]]
    BY <1>6
  <2> QED BY <2>1, <2>2
<1> QED BY <1>3, <1>9, <1>11, <1>12 DEF AskFor
-----------------------------------------------------------------------------
(* The inductive invariant. *)

\* A write of p, or a reading of /feed, waits at i in Firebase's queue.
PutAt(i, p) == i \in DOMAIN work /\ work[i].kind = "put" /\ work[i].post = p
ReadAt(i)   == i \in DOMAIN work /\ work[i].kind = "read"

\* Posts are told apart by their keys; what is written is this phone's, and its
\* posts are there or are being written.
Written ==
    /\ \A p, q \in mine \union ToSet(feed) : p.key = q.key => p = q
    /\ \A i \in DOMAIN work : work[i].kind = "put" => work[i].post \in mine
    /\ \A p \in mine : p \in ToSet(feed) \/ \E i \in DOMAIN work : PutAt(i, p)

\* The list on the screen, those on their way and the last answer grow.
Growing ==
    /\ ToSet(messagesArray) \subseteq Answer(cached)
    /\ \A i \in DOMAIN main : ToSet(messagesArray) \subseteq main[i] /\ main[i] \subseteq Answer(cached)
    /\ \A i, j \in DOMAIN main : i <= j => main[i] \subseteq main[j]

\* A post of this phone is on the screen, or in the last list on its way, or a
\* reading that will find it has been asked for, on the wire or still queued
\* behind its write.
Coming(p) ==
    \/ p \in ToSet(messagesArray)
    \/ main # <<>> /\ p \in main[Len(main)]
    \/ reads > 0 /\ p \in ToSet(feed)
    \/ \E i \in DOMAIN work : /\ ReadAt(i)
                              /\ p \in ToSet(feed) \/ \E j \in DOMAIN work : j < i /\ PutAt(j, p)
Listed == place = "feed" => \A p \in mine : Coming(p)

\* Every row on the screen has a cell, and no cell another row; after scrolling
\* the screen is full.
TableOK ==
    /\ Placed(OnScreen(top, messagesArray), rowOf)
    /\ \A c \in Cells : rowOf[c] \in OnScreen(top, messagesArray) \union {0}
    /\ top > 0 => top + Cardinality(Cells) <= Len(messagesArray)
    /\ Len(messagesArray) <= MaxPosts
    /\ Len(messagesArray) = Cardinality(ToSet(messagesArray))

\* q has a call for c, and i is the last one.
CallOf(q, i, c) == i \in DOMAIN q /\ q[i].cell = c
LastOf(q, i, c) == CallOf(q, i, c) /\ \A j \in DOMAIN q : j > i => q[j].cell # c

\* The last call for a cell is for the post of its row; without one it shows
\* that post, unless the author had no record.
CellOK(c) ==
    rowOf[c] # 0 =>
        /\ \A i \in DOMAIN names : LastOf(names, i, c) => names[i].post = messagesArray[rowOf[c]]
        /\ (\A i \in DOMAIN names : names[i].cell # c) =>
              shows[c] = messagesArray[rowOf[c]] \/ unnamed[c]

IInv == TypeOK /\ Written /\ Growing /\ Listed /\ TableOK /\ \A c \in Cells : CellOK(c)

\* The invariant holds at first.
LEMMA InitInv ==
    ASSUME FeedAssumption, Init
    PROVE  IInv
<1> USE DEF Init
<1>1. TypeOK
  BY DEF TypeOK
<1>2. Written /\ Listed
  BY DEF Written, Listed, ToSet
<1>3. Growing
  BY DEF Growing, Answer, ToSet
<1>4. OnScreen(top, messagesArray) = {}
  BY DEF OnScreen
<1>5. TableOK
  <2>1. ToSet(messagesArray) = {}
    BY DEF ToSet
  <2>2. Len(messagesArray) = 0 /\ Cardinality(ToSet(messagesArray)) = 0
    BY <2>1, FS_EmptySet
  <2>3. Placed(OnScreen(top, messagesArray), rowOf)
    BY <1>4 DEF Placed
  <2> QED BY <2>2, <2>3 DEF TableOK
<1>6. \A c \in Cells : CellOK(c)
  BY DEF CellOK
<1> QED BY <1>1, <1>2, <1>3, <1>5, <1>6 DEF IInv

-----------------------------------------------------------------------------
(* What the steps leave alone. *)

tableVars == <<messagesArray, top, rowOf>>

\* Nothing about the feed changes but perhaps the screen.
LEMMA SameWritten ==
    ASSUME Written, UNCHANGED <<feed, work, mine>>
    PROVE  Written'
BY DEF Written, PutAt

\* Neither do the lists on their way.
LEMMA SameGrowing ==
    ASSUME Growing, UNCHANGED <<feed, mine, cached, main, messagesArray>>
    PROVE  Growing'
BY DEF Growing, Answer

\* The same list in the same cells.
LEMMA SameTable ==
    ASSUME TableOK, UNCHANGED tableVars
    PROVE  TableOK'
BY DEF TableOK, Placed, OnScreen, tableVars

\* The same calls.
LEMMA SameCells ==
    ASSUME \A c \in Cells : CellOK(c), UNCHANGED <<tableVars, names, shows, unnamed>>
    PROVE  (\A c \in Cells : CellOK(c))'
BY DEF CellOK, LastOf, CallOf, tableVars

\* A post that is coming goes on coming.
LEMMA SameListed ==
    ASSUME Listed, place' = "feed" => place = "feed",
           UNCHANGED <<feed, work, reads, main, mine, messagesArray>>
    PROVE  Listed'
BY DEF Listed, Coming, ReadAt, PutAt

\* The user leaves the feed, or comes back to it.
LEMMA GoStep ==
    ASSUME FeedAssumption, IInv, ComposePressed \/ Close \/ LeaveTab \/ EnterTab
    PROVE  IInv'
<1>1. /\ UNCHANGED <<feed, records, work, reads, cached, main, mine, messagesArray, top, rowOf, labels>>
      /\ place' \in {"post", "coming", "other"}
  BY DEF ComposePressed, Close, LeaveTab, EnterTab, Go
<1>2. TypeOK'
  BY <1>1 DEF IInv, TypeOK, labels
<1> QED BY <1>1, <1>2, SameWritten, SameGrowing, SameListed, SameTable, SameCells
        DEF IInv, labels, tableVars

\* A record of another user, or of this one.
LEMMA RecordStep ==
    ASSUME FeedAssumption, IInv, NEW u \in Users, RecordWritten(u)
    PROVE  IInv'
<1>1. UNCHANGED <<feed, work, reads, cached, main, mine, screen, labels>>
  BY DEF RecordWritten
<1>2. TypeOK'
  BY <1>1 DEF IInv, TypeOK, RecordWritten, screen, labels
<1> QED BY <1>1, <1>2, SameWritten, SameGrowing, SameListed, SameTable, SameCells
        DEF IInv, screen, labels, tableVars

-----------------------------------------------------------------------------
(* Writes and readings. *)

\* PostVC's post: its write is put behind what waits.
LEMMA SendStep ==
    ASSUME FeedAssumption, IInv, SendPost
    PROVE  IInv'
<1>1. /\ place' = "coming"
      /\ UNCHANGED <<feed, records, reads, cached, main, messagesArray, top, rowOf, labels>>
  BY DEF SendPost
<1>2. PICK k \in 1..MaxPosts \ UsedKeys :
          /\ mine' = mine \union {[key |-> k, senderId |-> Me]}
          /\ work' = Append(work, [kind |-> "put", post |-> [key |-> k, senderId |-> Me]])
  BY DEF SendPost, Post
<1>3. PICK p : p = [key |-> k, senderId |-> Me]
  OBVIOUS
<1>4. PICK it : it = [kind |-> "put", post |-> p]
  OBVIOUS
<1>5. p \in Posts /\ p.key = k /\ it \in Items /\ it.kind = "put" /\ it.post = p
  BY <1>3, <1>4 DEF Posts, Items
<1>6. /\ work' \in Seq(Items) /\ Len(work') = Len(work) + 1 /\ Len(work) \in Nat
      /\ DOMAIN work = 1..Len(work) /\ DOMAIN work' = 1..(Len(work) + 1)
      /\ \A i \in 1..Len(work) : work'[i] = work[i]
      /\ work'[Len(work) + 1] = it /\ mine' = mine \union {p}
  BY <1>2, <1>3, <1>4, <1>5, AppendAt DEF IInv, TypeOK
<1>7. TypeOK'
  BY <1>1, <1>5, <1>6 DEF IInv, TypeOK, labels
<1>8. Written'
  <2>1. \A q \in mine \union ToSet(feed) : q.key # k
    BY DEF UsedKeys
  <2>2. \A q, r \in mine' \union ToSet(feed)' : q.key = r.key => q = r
    BY <1>1, <1>5, <1>6, <2>1 DEF IInv, Written
  <2>3. \A i \in DOMAIN work' : work'[i].kind = "put" => work'[i].post \in mine'
    BY <1>5, <1>6 DEF IInv, Written
  <2>4. ASSUME NEW q \in mine', q \notin ToSet(feed)'
        PROVE  \E i \in DOMAIN work' : PutAt(i, q)'
    <3>1. CASE q = p
      BY <1>5, <1>6, <3>1 DEF PutAt
    <3>2. CASE q # p
      <4>1. PICK i \in DOMAIN work : PutAt(i, q)
        BY <1>1, <1>6, <2>4, <3>2 DEF IInv, Written
      <4> QED BY <1>6, <4>1 DEF PutAt
    <3> QED BY <3>1, <3>2
  <2> QED BY <2>2, <2>3, <2>4 DEF Written
<1>9. Growing'
  BY <1>1, <1>6 DEF IInv, Growing, Answer
<1>10. Listed'
  BY <1>1 DEF Listed
<1> QED BY <1>1, <1>7, <1>8, <1>9, <1>10, SameTable, SameCells DEF IInv, labels, tableVars

\* The feed appears and is read, behind every write that waits.
LEMMA AppearStep ==
    ASSUME FeedAssumption, IInv, FeedDidAppear
    PROVE  IInv'
<1>1. /\ place' = "feed" /\ work' = Append(work, [kind |-> "read"])
      /\ UNCHANGED <<feed, records, reads, cached, main, mine, messagesArray, top, rowOf, labels>>
  BY DEF FeedDidAppear
<1>2. PICK it : it = [kind |-> "read"]
  OBVIOUS
<1>3. it \in Items /\ it.kind = "read"
  BY <1>2 DEF Items
<1>4. /\ work' \in Seq(Items) /\ Len(work') = Len(work) + 1 /\ Len(work) \in Nat
      /\ DOMAIN work = 1..Len(work) /\ DOMAIN work' = 1..(Len(work) + 1)
      /\ \A i \in 1..Len(work) : work'[i] = work[i]
      /\ work'[Len(work) + 1] = it
  BY <1>1, <1>2, <1>3, AppendAt DEF IInv, TypeOK
<1>5. TypeOK'
  BY <1>1, <1>4 DEF IInv, TypeOK, labels
<1>6. \A i, p : PutAt(i, p) => PutAt(i, p)' /\ i < Len(work) + 1
  BY <1>4 DEF PutAt
<1>7. Written'
  <2>1. \A i \in DOMAIN work' : work'[i].kind = "put" => work'[i].post \in mine'
    BY <1>1, <1>3, <1>4 DEF IInv, Written
  <2> QED BY <1>1, <1>4, <1>6, <2>1 DEF IInv, Written
<1>8. Listed'
  <2> DEFINE Behind(n, p) == p \in ToSet(feed)' \/ \E j \in DOMAIN work' : j < n /\ PutAt(j, p)'
  <2>1. PICK n : n = Len(work) + 1
    OBVIOUS
  <2>3. n \in DOMAIN work' /\ ReadAt(n)'
    BY <1>3, <1>4, <2>1 DEF ReadAt
  <2>2. ASSUME NEW p \in mine
        PROVE  Behind(n, p)
    <3>1. CASE p \in ToSet(feed)
      BY <1>1, <3>1
    <3>2. CASE \E j \in DOMAIN work : PutAt(j, p)
      BY <1>4, <1>6, <2>1, <3>2
    <3> QED BY <3>1, <3>2 DEF IInv, Written
  <2> QED BY <1>1, <2>2, <2>3 DEF Listed, Coming
<1> QED BY <1>1, <1>5, <1>7, <1>8, SameGrowing, SameTable, SameCells DEF IInv, labels, tableVars

\* What the last answer had is there in a feed that has grown.
LEMMA AnswerGrows ==
    ASSUME FeedAssumption, TypeOK, UNCHANGED <<cached, mine>>, ToSet(feed) \subseteq ToSet(feed'),
           \A i \in 1..Len(feed) : feed'[i] = feed[i]
    PROVE  Answer(cached) \subseteq Answer(cached)'
<1> SUFFICES ASSUME NEW p \in Answer(cached) PROVE p \in Answer(cached)'
  OBVIOUS
<1>1. CASE p \in ToSet(feed) \intersect mine
  BY <1>1 DEF Answer
<1>2. CASE \E j \in 1..cached : p = feed[j]
  <2>1. PICK j \in 1..cached : p = feed[j]
    BY <1>2
  <2>2. j \in 1..Len(feed)
    BY <2>1 DEF TypeOK
  <2> QED BY <2>1, <2>2 DEF Answer
<1> QED BY <1>1, <1>2 DEF Answer

\* Another user's post.
LEMMA OthersStep ==
    ASSUME FeedAssumption, IInv, NEW u \in Users, OtherPosts(u)
    PROVE  IInv'
<1>1. UNCHANGED <<records, work, reads, cached, main, mine, screen, labels>>
  BY DEF OtherPosts
<1>2. PICK k \in 1..MaxPosts \ UsedKeys : feed' = Append(feed, [key |-> k, senderId |-> u])
  BY DEF OtherPosts
<1>3. PICK p : p = [key |-> k, senderId |-> u]
  OBVIOUS
<1>4. p \in Posts /\ p.key = k
  BY <1>3 DEF Posts
<1>5. /\ feed' \in Seq(Posts) /\ Len(feed') = Len(feed) + 1 /\ Len(feed) \in Nat
      /\ \A i \in 1..Len(feed) : feed'[i] = feed[i]
      /\ ToSet(feed') = ToSet(feed) \union {p}
  BY <1>2, <1>3, <1>4, AppendAt DEF IInv, TypeOK
<1>6. TypeOK'
  BY <1>1, <1>5 DEF IInv, TypeOK, screen, labels
<1>7. Written'
  <2>1. \A q \in mine \union ToSet(feed) : q.key # k
    BY DEF UsedKeys
  <2> QED BY <1>1, <1>4, <1>5, <2>1 DEF IInv, Written, PutAt
<1>8. Growing'
  <2>1. Answer(cached) \subseteq Answer(cached)'
    BY <1>1, <1>5, AnswerGrows DEF IInv
  <2> QED BY <1>1, <2>1 DEF IInv, Growing, screen
<1>9. Listed'
  BY <1>1, <1>5 DEF IInv, Listed, Coming, ReadAt, PutAt, screen
<1> QED BY <1>1, <1>6, <1>7, <1>8, <1>9, SameTable, SameCells DEF IInv, screen, labels, tableVars

\* Firebase takes the next write or reading off its queue.
LEMMA WorkStep ==
    ASSUME FeedAssumption, IInv, DoWork
    PROVE  IInv'
<1>1. /\ work # <<>> /\ work' = Tail(work)
      /\ UNCHANGED <<records, cached, main, mine, screen, labels>>
  BY DEF DoWork
<1>2. /\ work' \in Seq(Items) /\ Len(work) \in Nat \ {0} /\ Head(work) = work[1] /\ work[1] \in Items
      /\ DOMAIN work = 1..Len(work) /\ DOMAIN work' = 1..(Len(work) - 1)
      /\ \A i \in 1..(Len(work) - 1) : work'[i] = work[i + 1]
  BY <1>1, TailAt DEF IInv, TypeOK
<1>3. \/ /\ work[1].kind = "put" /\ feed' = Append(feed, work[1].post) /\ reads' = reads
      \/ /\ work[1].kind = "read" /\ feed' = feed /\ reads' = reads + 1
  BY <1>2 DEF DoWork
<1>4. /\ feed' \in Seq(Posts) /\ Len(feed) \in Nat /\ Len(feed') \in Nat /\ Len(feed) <= Len(feed')
      /\ \A i \in 1..Len(feed) : feed'[i] = feed[i]
      /\ work[1].kind = "put" => /\ work[1].post \in mine
                                /\ ToSet(feed') = ToSet(feed) \union {work[1].post}
      /\ work[1].kind = "read" => feed' = feed
  <2>1. CASE work[1].kind = "put"
    <3>1. 1 \in DOMAIN work
      BY <1>2
    <3>2. PICK p : p = work[1].post
      OBVIOUS
    <3>3. p \in mine /\ p \in Posts /\ feed \in Seq(Posts)
      BY <2>1, <3>1, <3>2 DEF IInv, Written, TypeOK
    <3>4. feed' = Append(feed, p)
      BY <1>3, <2>1, <3>2
    <3>5. /\ feed' \in Seq(Posts) /\ Len(feed') = Len(feed) + 1 /\ Len(feed) \in Nat
          /\ \A i \in 1..Len(feed) : feed'[i] = feed[i]
          /\ ToSet(feed') = ToSet(feed) \union {p}
      BY <3>3, <3>4, AppendAt
    <3> QED BY <2>1, <3>2, <3>3, <3>5
  <2>2. CASE work[1].kind = "read"
    BY <1>3, <2>2 DEF IInv, TypeOK
  <2> QED BY <1>3, <2>1, <2>2
<1>5. TypeOK'
  BY <1>1, <1>2, <1>3, <1>4 DEF IInv, TypeOK, screen, labels
<1>6. ToSet(feed) \subseteq ToSet(feed') /\ ToSet(feed') \subseteq ToSet(feed) \union mine
  BY <1>3, <1>4
<1>7. \A i, p : PutAt(i, p) => p \in ToSet(feed') \/ PutAt(i - 1, p)'
  <2> SUFFICES ASSUME NEW i, NEW p, PutAt(i, p) PROVE p \in ToSet(feed') \/ PutAt(i - 1, p)'
    OBVIOUS
  <2>1. CASE i = 1
    BY <1>4, <2>1 DEF PutAt
  <2>2. CASE i # 1
    <3>1. PICK n : n = i - 1
      OBVIOUS
    <3>2. n \in 1..(Len(work) - 1) /\ n + 1 = i
      BY <1>2, <2>2, <3>1 DEF PutAt
    <3>3. PutAt(n, p)'
      BY <1>2, <3>2 DEF PutAt
    <3> QED BY <3>1, <3>3
  <2> QED BY <2>1, <2>2
<1>8. Written'
  <2>1. \A p, q \in mine' \union ToSet(feed') : p.key = q.key => p = q
    BY <1>1, <1>6 DEF IInv, Written
  <2>2. \A i \in DOMAIN work' : work'[i].kind = "put" => work'[i].post \in mine'
    BY <1>1, <1>2 DEF IInv, Written
  <2>3. \A p \in mine' : p \in ToSet(feed') \/ \E i \in DOMAIN work' : PutAt(i, p)'
    <3> SUFFICES ASSUME NEW p \in mine, p \notin ToSet(feed')
                 PROVE  \E i \in DOMAIN work' : PutAt(i, p)'
      BY <1>1
    <3>1. PICK i \in DOMAIN work : PutAt(i, p)
      BY <1>6 DEF IInv, Written
    <3>2. PICK n : n = i - 1
      OBVIOUS
    <3>3. PutAt(n, p)'
      BY <1>7, <3>1, <3>2
    <3> QED BY <3>3 DEF PutAt
  <2> QED BY <2>1, <2>2, <2>3 DEF Written
<1>9. Growing'
  <2>1. Answer(cached) \subseteq Answer(cached)'
    BY <1>1, <1>4, <1>6, AnswerGrows DEF IInv
  <2> QED BY <1>1, <2>1 DEF IInv, Growing, screen
<1>10. Listed'
  <2> SUFFICES ASSUME place = "feed", NEW p \in mine, Coming(p)
               PROVE  Coming(p)'
    BY <1>1 DEF IInv, Listed, screen
  <2>1. CASE p \in ToSet(messagesArray) \/ (main # <<>> /\ p \in main[Len(main)])
    BY <1>1, <2>1 DEF Coming, screen
  <2>2. CASE reads > 0 /\ p \in ToSet(feed)
    BY <1>3, <1>6, <2>2 DEF Coming, IInv, TypeOK
  <2>3. CASE \E i \in DOMAIN work : /\ ReadAt(i)
                                    /\ p \in ToSet(feed) \/ \E j \in DOMAIN work : j < i /\ PutAt(j, p)
    <3>0. PICK i \in DOMAIN work : /\ ReadAt(i)
                                   /\ p \in ToSet(feed) \/ \E j \in DOMAIN work : j < i /\ PutAt(j, p)
      BY <2>3
    <3>1. CASE i = 1
      <4>1. p \in ToSet(feed')
        BY <1>2, <1>6, <3>0, <3>1
      <4>2. reads' > 0
        BY <1>3, <3>0, <3>1 DEF ReadAt, IInv, TypeOK
      <4> QED BY <4>1, <4>2 DEF Coming
    <3>2. CASE i # 1
      <4>1. PICK n : n = i - 1
        OBVIOUS
      <4>2. n \in 1..(Len(work) - 1) /\ n + 1 = i
        BY <1>2, <3>0, <3>2, <4>1
      <4>3. n \in DOMAIN work' /\ ReadAt(n)'
        BY <1>2, <3>0, <4>2 DEF ReadAt
      <4>4. CASE p \in ToSet(feed')
        BY <4>3, <4>4 DEF Coming
      <4>5. CASE p \notin ToSet(feed')
        <5>1. PICK j \in DOMAIN work : j < i /\ PutAt(j, p)
          BY <1>6, <3>0, <4>5
        <5>2. PICK l : l = j - 1
          OBVIOUS
        <5>3. PutAt(l, p)'
          BY <1>7, <4>5, <5>1, <5>2
        <5>4. l \in DOMAIN work' /\ l < n
          BY <1>2, <4>1, <5>1, <5>2, <5>3 DEF PutAt
        <5> QED BY <4>3, <5>3, <5>4 DEF Coming
      <4> QED BY <4>4, <4>5
    <3> QED BY <3>1, <3>2
  <2> QED BY <2>1, <2>2, <2>3 DEF Coming
<1> QED BY <1>1, <1>5, <1>8, <1>9, <1>10, SameTable, SameCells DEF IInv, screen, labels, tableVars

\* Every reading that waits gets one answer, no older than the last one.
LEMMA AnswerStep ==
    ASSUME FeedAssumption, IInv, AnswerFeed
    PROVE  IInv'
<1>1. /\ reads > 0 /\ reads' = 0 /\ UNCHANGED <<feed, records, work, mine, screen, labels>>
  BY DEF AnswerFeed
<1>2. PICK n \in cached..Len(feed) : main' = main \o [i \in 1..reads |-> Answer(n)] /\ cached' = n
  BY DEF AnswerFeed
<1>3. PICK a : a = Answer(n)
  OBVIOUS
<1>4. PICK more : more = [i \in 1..reads |-> a]
  OBVIOUS
<1>5. /\ feed \in Seq(Posts) /\ mine \subseteq Posts /\ Len(feed) \in Nat
      /\ \A i \in 1..Len(feed) : feed[i] \in Posts
      /\ ToSet(feed) \subseteq Posts /\ cached \in 0..Len(feed) /\ reads \in Nat
  BY Elements DEF IInv, TypeOK
<1>6. a \in SUBSET Posts
  BY <1>2, <1>3, <1>5 DEF Answer
<1>7. more \in Seq(SUBSET Posts) /\ Len(more) = reads /\ \A i \in 1..reads : more[i] = a
  BY <1>4, <1>5, <1>6
<1>8. main' = main \o more
  BY <1>2, <1>3, <1>4
<1>9. /\ main \in Seq(SUBSET Posts) /\ main' \in Seq(SUBSET Posts)
      /\ Len(main) \in Nat /\ Len(main') = Len(main) + reads
      /\ DOMAIN main = 1..Len(main) /\ DOMAIN main' = 1..(Len(main) + reads)
      /\ \A i \in 1..Len(main) : main'[i] = main[i]
      /\ \A i \in 1..reads : main'[Len(main) + i] = a
  <2>1. main \in Seq(SUBSET Posts)
    BY DEF IInv, TypeOK
  <2>2. PICK T : T = SUBSET Posts
    OBVIOUS
  <2>3. main \in Seq(T) /\ more \in Seq(T)
    BY <1>7, <2>1, <2>2
  <2>4. PICK m : m = main \o more
    OBVIOUS
  <2>5. /\ m \in Seq(T) /\ Len(m) = Len(main) + Len(more)
        /\ Len(main) \in Nat /\ DOMAIN main = 1..Len(main)
        /\ DOMAIN m = 1..(Len(main) + Len(more))
        /\ \A i \in 1..Len(main) : m[i] = main[i]
        /\ \A i \in 1..Len(more) : m[Len(main) + i] = more[i]
    BY <2>3, <2>4, ConcatAt
  <2> QED BY <1>7, <1>8, <2>2, <2>4, <2>5
<1>10. \A i \in DOMAIN main' : \/ i \in DOMAIN main /\ main'[i] = main[i]
                               \/ i > Len(main) /\ main'[i] = a
  <2> SUFFICES ASSUME NEW i \in DOMAIN main', i \notin DOMAIN main
               PROVE  i > Len(main) /\ main'[i] = a
    BY <1>9
  <2>1. i - Len(main) \in 1..reads /\ i = Len(main) + (i - Len(main))
    BY <1>5, <1>9
  <2> QED BY <1>9, <2>1
<1>11. TypeOK'
  <2>1. cached' \in 0..Len(feed) /\ reads' \in Nat
    BY <1>1, <1>2, <1>5
  <2>2. main' \in Seq(SUBSET Posts)
    BY <1>9
  <2> QED BY <1>1, <2>1, <2>2 DEF IInv, TypeOK, screen, labels
<1>12. Answer(cached) \subseteq a /\ Answer(cached)' = a
  BY <1>1, <1>2, <1>3, <1>5 DEF Answer
<1>13. Growing'
  <2>1. ToSet(messagesArray') \subseteq Answer(cached)'
    BY <1>1, <1>12 DEF IInv, Growing, screen
  <2>2. \A i \in DOMAIN main' : ToSet(messagesArray') \subseteq main'[i] /\ main'[i] \subseteq Answer(cached)'
    BY <1>1, <1>10, <1>12 DEF IInv, Growing, screen
  <2>3. \A i, j \in DOMAIN main' : i <= j => main'[i] \subseteq main'[j]
    BY <1>9, <1>10, <1>12 DEF IInv, Growing
  <2> QED BY <2>1, <2>2, <2>3 DEF Growing
<1>14. Listed'
  <2> SUFFICES ASSUME place = "feed", NEW p \in mine, Coming(p)
               PROVE  Coming(p)'
    BY <1>1 DEF IInv, Listed, screen
  <2>1. main' # <<>> /\ main'[Len(main')] = a
    <3>1. reads \in 1..reads /\ Len(main') = Len(main) + reads /\ Len(main') > 0
      BY <1>1, <1>5, <1>9
    <3>2. main'[Len(main) + reads] = a
      BY <1>9, <3>1
    <3> QED BY <3>1, <3>2
  <2>2. CASE p \in ToSet(messagesArray)
    BY <1>1, <2>2 DEF Coming, screen
  <2>3. CASE main # <<>> /\ p \in main[Len(main)]
    <3>1. p \in a
      BY <1>9, <1>12, <2>3 DEF IInv, Growing
    <3> QED BY <2>1, <3>1 DEF Coming
  <2>4. CASE p \in ToSet(feed)
    <3>1. p \in a
      BY <1>3, <2>4 DEF Answer
    <3> QED BY <2>1, <3>1 DEF Coming
  <2>5. CASE \E i \in DOMAIN work : /\ ReadAt(i)
                                    /\ p \in ToSet(feed) \/ \E j \in DOMAIN work : j < i /\ PutAt(j, p)
    BY <1>1, <2>5 DEF Coming, ReadAt, PutAt
  <2> QED BY <2>2, <2>3, <2>4, <2>5 DEF Coming
<1> QED BY <1>1, <1>11, <1>13, <1>14, SameWritten, SameTable, SameCells
        DEF IInv, screen, labels, tableVars
-----------------------------------------------------------------------------
(* The table. *)

\* The rows on the screen are rows of the list.
LEMMA ScreenRows ==
    ASSUME FeedAssumption, NEW t \in Nat, NEW list \in Seq(Posts), NEW R, R = OnScreen(t, list)
    PROVE  /\ R \in SUBSET Nat /\ IsFiniteSet(R) /\ R \subseteq DOMAIN list
           /\ \A r : r \in R <=> r \in Nat /\ t < r /\ r <= t + Cardinality(Cells) /\ r <= Len(list)
           /\ Cardinality(Cells) \in Nat
<1>1. Cardinality(Cells) \in Nat
  BY FS_CardinalityType
<1>2. Len(list) \in Nat /\ DOMAIN list = 1..Len(list) /\ R \in SUBSET (1..Len(list))
  BY DEF OnScreen
<1>3. IsFiniteSet(R)
  <2>1. PICK n \in Nat : n = Len(list)
    BY <1>2
  <2>2. IsFiniteSet(1..n)
    BY FS_Interval
  <2> QED BY <1>2, <2>1, <2>2, FS_Subset
<1> QED BY <1>1, <1>2, <1>3 DEF OnScreen

\* When rows are filled, the last call for each of their cells is for the post
\* of its row, and the other cells' calls are what they were.
LEMMA Filled ==
    ASSUME names \in Seq(Calls), NEW R \in SUBSET Nat, IsFiniteSet(R),
           NEW list \in Seq(Posts), R \subseteq DOMAIN list,
           NEW at, Placed(R, at), CellForRow(R, list, at)
    PROVE  /\ names' \in Seq(Calls)
           /\ \A c \in Cells : at[c] \in R =>
                 /\ \E i \in DOMAIN names' : names'[i].cell = c
                 /\ \A i \in DOMAIN names' : LastOf(names', i, c) => names'[i].post = list[at[c]]
           /\ \A c \in Cells : at[c] \notin R =>
                 /\ \A i \in DOMAIN names' : LastOf(names', i, c) =>
                       i \in DOMAIN names /\ LastOf(names, i, c) /\ names'[i] = names[i]
                 /\ (\A i \in DOMAIN names' : names'[i].cell # c) =>
                       \A i \in DOMAIN names : names[i].cell # c
<1>1. PICK A : A = Asked(R, list, at)
  OBVIOUS
<1>2. /\ A \in Seq(Calls) /\ Len(A) \in Nat
      /\ \A i \in 1..Len(A) : at[A[i].cell] \in R /\ A[i].post = list[at[A[i].cell]]
      /\ \A c \in Cells : at[c] \in R => \E i \in 1..Len(A) : A[i].cell = c
  <2>1. AskFor(A, R, list, at)
    BY <1>1, AskedIs
  <2> QED BY <2>1 DEF AskFor
<1>3. PICK n, m : n = Len(names) /\ m = Len(A)
  OBVIOUS
<1>4. names' = names \o A
  BY <1>1 DEF CellForRow
<1>5. /\ names' \in Seq(Calls) /\ n \in Nat /\ m \in Nat
      /\ DOMAIN names = 1..n /\ DOMAIN names' = 1..(n + m)
      /\ \A i \in 1..n : names'[i] = names[i]
      /\ \A i \in 1..m : names'[n + i] = A[i]
  BY <1>2, <1>3, <1>4
<1>6. ASSUME NEW i \in DOMAIN names', i \notin 1..n
      PROVE  \E k \in 1..m : i = n + k /\ names'[i] = A[k]
  <2>1. i - n \in 1..m /\ i = n + (i - n)
    BY <1>5, <1>6
  <2> QED BY <1>5, <2>1
<1>7. ASSUME NEW c \in Cells, at[c] \in R
      PROVE  /\ \E i \in DOMAIN names' : names'[i].cell = c
             /\ \A i \in DOMAIN names' : LastOf(names', i, c) => names'[i].post = list[at[c]]
  <2>1. PICK k \in 1..m : A[k].cell = c
    BY <1>2, <1>3, <1>7
  <2>2. n + k \in DOMAIN names' /\ names'[n + k].cell = c
    <3>1. names'[n + k] = A[k] /\ n + k \in 1..(n + m)
      BY <1>5
    <3> QED BY <1>5, <2>1, <3>1
  <2>3. ASSUME NEW i \in DOMAIN names', LastOf(names', i, c)
        PROVE  names'[i].post = list[at[c]]
    <3>1. ~(n + k > i) /\ names'[i].cell = c
      BY <2>2, <2>3 DEF LastOf, CallOf
    <3>2. i \notin 1..n
      BY <1>5, <3>1
    <3>3. PICK l \in 1..m : i = n + l /\ names'[i] = A[l]
      BY <1>6, <3>2
    <3> QED BY <1>2, <1>3, <3>1, <3>3
  <2> QED BY <2>2, <2>3
<1>8. ASSUME NEW c \in Cells, at[c] \notin R
      PROVE  /\ \A i \in DOMAIN names' : LastOf(names', i, c) =>
                   i \in DOMAIN names /\ LastOf(names, i, c) /\ names'[i] = names[i]
             /\ (\A i \in DOMAIN names' : names'[i].cell # c) =>
                   \A i \in DOMAIN names : names[i].cell # c
  <2>1. \A i \in DOMAIN names' : names'[i].cell = c => i \in 1..n
    BY <1>2, <1>3, <1>6, <1>8
  <2>2. DOMAIN names \subseteq DOMAIN names' /\ \A i \in DOMAIN names : names'[i] = names[i]
    BY <1>5
  <2>3. ASSUME NEW i \in DOMAIN names', LastOf(names', i, c)
        PROVE  i \in DOMAIN names /\ LastOf(names, i, c) /\ names'[i] = names[i]
    BY <1>5, <2>1, <2>2, <2>3 DEF LastOf, CallOf
  <2> QED BY <2>2, <2>3
<1> QED BY <1>5, <1>7, <1>8

\* A name arrives for the first call, or no name.
LEMMA NameStep ==
    ASSUME FeedAssumption, IInv, NameArrives
    PROVE  IInv'
<1>1. /\ names # <<>> /\ names' = Tail(names)
      /\ UNCHANGED <<feed, records, work, reads, cached, main, mine, screen>>
  BY DEF NameArrives
<1>2. /\ names' \in Seq(Calls) /\ Len(names) \in Nat \ {0}
      /\ Head(names) = names[1] /\ Head(names) \in Calls
      /\ DOMAIN names = 1..Len(names) /\ DOMAIN names' = 1..(Len(names) - 1)
      /\ \A i \in 1..(Len(names) - 1) : names'[i] = names[i + 1]
  BY <1>1, TailAt DEF IInv, TypeOK
<1>3. PICK a : a = names[1]
  OBVIOUS
<1>4. a.cell \in Cells /\ a.post \in Posts
  BY <1>2, <1>3 DEF Calls
<1>5. PICK S \in SUBSET records :
          /\ seen' = S
          /\ shows' = IF a.post.senderId \in S THEN [shows EXCEPT ![a.cell] = a.post] ELSE shows
          /\ unnamed' = [unnamed EXCEPT ![a.cell] = a.post.senderId \notin S]
  BY <1>2, <1>3 DEF NameArrives
<1>6. TypeOK'
  <2>1. shows' \in [Cells -> Posts \union {Blank}] /\ unnamed' \in [Cells -> BOOLEAN]
    BY <1>4, <1>5 DEF IInv, TypeOK
  <2> QED BY <1>1, <1>2, <1>5, <2>1 DEF IInv, TypeOK, screen
<1>7. ASSUME NEW c \in Cells
      PROVE  CellOK(c)'
  <2>1. /\ shows \in [Cells -> Posts \union {Blank}] /\ unnamed \in [Cells -> BOOLEAN]
        /\ rowOf' = rowOf /\ messagesArray' = messagesArray
    BY <1>1 DEF IInv, TypeOK, screen
  <2>2. SUFFICES ASSUME rowOf[c] # 0
                 PROVE  /\ \A i \in DOMAIN names' : LastOf(names', i, c) =>
                              names'[i].post = messagesArray[rowOf[c]]
                        /\ (\A i \in DOMAIN names' : names'[i].cell # c) =>
                              shows'[c] = messagesArray[rowOf[c]] \/ unnamed'[c]
    BY <2>1 DEF CellOK
  <2>3. /\ \A i \in DOMAIN names : LastOf(names, i, c) => names[i].post = messagesArray[rowOf[c]]
        /\ (\A i \in DOMAIN names : names[i].cell # c) =>
              shows[c] = messagesArray[rowOf[c]] \/ unnamed[c]
    BY <2>2 DEF IInv, CellOK
  <2>4. \A i \in DOMAIN names : i = 1 \/ (i - 1 \in DOMAIN names' /\ names'[i - 1] = names[i])
    BY <1>2
  <2>5. ASSUME NEW i \in DOMAIN names', LastOf(names', i, c)
        PROVE  names'[i].post = messagesArray[rowOf[c]]
    <3>1. i + 1 \in DOMAIN names /\ names[i + 1] = names'[i]
      BY <1>2
    <3>2. ASSUME NEW j \in DOMAIN names, j > i + 1
          PROVE  names[j].cell # c
      <4>1. j - 1 \in DOMAIN names' /\ names'[j - 1] = names[j] /\ j - 1 > i
        BY <1>2, <3>2
      <4> QED BY <2>5, <4>1 DEF LastOf
    <3>3. LastOf(names, i + 1, c)
      BY <2>5, <3>1, <3>2 DEF LastOf, CallOf
    <3> QED BY <2>3, <3>1, <3>3
  <2>6. ASSUME \A i \in DOMAIN names' : names'[i].cell # c
        PROVE  shows'[c] = messagesArray[rowOf[c]] \/ unnamed'[c]
    <3>1. \A i \in DOMAIN names : i # 1 => names[i].cell # c
      BY <2>4, <2>6
    <3>2. CASE a.cell = c
      <4>1. 1 \in DOMAIN names /\ LastOf(names, 1, c)
        BY <1>2, <1>3, <3>1, <3>2 DEF LastOf, CallOf
      <4>2. a.post = messagesArray[rowOf[c]]
        BY <1>3, <2>3, <4>1
      <4>3. CASE a.post.senderId \in S
        BY <1>5, <2>1, <3>2, <4>2, <4>3
      <4>4. CASE a.post.senderId \notin S
        BY <1>5, <2>1, <3>2, <4>4
      <4> QED BY <4>3, <4>4
    <3>3. CASE a.cell # c
      <4>1. \A i \in DOMAIN names : names[i].cell # c
        BY <1>3, <3>1, <3>3
      <4>2. shows'[c] = shows[c] /\ unnamed'[c] = unnamed[c]
        BY <1>5, <2>1, <3>3
      <4> QED BY <2>3, <4>1, <4>2
    <3> QED BY <3>2, <3>3
  <2> QED BY <2>5, <2>6
<1> QED BY <1>1, <1>6, <1>7, SameWritten, SameGrowing, SameListed, SameTable
        DEF IInv, screen, tableVars

\* The next list is on the screen; every row is asked for anew.
LEMMA AssignStep ==
    ASSUME FeedAssumption, IInv, AssignFeed
    PROVE  IInv' /\ ToSet(messagesArray) \subseteq ToSet(messagesArray')
<1>1. /\ main # <<>> /\ main' = Tail(main)
      /\ messagesArray' = NewestFirst(Head(main)) /\ Reload(messagesArray')
      /\ UNCHANGED <<feed, records, work, reads, cached, mine, place, top, shows, seen, unnamed>>
  BY DEF AssignFeed
<1>2. PICK T : T = SUBSET Posts
  OBVIOUS
<1>3. main \in Seq(T)
  BY <1>2 DEF IInv, TypeOK
<1>4. /\ main' \in Seq(T) /\ Len(main') = Len(main) - 1 /\ Len(main) \in Nat \ {0}
      /\ DOMAIN main = 1..Len(main) /\ DOMAIN main' = 1..(Len(main) - 1)
      /\ Head(main) = main[1] /\ Head(main) \in T
      /\ \A i \in 1..(Len(main) - 1) : main'[i] = main[i + 1]
  BY <1>1, <1>3, TailAt
<1>5. PICK S \in SUBSET Posts : S = main[1]
  BY <1>2, <1>4
<1>6. /\ ToSet(messagesArray) \subseteq S /\ S \subseteq Answer(cached)
      /\ \A i \in DOMAIN main : S \subseteq main[i]
  BY <1>4, <1>5 DEF IInv, Growing
<1>7. feed \in Seq(Posts) /\ Len(feed) \in Nat /\ DOMAIN feed = 1..Len(feed) /\ cached \in 0..Len(feed)
  BY DEF IInv, TypeOK
<1>8. S \subseteq ToSet(feed)
  <2>1. \A j \in 1..cached : feed[j] \in ToSet(feed)
    BY <1>7 DEF ToSet
  <2> QED BY <1>6, <2>1 DEF Answer
<1>9. \A p, q \in S : p.key = q.key => p = q
  BY <1>8 DEF IInv, Written
<1>10. IsFiniteSet(S)
  <2>1. \A p \in S : p.key \in 1..MaxPosts
    BY DEF Posts
  <2>2. PICK keys : keys = [p \in S |-> p.key]
    OBVIOUS
  <2>3. keys \in Injection(S, 1..MaxPosts)
    BY <1>9, <2>1, <2>2 DEF Injection, IsInjective
  <2>4. IsFiniteSet(1..MaxPosts)
    BY FS_Interval
  <2> QED BY <2>3, <2>4, FS_Injection
<1>11. PICK list : list = messagesArray'
  OBVIOUS
<1>12. list = NewestFirst(S)
  BY <1>1, <1>4, <1>5, <1>11
<1>13. /\ list \in Seq(S) /\ ToSet(list) = S
       /\ Len(list) = Cardinality(S) /\ Cardinality(S) \in Nat /\ Cardinality(S) <= MaxPosts
  BY <1>9, <1>10, <1>12, NewestFirstIs
<1>14. list \in Seq(Posts)
  BY <1>13
<1>15. PICK R : R = OnScreen(top, list)
  OBVIOUS
<1>16. top \in Nat /\ names \in Seq(Calls)
  BY DEF IInv, TypeOK
<1>17. /\ R \in SUBSET Nat /\ IsFiniteSet(R) /\ R \subseteq DOMAIN list
       /\ \A r : r \in R <=> r \in Nat /\ top < r /\ r <= top + Cardinality(Cells) /\ r <= Len(list)
  BY <1>14, <1>15, <1>16, ScreenRows
<1>18. PICK at \in [Cells -> R \union {0}] :
           /\ \A r \in R : Cardinality({c \in Cells : at[c] = r}) = 1
           /\ rowOf' = at /\ CellForRow(R, list, at)
  BY <1>1, <1>11, <1>15 DEF Reload
<1>19. Placed(R, at)
  <2> SUFFICES ASSUME NEW r \in R
               PROVE  \E c \in Cells : \A d \in Cells : at[d] = r <=> d = c
    BY DEF Placed
  <2>1. PICK C \in SUBSET Cells : C = {c \in Cells : at[c] = r}
    OBVIOUS
  <2>2. IsFiniteSet(C) /\ Cardinality(C) = 1
    BY <1>18, <2>1, FS_Subset
  <2>3. PICK c : C = {c}
    BY <2>2, FS_Singleton
  <2> QED BY <2>1, <2>3
<1>20. /\ names' \in Seq(Calls)
       /\ \A c \in Cells : at[c] \in R =>
             /\ \E i \in DOMAIN names' : names'[i].cell = c
             /\ \A i \in DOMAIN names' : LastOf(names', i, c) => names'[i].post = list[at[c]]
  BY <1>14, <1>16, <1>17, <1>18, <1>19, Filled
<1>21. TypeOK'
  <2>1. main' \in Seq(SUBSET Posts)
    BY <1>2, <1>4
  <2>2. \A r \in R : r \in 0..MaxPosts
    BY <1>13, <1>17
  <2>3. rowOf' \in [Cells -> 0..MaxPosts]
    BY <1>18, <2>2
  <2> QED BY <1>1, <1>11, <1>14, <1>20, <2>1, <2>3 DEF IInv, TypeOK
<1>22. Growing'
  <2>1. ToSet(messagesArray') = S /\ Answer(cached)' = Answer(cached)
    BY <1>1, <1>11, <1>13 DEF Answer
  <2>2. \A i \in DOMAIN main' : i + 1 \in DOMAIN main /\ main'[i] = main[i + 1]
    BY <1>4
  <2>3. \A i \in DOMAIN main' : S \subseteq main'[i] /\ main'[i] \subseteq Answer(cached)
    BY <1>6, <2>2 DEF IInv, Growing
  <2>4. ASSUME NEW i \in DOMAIN main', NEW j \in DOMAIN main', i <= j
        PROVE  main'[i] \subseteq main'[j]
    <3>1. PICK k, l : k = i + 1 /\ l = j + 1
      OBVIOUS
    <3>2. k \in DOMAIN main /\ l \in DOMAIN main /\ main'[i] = main[k] /\ main'[j] = main[l]
      BY <2>2, <3>1
    <3>3. k <= l
      BY <1>4, <2>4, <3>1
    <3>4. main[k] \subseteq main[l]
      BY <3>2, <3>3 DEF IInv, Growing
    <3> QED BY <3>2, <3>4
  <2> QED BY <1>6, <2>1, <2>3, <2>4 DEF Growing
<1>23. Listed'
  <2> SUFFICES ASSUME place = "feed", NEW p \in mine, Coming(p)
               PROVE  Coming(p)'
    BY <1>1 DEF IInv, Listed
  <2>1. CASE p \in ToSet(messagesArray)
    BY <1>6, <1>11, <1>13, <2>1 DEF Coming
  <2>2. CASE p \in main[Len(main)]
    <3>1. CASE Len(main) = 1
      BY <1>5, <1>11, <1>13, <2>2, <3>1 DEF Coming
    <3>2. CASE Len(main) # 1
      <4>1. PICK n : n = Len(main) - 1
        OBVIOUS
      <4>2. n \in 1..(Len(main) - 1) /\ n + 1 = Len(main) /\ Len(main') = n /\ main' # <<>>
        BY <1>4, <3>2, <4>1
      <4>3. main'[Len(main')] = main[Len(main)]
        BY <1>4, <4>2
      <4> QED BY <2>2, <4>2, <4>3 DEF Coming
    <3> QED BY <3>1, <3>2
  <2>3. CASE reads > 0 /\ p \in ToSet(feed)
    BY <1>1, <2>3 DEF Coming
  <2>4. CASE \E i \in DOMAIN work : /\ ReadAt(i)
                                    /\ p \in ToSet(feed) \/ \E j \in DOMAIN work : j < i /\ PutAt(j, p)
    BY <1>1, <2>4 DEF Coming, ReadAt, PutAt
  <2> QED BY <2>1, <2>2, <2>3, <2>4 DEF Coming
<1>24. TableOK'
  <2>1. OnScreen(top, messagesArray)' = R
    BY <1>1, <1>11, <1>15 DEF OnScreen
  <2>2. Placed(OnScreen(top, messagesArray), rowOf)'
    BY <1>18, <1>19, <2>1 DEF Placed
  <2>3. Len(messagesArray) \in Nat /\ Len(messagesArray) <= Len(list)
    <3>1. Cardinality(ToSet(messagesArray)) <= Cardinality(S)
      BY <1>6, <1>10, FS_Subset
    <3> QED BY <1>13, <3>1 DEF IInv, TableOK, TypeOK
  <2>4. top > 0 => top + Cardinality(Cells) <= Len(list)
    <3>1. Cardinality(Cells) \in Nat
      BY FS_CardinalityType
    <3> QED BY <1>13, <1>16, <2>3, <3>1 DEF IInv, TableOK
  <2> QED BY <1>1, <1>11, <1>13, <1>18, <2>1, <2>2, <2>4 DEF TableOK
<1>25. \A c \in Cells : CellOK(c)'
  <2> SUFFICES ASSUME NEW c \in Cells, at[c] # 0
               PROVE  /\ \A i \in DOMAIN names' : LastOf(names', i, c) => names'[i].post = list[at[c]]
                      /\ ~\A i \in DOMAIN names' : names'[i].cell # c
    BY <1>11, <1>18 DEF CellOK
  <2>1. at[c] \in R
    BY <1>18
  <2> QED BY <1>20, <2>1
<1> QED BY <1>1, <1>6, <1>11, <1>13, <1>21, <1>22, <1>23, <1>24, <1>25, SameWritten DEF IInv

\* When as many rows are on the screen as there are cells, every cell has one.
LEMMA AllCellsUsed ==
    ASSUME FeedAssumption, NEW S, IsFiniteSet(S), Cardinality(S) = Cardinality(Cells),
           NEW row, Placed(S, row)
    PROVE  \A c \in Cells : row[c] \in S
<1> DEFINE In(r) == CHOOSE c \in Cells : row[c] = r
<1>1. \A r \in S : In(r) \in Cells /\ row[In(r)] = r
  BY DEF Placed
<1> HIDE DEF In
<1>2. PICK g : g = [r \in S |-> In(r)]
  OBVIOUS
<1>3. g \in Injection(S, Cells)
  BY <1>1, <1>2 DEF Injection, IsInjective
<1>4. g \in Surjection(S, Cells)
  BY <1>3, FS_Injection
<1>5. \A c \in Cells : \E r \in S : g[r] = c
  BY <1>4 DEF Surjection
<1> QED BY <1>1, <1>2, <1>5

\* R is S without gone and with new.
Instead(R, S, new, gone) ==
    /\ new \in R /\ gone \in S /\ new \notin S /\ gone \notin R
    /\ R \ {new} = S \ {gone}

\* The cells without a row on the screen are for new.
Passed(R, new, row, at) == \A c \in Cells : at[c] = IF row[c] \in R THEN row[c] ELSE new

\* When a row enters and another leaves, its cell is the one that row had.
LEMMA Recycled ==
    ASSUME NEW S, NEW R, NEW new, NEW gone, Instead(R, S, new, gone),
           NEW row, \A c \in Cells : row[c] \in S, Placed(S, row),
           NEW at, Passed(R, new, row, at)
    PROVE  Placed(R, at) /\ Placed({new}, at)
<1> USE DEF Instead, Passed
<1>1. \A c \in Cells : row[c] \in R \/ row[c] = gone
  OBVIOUS
<1>2. \A c \in Cells : at[c] = IF row[c] = gone THEN new ELSE row[c]
  BY <1>1
<1>3. \A c \in Cells : row[c] # new /\ row[c] \in S
  OBVIOUS
<1>4. ASSUME NEW r \in R
      PROVE  \E c \in Cells : \A d \in Cells : at[d] = r <=> d = c
  <2>1. CASE r = new
    <3>1. PICK c \in Cells : \A d \in Cells : row[d] = gone <=> d = c
      BY DEF Placed
    <3>2. \A d \in Cells : at[d] = r <=> row[d] = gone
      BY <1>2, <1>3, <2>1
    <3> QED BY <3>1, <3>2
  <2>2. CASE r # new
    <3>1. r \in S /\ r # gone
      BY <2>2
    <3>2. PICK c \in Cells : \A d \in Cells : row[d] = r <=> d = c
      BY <3>1 DEF Placed
    <3>3. \A d \in Cells : at[d] = r <=> row[d] = r
      BY <1>2, <2>2, <3>1
    <3> QED BY <3>2, <3>3
  <2> QED BY <2>1, <2>2
<1> QED BY <1>4 DEF Placed

\* The table scrolls by a row.
LEMMA ScrollStep ==
    ASSUME FeedAssumption, IInv, Scroll
    PROVE  IInv'
<1> DEFINE Entering(R) == {r \in R : \A c \in Cells : rowOf[c] # r}
<1>1. /\ place = "feed"
      /\ UNCHANGED <<feed, records, work, reads, cached, main, mine, place, messagesArray, shows, seen, unnamed>>
  BY DEF Scroll
<1>2. PICK t \in {top - 1, top + 1} :
          /\ t >= 0 /\ t + Cardinality(Cells) <= Len(messagesArray) /\ top' = t
          /\ rowOf' = [c \in Cells |-> IF rowOf[c] \in OnScreen(t, messagesArray) THEN rowOf[c]
                                       ELSE CHOOSE r \in Entering(OnScreen(t, messagesArray)) : TRUE]
          /\ CellForRow(Entering(OnScreen(t, messagesArray)), messagesArray, rowOf')
  BY DEF Scroll
<1> HIDE DEF Entering
<1>3. PICK N, L : N = Cardinality(Cells) /\ L = Len(messagesArray)
  OBVIOUS
<1>4. PICK R, S : R = OnScreen(t, messagesArray) /\ S = OnScreen(top, messagesArray)
  OBVIOUS
<1>5. PICK at : at = rowOf'
  OBVIOUS
<1>6. /\ messagesArray \in Seq(Posts) /\ names \in Seq(Calls)
      /\ top \in Nat /\ rowOf \in [Cells -> 0..MaxPosts] /\ L \in Nat /\ L <= MaxPosts
      /\ Placed(S, rowOf) /\ \A c \in Cells : rowOf[c] \in S \union {0}
      /\ top > 0 => top + N <= L
  BY <1>3, <1>4 DEF IInv, TypeOK, TableOK
<1>7. t \in Nat /\ N \in Nat /\ t + N <= L /\ top + N <= L
  <2>1. N \in Nat
    BY <1>3, FS_CardinalityType
  <2> QED BY <1>2, <1>3, <1>6, <2>1
<1>8. /\ R \in SUBSET Nat /\ IsFiniteSet(R) /\ R \subseteq DOMAIN messagesArray
      /\ \A r : r \in R <=> r \in Nat /\ t < r /\ r <= t + N /\ r <= L
  BY <1>3, <1>4, <1>6, <1>7, ScreenRows
<1>9. \A r : r \in R <=> r \in Nat /\ t < r /\ r <= t + N
  BY <1>6, <1>7, <1>8
<1>10. \A r : r \in S <=> r \in Nat /\ top < r /\ r <= top + N
  <2>1. \A r : r \in S <=> r \in Nat /\ top < r /\ r <= top + N /\ r <= L
    BY <1>3, <1>4, <1>6, ScreenRows
  <2> QED BY <1>6, <1>7, <2>1
<1>11. IsFiniteSet(S) /\ Cardinality(S) = N
  <2>1. PICK a, b : a = top + 1 /\ b = top + N
    OBVIOUS
  <2>2. a \in Nat /\ b \in Nat /\ \A r : r \in a..b <=> r \in Nat /\ top < r /\ r <= top + N
    BY <1>6, <1>7, <2>1
  <2>3. S = a..b
    BY <1>10, <2>2
  <2> QED BY <1>6, <1>7, <2>1, <2>2, <2>3, FS_Interval
<1>12. \A c \in Cells : rowOf[c] \in S
  BY <1>3, <1>6, <1>11, AllCellsUsed
<1>13. Entering(R) = R \ S
  <2>1. \A r \in S : \E c \in Cells : rowOf[c] = r
    BY <1>6 DEF Placed
  <2> QED BY <1>12, <2>1 DEF Entering
<1>14. /\ Placed(R, at) /\ Placed(R \ S, at) /\ at \in [Cells -> R]
       /\ \A c \in Cells : at[c] \notin R \ S => at[c] = rowOf[c]
  <2>1. CASE N = 0
    <3>1. Cells = {}
      BY <1>3, <2>1, FS_EmptySet
    <3>2. R = {}
      BY <1>7, <1>9, <2>1
    <3>3. at = [c \in Cells |-> IF rowOf[c] \in R THEN rowOf[c] ELSE CHOOSE r \in Entering(R) : TRUE]
      BY <1>2, <1>4, <1>5
    <3> QED BY <3>1, <3>2, <3>3 DEF Placed
  <2>2. CASE N # 0
    <3>1. PICK new, gone : /\ new = IF t = top + 1 THEN top + N + 1 ELSE top
                           /\ gone = IF t = top + 1 THEN top + 1 ELSE top + N
      OBVIOUS
    <3>2. new \in R /\ gone \in S /\ new \notin S /\ gone \notin R
      <4>1. CASE t = top + 1
        BY <1>6, <1>7, <1>9, <1>10, <2>2, <3>1, <4>1
      <4>2. CASE t = top - 1
        BY <1>6, <1>7, <1>9, <1>10, <2>2, <3>1, <4>2
      <4> QED BY <1>2, <4>1, <4>2
    <3>3. \A r \in Nat : r \in R /\ r # new <=> r \in S /\ r # gone
      <4>1. CASE t = top + 1
        BY <1>6, <1>7, <1>9, <1>10, <3>1, <4>1
      <4>2. CASE t = top - 1
        BY <1>6, <1>7, <1>9, <1>10, <3>1, <4>2
      <4> QED BY <1>2, <4>1, <4>2
    <3>4. R \ {new} = S \ {gone} /\ R \ S = {new}
      <4>1. R \subseteq Nat /\ S \subseteq Nat
        BY <1>9, <1>10
      <4> QED BY <3>2, <3>3, <4>1
    <3>5. at = [c \in Cells |-> IF rowOf[c] \in R THEN rowOf[c] ELSE new]
      <4>1. PICK r0 : r0 = CHOOSE r \in Entering(R) : TRUE
        OBVIOUS
      <4>2. \A r : r \in Entering(R) <=> r = new
        BY <1>13, <3>4
      <4>3. r0 = new
        BY <4>1, <4>2
      <4>4. at = [c \in Cells |-> IF rowOf[c] \in R THEN rowOf[c] ELSE CHOOSE r \in Entering(R) : TRUE]
        BY <1>2, <1>4, <1>5
      <4> QED BY <4>1, <4>3, <4>4
    <3>7. /\ Placed(R, at) /\ Placed({new}, at)
          /\ \A c \in Cells : at[c] \in R /\ (at[c] # new => at[c] = rowOf[c])
      <4>1. Passed(R, new, rowOf, at)
        BY <3>5 DEF Passed
      <4>2. Instead(R, S, new, gone)
        BY <3>2, <3>4 DEF Instead
      <4>3. Placed(R, at) /\ Placed({new}, at)
        BY <1>6, <1>12, <4>1, <4>2, Recycled
      <4>4. \A c \in Cells : at[c] \in R /\ (at[c] # new => at[c] = rowOf[c])
        BY <4>1, <4>2 DEF Instead, Passed
      <4> QED BY <4>3, <4>4
    <3>8. at \in [Cells -> R]
      BY <3>5, <3>7
    <3> QED BY <3>4, <3>7, <3>8
  <2> QED BY <2>1, <2>2
<1>15. PICK E \in SUBSET Nat : E = R \ S
  BY <1>8
<1>16. /\ IsFiniteSet(E) /\ E \subseteq DOMAIN messagesArray /\ Placed(E, at)
       /\ CellForRow(E, messagesArray, at)
  BY <1>2, <1>4, <1>5, <1>8, <1>13, <1>14, <1>15, FS_Subset
<1>17. /\ names' \in Seq(Calls)
       /\ \A c \in Cells : at[c] \in E =>
             /\ \E i \in DOMAIN names' : names'[i].cell = c
             /\ \A i \in DOMAIN names' : LastOf(names', i, c) => names'[i].post = messagesArray[at[c]]
       /\ \A c \in Cells : at[c] \notin E =>
             /\ \A i \in DOMAIN names' : LastOf(names', i, c) =>
                   i \in DOMAIN names /\ LastOf(names, i, c) /\ names'[i] = names[i]
             /\ (\A i \in DOMAIN names' : names'[i].cell # c) =>
                   \A i \in DOMAIN names : names[i].cell # c
  BY <1>6, <1>16, Filled
<1>18. TypeOK'
  <2>1. \A r \in R : r \in 0..MaxPosts
    BY <1>6, <1>8
  <2>2. rowOf' \in [Cells -> 0..MaxPosts]
    BY <1>5, <1>14, <2>1
  <2>3. top' \in 0..MaxPosts
    BY <1>2, <1>6, <1>7
  <2> QED BY <1>1, <1>17, <2>2, <2>3 DEF IInv, TypeOK
<1>19. TableOK'
  <2>1. OnScreen(top, messagesArray)' = R
    BY <1>1, <1>2, <1>4 DEF OnScreen
  <2>2. Placed(OnScreen(top, messagesArray), rowOf)'
    BY <1>5, <1>14, <2>1 DEF Placed
  <2> QED BY <1>1, <1>2, <1>5, <1>14, <2>1, <2>2 DEF IInv, TableOK
<1>20. \A c \in Cells : CellOK(c)'
  <2> SUFFICES ASSUME NEW c \in Cells, at[c] # 0
               PROVE  /\ \A i \in DOMAIN names' : LastOf(names', i, c) =>
                            names'[i].post = messagesArray[at[c]]
                      /\ (\A i \in DOMAIN names' : names'[i].cell # c) =>
                            shows[c] = messagesArray[at[c]] \/ unnamed[c]
    BY <1>1, <1>5 DEF CellOK
  <2>1. CASE at[c] \in E
    BY <1>17, <2>1
  <2>2. CASE at[c] \notin E
    <3>1. at[c] = rowOf[c]
      BY <1>14, <1>15, <2>2
    <3>2. CellOK(c)
      BY DEF IInv
    <3> QED BY <1>17, <2>2, <3>1, <3>2 DEF CellOK
  <2> QED BY <2>1, <2>2
<1> QED BY <1>1, <1>18, <1>19, <1>20, SameWritten, SameGrowing, SameListed DEF IInv

-----------------------------------------------------------------------------
(* The theorems. *)

\* Every step keeps the invariant.
LEMMA InvStep ==
    ASSUME FeedAssumption, IInv, [Next]_vars
    PROVE  IInv'
<1>1. CASE ComposePressed \/ Close \/ LeaveTab \/ EnterTab
  BY <1>1, GoStep
<1>2. CASE SendPost
  BY <1>2, SendStep
<1>3. CASE Scroll
  BY <1>3, ScrollStep
<1>4. CASE World
  <2>1. PICK u \in Users : RecordWritten(u) \/ OtherPosts(u)
    BY <1>4 DEF World
  <2> QED BY <2>1, RecordStep, OthersStep
<1>5. CASE FeedDidAppear
  BY <1>5, AppearStep
<1>6. CASE DoWork
  BY <1>6, WorkStep
<1>7. CASE AnswerFeed
  BY <1>7, AnswerStep
<1>8. CASE AssignFeed
  BY <1>8, AssignStep
<1>9. CASE NameArrives
  BY <1>9, NameStep
<1>10. CASE UNCHANGED vars
  <2>1. UNCHANGED <<feed, records, work, reads, cached, main, mine, screen, labels>>
    BY <1>10 DEF vars
  <2>2. TypeOK'
    BY <2>1 DEF IInv, TypeOK, screen, labels
  <2> QED BY <2>1, <2>2, SameWritten, SameGrowing, SameListed, SameTable, SameCells
          DEF IInv, screen, labels, tableVars
<1> QED BY <1>1, <1>2, <1>3, <1>4, <1>5, <1>6, <1>7, <1>8, <1>9, <1>10 DEF Next, User, System

\* The inductive invariant holds in every reachable state.
LEMMA Invariant ==
    ASSUME FeedAssumption
    PROVE  Spec => []IInv
<1>1. Init => IInv
  BY InitInv
<1>2. IInv /\ [Next]_vars => IInv'
  BY InvStep
<1> QED BY <1>1, <1>2, PTL DEF Spec

\* Every variable has its type in every reachable state.
THEOREM TypesHold ==
    ASSUME FeedAssumption
    PROVE  Spec => []TypeOK
<1>1. IInv => TypeOK
  BY DEF IInv
<1> QED BY Invariant, <1>1, PTL

\* Once the names have come every cell on the screen shows the post of its row,
\* whatever rows it had while they were under way, and once the readings are
\* done the feed has every post of this phone (FeedVC, PostVC).
THEOREM FeedSettlesHolds ==
    ASSUME FeedAssumption
    PROVE  Spec => []FeedSettles
<1>1. IInv => FeedSettles
  <2> SUFFICES ASSUME IInv PROVE RowsSettle /\ OwnPostListed
    BY DEF FeedSettles
  <2>1. RowsSettle
    <3> SUFFICES ASSUME names = <<>>, NEW c \in Cells, rowOf[c] # 0
                 PROVE  shows[c] = messagesArray[rowOf[c]] \/ unnamed[c]
      BY DEF RowsSettle
    <3>1. CellOK(c) /\ \A i \in DOMAIN names : names[i].cell # c
      BY DEF IInv
    <3> QED BY <3>1 DEF CellOK
  <2>2. OwnPostListed
    BY DEF IInv, TypeOK, Listed, Coming, OwnPostListed
  <2> QED BY <2>1, <2>2
<1> QED BY Invariant, <1>1, PTL

\* No list takes the place of one with a post it lacks: only an assignment
\* changes the list, and the lists on their way have all the posts of the one
\* on the screen (DataService.getAllFeedMessages, FeedVC.viewDidAppear).
THEOREM FeedGrows ==
    ASSUME FeedAssumption
    PROVE  Spec => FeedOnlyGrows
<1>1. ASSUME IInv, [Next]_vars
      PROVE  [ToSet(messagesArray) \subseteq ToSet(messagesArray')]_vars
  <2>1. CASE AssignFeed
    BY <1>1, <2>1, AssignStep
  <2>2. CASE messagesArray' = messagesArray
    BY <2>2
  <2>3. AssignFeed \/ messagesArray' = messagesArray
    BY <1>1 DEF Next, User, World, System, ComposePressed, Close, LeaveTab, EnterTab, Go, SendPost,
                Scroll, RecordWritten, OtherPosts, FeedDidAppear, DoWork, AnswerFeed, NameArrives,
                vars, screen
  <2> QED BY <2>1, <2>2, <2>3
<1> QED BY Invariant, <1>1, PTL DEF Spec, FeedOnlyGrows
=============================================================================
