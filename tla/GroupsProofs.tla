---------------------------- MODULE GroupsProofs ----------------------------
(* The groups tab, for any phones, users, keys and bounds: its types, who is *)
(* in a chat, whose group a form makes, when an unwrapped nil ends the       *)
(* process, and what the list and the chat settle on.                        *)
EXTENDS Groups, SequenceTheorems, FiniteSetTheorems, TLAPS

-----------------------------------------------------------------------------
(* Types. What a queued closure carries depends on its kind.                 *)

Of(kinds, loads, bys) == [kind : kinds, load : loads, by : bys, here : BOOLEAN]

AnyUser   == Users \union {NoUser}
AskItems  == Of({"ids"}, SUBSET Users, AnyUser)
WorkItems == Of({"observeGroups", "observeChat", "readGroups", "readMessages"}, {{}}, {NoUser})
             \union Of({"putGroup"}, (SUBSET Users) \ {{}}, AnyUser)
             \union Of({"putMessage"}, SUBSET GroupNodes, Users)
RowItems  == {it \in Of({"groupsAssign"}, SUBSET GroupNodes, AnyUser) :
                 \A g \in it.load : it.by \in g.members}
MainItems == Of({"groupsEvent", "chatEvent", "sent", "close"}, {{}}, {NoUser})
             \union AskItems
             \union Of({"groupsSnap"}, SUBSET GroupNodes, {NoUser})
             \union RowItems
             \union Of({"messagesSnap", "messagesAssign"}, SUBSET MessageNodes, {NoUser})

TypeInv ==
    /\ board \subseteq Nodes /\ shown \in [Devices -> SUBSET Nodes]
    /\ currentUser \in [Devices -> AnyUser]
    /\ place \in [Devices -> Places]
    /\ loaded \in [Devices -> BOOLEAN] /\ listeners \in [Devices -> Nat]
    /\ groupsArray \in [Devices -> SUBSET GroupNodes]
    /\ owner \in [Devices -> AnyUser]
    /\ chat \in [Devices -> GroupNodes \union {NoGroup}] /\ chatOn \in [Devices -> BOOLEAN]
    /\ messages \in [Devices -> SUBSET MessageNodes]
    /\ draft \in [Devices -> {"empty", "typed", "sent"}]
    /\ sendEnabled \in [Devices -> BOOLEAN]
    /\ asks \in [Devices -> Seq(AskItems)]
    /\ work \in [Devices -> Seq(WorkItems)]
    /\ main \in [Devices -> Seq(MainItems)]
    /\ replaced \in [Devices -> BOOLEAN] /\ foreign \in [Devices -> BOOLEAN]
    /\ loggedOut \in [Devices -> BOOLEAN]

\* A chat is open exactly while one has been chosen.
ChatOpen(d) == place[d] = "chat" <=> chat[d] # NoGroup

\* Only a form on screen has live calls, each of the user who pressed Done
\* unless a late answer replaced that user.
FormCalls(d) == \A it \in Elems(asks[d]) \union Elems(main[d]) :
    it.kind \in {"ids", "close"} /\ it.here =>
        /\ place[d] = "newGroup"
        /\ it.kind = "ids" => it.by = currentUser[d] \/ replaced[d]

\* So the groups those calls make are of their maker.
MakerIn(d) == \A it \in Elems(work[d]) : it.kind = "putGroup" /\ it.here => it.by \in it.load

\* Every row shows a group of the user it was made for, so does the chat.
RowsOwned(d) == \A g \in groupsArray[d] : owner[d] \in g.members
ChatOwned(d) == place[d] = "chat" => currentUser[d] \in chat[d].members \/ foreign[d]

Idle(d) == asks[d] = <<>> /\ work[d] = <<>> /\ main[d] = <<>> /\ listeners[d] = 0

\* Without a process nothing is queued, nor where somebody must still sign in
\* after a launch; elsewhere nobody is signed in only after a logout.
Sessions(d) ==
    /\ ~Running(d) \/ (place[d] = "login" /\ ~loggedOut[d]) => Idle(d)
    /\ Running(d) /\ currentUser[d] = NoUser => place[d] = "login" \/ loggedOut[d]
    /\ place[d] = "crashed" => loggedOut[d]

\* What is being sent is in the field, and the button is off.
SendOff(d) == sendEnabled[d] => draft[d] # "sent"

Has(q, kind) == \E i \in DOMAIN q : q[i].kind = kind
LastIn(q, kind, S) == \A i \in DOMAIN q :
    q[i].kind = kind /\ (\A j \in DOMAIN q : j > i => q[j].kind # kind) => q[i] \in S

\* The list will be read again; or the last reading, the last rows or the
\* screen itself is right.
RowsOf(u, S)  == {g \in Grps(S) : u \in g.members}
ListComing(d) == Has(main[d], "groupsEvent") \/ Has(work[d], "readGroups")
                                             \/ Has(work[d], "observeGroups")
GoodSnaps(d)  == {it \in MainItems : it.load = Grps(shown[d])}
GoodRows(d)   == {it \in MainItems : it.load = RowsOf(it.by, shown[d])}
OwnRows(d)    == {it \in MainItems : it.by = currentUser[d]}

ListContent(d) == loaded[d] =>
    /\ listeners[d] > 0
    /\ \/ ListComing(d)
       \/ /\ LastIn(main[d], "groupsSnap", GoodSnaps(d))
          /\ \/ Has(main[d], "groupsSnap")
             \/ /\ LastIn(main[d], "groupsAssign", GoodRows(d))
                /\ \/ Has(main[d], "groupsAssign")
                   \/ groupsArray[d] = RowsOf(owner[d], shown[d])

ListOwner(d) == loaded[d] /\ place[d] = "groups" =>
    \/ replaced[d] \/ ListComing(d) \/ Has(main[d], "groupsSnap")
    \/ /\ LastIn(main[d], "groupsAssign", OwnRows(d))
       /\ Has(main[d], "groupsAssign") \/ owner[d] = currentUser[d]

\* The same for an open chat.
ChatComing(d) == Has(main[d], "chatEvent") \/ Has(work[d], "readMessages")
                                           \/ Has(work[d], "observeChat")
GoodMessages(d) == {it \in MainItems : it.load = MessagesOf(chat[d], shown[d])}

ChatContent(d) == place[d] = "chat" =>
    /\ chatOn[d] \/ Has(work[d], "observeChat")
    /\ loaded[d] =>
        \/ ChatComing(d)
        \/ /\ LastIn(main[d], "messagesSnap", GoodMessages(d))
           /\ \/ Has(main[d], "messagesSnap")
              \/ /\ LastIn(main[d], "messagesAssign", GoodMessages(d))
                 /\ \/ Has(main[d], "messagesAssign")
                    \/ messages[d] = MessagesOf(chat[d], shown[d])

-----------------------------------------------------------------------------
(* The operators on queues.                                                *)

\* What is left out of a queue is left out, and what remains was there.
LEMMA Rank ==
    ASSUME NEW kept, NEW m \in Nat, kept \subseteq 1..m, NEW n \in 1..Cardinality(kept)
    PROVE  \E i \in kept : Cardinality({j \in kept : j <= i}) = n
<1> DEFINE upto(i) == {j \in kept : j <= i}
           rank == [i \in kept |-> Cardinality(upto(i))]
<1>1. IsFiniteSet(1..m)
  BY FS_Interval
<1>2. IsFiniteSet(kept) /\ Cardinality(kept) \in Nat
  BY <1>1, FS_Subset, FS_CardinalityType
<1>3. IsFiniteSet(1..Cardinality(kept)) /\ Cardinality(1..Cardinality(kept)) = Cardinality(kept)
  BY <1>2, FS_Interval
<1>4. \A i \in kept : IsFiniteSet(upto(i)) /\ Cardinality(upto(i)) \in 1..Cardinality(kept)
  <2> SUFFICES ASSUME NEW i \in kept
               PROVE  IsFiniteSet(upto(i)) /\ Cardinality(upto(i)) \in 1..Cardinality(kept)
    OBVIOUS
  <2>1. upto(i) \subseteq kept /\ upto(i) # {}
    OBVIOUS
  <2>2. IsFiniteSet(upto(i)) /\ Cardinality(upto(i)) <= Cardinality(kept)
    BY <1>2, <2>1, FS_Subset
  <2>3. Cardinality(upto(i)) \in Nat /\ Cardinality(upto(i)) # 0
    BY <2>1, <2>2, FS_CardinalityType, FS_EmptySet
  <2> QED BY <1>2, <2>2, <2>3
<1>5. ASSUME NEW x \in kept, NEW y \in kept, x < y
      PROVE  Cardinality(upto(x)) # Cardinality(upto(y))
  <2>1. x \in Int /\ y \in Int /\ \A j \in kept : j \in Int
    OBVIOUS
  <2>a. \A j \in kept : j <= x => j <= y
    BY <1>5, <2>1
  <2>b. y <= y /\ ~(y <= x)
    BY <1>5, <2>1
  <2>2. upto(x) \subseteq upto(y) /\ y \in upto(y) /\ y \notin upto(x)
    BY <2>a, <2>b, Zenon
  <2>3. upto(x) \in SUBSET upto(y) /\ upto(x) # upto(y)
    BY <2>2
  <2> QED BY <1>4, <2>3, FS_Subset
<1>6. ASSUME NEW x \in kept, NEW y \in kept, rank[x] = rank[y]
      PROVE  x = y
  <2>1. x \in Int /\ y \in Int
    OBVIOUS
  <2>2. Cardinality(upto(x)) = Cardinality(upto(y))
    BY <1>6
  <2> HIDE DEF upto
  <2> QED BY <1>5, <2>1, <2>2
<1>7. rank \in Injection(kept, 1..Cardinality(kept))
  <2>1. rank \in [kept -> 1..Cardinality(kept)]
    BY <1>4
  <2> HIDE DEF rank
  <2> QED BY <1>6, <2>1 DEF Injection, IsInjective
<1>8. rank \in Surjection(kept, 1..Cardinality(kept))
  BY <1>3, <1>7, FS_Injection
<1>9. PICK i \in kept : rank[i] = n
  BY <1>8 DEF Surjection
<1> QED BY <1>9

\* Membership, Has and LastIn under the operations on a queue.
LEMMA Elements ==
    ASSUME NEW T, NEW q \in Seq(T)
    PROVE  /\ DOMAIN q = 1..Len(q) /\ Len(q) \in Nat
           /\ Elems(q) \subseteq T
           /\ q # <<>> => Head(q) \in Elems(q)
BY DEF Elems

\* A queue without its first item: what it has, and what comes last in it.
LEMMA TailQueue ==
    ASSUME NEW T, NEW q \in Seq(T), q # <<>>
    PROVE  /\ Tail(q) \in Seq(T) /\ Len(Tail(q)) = Len(q) - 1
           /\ Elems(Tail(q)) \subseteq Elems(q)
           /\ \A k : Has(q, k) <=> Head(q).kind = k \/ Has(Tail(q), k)
           /\ \A k, S : LastIn(q, k, S) => LastIn(Tail(q), k, S)
           /\ \A k, S : LastIn(q, k, S) /\ Head(q).kind = k =>
                    Has(Tail(q), k) \/ Head(q) \in S
<1>1. /\ Len(q) \in Nat /\ Len(q) > 0 /\ DOMAIN q = 1..Len(q) /\ Head(q) = q[1]
      /\ Tail(q) \in Seq(T) /\ Len(Tail(q)) = Len(q) - 1
      /\ DOMAIN Tail(q) = 1..(Len(q) - 1)
      /\ \A i \in 1..(Len(q) - 1) : Tail(q)[i] = q[i + 1]
  OBVIOUS
<1>2. \A i \in 1..Len(q) : i = 1 \/ (i - 1 \in 1..(Len(q) - 1) /\ (i - 1) + 1 = i)
  BY <1>1
<1>3. \A i \in 1..(Len(q) - 1) : i + 1 \in 1..Len(q) /\ i + 1 # 1
  BY <1>1
<1>4. Elems(Tail(q)) \subseteq Elems(q)
  BY <1>1, <1>3 DEF Elems
<1>5. \A k : Has(q, k) <=> Head(q).kind = k \/ Has(Tail(q), k)
  <2> SUFFICES ASSUME NEW k PROVE Has(q, k) <=> Head(q).kind = k \/ Has(Tail(q), k)
    OBVIOUS
  <2>1. ASSUME Has(q, k) PROVE Head(q).kind = k \/ Has(Tail(q), k)
    <3>1. PICK i \in 1..Len(q) : q[i].kind = k
      BY <1>1, <2>1 DEF Has
    <3>2. i = 1 \/ (i - 1 \in 1..(Len(q) - 1) /\ Tail(q)[i - 1] = q[i])
      BY <1>1, <1>2
    <3> QED BY <1>1, <3>1, <3>2 DEF Has
  <2>2. Head(q).kind = k => Has(q, k)
    BY <1>1 DEF Has
  <2>3. Has(Tail(q), k) => Has(q, k)
    BY <1>1, <1>3 DEF Has
  <2> QED BY <2>1, <2>2, <2>3
<1>6. ASSUME NEW k, NEW S, LastIn(q, k, S) PROVE LastIn(Tail(q), k, S)
  <2> SUFFICES ASSUME NEW i \in 1..(Len(q) - 1), Tail(q)[i].kind = k,
                      \A j \in 1..(Len(q) - 1) : j > i => Tail(q)[j].kind # k
               PROVE  Tail(q)[i] \in S
    BY <1>1 DEF LastIn
  <2>1. i + 1 \in 1..Len(q) /\ q[i + 1].kind = k
    BY <1>1, <1>3
  <2>2. ASSUME NEW j \in 1..Len(q), j > i + 1 PROVE q[j].kind # k
    <3>1. j - 1 \in 1..(Len(q) - 1) /\ j - 1 > i /\ (j - 1) + 1 = j
      BY <1>1, <2>2
    <3> QED BY <1>1, <3>1
  <2>3. q[i + 1] \in S
    BY <1>1, <1>6, <2>1, <2>2 DEF LastIn
  <2> QED BY <1>1, <2>3
<1>7. ASSUME NEW k, NEW S, LastIn(q, k, S), Head(q).kind = k, ~Has(Tail(q), k)
      PROVE  Head(q) \in S
  <2>1. ASSUME NEW j \in 1..Len(q), j > 1 PROVE q[j].kind # k
    <3>1. j - 1 \in 1..(Len(q) - 1) /\ (j - 1) + 1 = j
      BY <1>1, <2>1
    <3> QED BY <1>1, <1>7, <3>1 DEF Has
  <2> QED BY <1>1, <1>7, <2>1 DEF LastIn
<1> QED BY <1>1, <1>4, <1>5, <1>6, <1>7

\* A queue with one more item.
LEMMA AppendQueue ==
    ASSUME NEW T, NEW q \in Seq(T), NEW it \in T
    PROVE  /\ Append(q, it) \in Seq(T) /\ Append(q, it) # <<>>
           /\ Len(Append(q, it)) = Len(q) + 1 /\ Append(q, it)[Len(q) + 1] = it
           /\ Elems(Append(q, it)) = Elems(q) \union {it}
           /\ \A k : Has(Append(q, it), k) <=> Has(q, k) \/ it.kind = k
           /\ \A k, S : LastIn(q, k, S) /\ it.kind # k => LastIn(Append(q, it), k, S)
           /\ \A k, S : it \in S /\ it.kind = k => LastIn(Append(q, it), k, S)
<1> DEFINE r == Append(q, it)
           n == Len(q)
<1>1. /\ n \in Nat /\ DOMAIN q = 1..n /\ r \in Seq(T) /\ Len(r) = n + 1
      /\ DOMAIN r = 1..(n + 1) /\ r[n + 1] = it /\ \A i \in 1..n : r[i] = q[i]
  OBVIOUS
<1>2. 1..(n + 1) = 1..n \union {n + 1}
  BY <1>1
<1>3. r # <<>>
  BY <1>1
<1> HIDE DEF r, n
<1>4. Elems(r) = Elems(q) \union {it}
  BY <1>1, <1>2 DEF Elems
<1>5. \A k : Has(r, k) <=> Has(q, k) \/ it.kind = k
  BY <1>1, <1>2 DEF Has
<1>6. ASSUME NEW k, NEW S, LastIn(q, k, S), it.kind # k PROVE LastIn(r, k, S)
  <2> SUFFICES ASSUME NEW i \in 1..(n + 1), r[i].kind = k,
                      \A j \in 1..(n + 1) : j > i => r[j].kind # k
               PROVE  r[i] \in S
    BY <1>1 DEF LastIn
  <2>1. i \in 1..n
    BY <1>1, <1>2, <1>6
  <2>2. \A j \in 1..n : j > i => q[j].kind # k
    BY <1>1, <1>2
  <2> QED BY <1>1, <1>6, <2>1, <2>2 DEF LastIn
<1>7. ASSUME NEW k, NEW S, it \in S, it.kind = k PROVE LastIn(r, k, S)
  <2> SUFFICES ASSUME NEW i \in 1..(n + 1), \A j \in 1..(n + 1) : j > i => r[j].kind # k
               PROVE  r[i] \in S
    BY <1>1 DEF LastIn
  <2>1. ~(n + 1 > i)
    BY <1>1, <1>7
  <2>2. i = n + 1
    BY <1>1, <2>1
  <2> QED BY <1>1, <1>7, <2>2
<1> QED BY <1>1, <1>3, <1>4, <1>5, <1>6, <1>7 DEF r, n

\* A queue with the items of another behind it.
LEMMA ConcatQueue ==
    ASSUME NEW T, NEW q \in Seq(T), NEW p \in Seq(T)
    PROVE  /\ q \o p \in Seq(T)
           /\ Elems(q \o p) = Elems(q) \union Elems(p)
           /\ \A k : Has(q \o p, k) <=> Has(q, k) \/ Has(p, k)
           /\ \A k, S : LastIn(q, k, S) /\ ~Has(p, k) => LastIn(q \o p, k, S)
<1> DEFINE r == q \o p
           n == Len(q)
           m == Len(p)
<1>1. /\ n \in Nat /\ m \in Nat /\ DOMAIN q = 1..n /\ DOMAIN p = 1..m
      /\ r \in Seq(T) /\ DOMAIN r = 1..(n + m)
      /\ \A i \in 1..(n + m) : r[i] = IF i <= n THEN q[i] ELSE p[i - n]
  BY ConcatProperties
<1> HIDE DEF r, n, m
<1>2. \A i \in 1..(n + m) : IF i <= n THEN i \in 1..n ELSE i - n \in 1..m
  BY <1>1
<1>3. \A i \in 1..n : i \in 1..(n + m) /\ i <= n
  BY <1>1
<1>4. \A i \in 1..m : n + i \in 1..(n + m) /\ ~(n + i <= n) /\ (n + i) - n = i
  BY <1>1
<1>5. /\ \A i \in 1..n : r[i] = q[i]
      /\ \A i \in 1..m : r[n + i] = p[i]
      /\ \A i \in 1..(n + m) : (i \in 1..n /\ r[i] = q[i]) \/ (i - n \in 1..m /\ r[i] = p[i - n])
  BY <1>1, <1>2, <1>3, <1>4
<1>6. Elems(r) = Elems(q) \union Elems(p)
  <2>1. ASSUME NEW x \in Elems(r) PROVE x \in Elems(q) \union Elems(p)
    BY <1>1, <1>5 DEF Elems
  <2>2. ASSUME NEW x \in Elems(q) PROVE x \in Elems(r)
    BY <1>1, <1>3, <1>5 DEF Elems
  <2>3. ASSUME NEW x \in Elems(p) PROVE x \in Elems(r)
    BY <1>1, <1>4, <1>5 DEF Elems
  <2> QED BY <2>1, <2>2, <2>3
<1>7. \A k : Has(r, k) <=> Has(q, k) \/ Has(p, k)
  <2> SUFFICES ASSUME NEW k PROVE Has(r, k) <=> Has(q, k) \/ Has(p, k)
    OBVIOUS
  <2>1. Has(r, k) => Has(q, k) \/ Has(p, k)
    BY <1>1, <1>5 DEF Has
  <2>2. Has(q, k) => Has(r, k)
    BY <1>1, <1>3, <1>5 DEF Has
  <2>3. Has(p, k) => Has(r, k)
    BY <1>1, <1>4, <1>5 DEF Has
  <2> QED BY <2>1, <2>2, <2>3
<1>8. ASSUME NEW k, NEW S, LastIn(q, k, S), ~Has(p, k) PROVE LastIn(r, k, S)
  <2> SUFFICES ASSUME NEW i \in 1..(n + m), r[i].kind = k,
                      \A j \in 1..(n + m) : j > i => r[j].kind # k
               PROVE  r[i] \in S
    BY <1>1 DEF LastIn
  <2>1. i \in 1..n /\ r[i] = q[i]
    BY <1>1, <1>5, <1>8 DEF Has
  <2>2. \A j \in 1..n : j > i => q[j].kind # k
    BY <1>3, <1>5
  <2> QED BY <1>1, <1>8, <2>1, <2>2 DEF LastIn
<1> QED BY <1>1, <1>6, <1>7, <1>8 DEF r

\* What is abandoned keeps its place in the queue.
LEMMA AbandonQueue ==
    ASSUME NEW T, NEW q \in Seq(T), \A it \in T : it.kind \in {"ids", "close"} =>
               [it EXCEPT !.here = FALSE] \in T /\ [it EXCEPT !.here = FALSE].kind = it.kind
    PROVE  /\ Abandon(q) \in Seq(T)
           /\ \A k : Has(Abandon(q), k) <=> Has(q, k)
           /\ \A k, S : k \notin {"ids", "close"} /\ LastIn(q, k, S) => LastIn(Abandon(q), k, S)
           /\ \A it \in Elems(Abandon(q)) : it.kind \notin {"ids", "close"} \/ 
                  \E old \in Elems(q) : it = [old EXCEPT !.here = FALSE]
<1> DEFINE r == Abandon(q)
           n == Len(q)
<1>0. n \in Nat /\ DOMAIN q = 1..n /\ \A i \in 1..n : q[i] \in T
  OBVIOUS
<1>1. /\ DOMAIN r = 1..n
      /\ \A i \in 1..n : r[i] = IF q[i].kind \in {"ids", "close"}
                                   THEN [q[i] EXCEPT !.here = FALSE] ELSE q[i]
  BY <1>0, Zenon DEF Abandon
<1>2. \A i \in 1..n : r[i] \in T /\ r[i].kind = q[i].kind
  BY <1>0, <1>1
<1>3. r \in Seq(T)
  <2>1. r = [i \in 1..n |-> r[i]]
    BY <1>0, <1>1 DEF Abandon
  <2>2. r \in [1..n -> T]
    BY <1>2, <2>1
  <2> HIDE DEF r
  <2> QED BY <1>0, <1>1, <2>2
<1> HIDE DEF r, n
<1>4. \A k : Has(r, k) <=> Has(q, k)
  BY <1>0, <1>1, <1>2 DEF Has
<1>5. ASSUME NEW k, NEW S, k \notin {"ids", "close"}, LastIn(q, k, S) PROVE LastIn(r, k, S)
  <2> SUFFICES ASSUME NEW i \in 1..n, r[i].kind = k, \A j \in 1..n : j > i => r[j].kind # k
               PROVE  r[i] \in S
    BY <1>0, <1>1 DEF LastIn
  <2>1. q[i].kind = k /\ (\A j \in 1..n : j > i => q[j].kind # k) /\ r[i] = q[i]
    BY <1>0, <1>1, <1>2, <1>5
  <2> QED BY <1>0, <1>1, <1>5, <2>1 DEF LastIn
<1>6. ASSUME NEW it \in Elems(r), it.kind \in {"ids", "close"}
      PROVE  \E old \in Elems(q) : it = [old EXCEPT !.here = FALSE]
  <2>1. PICK i \in 1..n : it = r[i]
    BY <1>0, <1>1 DEF Elems
  <2>2. it = [q[i] EXCEPT !.here = FALSE]
    BY <1>0, <1>1, <1>2, <1>6, <2>1
  <2> QED BY <1>0, <1>1, <2>2 DEF Elems
<1> QED BY <1>3, <1>4, <1>5, <1>6 DEF r

\* What is left out of a queue is left out, and what remains was there.
LEMMA WithoutChatQueue ==
    ASSUME NEW T, NEW q \in Seq(T)
    PROVE  /\ WithoutChat(q) \in Seq(T)
           /\ Elems(WithoutChat(q)) \subseteq Elems(q)
<1> DEFINE kept == {i \in DOMAIN q : q[i].kind \notin ChatKinds}
           c == Cardinality(kept)
           pos(n) == CHOOSE i \in kept : Cardinality({j \in kept : j <= i}) = n
           r == WithoutChat(q)
<1>1. Len(q) \in Nat /\ kept \subseteq 1..Len(q) /\ DOMAIN q = 1..Len(q)
  OBVIOUS
<1>2. c \in Nat
  <2>1. IsFiniteSet(1..Len(q))
    BY <1>1, FS_Interval
  <2> HIDE DEF kept
  <2> QED BY <1>1, <2>1, FS_Subset, FS_CardinalityType
<1>3. ASSUME NEW n \in 1..c PROVE pos(n) \in kept
  <2> HIDE DEF kept
  <2>1. \E i \in kept : Cardinality({j \in kept : j <= i}) = n
    BY <1>1, Rank
  <2> QED BY <2>1
<1>4. r = [n \in 1..c |-> q[pos(n)]]
  BY DEF WithoutChat
<1>5. ASSUME NEW n \in 1..c PROVE q[pos(n)] \in T /\ q[pos(n)] \in Elems(q)
  <2>1. pos(n) \in DOMAIN q
    BY <1>3
  <2> HIDE DEF pos
  <2> QED BY <2>1, Elements DEF Elems
<1>6. r \in [1..c -> T] /\ DOMAIN r = 1..c /\ \A n \in 1..c : r[n] \in Elems(q)
  <2> HIDE DEF c, pos, r
  <2> QED BY <1>4, <1>5
<1> HIDE DEF c, r, kept, pos
<1>7. r \in Seq(T)
  BY <1>2, <1>6
<1>8. Elems(r) \subseteq Elems(q)
  BY <1>6 DEF Elems
<1> QED BY <1>7, <1>8 DEF r

-----------------------------------------------------------------------------
(* What the items of each queue are, and that every step keeps the types.  *)

\* The fields of a new item are those it was made with.
LEMMA Fields ==
    \A k, l, b, h : /\ Item(k, l, b, h).kind = k /\ Item(k, l, b, h).load = l
                    /\ Item(k, l, b, h).by = b   /\ Item(k, l, b, h).here = h
                    /\ Plain(k).kind = k
BY DEF Item, Plain

\* What the app puts on Firebase's queue, and what may be read off it.
LEMMA WorkTypes ==
    /\ \A k \in {"observeGroups", "observeChat", "readGroups", "readMessages"} :
            Plain(k) \in WorkItems
    /\ \A l \in (SUBSET Users) \ {{}}, b \in AnyUser, h \in BOOLEAN :
            Item("putGroup", l, b, h) \in WorkItems
    /\ \A g \in GroupNodes, b \in Users : Item("putMessage", {g}, b, TRUE) \in WorkItems
    /\ \A it \in WorkItems : it.kind = "putGroup" => it.load \in (SUBSET Users) \ {{}}
    /\ \A it \in WorkItems : it.kind = "putMessage" => it.load \subseteq GroupNodes /\ it.by \in Users
BY DEF WorkItems, Of, Item, Plain

\* The getIds calls that go out, which come back as closures.
LEMMA AskTypes ==
    /\ \A l \in SUBSET Users, b \in AnyUser : Item("ids", l, b, TRUE) \in AskItems
    /\ AskItems \subseteq MainItems
    /\ \A it \in AskItems : it.kind = "ids" /\ it.load \in SUBSET Users
BY DEF MainItems, AskItems, Of, Item

\* What Firebase puts on the main queue.
LEMMA MainTypes ==
    /\ \A k \in {"groupsEvent", "chatEvent", "sent"} : Plain(k) \in MainItems
    /\ \A h \in BOOLEAN : Item("close", {}, NoUser, h) \in MainItems
    /\ \A l \in SUBSET GroupNodes : Item("groupsSnap", l, NoUser, TRUE) \in MainItems
    /\ \A l \in SUBSET GroupNodes, b \in AnyUser :
            (\A g \in l : b \in g.members) => Item("groupsAssign", l, b, TRUE) \in MainItems
    /\ \A l \in SUBSET MessageNodes : /\ Item("messagesSnap", l, NoUser, TRUE) \in MainItems
                                     /\ Item("messagesAssign", l, NoUser, TRUE) \in MainItems
BY DEF MainItems, RowItems, AskItems, Of, Item, Plain

\* What a closure of each kind carries.
LEMMA MainLoads ==
    /\ \A it \in MainItems : it.here \in BOOLEAN
    /\ \A it \in MainItems : it.kind = "ids" => it \in AskItems
    /\ \A it \in MainItems : it.kind = "ids" => it.by \in AnyUser
    /\ \A it \in MainItems : it.kind = "groupsSnap" => it.load \subseteq GroupNodes
    /\ \A it \in MainItems : it.kind = "groupsAssign" =>
            /\ it.load \subseteq GroupNodes /\ it.by \in AnyUser
            /\ \A g \in it.load : it.by \in g.members
    /\ \A it \in MainItems : it.kind \in {"messagesSnap", "messagesAssign"} =>
            it.load \subseteq MessageNodes
BY DEF MainItems, RowItems, AskItems, Of

\* An item whose screen has gone is still one of its queue.
LEMMA AbandonTypes ==
    /\ \A it \in AskItems : [it EXCEPT !.here = FALSE] \in AskItems
    /\ \A it \in MainItems : it.kind \in {"ids", "close"} =>
            [it EXCEPT !.here = FALSE] \in MainItems
    /\ \A it \in MainItems : it.kind \in {"ids", "close"} =>
            /\ [it EXCEPT !.here = FALSE].kind = it.kind
            /\ [it EXCEPT !.here = FALSE].here = FALSE
<1>1. ASSUME NEW it \in AskItems PROVE [it EXCEPT !.here = FALSE] \in AskItems
  BY DEF AskItems, Of
<1>2. ASSUME NEW it \in MainItems, it.kind \in {"ids", "close"}
      PROVE  /\ [it EXCEPT !.here = FALSE] \in MainItems
             /\ [it EXCEPT !.here = FALSE].kind = it.kind
             /\ [it EXCEPT !.here = FALSE].here = FALSE
  <2>1. it \in AskItems \/ it \in Of({"close"}, {{}}, {NoUser})
    BY <1>2 DEF MainItems, RowItems, AskItems, Of
  <2>2. CASE it \in AskItems
    BY <1>1, <2>2, AskTypes DEF AskItems, Of
  <2>3. CASE it \in Of({"close"}, {{}}, {NoUser})
    BY <2>3 DEF MainItems, Of
  <2> QED BY <2>1, <2>2, <2>3
<1> QED BY <1>1, <1>2

\* Closing the form leaves only calls that know it.
LEMMA AbandonAsks ==
    ASSUME NEW q \in Seq(AskItems)
    PROVE  /\ Abandon(q) \in Seq(AskItems)
           /\ \A it \in Elems(Abandon(q)) : it.kind \in {"ids", "close"} => ~it.here
<1>1. \A it \in AskItems : /\ [it EXCEPT !.here = FALSE] \in AskItems
                           /\ [it EXCEPT !.here = FALSE].kind = it.kind
                           /\ [it EXCEPT !.here = FALSE].here = FALSE
  BY AbandonTypes, AskTypes
<1>2. Elems(q) \subseteq AskItems
  BY Elements
<1>3. /\ Abandon(q) \in Seq(AskItems)
      /\ \A it \in Elems(Abandon(q)) : it.kind \notin {"ids", "close"} \/
            \E old \in Elems(q) : it = [old EXCEPT !.here = FALSE]
  <2>1. \A it \in AskItems : it.kind \in {"ids", "close"} =>
            [it EXCEPT !.here = FALSE] \in AskItems /\ [it EXCEPT !.here = FALSE].kind = it.kind
    BY <1>1
  <2> QED BY <2>1, AbandonQueue, Zenon
<1>4. ASSUME NEW it \in Elems(Abandon(q)), it.kind \in {"ids", "close"} PROVE ~it.here
  <2>1. PICK old \in Elems(q) : it = [old EXCEPT !.here = FALSE]
    BY <1>3, <1>4
  <2> QED BY <1>1, <1>2, <2>1
<1> QED BY <1>3, <1>4

\* Closing the form changes nothing else on the main queue.
LEMMA AbandonMain ==
    ASSUME NEW q \in Seq(MainItems)
    PROVE  /\ Abandon(q) \in Seq(MainItems)
           /\ \A k : Has(Abandon(q), k) <=> Has(q, k)
           /\ \A k, S : k \notin {"ids", "close"} /\ LastIn(q, k, S) => LastIn(Abandon(q), k, S)
           /\ \A it \in Elems(Abandon(q)) : it.kind \in {"ids", "close"} => ~it.here
<1>1. Elems(q) \subseteq MainItems
  BY Elements
<1>2. \A it \in Elems(Abandon(q)) : it.kind \in {"ids", "close"} => ~it.here
  <2> SUFFICES ASSUME NEW it \in Elems(Abandon(q)), it.kind \in {"ids", "close"} PROVE ~it.here
    OBVIOUS
  <2>1. PICK old \in Elems(q) : it = [old EXCEPT !.here = FALSE]
    BY AbandonQueue, AbandonTypes
  <2>2. old \in MainItems
    BY <1>1, <2>1
  <2>3. CASE old.kind \in {"ids", "close"}
    BY <2>1, <2>2, <2>3, AbandonTypes
  <2>4. it.kind = old.kind /\ it.here = FALSE
    BY <2>1, <2>2 DEF MainItems, RowItems, AskItems, Of
  <2> QED BY <2>4
<1> QED BY <1>2, AbandonQueue, AbandonTypes

\* What every change is announced with.
LEMMA CallsQueue ==
    ASSUME NEW d \in Devices, listeners[d] \in Nat, chatOn[d] \in BOOLEAN
    PROVE  /\ Calls(d) \in Seq(MainItems)
           /\ \A k : Has(Calls(d), k) <=> \/ k = "groupsEvent" /\ listeners[d] > 0
                                          \/ k = "chatEvent" /\ chatOn[d]
           /\ \A it \in Elems(Calls(d)) : it.kind \in {"groupsEvent", "chatEvent"}
<1> DEFINE ps == [i \in 1..listeners[d] |-> Plain("groupsEvent")]
           cs == IF chatOn[d] THEN <<Plain("chatEvent")>> ELSE <<>>
<1>1. Plain("groupsEvent") \in MainItems /\ Plain("chatEvent") \in MainItems
      /\ Plain("groupsEvent").kind = "groupsEvent" /\ Plain("chatEvent").kind = "chatEvent"
  BY MainTypes, Fields
<1>2. ps \in [1..listeners[d] -> MainItems]
  BY <1>1
<1>3. ps \in Seq(MainItems)
  BY <1>2
<1>4. cs \in Seq(MainItems)
  BY <1>1
<1>5. \A k : Has(ps, k) <=> k = "groupsEvent" /\ listeners[d] > 0
  <2>1. DOMAIN ps = 1..listeners[d] /\ \A i \in 1..listeners[d] : ps[i].kind = "groupsEvent"
    BY <1>1
  <2>2. listeners[d] > 0 => 1 \in 1..listeners[d]
    OBVIOUS
  <2>3. \A i \in 1..listeners[d] : listeners[d] > 0
    OBVIOUS
  <2> HIDE DEF ps
  <2> QED BY <2>1, <2>2, <2>3 DEF Has
<1>6. \A k : Has(cs, k) <=> k = "chatEvent" /\ chatOn[d]
  <2>1. CASE chatOn[d]
    <3>1. DOMAIN cs = {1} /\ cs[1].kind = "chatEvent"
      BY <1>1, <2>1
    <3> HIDE DEF cs
    <3> QED BY <2>1, <3>1 DEF Has
  <2>2. CASE ~chatOn[d]
    <3>1. DOMAIN cs = {}
      BY <2>2
    <3> HIDE DEF cs
    <3> QED BY <2>2, <3>1 DEF Has
  <2> QED BY <2>1, <2>2
<1>7. Calls(d) = ps \o cs
  BY DEF Calls
<1> HIDE DEF ps, cs
<1>8. \A k : Has(Calls(d), k) <=> Has(ps, k) \/ Has(cs, k)
  BY <1>3, <1>4, <1>7, ConcatQueue
<1>9. ASSUME NEW it \in Elems(Calls(d)) PROVE it.kind \in {"groupsEvent", "chatEvent"}
  <2>1. Has(Calls(d), it.kind)
    BY <1>9 DEF Has, Elems
  <2> QED BY <1>5, <1>6, <1>8, <2>1
<1> QED BY <1>3, <1>4, <1>5, <1>6, <1>7, <1>8, <1>9, ConcatQueue

\* The types hold at first.
LEMMA TypeInit == Init => TypeInv
<1> SUFFICES ASSUME Init PROVE TypeInv
  OBVIOUS
<1>1. <<>> \in Seq(AskItems) /\ <<>> \in Seq(WorkItems) /\ <<>> \in Seq(MainItems)
  OBVIOUS
<1> QED BY <1>1 DEF Init, B!Init, TypeInv, Places, AnyUser

\* The process ends; whatever was queued is gone.
LEMMA DieTypes ==
    ASSUME TypeInv, NEW d \in Devices, NEW how \in Places, Die(d, how)
    PROVE  TypeInv'
<1>1. <<>> \in Seq(AskItems) /\ <<>> \in Seq(WorkItems) /\ <<>> \in Seq(MainItems)
  OBVIOUS
<1> QED BY <1>1 DEF TypeInv, Die, ChatGone, B!Restart, AnyUser


\* Every step keeps the types.
LEMMA TypeStep == TypeInv /\ (\A d \in Devices : ChatOpen(d)) /\ [Next]_vars => TypeInv'
<1> SUFFICES ASSUME TypeInv, \A d \in Devices : ChatOpen(d), [Next]_vars PROVE TypeInv'
  OBVIOUS
<1> USE GroupsAssumption DEF data, session, listing, rows, chatting, queues
<1>1. CASE UNCHANGED vars
  BY <1>1 DEF vars, TypeInv
<1>2. ASSUME NEW d \in Devices,
             Launch(d) \/ Logout(d) \/ OtherTab(d) \/ NewGroupPressed(d) \/ EditMessage(d)
      PROVE  TypeInv'
  BY <1>2 DEF TypeInv, Launch, Logout, OtherTab, NewGroupPressed, EditMessage, Places, AnyUser
<1>3. ASSUME NEW d \in Devices, Kill(d) PROVE TypeInv'
  BY <1>3, DieTypes DEF Kill, Places
<1>4. ASSUME NEW d \in Devices, NEW u \in Users, SignIn(d, u) \/ LateAnswer(d, u) PROVE TypeInv'
  <2>1. CASE SignIn(d, u)
    BY <2>1 DEF TypeInv, SignIn, Places, AnyUser
  <2>2. CASE LateAnswer(d, u)
    <3>1. foreign' \in [Devices -> BOOLEAN]
      BY <2>2, (chat[d] # NoGroup) \in BOOLEAN DEF TypeInv, LateAnswer
    <3>2. currentUser' \in [Devices -> AnyUser] /\ replaced' \in [Devices -> BOOLEAN]
      BY <2>2 DEF TypeInv, LateAnswer, AnyUser
    <3> QED BY <2>2, <3>1, <3>2 DEF TypeInv, LateAnswer
  <2> QED BY <1>4, <2>1, <2>2
<1>5. ASSUME NEW d \in Devices, OpenGroups(d) PROVE TypeInv'
  BY <1>5, WorkTypes DEF TypeInv, OpenGroups, GroupsDidAppear, Observe, Places
<1>6. ASSUME NEW d \in Devices, NEW chosen \in SUBSET Users, DonePressed(d, chosen) PROVE TypeInv'
  <2>1. Item("ids", chosen, currentUser[d], TRUE) \in AskItems
    BY AskTypes DEF TypeInv
  <2>2. asks' \in [Devices -> Seq(AskItems)]
    <3> \A it \in AskItems : Append(asks[d], it) \in Seq(AskItems)
      BY DEF TypeInv
    <3>1. Append(asks[d], Item("ids", chosen, currentUser[d], TRUE)) \in Seq(AskItems)
      BY <2>1
    <3> QED BY <1>6, <3>1 DEF TypeInv, DonePressed
  <2> QED BY <1>6, <2>2 DEF TypeInv, DonePressed
<1>7. ASSUME NEW d \in Devices, CloseForm(d) PROVE TypeInv'
  BY <1>7, WorkTypes, AbandonAsks, AbandonMain
     DEF TypeInv, CloseForm, FormGone, GroupsDidAppear, Observe, Places
<1>8. ASSUME NEW d \in Devices, NEW g \in groupsArray[d], SelectRow(d, g) PROVE TypeInv'
  <2>1. g \in GroupNodes
    BY DEF TypeInv
  <2> QED BY <1>8, <2>1, WorkTypes DEF TypeInv, SelectRow, Places
<1>9. ASSUME NEW d \in Devices, SendPressed(d) PROVE TypeInv'
  <2>1. CASE currentUser[d] = NoUser
    BY <1>9, <2>1, DieTypes DEF SendPressed, Crash, Places
  <2>2. CASE currentUser[d] # NoUser
    <3>1. chat[d] \in GroupNodes /\ currentUser[d] \in Users
      BY <1>9, <2>2 DEF TypeInv, ChatOpen, SendPressed, AnyUser
    <3>2. /\ Item("putMessage", {chat[d]}, currentUser[d], TRUE) \in WorkItems
          /\ Plain("sent") \in MainItems
      BY <3>1, WorkTypes, MainTypes
    <3>3. work' \in [Devices -> Seq(WorkItems)] /\ main' \in [Devices -> Seq(MainItems)]
      <4>1. /\ Append(work[d], Item("putMessage", {chat[d]}, currentUser[d], TRUE)) \in Seq(WorkItems)
            /\ Append(main[d], Plain("sent")) \in Seq(MainItems)
        <5>1. /\ \A it \in WorkItems : Append(work[d], it) \in Seq(WorkItems)
              /\ \A it \in MainItems : Append(main[d], it) \in Seq(MainItems)
          BY DEF TypeInv
        <5> QED BY <3>2, <5>1
      <4> QED BY <1>9, <2>2, <4>1 DEF TypeInv, SendPressed, UploadPost
    <3> QED BY <1>9, <2>2, <3>3 DEF TypeInv, SendPressed
  <2> QED BY <2>1, <2>2
<1>10. ASSUME NEW d \in Devices, CloseChat(d) PROVE TypeInv'
  <2>1. /\ Append(WithoutChat(work[d]), Plain("observeGroups")) \in Seq(WorkItems)
        /\ WithoutChat(main[d]) \in Seq(MainItems)
    BY WorkTypes, WithoutChatQueue, AppendQueue DEF TypeInv
  <2> QED BY <1>10, <2>1 DEF TypeInv, CloseChat, ChatGone, Places
<1>11. ASSUME NEW d \in Devices, NEW k, NextWork(d, k), WorkDone(d) 
       PROVE  /\ work' \in [Devices -> Seq(WorkItems)]
              /\ Head(work[d]) \in WorkItems /\ Head(work[d]).kind = k
  BY <1>11, TailQueue DEF TypeInv, NextWork, WorkDone
<1>12. ASSUME NEW d \in Devices, NEW p \in Seq(MainItems), Tell(d, p)
       PROVE  main' \in [Devices -> Seq(MainItems)]
  BY <1>12, ConcatQueue DEF TypeInv, Tell
<1>13. \A it \in MainItems : <<it>> \in Seq(MainItems) /\ <<>> \in Seq(MainItems)
  OBVIOUS
<1>14. ASSUME NEW d \in Devices, AttachGroups(d) PROVE TypeInv'
  <2>1. main' \in [Devices -> Seq(MainItems)]
    BY <1>12, <1>13, <1>14, MainTypes DEF AttachGroups
  <2>2. work' \in [Devices -> Seq(WorkItems)]
    BY <1>11, <1>14 DEF AttachGroups
  <2>3. listeners' \in [Devices -> Nat]
    <3>1. listeners[d] + 1 \in Nat
      BY DEF TypeInv
    <3> QED BY <1>14, <3>1 DEF AttachGroups, TypeInv
  <2> QED BY <1>14, <2>1, <2>2, <2>3 DEF AttachGroups, TypeInv
<1>15. ASSUME NEW d \in Devices, AttachChat(d) PROVE TypeInv'
  <2>1. main' \in [Devices -> Seq(MainItems)]
    BY <1>12, <1>13, <1>15, MainTypes DEF AttachChat
  <2>2. work' \in [Devices -> Seq(WorkItems)]
    BY <1>11, <1>15 DEF AttachChat
  <2> QED BY <1>15, <2>1, <2>2 DEF AttachChat, TypeInv
<1>16. ASSUME NEW d \in Devices, ReadGroups(d) \/ ReadMessages(d) PROVE TypeInv'
  <2>1. /\ Item("groupsSnap", Grps(shown[d]), NoUser, TRUE) \in MainItems
        /\ Item("messagesSnap", MessagesOf(chat[d], shown[d]), NoUser, TRUE) \in MainItems
    BY MainTypes DEF Grps, MessagesOf
  <2>2. main' \in [Devices -> Seq(MainItems)]
    BY <1>12, <1>13, <1>16, <2>1 DEF ReadGroups, ReadMessages
  <2>3. work' \in [Devices -> Seq(WorkItems)]
    BY <1>11, <1>16 DEF ReadGroups, ReadMessages
  <2> QED BY <1>16, <2>2, <2>3 DEF ReadGroups, ReadMessages, TypeInv
<1>17. ASSUME NEW d \in Devices PROVE Calls(d) \in Seq(MainItems)
  BY CallsQueue DEF TypeInv
<1>18. ASSUME NEW d \in Devices, NEW w \in Nodes, NEW k, NextWork(d, k), Write(d, w) PROVE TypeInv'
  <2>1. main' \in [Devices -> Seq(MainItems)]
    <3>1. (IF loaded[d] THEN Calls(d) ELSE <<>>) \in Seq(MainItems)
      BY <1>17
    <3> QED BY <1>12, <1>18, <3>1 DEF Write
  <2>2. work' \in [Devices -> Seq(WorkItems)]
    BY <1>11, <1>18 DEF Write
  <2> QED BY <1>18, <2>1, <2>2 DEF Write, TypeInv, B!Post
<1>19. ASSUME NEW d \in Devices, WriteGroup(d) PROVE TypeInv'
  <2>1. PICK k \in FreeKeys : Write(d, [key |-> k, members |-> Head(work[d]).load])
    BY <1>19 DEF WriteGroup
  <2>2. Head(work[d]).load \in (SUBSET Users) \ {{}}
    BY <1>11, <1>19, <2>1, WorkTypes DEF WriteGroup, Write
  <2>3. [key |-> k, members |-> Head(work[d]).load] \in Nodes
    BY <2>2 DEF FreeKeys, GroupNodes, Nodes
  <2> QED BY <1>18, <1>19, <2>1, <2>3 DEF WriteGroup
<1>20. ASSUME NEW d \in Devices, WriteMessage(d) PROVE TypeInv'
  <2>1. PICK k \in FreeKeys, g \in Head(work[d]).load :
            Write(d, [key |-> k, to |-> g, sender |-> Head(work[d]).by])
    BY <1>20 DEF WriteMessage
  <2>2. g \in GroupNodes /\ Head(work[d]).by \in Users
    BY <1>11, <1>20, <2>1, WorkTypes DEF WriteMessage, Write
  <2>3. [key |-> k, to |-> g, sender |-> Head(work[d]).by] \in Nodes
    BY <2>2 DEF FreeKeys, MessageNodes, Nodes
  <2> QED BY <1>18, <1>20, <2>1, <2>3 DEF WriteMessage
<1>21. ASSUME NEW d \in Devices, Receive(d) PROVE TypeInv'
  <2>1. main' \in [Devices -> Seq(MainItems)]
    BY <1>12, <1>17, <1>21 DEF Receive
  <2>2. shown' \in [Devices -> SUBSET Nodes] /\ board' \subseteq Nodes
    <3>1. CASE B!Learn(d)
      <4>1. PICK new \in SUBSET (board \ shown[d]) :
                shown' = [shown EXCEPT ![d] = @ \union new] /\ UNCHANGED board
        BY <3>1 DEF B!Learn
      <4> QED BY <4>1 DEF TypeInv
    <3>2. CASE UNCHANGED data
      BY <3>2 DEF TypeInv
    <3> QED BY <1>21, <3>1, <3>2 DEF Receive
  <2> QED BY <1>21, <2>1, <2>2 DEF Receive, TypeInv
<1>22. ASSUME NEW d \in Devices, IdsArrive(d) PROVE TypeInv'
  <2>1. Head(asks[d]) \in AskItems /\ Tail(asks[d]) \in Seq(AskItems)
    BY <1>22, TailQueue DEF IdsArrive, TypeInv
  <2>2. main' \in [Devices -> Seq(MainItems)]
    BY <1>12, <1>13, <1>22, <2>1, AskTypes DEF IdsArrive
  <2> QED BY <1>22, <2>1, <2>2 DEF IdsArrive, TypeInv
<1>23. ASSUME World PROVE TypeInv'
  BY <1>23 DEF World, TypeInv, B!Accept
<1>24. ASSUME NEW d \in Devices, NEW k, NextMain(d, k)
       PROVE  /\ Head(main[d]) \in MainItems /\ Head(main[d]).kind = k
              /\ Tail(main[d]) \in Seq(MainItems)
              /\ MainDone(d) => main' \in [Devices -> Seq(MainItems)]
              /\ \A it \in MainItems : Then(d, it) => main' \in [Devices -> Seq(MainItems)]
  <2>1. main[d] \in Seq(MainItems) /\ main[d] # <<>> /\ Head(main[d]).kind = k
    BY <1>24 DEF TypeInv, NextMain
  <2>2. Head(main[d]) \in MainItems /\ Tail(main[d]) \in Seq(MainItems)
    BY <2>1, TailQueue
  <2>3. MainDone(d) => main' \in [Devices -> Seq(MainItems)]
    BY <2>2 DEF TypeInv, MainDone
  <2>4. \A it \in MainItems : Then(d, it) => main' \in [Devices -> Seq(MainItems)]
    BY <2>2 DEF TypeInv, Then
  <2> QED BY <2>1, <2>2, <2>3, <2>4
<1>25. ASSUME NEW d \in Devices, GroupsEvent(d) \/ ChatEvent(d) PROVE TypeInv'
  <2>1. main' \in [Devices -> Seq(MainItems)]
    BY <1>24, <1>25 DEF GroupsEvent, ChatEvent
  <2>2. Plain("readGroups") \in WorkItems /\ Plain("readMessages") \in WorkItems
    BY WorkTypes
  <2>3. work' \in [Devices -> Seq(WorkItems)]
    <3>1. /\ Append(work[d], Plain("readGroups")) \in Seq(WorkItems)
          /\ Append(work[d], Plain("readMessages")) \in Seq(WorkItems)
      BY <2>2, AppendQueue DEF TypeInv
    <3> QED BY <1>25, <3>1 DEF GroupsEvent, ChatEvent, TypeInv
  <2> QED BY <1>25, <2>1, <2>3 DEF GroupsEvent, ChatEvent, TypeInv
<1>26. ASSUME NEW d \in Devices, GroupsSnap(d) PROVE TypeInv'
  <2> DEFINE snapshot == Head(main[d]).load
             mine == {g \in snapshot : currentUser[d] \in g.members}
  <2>1. CASE currentUser[d] = NoUser /\ snapshot # {}
    BY <1>26, <2>1, DieTypes DEF GroupsSnap, Crash, Places
  <2>2. CASE ~(currentUser[d] = NoUser /\ snapshot # {})
    <3>1. snapshot \subseteq GroupNodes
      BY <1>24, <1>26, MainLoads DEF GroupsSnap
    <3>2. Item("groupsAssign", mine, currentUser[d], TRUE) \in MainItems
      <4>1. mine \in SUBSET GroupNodes /\ currentUser[d] \in AnyUser
            /\ \A g \in mine : currentUser[d] \in g.members
        BY <3>1 DEF TypeInv
      <4> HIDE DEF mine
      <4> QED BY <4>1, MainTypes
    <3>3. main' \in [Devices -> Seq(MainItems)]
      BY <1>24, <1>26, <2>2, <3>2 DEF GroupsSnap
    <3> QED BY <1>26, <2>2, <3>3 DEF GroupsSnap, TypeInv
  <2> QED BY <2>1, <2>2
<1>27. ASSUME NEW d \in Devices, GroupsAssign(d) PROVE TypeInv'
  <2>1. /\ main' \in [Devices -> Seq(MainItems)]
        /\ Head(main[d]).load \subseteq GroupNodes /\ Head(main[d]).by \in AnyUser
    BY <1>24, <1>27, MainLoads DEF GroupsAssign
  <2> QED BY <1>27, <2>1 DEF GroupsAssign, TypeInv
<1>28. ASSUME NEW d \in Devices, MessagesSnap(d) PROVE TypeInv'
  <2>1. Item("messagesAssign", Head(main[d]).load, NoUser, TRUE) \in MainItems
    BY <1>24, <1>28, MainLoads, MainTypes DEF MessagesSnap
  <2>2. main' \in [Devices -> Seq(MainItems)]
    BY <1>24, <1>28, <2>1 DEF MessagesSnap
  <2> QED BY <1>28, <2>2 DEF MessagesSnap, TypeInv
<1>29. ASSUME NEW d \in Devices, MessagesAssign(d) PROVE TypeInv'
  <2>1. main' \in [Devices -> Seq(MainItems)] /\ Head(main[d]).load \subseteq MessageNodes
    BY <1>24, <1>29, MainLoads DEF MessagesAssign
  <2> QED BY <1>29, <2>1 DEF MessagesAssign, TypeInv
<1>30. ASSUME NEW d \in Devices, Ids(d) PROVE TypeInv'
  <2> DEFINE it == Head(main[d])
  <2>1. CASE currentUser[d] = NoUser
    BY <1>30, <2>1, DieTypes DEF Ids, Crash, Places
  <2>2. CASE currentUser[d] # NoUser
    <3>1. currentUser[d] \in Users
      BY <2>2 DEF TypeInv, AnyUser
    <3>2. it.load \in SUBSET Users /\ it.by \in AnyUser /\ it.here \in BOOLEAN
      BY <1>24, <1>30, MainLoads, AskTypes DEF Ids
    <3>3. /\ Item("putGroup", it.load \union {currentUser[d]}, it.by, it.here /\ ~replaced[d])
                 \in WorkItems
          /\ Item("close", {}, NoUser, it.here) \in MainItems
      <4>1. it.load \union {currentUser[d]} \in (SUBSET Users) \ {{}}
        <5>1. it.load \union {currentUser[d]} \subseteq Users
          BY <3>1, <3>2
        <5>2. it.load \union {currentUser[d]} # {}
          OBVIOUS
        <5> QED BY <5>1, <5>2
      <4>2. (it.here /\ ~replaced[d]) \in BOOLEAN
        OBVIOUS
      <4> HIDE DEF it
      <4> QED BY <3>2, <4>1, <4>2, WorkTypes, MainTypes
    <3>5. work' \in [Devices -> Seq(WorkItems)]
      <4> HIDE DEF it
      <4>1. work' = [work EXCEPT ![d] = Append(@, Item("putGroup",
                        it.load \union {currentUser[d]}, it.by, it.here /\ ~replaced[d]))]
        BY <1>30, <2>2 DEF Ids, it
      <4> QED BY <3>3, <4>1 DEF TypeInv
    <3>4. main' \in [Devices -> Seq(MainItems)]
      BY <1>24, <1>30, <2>2, <3>3 DEF Ids
    <3> QED BY <1>30, <2>2, <3>4, <3>5 DEF Ids, TypeInv
  <2> QED BY <2>1, <2>2
<1>31. ASSUME NEW d \in Devices, Close(d) PROVE TypeInv'
  <2>1. CASE Head(main[d]).here
    <3>1. /\ Abandon(asks[d]) \in Seq(AskItems)
          /\ Abandon(Tail(main[d])) \in Seq(MainItems)
          /\ Plain("observeGroups") \in WorkItems
      BY <1>24, <1>31, AbandonAsks, AbandonMain, WorkTypes DEF Close, TypeInv
    <3>2. FormGone(d, asks[d], Tail(main[d]))
      BY <1>31, <2>1 DEF Close
    <3>3. /\ asks' \in [Devices -> Seq(AskItems)] /\ main' \in [Devices -> Seq(MainItems)]
          /\ work' \in [Devices -> Seq(WorkItems)]
      BY <3>1, <3>2 DEF FormGone, GroupsDidAppear, Observe, TypeInv
    <3> QED BY <1>31, <3>2, <3>3 DEF Close, FormGone, GroupsDidAppear, TypeInv, Places
  <2>2. CASE ~Head(main[d]).here
    BY <1>24, <1>31, <2>2 DEF Close, TypeInv
  <2> QED BY <2>1, <2>2
<1>32. ASSUME NEW d \in Devices, Sent(d) PROVE TypeInv'
  BY <1>24, <1>32 DEF Sent, TypeInv
<1>33. ASSUME NEW d \in Devices, UserStep(d) PROVE TypeInv'
  BY <1>2, <1>4, <1>5, <1>6, <1>7, <1>8, <1>9, <1>10, <1>33 DEF UserStep
<1>34. ASSUME NEW d \in Devices, WorkStep(d) PROVE TypeInv'
  BY <1>14, <1>15, <1>16, <1>19, <1>20, <1>34 DEF WorkStep
<1>35. ASSUME NEW d \in Devices, MainStep(d) PROVE TypeInv'
  BY <1>25, <1>26, <1>27, <1>28, <1>29, <1>30, <1>31, <1>32, <1>35 DEF MainStep
<1> QED
  BY <1>1, <1>2, <1>3, <1>4, <1>21, <1>22, <1>23, <1>33, <1>34, <1>35 DEF Next

-----------------------------------------------------------------------------
(* A step is one device's, and the others do not notice.                   *)

DeviceStep(d) ==
    \/ Launch(d) \/ Kill(d)
    \/ \E u \in Users : LateAnswer(d, u)
    \/ UserStep(d) \/ WorkStep(d) \/ MainStep(d)
    \/ Receive(d) \/ IdsArrive(d)

Local(d) == <<currentUser[d], replaced[d], loggedOut[d], place[d], loaded[d], listeners[d],
              groupsArray[d], owner[d], chat[d], chatOn[d], messages[d], draft[d],
              sendEnabled[d], foreign[d], asks[d], work[d], main[d], shown[d]>>

\* A step of one phone leaves the others as they are.
LEMMA Others ==
    ASSUME TypeInv, NEW d \in Devices, DeviceStep(d), NEW e \in Devices, e # d
    PROVE  UNCHANGED Local(e)
<1> USE DEF data, session, listing, rows, chatting, queues
<1>1. ASSUME NEW how, Die(d, how) PROVE UNCHANGED Local(e)
  BY <1>1 DEF TypeInv, Local, Die, ChatGone, B!Restart
<1>2. CASE Kill(d) \/ SendPressed(d) \/ GroupsSnap(d) \/ Ids(d)
  BY <1>1, <1>2 DEF TypeInv, Local, Kill, SendPressed, UploadPost, GroupsSnap, Ids, Then, Crash
<1>3. CASE \/ Launch(d) \/ Logout(d) \/ OpenGroups(d) \/ OtherTab(d) \/ NewGroupPressed(d)
           \/ CloseForm(d) \/ EditMessage(d) \/ CloseChat(d)
           \/ \E u \in Users : SignIn(d, u) \/ LateAnswer(d, u)
  BY <1>3 DEF TypeInv, Local, Launch, Logout, OpenGroups, OtherTab, NewGroupPressed, CloseForm,
              EditMessage, CloseChat, SignIn, LateAnswer, FormGone, GroupsDidAppear, Observe,
              ChatGone
<1>4. CASE \/ \E chosen \in SUBSET Users : DonePressed(d, chosen)
           \/ \E g \in groupsArray[d] : SelectRow(d, g)
  BY <1>4 DEF TypeInv, Local, DonePressed, SelectRow
<1>5. CASE WorkStep(d)
  <2>1. ASSUME NEW w, Write(d, w) PROVE UNCHANGED Local(e)
    BY <2>1 DEF TypeInv, Local, Write, B!Post, WorkDone, Tell
  <2>2. CASE WriteGroup(d) \/ WriteMessage(d)
    BY <2>1, <2>2 DEF WriteGroup, WriteMessage
  <2>3. CASE AttachGroups(d) \/ AttachChat(d) \/ ReadGroups(d) \/ ReadMessages(d)
    BY <2>3 DEF TypeInv, Local, AttachGroups, AttachChat, ReadGroups, ReadMessages, WorkDone, Tell
  <2> QED BY <1>5, <2>2, <2>3 DEF WorkStep
<1>6. CASE \/ GroupsEvent(d) \/ GroupsAssign(d) \/ ChatEvent(d) \/ MessagesSnap(d)
           \/ MessagesAssign(d) \/ Close(d) \/ Sent(d)
  <2>1. CASE Close(d)
    <3>1. CASE Head(main[d]).here
      BY <2>1, <3>1 DEF TypeInv, Local, Close, FormGone, GroupsDidAppear, Observe
    <3>2. CASE ~Head(main[d]).here
      BY <2>1, <3>2 DEF TypeInv, Local, Close, MainDone
    <3> QED BY <3>1, <3>2
  <2>2. CASE GroupsEvent(d) \/ GroupsAssign(d) \/ ChatEvent(d)
    BY <2>2 DEF TypeInv, Local, GroupsEvent, GroupsAssign, ChatEvent, MainDone
  <2>3. CASE MessagesSnap(d) \/ MessagesAssign(d) \/ Sent(d)
    BY <2>3 DEF TypeInv, Local, MessagesSnap, MessagesAssign, Sent, MainDone, Then
  <2> QED BY <1>6, <2>1, <2>2, <2>3
<1>7. CASE Receive(d)
  <2>1. UNCHANGED shown[e]
    BY <1>7 DEF TypeInv, Receive, B!Learn
  <2> QED BY <1>7, <2>1 DEF TypeInv, Local, Receive, Tell
<1>8. CASE IdsArrive(d)
  BY <1>8 DEF TypeInv, Local, IdsArrive, Tell
<1> QED
  BY <1>2, <1>3, <1>4, <1>5, <1>6, <1>7, <1>8 DEF DeviceStep, UserStep, MainStep

-----------------------------------------------------------------------------
(* The screen, the rows and the users.                                     *)

\* A close that still has its form runs while the form is on screen.
LEMMA CloseOnForm ==
    ASSUME TypeInv, NEW d \in Devices, FormCalls(d), Close(d), Head(main[d]).here
    PROVE  place[d] = "newGroup"
<1>1. main[d] \in Seq(MainItems) /\ main[d] # <<>> /\ Head(main[d]).kind = "close"
  BY DEF TypeInv, Close, NextMain
<1>2. Head(main[d]) \in Elems(main[d])
  BY <1>1, Elements
<1> QED BY <1>1, <1>2 DEF FormCalls

\* An open chat is the chat of a group.
LEMMA ChatOpenStep ==
    ASSUME TypeInv, NEW d \in Devices, FormCalls(d), ChatOpen(d), DeviceStep(d)
    PROVE  ChatOpen(d)'
<1> USE DEF data, session, listing, rows, chatting, queues, ChatOpen, TypeInv
<1>1. ASSUME NEW how \in {"off", "crashed"}, Die(d, how) PROVE ChatOpen(d)'
  BY <1>1 DEF Die, ChatGone
<1>2. CASE Kill(d) \/ SendPressed(d) \/ GroupsSnap(d) \/ Ids(d)
  BY <1>1, <1>2 DEF Kill, SendPressed, GroupsSnap, Ids, Crash
<1>3. CASE \/ Launch(d) \/ Logout(d) \/ OpenGroups(d) \/ OtherTab(d) \/ NewGroupPressed(d)
           \/ CloseForm(d) \/ CloseChat(d) \/ \E u \in Users : SignIn(d, u)
  BY <1>3 DEF Launch, Running, Logout, OpenGroups, OtherTab, NewGroupPressed, CloseForm,
              CloseChat, SignIn, FormGone, ChatGone
<1>4. CASE \E g \in groupsArray[d] : SelectRow(d, g)
  BY <1>4, GroupsAssumption DEF SelectRow
<1>5. CASE Close(d)
  BY <1>5, CloseOnForm DEF Close, FormGone
<1>6. CASE \/ EditMessage(d) \/ \E u \in Users : LateAnswer(d, u)
           \/ \E chosen \in SUBSET Users : DonePressed(d, chosen)
  BY <1>6 DEF EditMessage, LateAnswer, DonePressed
<1>7. CASE WorkStep(d) \/ Receive(d) \/ IdsArrive(d)
  BY <1>7 DEF WorkStep, AttachGroups, AttachChat, ReadGroups, ReadMessages, WriteGroup,
              WriteMessage, Write, Receive, IdsArrive
<1>8. CASE \/ GroupsEvent(d) \/ GroupsAssign(d) \/ ChatEvent(d) \/ MessagesSnap(d)
           \/ MessagesAssign(d) \/ Sent(d)
  BY <1>8 DEF GroupsEvent, GroupsAssign, ChatEvent, MessagesSnap, MessagesAssign, Sent
<1> HIDE DEF ChatOpen, TypeInv
<1> QED BY <1>2, <1>3, <1>4, <1>5, <1>6, <1>7, <1>8 DEF DeviceStep, UserStep, MainStep

\* The rows are groups of the user they were filtered for.
LEMMA RowsStep ==
    ASSUME TypeInv, NEW d \in Devices, RowsOwned(d), DeviceStep(d)
    PROVE  RowsOwned(d)'
<1> USE DEF data, session, listing, rows, chatting, queues, RowsOwned, TypeInv
<1>1. ASSUME NEW how, Die(d, how) PROVE RowsOwned(d)'
  BY <1>1 DEF Die
<1>2. CASE Kill(d) \/ SendPressed(d) \/ GroupsSnap(d) \/ Ids(d)
  BY <1>1, <1>2 DEF Kill, SendPressed, GroupsSnap, Ids, Crash
<1>3. CASE \/ Launch(d) \/ Logout(d) \/ OpenGroups(d) \/ OtherTab(d) \/ NewGroupPressed(d)
           \/ CloseForm(d) \/ CloseChat(d) \/ EditMessage(d)
           \/ \E u \in Users : SignIn(d, u) \/ LateAnswer(d, u)
  BY <1>3 DEF Launch, Logout, OpenGroups, OtherTab, NewGroupPressed, CloseForm,
              CloseChat, SignIn, LateAnswer, EditMessage
<1>4. CASE \/ \E chosen \in SUBSET Users : DonePressed(d, chosen)
           \/ \E g \in groupsArray[d] : SelectRow(d, g)
  BY <1>4 DEF SelectRow, DonePressed
<1>5. CASE WorkStep(d) \/ Receive(d) \/ IdsArrive(d)
  BY <1>5 DEF WorkStep, AttachGroups, AttachChat, ReadGroups, ReadMessages, WriteGroup,
              WriteMessage, Write, Receive, IdsArrive
<1>6. CASE GroupsAssign(d)
  <2>1. main[d] \in Seq(MainItems) /\ main[d] # <<>> /\ Head(main[d]).kind = "groupsAssign"
    BY <1>6 DEF GroupsAssign, NextMain
  <2>2. Head(main[d]) \in MainItems
    BY <2>1, Elements
  <2>3. \A g \in Head(main[d]).load : Head(main[d]).by \in g.members
    BY <2>1, <2>2, MainLoads
  <2> QED BY <1>6, <2>3 DEF GroupsAssign
<1>7. CASE \/ GroupsEvent(d) \/ ChatEvent(d) \/ MessagesSnap(d) \/ MessagesAssign(d)
           \/ Close(d) \/ Sent(d)
  BY <1>7 DEF GroupsEvent, ChatEvent, MessagesSnap, MessagesAssign, Close, Sent
<1> HIDE DEF RowsOwned, TypeInv
<1> QED BY <1>2, <1>3, <1>4, <1>5, <1>6, <1>7 DEF DeviceStep, UserStep, MainStep

\* The chat is of a group that the owner of the rows is in.
LEMMA ChatOwnedStep ==
    ASSUME TypeInv, NEW d \in Devices, ChatOpen(d), RowsOwned(d), ChatOwned(d), DeviceStep(d)
    PROVE  ChatOwned(d)'
<1> USE DEF data, session, listing, rows, chatting, queues, ChatOwned, TypeInv
<1>1. ASSUME NEW how \in {"off", "crashed"}, Die(d, how) PROVE ChatOwned(d)'
  BY <1>1 DEF Die
<1>2. CASE Kill(d) \/ SendPressed(d) \/ GroupsSnap(d) \/ Ids(d)
  BY <1>1, <1>2 DEF Kill, SendPressed, GroupsSnap, Ids, Crash
<1>3. CASE \/ Launch(d) \/ Logout(d) \/ OpenGroups(d) \/ OtherTab(d) \/ NewGroupPressed(d)
           \/ CloseForm(d) \/ CloseChat(d) \/ \E u \in Users : SignIn(d, u)
  BY <1>3 DEF Launch, Logout, OpenGroups, OtherTab, NewGroupPressed, CloseForm,
              CloseChat, SignIn, FormGone
<1>4. CASE \E g \in groupsArray[d] : SelectRow(d, g)
  BY <1>4 DEF SelectRow, RowsOwned
<1>5. CASE \E u \in Users : LateAnswer(d, u)
  BY <1>5 DEF LateAnswer, ChatOpen
<1>6. CASE EditMessage(d) \/ \E chosen \in SUBSET Users : DonePressed(d, chosen)
  BY <1>6 DEF EditMessage, DonePressed
<1>7. CASE WorkStep(d) \/ Receive(d) \/ IdsArrive(d)
  BY <1>7 DEF WorkStep, AttachGroups, AttachChat, ReadGroups, ReadMessages, WriteGroup,
              WriteMessage, Write, Receive, IdsArrive
<1>8. CASE \/ GroupsEvent(d) \/ GroupsAssign(d) \/ ChatEvent(d) \/ MessagesSnap(d)
           \/ MessagesAssign(d) \/ Sent(d) \/ Close(d)
  BY <1>8 DEF GroupsEvent, GroupsAssign, ChatEvent, MessagesSnap, MessagesAssign, Sent, Close,
              FormGone
<1> HIDE DEF ChatOwned, TypeInv
<1> QED BY <1>2, <1>3, <1>4, <1>5, <1>6, <1>7, <1>8 DEF DeviceStep, UserStep, MainStep

\* A disabled Send button has its closure on the way.
LEMMA SendOffStep ==
    ASSUME TypeInv, NEW d \in Devices, SendOff(d), DeviceStep(d)
    PROVE  SendOff(d)'
<1> USE DEF data, session, listing, rows, chatting, queues, SendOff, TypeInv
<1>1. ASSUME NEW how, Die(d, how) PROVE SendOff(d)'
  BY <1>1 DEF Die, ChatGone
<1>2. CASE Kill(d) \/ SendPressed(d) \/ GroupsSnap(d) \/ Ids(d)
  BY <1>1, <1>2 DEF Kill, SendPressed, GroupsSnap, Ids, Crash
<1>3. CASE \/ Launch(d) \/ Logout(d) \/ OpenGroups(d) \/ OtherTab(d) \/ NewGroupPressed(d)
           \/ CloseForm(d) \/ CloseChat(d) \/ EditMessage(d)
           \/ \E u \in Users : SignIn(d, u) \/ LateAnswer(d, u)
  BY <1>3 DEF Launch, Logout, OpenGroups, OtherTab, NewGroupPressed, CloseForm,
              CloseChat, ChatGone, SignIn, LateAnswer, EditMessage
<1>4. CASE \/ \E chosen \in SUBSET Users : DonePressed(d, chosen)
           \/ \E g \in groupsArray[d] : SelectRow(d, g)
  BY <1>4 DEF SelectRow, DonePressed
<1>5. CASE WorkStep(d) \/ Receive(d) \/ IdsArrive(d)
  BY <1>5 DEF WorkStep, AttachGroups, AttachChat, ReadGroups, ReadMessages, WriteGroup,
              WriteMessage, Write, Receive, IdsArrive
<1>6. CASE \/ GroupsEvent(d) \/ GroupsAssign(d) \/ ChatEvent(d) \/ MessagesSnap(d)
           \/ MessagesAssign(d) \/ Close(d) \/ Sent(d)
  BY <1>6 DEF GroupsEvent, GroupsAssign, ChatEvent, MessagesSnap, MessagesAssign, Close, Sent
<1> HIDE DEF SendOff, TypeInv
<1> QED BY <1>2, <1>3, <1>4, <1>5, <1>6 DEF DeviceStep, UserStep, MainStep

\* A process ends on an unwrapped nil with something queued or a chat open,
\* which is after a logout.
LEMMA CrashAfterLogout ==
    ASSUME TypeInv, NEW d \in Devices, Sessions(d), currentUser[d] = NoUser,
           place[d] = "chat" \/ main[d] # <<>>
    PROVE  loggedOut[d]
BY DEF Sessions, Running, Idle

\* Whoever runs the tabs signed out has logged out in this process.
LEMMA SessionsStep ==
    ASSUME TypeInv, NEW d \in Devices, FormCalls(d), Sessions(d), DeviceStep(d)
    PROVE  Sessions(d)'
<1> USE DEF data, session, listing, rows, chatting, queues
<1>1. ASSUME NEW how \in {"off", "crashed"}, Die(d, how), how = "crashed" => loggedOut[d]
      PROVE  Sessions(d)'
  BY <1>1 DEF Die, TypeInv, Sessions, Running, Idle
<1>2. CASE Kill(d)
  BY <1>1, <1>2 DEF Kill
<1>3. ASSUME ~Idle(d), UNCHANGED <<currentUser, loggedOut>>,
             place'[d] = place[d] \/ (place[d] = "newGroup" /\ place'[d] = "groups")
      PROVE  Sessions(d)'
  BY <1>3 DEF Sessions, Running, TypeInv
<1>4. CASE SendPressed(d)
  <2>1. place[d] = "chat"
    BY <1>4 DEF SendPressed
  <2>2. CASE currentUser[d] = NoUser
    BY <1>1, <1>4, <2>1, <2>2, CrashAfterLogout DEF SendPressed, Crash
  <2>3. CASE currentUser[d] # NoUser
    BY <1>4, <2>1, <2>3 DEF SendPressed, Sessions, Running
  <2> QED BY <2>2, <2>3
<1>5. CASE Launch(d)
  <2>1. CASE currentUser[d] = NoUser
    BY <1>5, <2>1 DEF Launch, Sessions, Running, Idle, TypeInv
  <2>2. CASE currentUser[d] # NoUser
    BY <1>5, <2>2 DEF Launch, Sessions, Running, Idle, TypeInv
  <2> QED BY <2>1, <2>2
<1>6. CASE \E u \in Users : SignIn(d, u)
  BY <1>6, GroupsAssumption DEF SignIn, Sessions, Running, TypeInv
<1>7. CASE \E u \in Users : LateAnswer(d, u)
  BY <1>7, GroupsAssumption DEF LateAnswer, Sessions, Running, Idle, TypeInv
<1>8. CASE \/ Logout(d) \/ OpenGroups(d) \/ OtherTab(d) \/ NewGroupPressed(d)
           \/ CloseForm(d) \/ CloseChat(d) \/ \E g \in groupsArray[d] : SelectRow(d, g)
  BY <1>8 DEF Logout, OpenGroups, OtherTab, NewGroupPressed, CloseForm, CloseChat, SelectRow,
              FormGone, Sessions, Running, TypeInv
<1>9. CASE EditMessage(d) \/ \E chosen \in SUBSET Users : DonePressed(d, chosen)
  BY <1>9 DEF EditMessage, DonePressed, Sessions, Running, TypeInv
<1>10. CASE WorkStep(d) \/ Receive(d) \/ IdsArrive(d)
  <2>1. ~Idle(d)
    BY <1>10 DEF Idle, WorkStep, AttachGroups, AttachChat, ReadGroups, ReadMessages, WriteGroup,
              WriteMessage, NextWork, Receive, IdsArrive, TypeInv
  <2>2. UNCHANGED <<place, currentUser, loggedOut>>
    BY <1>10 DEF WorkStep, AttachGroups, AttachChat, ReadGroups, ReadMessages, WriteGroup,
              WriteMessage, Write, Receive, IdsArrive
  <2> QED BY <1>3, <2>1, <2>2
<1>11. CASE MainStep(d)
  <2>1. ~Idle(d) /\ main[d] # <<>>
    BY <1>11 DEF Idle, MainStep, GroupsEvent, GroupsSnap, GroupsAssign, ChatEvent, MessagesSnap,
                 MessagesAssign, Ids, Close, Sent, NextMain
  <2>2. CASE GroupsSnap(d) \/ Ids(d)
    <3>1. CASE Crash(d) /\ currentUser[d] = NoUser
      BY <1>1, <2>1, <3>1, CrashAfterLogout DEF Crash
    <3>2. CASE UNCHANGED <<place, currentUser, loggedOut>>
      BY <1>3, <2>1, <3>2
    <3> QED BY <2>2, <3>1, <3>2 DEF GroupsSnap, Ids
  <2>3. CASE Close(d)
    <3>1. UNCHANGED <<currentUser, loggedOut>>
          /\ (place'[d] = place[d] \/ (place[d] = "newGroup" /\ place'[d] = "groups"))
      BY <2>3, CloseOnForm DEF Close, FormGone, TypeInv
    <3> QED BY <1>3, <2>1, <3>1
  <2>4. CASE \/ GroupsEvent(d) \/ GroupsAssign(d) \/ ChatEvent(d) \/ MessagesSnap(d)
             \/ MessagesAssign(d) \/ Sent(d)
    <3>1. UNCHANGED <<place, currentUser, loggedOut>>
      BY <2>4 DEF GroupsEvent, GroupsAssign, ChatEvent, MessagesSnap, MessagesAssign, Sent
    <3> QED BY <1>3, <2>1, <3>1
  <2> QED BY <1>11, <2>2, <2>3, <2>4 DEF MainStep
<1> QED BY <1>2, <1>4, <1>5, <1>6, <1>7, <1>8, <1>9, <1>10, <1>11 DEF DeviceStep, UserStep

\* What is in the three queues after a step.
LEMMA FormCallsStep ==
    ASSUME TypeInv, NEW d \in Devices, FormCalls(d), Sessions(d), DeviceStep(d)
    PROVE  FormCalls(d)'
<1> USE DEF data, session, listing, rows, chatting, queues
<1> DEFINE Live(it) == it.kind \in {"ids", "close"} /\ it.here
           Held == Elems(asks[d]) \union Elems(main[d])
<1>0. asks[d] \in Seq(AskItems) /\ main[d] \in Seq(MainItems)
  BY DEF TypeInv
<1>1. ASSUME NEW how, Die(d, how) PROVE FormCalls(d)'
  BY <1>1 DEF Die, TypeInv, FormCalls, Elems
<1>2. ASSUME UNCHANGED <<place, currentUser, replaced>>,
             \A it \in Elems(asks'[d]) \union Elems(main'[d]) : Live(it) =>
                 it \in Held \/ (place[d] = "newGroup" /\ (it.kind = "ids" => it.by = currentUser[d]))
      PROVE  FormCalls(d)'
  BY <1>2 DEF FormCalls
<1>3. ASSUME \A it \in Elems(asks'[d]) \union Elems(main'[d]) : ~Live(it)
      PROVE  FormCalls(d)'
  BY <1>3 DEF FormCalls
<1>4. ASSUME place[d] # "newGroup" PROVE \A it \in Held : ~Live(it)
  BY <1>4 DEF FormCalls
<1>5. CASE Kill(d)
  BY <1>1, <1>5 DEF Kill
<1>6. CASE \/ Launch(d) \/ Logout(d) \/ OpenGroups(d) \/ OtherTab(d) \/ NewGroupPressed(d)
           \/ EditMessage(d) \/ \E u \in Users : SignIn(d, u)
           \/ \E g \in groupsArray[d] : SelectRow(d, g)
  <2>1. place[d] # "newGroup" /\ UNCHANGED <<asks, main>>
    BY <1>6 DEF Launch, Running, Logout, OpenGroups, OtherTab, NewGroupPressed, SignIn,
                EditMessage, SelectRow
  <2> QED BY <1>3, <1>4, <2>1
<1>7. CASE \E u \in Users : LateAnswer(d, u)
  BY <1>7 DEF LateAnswer, FormCalls, TypeInv
<1>8. CASE \E chosen \in SUBSET Users : DonePressed(d, chosen)
  <2> PICK chosen \in SUBSET Users : DonePressed(d, chosen)
    BY <1>8
  <2> DEFINE it0 == Item("ids", chosen, currentUser[d], TRUE)
  <2>a. it0 \in AskItems
    BY AskTypes DEF TypeInv
  <2>b. it0.by = currentUser[d]
    BY DEF Item
  <2>1. it0 \in AskItems /\ it0.by = currentUser[d]
    BY <2>a, <2>b
  <2>2. asks'[d] = Append(asks[d], it0) /\ place[d] = "newGroup"
        /\ UNCHANGED <<main, place, currentUser, replaced>>
    BY DEF DonePressed, TypeInv
  <2> HIDE DEF it0
  <2>3. Elems(asks'[d]) = Elems(asks[d]) \union {it0}
    BY <1>0, <2>1, <2>2, AppendQueue
  <2> QED BY <1>2, <2>1, <2>2, <2>3
<1>9. CASE CloseForm(d)
  <2>1. asks'[d] = Abandon(asks[d]) /\ main'[d] = Abandon(main[d])
    BY <1>9 DEF CloseForm, FormGone, TypeInv
  <2> QED BY <1>0, <1>3, <2>1, AbandonAsks, AbandonMain
<1>10. CASE SendPressed(d)
  <2>1. CASE currentUser[d] = NoUser
    BY <1>1, <1>10, <2>1 DEF SendPressed, Crash
  <2>2. CASE currentUser[d] # NoUser
    <3>1. main'[d] = Append(main[d], Plain("sent")) /\ asks' = asks
          /\ UNCHANGED <<place, currentUser, replaced>>
      BY <1>10, <2>2 DEF SendPressed, UploadPost, TypeInv
    <3>2. Elems(main'[d]) = Elems(main[d]) \union {Plain("sent")} /\ Plain("sent").kind = "sent"
      BY <1>0, <3>1, AppendQueue, MainTypes, Fields
    <3> QED BY <1>2, <3>1, <3>2
  <2> QED BY <2>1, <2>2
<1>11. CASE CloseChat(d)
  <2>1. main'[d] = WithoutChat(main[d]) /\ asks' = asks /\ place[d] = "chat"
    BY <1>11 DEF CloseChat, TypeInv
  <2>2. Elems(main'[d]) \subseteq Elems(main[d])
    BY <1>0, <2>1, WithoutChatQueue
  <2> QED BY <1>3, <1>4, <2>1, <2>2
<1>12. ASSUME NEW p \in Seq(MainItems), Tell(d, p), UNCHANGED <<place, currentUser, replaced, asks>>,
              \A it \in Elems(p) : ~Live(it)
       PROVE  FormCalls(d)'
  <2>1. Elems(main'[d]) = Elems(main[d]) \union Elems(p)
    BY <1>0, <1>12, ConcatQueue DEF Tell, TypeInv
  <2> QED BY <1>2, <1>12, <2>1
<1>13. /\ <<>> \in Seq(MainItems) /\ Elems(<<>>) = {}
       /\ \A it \in MainItems : <<it>> \in Seq(MainItems) /\ Elems(<<it>>) = {it}
  BY DEF Elems
<1>14. CASE AttachGroups(d) \/ AttachChat(d)
  <2>1. PICK p \in {<<>>, <<Plain("groupsEvent")>>, <<Plain("chatEvent")>>} : Tell(d, p)
    BY <1>14 DEF AttachGroups, AttachChat
  <2>2. p \in Seq(MainItems) /\ \A it \in Elems(p) : ~Live(it)
    <3>1. /\ Plain("groupsEvent") \in MainItems /\ Plain("groupsEvent").kind = "groupsEvent"
          /\ Plain("chatEvent") \in MainItems /\ Plain("chatEvent").kind = "chatEvent"
      BY MainTypes, Fields
    <3> QED BY <1>13, <3>1
  <2> QED BY <1>12, <1>14, <2>1, <2>2 DEF AttachGroups, AttachChat
<1>15. CASE ReadGroups(d) \/ ReadMessages(d)
  <2> DEFINE s0 == Item("groupsSnap", Grps(shown[d]), NoUser, TRUE)
             s1 == Item("messagesSnap", MessagesOf(chat[d], shown[d]), NoUser, TRUE)
  <2>1. s0 \in MainItems /\ s1 \in MainItems /\ s0.kind = "groupsSnap" /\ s1.kind = "messagesSnap"
    <3>1. s0 \in MainItems /\ s1 \in MainItems
      BY MainTypes DEF Grps, MessagesOf
    <3>2. s0.kind = "groupsSnap" /\ s1.kind = "messagesSnap"
      BY DEF Item
    <3> QED BY <3>1, <3>2
  <2>2. PICK it \in {s0, s1} : Tell(d, <<it>>)
    BY <1>15 DEF ReadGroups, ReadMessages
  <2> HIDE DEF s0, s1
  <2>3. <<it>> \in Seq(MainItems) /\ \A x \in Elems(<<it>>) : ~Live(x)
    BY <1>13, <2>1
  <2> QED BY <1>12, <1>15, <2>2, <2>3 DEF ReadGroups, ReadMessages
<1>16. /\ Calls(d) \in Seq(MainItems) /\ \A it \in Elems(Calls(d)) : ~Live(it)
       /\ (IF loaded[d] THEN Calls(d) ELSE <<>>) \in Seq(MainItems)
       /\ \A it \in Elems(IF loaded[d] THEN Calls(d) ELSE <<>>) : ~Live(it)
  BY <1>13, CallsQueue DEF TypeInv
<1>17. CASE WriteGroup(d) \/ WriteMessage(d) \/ Receive(d)
  <2>1. ASSUME NEW w, Write(d, w) PROVE FormCalls(d)'
    BY <1>12, <1>16, <2>1 DEF Write
  <2>2. CASE Receive(d)
    BY <1>12, <1>16, <2>2 DEF Receive
  <2> QED BY <1>17, <2>1, <2>2 DEF WriteGroup, WriteMessage
<1>18. CASE IdsArrive(d)
  <2>1. /\ asks[d] # <<>> /\ Head(asks[d]) \in Elems(asks[d]) /\ Head(asks[d]) \in MainItems
        /\ Elems(Tail(asks[d])) \subseteq Elems(asks[d])
    BY <1>0, <1>18, Elements, TailQueue, AskTypes DEF IdsArrive
  <2>2. Elems(main'[d]) = Elems(main[d]) \union {Head(asks[d])}
    <3>1. main'[d] = main[d] \o <<Head(asks[d])>>
      BY <1>18 DEF IdsArrive, Tell, TypeInv
    <3>2. <<Head(asks[d])>> \in Seq(MainItems) /\ Elems(<<Head(asks[d])>>) = {Head(asks[d])}
      BY <1>13, <2>1
    <3> QED BY <1>0, <3>1, <3>2, ConcatQueue
  <2>3. asks'[d] = Tail(asks[d]) /\ UNCHANGED <<place, currentUser, replaced>>
    BY <1>18 DEF IdsArrive, TypeInv
  <2> QED BY <1>2, <2>1, <2>2, <2>3
<1>19. ASSUME main[d] # <<>>
       PROVE  /\ Head(main[d]) \in Elems(main[d]) /\ Head(main[d]) \in MainItems
              /\ Tail(main[d]) \in Seq(MainItems) /\ Elems(Tail(main[d])) \subseteq Elems(main[d])
              /\ MainDone(d) => main'[d] = Tail(main[d])
              /\ \A it \in MainItems : Then(d, it) =>
                     main'[d] = Append(Tail(main[d]), it) /\ Elems(main'[d]) = Elems(Tail(main[d])) \union {it}
  <2>1. /\ Head(main[d]) \in Elems(main[d]) /\ Head(main[d]) \in MainItems
        /\ Tail(main[d]) \in Seq(MainItems) /\ Elems(Tail(main[d])) \subseteq Elems(main[d])
    BY <1>0, <1>19, Elements, TailQueue
  <2>2. MainDone(d) => main'[d] = Tail(main[d])
    BY DEF MainDone, TypeInv
  <2>3. \A it \in MainItems : Then(d, it) => main'[d] = Append(Tail(main[d]), it)
    BY DEF Then, TypeInv
  <2>4. \A it \in MainItems : Elems(Append(Tail(main[d]), it)) = Elems(Tail(main[d])) \union {it}
    BY <2>1, AppendQueue
  <2> QED BY <2>1, <2>2, <2>3, <2>4
<1>20. CASE \/ GroupsEvent(d) \/ GroupsAssign(d) \/ ChatEvent(d) \/ MessagesAssign(d) \/ Sent(d)
  <2>1. main[d] # <<>> /\ MainDone(d) /\ UNCHANGED <<place, currentUser, replaced, asks>>
    BY <1>20 DEF GroupsEvent, GroupsAssign, ChatEvent, MessagesAssign, Sent, NextMain
  <2> QED BY <1>2, <1>19, <2>1
<1>21. ASSUME NEW it \in MainItems, ~Live(it), main[d] # <<>>, Then(d, it),
              UNCHANGED <<place, currentUser, replaced, asks>>
       PROVE  FormCalls(d)'
  BY <1>2, <1>19, <1>21
<1>22. CASE GroupsSnap(d)
  <2>1. CASE Crash(d)
    BY <1>1, <2>1 DEF Crash
  <2>2. CASE ~Crash(d)
    <3> DEFINE it == Item("groupsAssign", {g \in Head(main[d]).load : currentUser[d] \in g.members},
                          currentUser[d], TRUE)
    <3>1. main[d] # <<>> /\ Then(d, it) /\ UNCHANGED <<place, currentUser, replaced, asks>>
      BY <1>22, <2>2 DEF GroupsSnap, NextMain
    <3>2. it.kind = "groupsAssign"
      BY DEF Item
    <3>3. it \in MainItems
      <4>1. Head(main[d]).load \subseteq GroupNodes
        BY <1>19, <1>22, MainLoads DEF GroupsSnap, NextMain
      <4> QED BY <4>1, MainTypes DEF TypeInv
    <3> HIDE DEF it
    <3> QED BY <1>21, <3>1, <3>2, <3>3
  <2> QED BY <2>1, <2>2
<1>23. CASE MessagesSnap(d)
  <2> DEFINE it == Item("messagesAssign", Head(main[d]).load, NoUser, TRUE)
  <2>1. main[d] # <<>> /\ Then(d, it) /\ UNCHANGED <<place, currentUser, replaced, asks>>
    BY <1>23 DEF MessagesSnap, NextMain
  <2>2. it.kind = "messagesAssign" /\ it \in MainItems
    <3>1. Head(main[d]).load \subseteq MessageNodes
      BY <1>19, <1>23, MainLoads DEF MessagesSnap, NextMain
    <3>2. it \in MainItems
      BY <3>1, MainTypes
    <3>3. it.kind = "messagesAssign"
      BY DEF Item
    <3> QED BY <3>2, <3>3
  <2> HIDE DEF it
  <2> QED BY <1>21, <2>1, <2>2
<1>24. CASE Ids(d)
  <2>1. CASE Crash(d)
    BY <1>1, <2>1 DEF Crash
  <2>2. CASE ~Crash(d)
    <3> DEFINE it == Item("close", {}, NoUser, Head(main[d]).here)
    <3>1. /\ main[d] # <<>> /\ Head(main[d]).kind = "ids" /\ Then(d, it)
          /\ UNCHANGED <<place, currentUser, replaced, asks>>
      BY <1>24, <2>2 DEF Ids, NextMain
    <3>2. it.kind = "close" /\ it.here = Head(main[d]).here /\ it \in MainItems
      BY <1>19, <3>1, MainLoads, MainTypes, Fields
    <3>3. Head(main[d]) \in Held
      BY <1>19, <3>1
    <3>4. it.here => place[d] = "newGroup"
      BY <3>1, <3>2, <3>3 DEF FormCalls
    <3> HIDE DEF it
    <3> QED BY <1>2, <1>19, <3>1, <3>2, <3>4
  <2> QED BY <2>1, <2>2
<1>25. CASE Close(d)
  <2>1. main[d] # <<>>
    BY <1>25 DEF Close, NextMain
  <2>2. CASE Head(main[d]).here
    <3>1. asks'[d] = Abandon(asks[d]) /\ main'[d] = Abandon(Tail(main[d]))
      BY <1>25, <2>2 DEF Close, FormGone, TypeInv
    <3> QED BY <1>0, <1>3, <1>19, <2>1, <3>1, AbandonAsks, AbandonMain
  <2>3. CASE ~Head(main[d]).here
    <3>1. MainDone(d) /\ UNCHANGED <<place, currentUser, replaced, asks>>
      BY <1>25, <2>3 DEF Close
    <3> QED BY <1>2, <1>19, <2>1, <3>1
  <2> QED BY <2>2, <2>3
<1> QED BY <1>5, <1>6, <1>7, <1>8, <1>9, <1>10, <1>11, <1>14, <1>15, <1>17, <1>18, <1>20, <1>22,
           <1>23, <1>24, <1>25 DEF DeviceStep, UserStep, WorkStep, MainStep

-----------------------------------------------------------------------------
(* Firebase's queue: what a step appends, and so what is written.          *)

Sending(d) == Item("putMessage", {chat[d]}, currentUser[d], TRUE)
Making(d)  == Item("putGroup", Head(main[d]).load \union {currentUser[d]}, Head(main[d]).by,
                   Head(main[d]).here /\ ~replaced[d])

\* What a step of the phone can do to Firebase's queue.
LEMMA WorkEffect ==
    ASSUME TypeInv, NEW d \in Devices, DeviceStep(d)
    PROVE  \/ work'[d] \in {work[d], <<>>}
           \/ work[d] # <<>> /\ work'[d] = Tail(work[d])
           \/ \E k \in {"observeGroups", "observeChat", "readGroups", "readMessages"} :
                  work'[d] = Append(work[d], Plain(k))
           \/ work'[d] = Append(WithoutChat(work[d]), Plain("observeGroups"))
           \/ draft[d] # "empty" /\ sendEnabled[d] /\ work'[d] = Append(work[d], Sending(d))
                 /\ place[d] = "chat" /\ currentUser[d] # NoUser
           \/ NextMain(d, "ids") /\ currentUser[d] # NoUser /\ work'[d] = Append(work[d], Making(d))
<1> USE DEF data, session, listing, rows, chatting, queues, TypeInv
<1>1. ASSUME NEW how, Die(d, how) PROVE work'[d] = <<>>
  BY <1>1 DEF Die
<1>2. CASE Kill(d)
  BY <1>1, <1>2 DEF Kill
<1>3. CASE \/ Launch(d) \/ Logout(d) \/ OtherTab(d) \/ NewGroupPressed(d) \/ EditMessage(d)
           \/ \E u \in Users : SignIn(d, u) \/ LateAnswer(d, u)
  BY <1>3 DEF Launch, Logout, OtherTab, NewGroupPressed, EditMessage, SignIn, LateAnswer
<1>4. CASE OpenGroups(d) \/ CloseForm(d) \/ \E g \in groupsArray[d] : SelectRow(d, g)
  BY <1>4 DEF OpenGroups, CloseForm, FormGone, GroupsDidAppear, Observe, SelectRow
<1>5. CASE CloseChat(d)
  BY <1>5 DEF CloseChat
<1>6. CASE SendPressed(d)
  <2>1. CASE currentUser[d] = NoUser
    BY <1>1, <1>6, <2>1 DEF SendPressed, Crash
  <2>2. CASE currentUser[d] # NoUser
    <3>1. work' = [work EXCEPT ![d] = Append(work[d], Sending(d))]
      BY <1>6, <2>2 DEF SendPressed, UploadPost, Sending
    <3>2. work'[d] = Append(work[d], Sending(d))
      BY <3>1
    <3> QED BY <1>6, <2>2, <3>2 DEF SendPressed
  <2> QED BY <2>1, <2>2
<1>7. CASE WorkStep(d)
  <2>1. work[d] # <<>> /\ WorkDone(d)
    BY <1>7 DEF WorkStep, AttachGroups, AttachChat, ReadGroups, ReadMessages, WriteGroup,
                WriteMessage, Write, NextWork
  <2> QED BY <2>1 DEF WorkDone
<1>8. CASE IdsArrive(d) \/ Receive(d) \/ \E chosen \in SUBSET Users : DonePressed(d, chosen)
  BY <1>8 DEF IdsArrive, Receive, DonePressed
<1>9. CASE GroupsEvent(d) \/ ChatEvent(d)
  BY <1>9 DEF GroupsEvent, ChatEvent
<1>10. CASE GroupsSnap(d)
  BY <1>1, <1>10 DEF GroupsSnap, Crash
<1>11. CASE GroupsAssign(d) \/ MessagesSnap(d) \/ MessagesAssign(d) \/ Sent(d)
  BY <1>11 DEF GroupsAssign, MessagesSnap, MessagesAssign, Sent
<1>12. CASE Ids(d)
  BY <1>1, <1>12 DEF Ids, Crash, Making
<1>13. CASE Close(d)
  BY <1>13 DEF Close, FormGone, GroupsDidAppear, Observe
<1> QED BY <1>2, <1>3, <1>4, <1>5, <1>6, <1>7, <1>8, <1>9, <1>10, <1>11, <1>12, <1>13
        DEF DeviceStep, UserStep, MainStep

\* Writes of groups on their way have their maker in them.
LEMMA MakerStep ==
    ASSUME TypeInv, NEW d \in Devices, FormCalls(d), MakerIn(d), DeviceStep(d), TypeInv'
    PROVE  MakerIn(d)'
<1>0. work[d] \in Seq(WorkItems) /\ main[d] \in Seq(MainItems) /\ work'[d] \in Seq(WorkItems)
  BY DEF TypeInv
<1>1. ASSUME \A it \in Elems(work'[d]) : it.kind # "putGroup" \/ it \in Elems(work[d])
      PROVE  MakerIn(d)'
  BY <1>1 DEF MakerIn
<1>2. CASE work'[d] \in {work[d], <<>>}
  <2>1. Elems(<<>>) = {}
    BY DEF Elems
  <2> QED BY <1>1, <1>2, <2>1
<1>3. CASE work[d] # <<>> /\ work'[d] = Tail(work[d])
  BY <1>0, <1>1, <1>3, TailQueue
<1>4. ASSUME NEW q \in Seq(WorkItems), Elems(q) \subseteq Elems(work[d]),
             NEW k \in {"observeGroups", "observeChat", "readGroups", "readMessages"},
             work'[d] = Append(q, Plain(k))
      PROVE  MakerIn(d)'
  <2>1. Elems(work'[d]) = Elems(q) \union {Plain(k)} /\ Plain(k).kind = k
    BY <1>4, WorkTypes, AppendQueue, Fields
  <2> QED BY <1>1, <1>4, <2>1
<1>5. CASE \E k \in {"observeGroups", "observeChat", "readGroups", "readMessages"} :
              work'[d] = Append(work[d], Plain(k))
  BY <1>0, <1>4, <1>5
<1>6. CASE work'[d] = Append(WithoutChat(work[d]), Plain("observeGroups"))
  <2>1. WithoutChat(work[d]) \in Seq(WorkItems) /\ Elems(WithoutChat(work[d])) \subseteq Elems(work[d])
    BY <1>0, WithoutChatQueue
  <2> QED BY <1>4, <1>6, <2>1
<1>7. ASSUME NEW it \in WorkItems, work'[d] = Append(work[d], it),
             it.kind = "putGroup" /\ it.here => it.by \in it.load
      PROVE  MakerIn(d)'
  <2>1. Elems(work'[d]) = Elems(work[d]) \union {it}
    BY <1>0, <1>7, AppendQueue
  <2> QED BY <1>7, <2>1 DEF MakerIn
<1>8. CASE currentUser[d] # NoUser /\ work'[d] = Append(work[d], Sending(d)) /\ place[d] = "chat"
  <2>1. Sending(d) \in Elems(work'[d])
    <3>1. DOMAIN work'[d] = 1..(Len(work[d]) + 1) /\ Len(work[d]) \in Nat
          /\ work'[d][Len(work[d]) + 1] = Sending(d)
      BY <1>0, <1>8
    <3> QED BY <3>1 DEF Elems
  <2>2. Sending(d) \in WorkItems
    BY <1>0, <2>1, Elements
  <2>3. Sending(d).kind = "putMessage"
    BY DEF Sending, Item
  <2> QED BY <1>7, <1>8, <2>2, <2>3
<1>9. CASE NextMain(d, "ids") /\ currentUser[d] # NoUser /\ work'[d] = Append(work[d], Making(d))
  <2> DEFINE old == Head(main[d])
  <2>1. old \in Elems(main[d]) /\ old.kind = "ids"
    BY <1>0, <1>9, Elements DEF NextMain
  <2>2. Making(d).here => old.here /\ ~replaced[d]
    BY DEF Making, Item
  <2>3. old.here /\ ~replaced[d] => old.by = currentUser[d]
    BY <2>1 DEF FormCalls
  <2>4. Making(d).by = old.by /\ Making(d).load = old.load \union {currentUser[d]}
    BY DEF Making, Item
  <2>5. Making(d).here => Making(d).by \in Making(d).load
    BY <2>2, <2>3, <2>4
  <2>6. Making(d) \in WorkItems
    <3>1. DOMAIN work'[d] = 1..(Len(work[d]) + 1) /\ Len(work[d]) \in Nat
          /\ work'[d][Len(work[d]) + 1] = Making(d)
      BY <1>0, <1>9
    <3>2. Making(d) \in Elems(work'[d])
      BY <3>1 DEF Elems
    <3> QED BY <1>0, <3>2, Elements
  <2> QED BY <1>7, <1>9, <2>5, <2>6
<1> QED BY <1>2, <1>3, <1>5, <1>6, <1>8, <1>9, WorkEffect

-----------------------------------------------------------------------------
(* What the screens settle on.                                             *)

\* As far as these kinds of items go, queue r is queue q.
Alike(q, r, kinds) == \A k \in kinds : /\ Has(r, k) <=> Has(q, k)
                                       /\ \A S : LastIn(q, k, S) => LastIn(r, k, S)

\* Queues that differ in other kinds of items alone are alike.
LEMMA AlikeQueues ==
    ASSUME NEW T, NEW q \in Seq(T), NEW kinds
    PROVE  /\ Alike(q, q, kinds)
           /\ \A it \in T : it.kind \notin kinds => Alike(q, Append(q, it), kinds)
           /\ \A p \in Seq(T) : (\A k \in kinds : ~Has(p, k)) => Alike(q, q \o p, kinds)
           /\ q # <<>> /\ Head(q).kind \notin kinds =>
                /\ Alike(q, Tail(q), kinds)
                /\ \A it \in T : it.kind \notin kinds => Alike(q, Append(Tail(q), it), kinds)
<1>1. Alike(q, q, kinds)
  BY DEF Alike
<1>2. ASSUME NEW r \in Seq(T), NEW it \in T, it.kind \notin kinds PROVE Alike(r, Append(r, it), kinds)
  BY <1>2, AppendQueue DEF Alike
<1>3. ASSUME NEW p \in Seq(T), \A k \in kinds : ~Has(p, k) PROVE Alike(q, q \o p, kinds)
  BY <1>3, ConcatQueue DEF Alike
<1>4. ASSUME q # <<>>, Head(q).kind \notin kinds
      PROVE  /\ Alike(q, Tail(q), kinds)
             /\ \A it \in T : it.kind \notin kinds => Alike(q, Append(Tail(q), it), kinds)
  <2>1. Tail(q) \in Seq(T) /\ Alike(q, Tail(q), kinds)
    BY <1>4, TailQueue DEF Alike
  <2>2. ASSUME NEW it \in T, it.kind \notin kinds PROVE Alike(q, Append(Tail(q), it), kinds)
    <3>1. Alike(Tail(q), Append(Tail(q), it), kinds)
      BY <1>2, <2>1, <2>2
    <3> QED BY <2>1, <3>1 DEF Alike
  <2> QED BY <2>1, <2>2
<1> QED BY <1>1, <1>2, <1>3, <1>4

ListWork == {"readGroups", "observeGroups"}
ListMain == {"groupsEvent", "groupsSnap", "groupsAssign"}
ChatWork == {"readMessages", "observeChat"}
ChatMain == {"chatEvent", "messagesSnap", "messagesAssign"}

\* Steps that neither read nor show anything.
Neutral(d) ==
    \/ Launch(d) \/ Logout(d) \/ OtherTab(d) \/ NewGroupPressed(d) \/ EditMessage(d)
    \/ \E u \in Users : SignIn(d, u) \/ LateAnswer(d, u)
    \/ \E chosen \in SUBSET Users : DonePressed(d, chosen)
    \/ SendPressed(d) /\ currentUser[d] # NoUser
    \/ Ids(d) /\ currentUser[d] # NoUser
    \/ Close(d) /\ ~Head(main[d]).here
    \/ Sent(d) \/ IdsArrive(d)

\* Steps that are neither about the list nor about the chat.
LEMMA NeutralSteps ==
    ASSUME TypeInv, TypeInv', NEW d \in Devices, Neutral(d)
    PROVE  /\ UNCHANGED <<loaded, listeners, shown, groupsArray, owner, chat, chatOn, messages>>
           /\ Alike(work[d], work'[d], ListWork \union ChatWork)
           /\ Alike(main[d], main'[d], ListMain \union ChatMain)
           /\ place'[d] \in {"groups", "chat"} =>
                /\ place'[d] = place[d] /\ (replaced[d] => replaced'[d])
                /\ currentUser'[d] = currentUser[d] \/ replaced'[d]
<1> USE DEF data, session, listing, rows, chatting, queues
<1>0. /\ work[d] \in Seq(WorkItems) /\ main[d] \in Seq(MainItems) /\ asks[d] \in Seq(AskItems)
      /\ Alike(work[d], work[d], ListWork \union ChatWork)
      /\ Alike(main[d], main[d], ListMain \union ChatMain)
  BY DEF TypeInv, Alike
<1>1. \A it \in WorkItems : it.kind \in {"putGroup", "putMessage"} =>
          Alike(work[d], Append(work[d], it), ListWork \union ChatWork)
  BY <1>0, AlikeQueues DEF ListWork, ChatWork
<1>2. CASE \/ Launch(d) \/ Logout(d) \/ OtherTab(d) \/ NewGroupPressed(d) \/ EditMessage(d)
           \/ \E u \in Users : SignIn(d, u) \/ LateAnswer(d, u)
           \/ \E chosen \in SUBSET Users : DonePressed(d, chosen)
  <2>1. /\ UNCHANGED <<loaded, listeners, shown, groupsArray, owner, chat, chatOn, messages, work, main>>
        /\ place'[d] \in {"groups", "chat"} =>
             /\ place'[d] = place[d] /\ (replaced[d] => replaced'[d])
             /\ currentUser'[d] = currentUser[d] \/ replaced'[d]
    BY <1>2 DEF Launch, Logout, OtherTab, NewGroupPressed, EditMessage, SignIn, LateAnswer,
                DonePressed, TypeInv
  <2> QED BY <1>0, <2>1
<1>3. CASE SendPressed(d) /\ currentUser[d] # NoUser
  <2>1. /\ UNCHANGED <<data, session, place, listing, rows, chat, chatOn, messages>>
        /\ work'[d] = Append(work[d], Sending(d)) /\ main'[d] = Append(main[d], Plain("sent"))
        /\ work'[d] \in Seq(WorkItems)
    <3>1. /\ work' = [work EXCEPT ![d] = Append(work[d], Sending(d))]
          /\ main' = [main EXCEPT ![d] = Append(main[d], Plain("sent"))]
      BY <1>3 DEF SendPressed, UploadPost, Sending
    <3>2. work'[d] = Append(work[d], Sending(d)) /\ main'[d] = Append(main[d], Plain("sent"))
      BY <3>1 DEF TypeInv
    <3> QED BY <1>3, <3>2 DEF SendPressed, TypeInv
  <2>2. Sending(d) \in WorkItems /\ Sending(d).kind = "putMessage"
    <3>1. work'[d][Len(work[d]) + 1] = Sending(d) /\ Len(work[d]) + 1 \in DOMAIN work'[d]
      BY <1>0, <2>1
    <3>2. Sending(d) \in WorkItems
      BY <2>1, <3>1
    <3> QED BY <3>2 DEF Sending, Item
  <2>3. Alike(main[d], main'[d], ListMain \union ChatMain)
    <3>1. Plain("sent") \in MainItems /\ Plain("sent").kind \notin ListMain \union ChatMain
      BY MainTypes, Fields DEF ListMain, ChatMain
    <3> QED BY <1>0, <2>1, <3>1, AlikeQueues
  <2> QED BY <1>1, <2>1, <2>2, <2>3
<1>4. ASSUME NextMain(d, "ids") \/ NextMain(d, "close") \/ NextMain(d, "sent")
      PROVE  /\ Alike(main[d], Tail(main[d]), ListMain \union ChatMain)
             /\ \A it \in MainItems : it.kind = "close" =>
                    Alike(main[d], Append(Tail(main[d]), it), ListMain \union ChatMain)
             /\ Head(main[d]) \in MainItems
  <2>1. main[d] # <<>> /\ Head(main[d]).kind \notin ListMain \union ChatMain
    BY <1>4 DEF NextMain, ListMain, ChatMain
  <2>2. Head(main[d]) \in MainItems
    BY <1>0, <2>1, Elements
  <2> QED BY <1>0, <2>1, <2>2, AlikeQueues DEF ListMain, ChatMain
<1>5. CASE Ids(d) /\ currentUser[d] # NoUser
  <2> DEFINE it == Item("close", {}, NoUser, Head(main[d]).here)
  <2>1. /\ UNCHANGED <<data, session, place, listing, rows, chatting>>
        /\ work'[d] = Append(work[d], Making(d)) /\ main'[d] = Append(Tail(main[d]), it)
        /\ work'[d] \in Seq(WorkItems) /\ NextMain(d, "ids")
    BY <1>5 DEF Ids, Making, Then, TypeInv
  <2>2. Making(d) \in WorkItems /\ Making(d).kind = "putGroup"
    <3>1. work'[d][Len(work[d]) + 1] = Making(d) /\ Len(work[d]) + 1 \in DOMAIN work'[d]
      BY <1>0, <2>1
    <3>2. Making(d) \in WorkItems
      BY <2>1, <3>1
    <3> QED BY <3>2 DEF Making, Item
  <2>3. it \in MainItems
    BY <1>4, <2>1, MainLoads, MainTypes
  <2>4. it.kind = "close"
    BY DEF Item
  <2> HIDE DEF it
  <2>5. Alike(main[d], main'[d], ListMain \union ChatMain)
    BY <1>4, <2>1, <2>3, <2>4
  <2> QED BY <1>1, <2>1, <2>2, <2>5
<1>6. CASE (Close(d) /\ ~Head(main[d]).here) \/ Sent(d)
  <2>1. /\ UNCHANGED <<data, session, place, listing, rows, chat, chatOn, messages, work>>
        /\ main'[d] = Tail(main[d]) /\ (NextMain(d, "close") \/ NextMain(d, "sent"))
    BY <1>6 DEF Close, Sent, MainDone, TypeInv
  <2> QED BY <1>0, <1>4, <2>1
<1>7. CASE IdsArrive(d)
  <2> DEFINE it == Head(asks[d])
  <2>1. /\ UNCHANGED <<data, session, place, listing, rows, chatting, work>>
        /\ main'[d] = main[d] \o <<it>> /\ asks[d] # <<>>
    BY <1>7 DEF IdsArrive, Tell, TypeInv
  <2>2. it \in MainItems /\ it.kind = "ids"
    BY <1>0, <2>1, Elements, AskTypes
  <2> HIDE DEF it
  <2>3. <<it>> \in Seq(MainItems) /\ \A k \in ListMain \union ChatMain : ~Has(<<it>>, k)
    BY <2>2 DEF Has, ListMain, ChatMain
  <2>4. Alike(main[d], main'[d], ListMain \union ChatMain)
    BY <1>0, <2>1, <2>3, AlikeQueues
  <2> QED BY <1>0, <2>1, <2>4
<1> QED BY <1>2, <1>3, <1>5, <1>6, <1>7 DEF Neutral

\* Every other step.
LEMMA OtherSteps ==
    ASSUME NEW d \in Devices, DeviceStep(d)
    PROVE  \/ Neutral(d)
           \/ \E how \in {"off", "crashed"} : Die(d, how)
           \/ OpenGroups(d) \/ CloseForm(d) \/ CloseChat(d) \/ (Close(d) /\ Head(main[d]).here)
           \/ \E g \in groupsArray[d] : SelectRow(d, g)
           \/ AttachGroups(d) \/ AttachChat(d) \/ ReadGroups(d) \/ ReadMessages(d)
           \/ WriteGroup(d) \/ WriteMessage(d) \/ Receive(d)
           \/ GroupsEvent(d) \/ ChatEvent(d) \/ MessagesSnap(d) \/ MessagesAssign(d)
           \/ (GroupsSnap(d) /\ ~Crash(d)) \/ GroupsAssign(d)
<1>1. CASE Kill(d) \/ (GroupsSnap(d) /\ Crash(d))
  BY <1>1 DEF Kill, Crash
<1>2. CASE SendPressed(d) \/ Ids(d)
  BY <1>2 DEF SendPressed, Ids, Crash, Neutral
<1>3. CASE \E chosen \in SUBSET (Users \ {currentUser[d]}) : DonePressed(d, chosen)
  BY <1>3 DEF Neutral
<1>4. CASE \/ Launch(d) \/ Logout(d) \/ OtherTab(d) \/ NewGroupPressed(d) \/ EditMessage(d)
           \/ Sent(d) \/ IdsArrive(d) \/ \E u \in Users : SignIn(d, u) \/ LateAnswer(d, u)
  BY <1>4 DEF Neutral
<1>5. CASE Close(d)
  BY <1>5 DEF Neutral
<1>6. CASE UserStep(d)
  <2>1. CASE \E u \in Users : SignIn(d, u)
    BY <2>1 DEF Neutral
  <2>2. CASE \/ OpenGroups(d) \/ CloseForm(d) \/ CloseChat(d)
             \/ \E g \in groupsArray[d] : SelectRow(d, g)
    BY <2>2
  <2>3. CASE Logout(d) \/ OtherTab(d) \/ NewGroupPressed(d) \/ EditMessage(d)
    BY <2>3 DEF Neutral
  <2> QED BY <1>2, <1>3, <1>6, <2>1, <2>2, <2>3 DEF UserStep
<1>7. CASE WorkStep(d)
  BY <1>7 DEF WorkStep
<1>8. CASE MainStep(d)
  BY <1>1, <1>2, <1>4, <1>5, <1>8 DEF MainStep
<1> QED BY <1>1, <1>4, <1>6, <1>7, <1>8 DEF DeviceStep

\* What is alike for several kinds is so for some of them.
LEMMA AlikeParts ==
    ASSUME NEW q, NEW r, NEW J, NEW K, Alike(q, r, J \union K)
    PROVE  Alike(q, r, J) /\ Alike(q, r, K)
BY DEF Alike

\* A step of one device on its own queues.
LEMMA QueueSteps ==
    ASSUME TypeInv, NEW d \in Devices
    PROVE  /\ \A k : NextWork(d, k) /\ WorkDone(d) =>
                /\ work[d] # <<>> /\ Head(work[d]).kind = k /\ work'[d] = Tail(work[d])
                /\ \A K : k \notin K => Alike(work[d], work'[d], K)
           /\ \A k : NextMain(d, k) =>
                /\ main[d] # <<>> /\ Head(main[d]).kind = k /\ Head(main[d]) \in MainItems
                /\ MainDone(d) => main'[d] = Tail(main[d])
                /\ \A K : MainDone(d) /\ k \notin K => Alike(main[d], main'[d], K)
                /\ \A it \in MainItems : Then(d, it) => main'[d] = Append(Tail(main[d]), it)
                /\ \A it \in MainItems : \A K : Then(d, it) /\ k \notin K /\ it.kind \notin K =>
                       Alike(main[d], main'[d], K)
           /\ \A p \in Seq(MainItems) : Tell(d, p) =>
                /\ main'[d] = main[d] \o p
                /\ \A k : Has(main'[d], k) <=> Has(main[d], k) \/ Has(p, k)
                /\ \A K : (\A k \in K : ~Has(p, k)) => Alike(main[d], main'[d], K)
<1>0. work[d] \in Seq(WorkItems) /\ main[d] \in Seq(MainItems)
  BY DEF TypeInv
<1>1. ASSUME NEW k, NextWork(d, k), WorkDone(d)
      PROVE  /\ work[d] # <<>> /\ Head(work[d]).kind = k /\ work'[d] = Tail(work[d])
             /\ \A K : k \notin K => Alike(work[d], work'[d], K)
  <2>1. work[d] # <<>> /\ Head(work[d]).kind = k /\ work'[d] = Tail(work[d])
    BY <1>1 DEF NextWork, WorkDone, TypeInv
  <2> QED BY <1>0, <2>1, AlikeQueues
<1>2. ASSUME NEW k, NextMain(d, k)
      PROVE  /\ main[d] # <<>> /\ Head(main[d]).kind = k /\ Head(main[d]) \in MainItems
             /\ MainDone(d) => main'[d] = Tail(main[d])
             /\ \A K : MainDone(d) /\ k \notin K => Alike(main[d], main'[d], K)
             /\ \A it \in MainItems : Then(d, it) => main'[d] = Append(Tail(main[d]), it)
             /\ \A it \in MainItems : \A K : Then(d, it) /\ k \notin K /\ it.kind \notin K =>
                    Alike(main[d], main'[d], K)
  <2>1. main[d] # <<>> /\ Head(main[d]).kind = k
    BY <1>2 DEF NextMain
  <2>2. Head(main[d]) \in MainItems
    BY <1>0, <2>1, Elements
  <2>3. MainDone(d) => main'[d] = Tail(main[d])
    BY DEF MainDone, TypeInv
  <2>4. \A it \in MainItems : Then(d, it) => main'[d] = Append(Tail(main[d]), it)
    BY DEF Then, TypeInv
  <2>5. \A K : k \notin K => Alike(main[d], Tail(main[d]), K)
    BY <1>0, <2>1, AlikeQueues
  <2>6. \A it \in MainItems : \A K : k \notin K /\ it.kind \notin K =>
            Alike(main[d], Append(Tail(main[d]), it), K)
    BY <1>0, <2>1, AlikeQueues
  <2> QED BY <2>1, <2>2, <2>3, <2>4, <2>5, <2>6
<1>3. ASSUME NEW p \in Seq(MainItems), Tell(d, p)
      PROVE  /\ main'[d] = main[d] \o p
             /\ \A k : Has(main'[d], k) <=> Has(main[d], k) \/ Has(p, k)
             /\ \A K : (\A k \in K : ~Has(p, k)) => Alike(main[d], main'[d], K)
  <2>1. main'[d] = main[d] \o p
    BY <1>3 DEF Tell, TypeInv
  <2> QED BY <1>0, <2>1, AlikeQueues, ConcatQueue
<1> QED BY <1>1, <1>2, <1>3

\* A screen that comes up reads the list.
LEMMA Appears ==
    ASSUME TypeInv, NEW d \in Devices,
           OpenGroups(d) \/ CloseForm(d) \/ CloseChat(d) \/ (Close(d) /\ Head(main[d]).here)
    PROVE  /\ Has(work'[d], "observeGroups") /\ place'[d] = "groups"
           /\ UNCHANGED <<loaded, listeners>>
<1> USE DEF data, session, listing, rows, chatting, queues
<1>1. /\ UNCHANGED <<loaded, listeners>> /\ place'[d] = "groups"
      /\ work'[d] \in {Append(work[d], Plain("observeGroups")),
                       Append(WithoutChat(work[d]), Plain("observeGroups"))}
  BY DEF OpenGroups, CloseForm, CloseChat, Close, FormGone, GroupsDidAppear, Observe, TypeInv
<1>2. work[d] \in Seq(WorkItems) /\ WithoutChat(work[d]) \in Seq(WorkItems)
  BY WithoutChatQueue DEF TypeInv
<1>3. Plain("observeGroups") \in WorkItems /\ Plain("observeGroups").kind = "observeGroups"
  BY WorkTypes, Fields
<1>4. \A q \in Seq(WorkItems) : Has(Append(q, Plain("observeGroups")), "observeGroups")
  BY <1>3, AppendQueue
<1> QED BY <1>1, <1>2, <1>4

\* A local write is announced to every listener there is.
LEMMA Announced ==
    ASSUME TypeInv, NEW d \in Devices,
           (\E w : Write(d, w)) \/ Receive(d)
    PROVE  /\ loaded'[d] /\ listeners[d] > 0 => Has(main'[d], "groupsEvent")
           /\ loaded'[d] /\ chatOn[d] => Has(main'[d], "chatEvent")
           /\ UNCHANGED <<place, listeners, chatOn>>
<1> USE DEF listing, chatting
<1>1. Calls(d) \in Seq(MainItems) /\ <<>> \in Seq(MainItems)
  BY CallsQueue DEF TypeInv
<1>2. \A k : Has(Calls(d), k) <=> \/ k = "groupsEvent" /\ listeners[d] > 0
                                  \/ k = "chatEvent" /\ chatOn[d]
  BY CallsQueue DEF TypeInv
<1>3. /\ loaded'[d] => Tell(d, Calls(d))
      /\ UNCHANGED <<place, listeners, chatOn>>
  BY DEF Write, Receive
<1> QED BY <1>1, <1>2, <1>3, QueueSteps

\* The list of groups: what it shows or what is coming, and for whom.
LEMMA ListStep ==
    ASSUME TypeInv, TypeInv', NEW d \in Devices, ListContent(d), ListOwner(d), DeviceStep(d)
    PROVE  ListContent(d)' /\ ListOwner(d)'
<1> USE DEF data, session, listing, rows, chatting, queues
<1>0. work[d] \in Seq(WorkItems) /\ main[d] \in Seq(MainItems)
  BY DEF TypeInv
<1>1. ASSUME ~loaded'[d] PROVE ListContent(d)' /\ ListOwner(d)'
  BY <1>1 DEF ListContent, ListOwner
<1>2. ASSUME ListComing(d)', loaded'[d] => listeners'[d] > 0
      PROVE  ListContent(d)' /\ ListOwner(d)'
  BY <1>2 DEF ListContent, ListOwner
<1>3. ASSUME UNCHANGED <<loaded[d], listeners[d], shown[d], groupsArray[d], owner[d]>>,
             Alike(work[d], work'[d], ListWork), Alike(main[d], main'[d], ListMain),
             place'[d] = "groups" => /\ place[d] = "groups" /\ (replaced[d] => replaced'[d])
                                     /\ currentUser'[d] = currentUser[d] \/ replaced'[d]
      PROVE  ListContent(d)' /\ ListOwner(d)'
  <2>1. ListComing(d)' = ListComing(d)
    BY <1>3 DEF ListComing, Alike, ListWork, ListMain
  <2>2. /\ Has(main'[d], "groupsSnap") <=> Has(main[d], "groupsSnap")
        /\ Has(main'[d], "groupsAssign") <=> Has(main[d], "groupsAssign")
        /\ \A S : LastIn(main[d], "groupsSnap", S) => LastIn(main'[d], "groupsSnap", S)
        /\ \A S : LastIn(main[d], "groupsAssign", S) => LastIn(main'[d], "groupsAssign", S)
    BY <1>3 DEF Alike, ListMain
  <2>3. GoodSnaps(d)' = GoodSnaps(d) /\ GoodRows(d)' = GoodRows(d)
    BY <1>3 DEF GoodSnaps, GoodRows
  <2>4. ListContent(d)'
    BY <1>3, <2>1, <2>2, <2>3 DEF ListContent
  <2>5. ListOwner(d)'
    <3>1. CASE loaded'[d] /\ place'[d] = "groups" /\ ~replaced'[d]
      <4>1. OwnRows(d)' = OwnRows(d) /\ currentUser'[d] = currentUser[d] /\ ~replaced[d]
        BY <1>3, <3>1 DEF OwnRows
      <4> QED BY <1>3, <2>1, <2>2, <3>1, <4>1 DEF ListOwner
    <3> QED BY <3>1 DEF ListOwner
  <2> QED BY <2>4, <2>5
<1>4. CASE Neutral(d)
  <2>1. UNCHANGED <<loaded[d], listeners[d], shown[d], groupsArray[d], owner[d]>>
    BY <1>4, NeutralSteps
  <2>2. Alike(work[d], work'[d], ListWork) /\ Alike(main[d], main'[d], ListMain)
    BY <1>4, NeutralSteps, AlikeParts
  <2>3. place'[d] = "groups" => /\ place[d] = "groups" /\ (replaced[d] => replaced'[d])
                                /\ currentUser'[d] = currentUser[d] \/ replaced'[d]
    BY <1>4, NeutralSteps
  <2> QED BY <1>3, <2>1, <2>2, <2>3
<1>5. ASSUME NEW how, Die(d, how) PROVE ~loaded'[d]
  BY <1>5 DEF Die, TypeInv
<1>6. CASE OpenGroups(d) \/ CloseForm(d) \/ CloseChat(d) \/ (Close(d) /\ Head(main[d]).here)
  <2>1. ListComing(d)' /\ (loaded'[d] => listeners'[d] > 0)
    BY <1>6, Appears DEF ListComing, ListContent
  <2> QED BY <1>2, <2>1
<1>7. ASSUME UNCHANGED <<loaded, listeners, shown, groupsArray, owner, place, currentUser, replaced>>,
             Alike(work[d], work'[d], ListWork), Alike(main[d], main'[d], ListMain)
      PROVE  ListContent(d)' /\ ListOwner(d)'
  BY <1>3, <1>7
<1>8. Alike(work[d], work[d], ListWork) /\ Alike(main[d], main[d], ListMain)
  BY DEF Alike
<1>9. CASE \E g \in groupsArray[d] : SelectRow(d, g)
  <2>1. /\ UNCHANGED <<loaded, listeners, shown, groupsArray, owner, main>> /\ place'[d] = "chat"
        /\ work'[d] = Append(work[d], Plain("observeChat"))
    BY <1>9 DEF SelectRow, TypeInv
  <2>2. Plain("observeChat") \in WorkItems /\ Plain("observeChat").kind \notin ListWork
    BY WorkTypes, Fields DEF ListWork
  <2>3. Alike(work[d], work'[d], ListWork)
    BY <1>0, <2>1, <2>2, AlikeQueues
  <2> QED BY <1>3, <1>8, <2>1, <2>3
<1>10. CASE AttachGroups(d)
  <2>1. CASE loaded[d]
    <3>1. Tell(d, <<Plain("groupsEvent")>>) /\ loaded' = loaded /\ listeners'[d] = listeners[d] + 1
      BY <1>10, <2>1 DEF AttachGroups, TypeInv
    <3>2. <<Plain("groupsEvent")>> \in Seq(MainItems) /\ Has(<<Plain("groupsEvent")>>, "groupsEvent")
      <4>1. Plain("groupsEvent") \in MainItems /\ Plain("groupsEvent").kind = "groupsEvent"
        BY MainTypes, Fields
      <4> QED BY <4>1 DEF Has
    <3>3. ListComing(d)'
      BY <3>1, <3>2, QueueSteps DEF ListComing
    <3>4. listeners'[d] > 0
      BY <3>1 DEF TypeInv
    <3> QED BY <1>2, <3>3, <3>4
  <2>2. CASE ~loaded[d]
    BY <1>1, <1>10, <2>2 DEF AttachGroups
  <2> QED BY <2>1, <2>2
<1>11. ASSUME NEW p \in Seq(MainItems), Tell(d, p), \A k \in ListMain : ~Has(p, k),
              NEW k \in ChatWork, NextWork(d, k), WorkDone(d),
              UNCHANGED <<loaded, listeners, shown, groupsArray, owner, place, currentUser, replaced>>
       PROVE  ListContent(d)' /\ ListOwner(d)'
  <2>1. Alike(main[d], main'[d], ListMain)
    BY <1>11, QueueSteps
  <2>2. Alike(work[d], work'[d], ListWork)
    <3>1. k \notin ListWork
      BY DEF ListWork, ChatWork
    <3> QED BY <1>11, <3>1, QueueSteps
  <2> QED BY <1>7, <1>11, <2>1, <2>2
<1>12. CASE AttachChat(d)
  <2>1. PICK p \in {<<Plain("chatEvent")>>, <<>>} : Tell(d, p)
    BY <1>12 DEF AttachChat
  <2>2. p \in Seq(MainItems) /\ \A k \in ListMain : ~Has(p, k)
    <3>1. Plain("chatEvent") \in MainItems /\ Plain("chatEvent").kind = "chatEvent"
      BY MainTypes, Fields
    <3>2. CASE p = <<Plain("chatEvent")>>
      BY <3>1, <3>2 DEF Has, ListMain
    <3>3. CASE p = <<>>
      BY <3>3 DEF Has
    <3> QED BY <3>2, <3>3
  <2>3. "observeChat" \in ChatWork
    BY DEF ChatWork
  <2> QED BY <1>11, <1>12, <2>1, <2>2, <2>3 DEF AttachChat
<1>13. CASE ReadMessages(d)
  <2> DEFINE it == Item("messagesSnap", MessagesOf(chat[d], shown[d]), NoUser, TRUE)
  <2>1. it \in MainItems
    BY MainTypes DEF MessagesOf
  <2>2. it.kind = "messagesSnap"
    BY DEF Item
  <2>3. Tell(d, <<it>>)
    BY <1>13 DEF ReadMessages
  <2> HIDE DEF it
  <2>4. <<it>> \in Seq(MainItems) /\ \A k \in ListMain : ~Has(<<it>>, k)
    BY <2>1, <2>2 DEF Has, ListMain
  <2>5. "readMessages" \in ChatWork
    BY DEF ChatWork
  <2> QED BY <1>11, <1>13, <2>3, <2>4, <2>5 DEF ReadMessages
<1>14. CASE ReadGroups(d)
  <2> DEFINE it == Item("groupsSnap", Grps(shown[d]), NoUser, TRUE)
  <2>1. it \in MainItems
    BY MainTypes DEF Grps
  <2>2. it.kind = "groupsSnap" /\ it.load = Grps(shown[d])
    BY DEF Item
  <2>3. /\ main'[d] = main[d] \o <<it>>
        /\ UNCHANGED <<loaded, listeners, shown, place, replaced>>
    BY <1>14 DEF ReadGroups, Tell, TypeInv
  <2> HIDE DEF it
  <2>4. main'[d] = Append(main[d], it)
    BY <1>0, <2>1, <2>3
  <2>5. it \in GoodSnaps(d)'
    BY <2>1, <2>2, <2>3 DEF GoodSnaps
  <2>6. LastIn(main'[d], "groupsSnap", GoodSnaps(d)') /\ Has(main'[d], "groupsSnap")
    BY <1>0, <2>1, <2>2, <2>4, <2>5, AppendQueue
  <2>7. ListContent(d)'
    BY <2>3, <2>6 DEF ListContent
  <2>8. ListOwner(d)'
    BY <2>6 DEF ListOwner
  <2> QED BY <2>7, <2>8
<1>15. CASE WriteGroup(d) \/ WriteMessage(d) \/ Receive(d)
  <2>1. loaded'[d] => listeners'[d] > 0
    BY <1>15, Announced DEF WriteGroup, WriteMessage, Write, Receive, ListContent
  <2>2. CASE loaded'[d]
    <3>1. Has(main'[d], "groupsEvent")
      BY <1>15, <2>1, <2>2, Announced DEF WriteGroup, WriteMessage
    <3> QED BY <1>2, <2>1, <3>1 DEF ListComing
  <2> QED BY <1>1, <2>2
<1>16. CASE GroupsEvent(d)
  <2>1. work'[d] = Append(work[d], Plain("readGroups")) /\ UNCHANGED <<loaded, listeners>>
    BY <1>16 DEF GroupsEvent, TypeInv
  <2>2. Has(work'[d], "readGroups")
    <3>1. Plain("readGroups") \in WorkItems /\ Plain("readGroups").kind = "readGroups"
      BY WorkTypes, Fields
    <3> QED BY <1>0, <2>1, <3>1, AppendQueue
  <2>3. loaded'[d] => listeners'[d] > 0
    BY <2>1 DEF ListContent
  <2> QED BY <1>2, <2>2, <2>3 DEF ListComing
<1>17. ASSUME NEW k \in ChatMain, NextMain(d, k),
              MainDone(d) \/ \E it \in MainItems : it.kind \notin ListMain /\ Then(d, it)
       PROVE  Alike(main[d], main'[d], ListMain)
  <2>1. k \notin ListMain
    BY DEF ListMain, ChatMain
  <2> QED BY <1>17, <2>1, QueueSteps
<1>18. CASE ChatEvent(d)
  <2>1. /\ work'[d] = Append(work[d], Plain("readMessages")) /\ MainDone(d) /\ NextMain(d, "chatEvent")
        /\ UNCHANGED <<loaded, listeners, shown, groupsArray, owner, place, currentUser, replaced>>
    BY <1>18 DEF ChatEvent, TypeInv
  <2>2. Alike(work[d], work'[d], ListWork)
    <3>1. Plain("readMessages") \in WorkItems /\ Plain("readMessages").kind \notin ListWork
      BY WorkTypes, Fields DEF ListWork
    <3> QED BY <1>0, <2>1, <3>1, AlikeQueues
  <2>3. Alike(main[d], main'[d], ListMain)
    BY <1>17, <2>1 DEF ChatMain
  <2> QED BY <1>7, <2>1, <2>2, <2>3
<1>19. CASE MessagesAssign(d)
  <2>1. Alike(main[d], main'[d], ListMain)
    BY <1>17, <1>19 DEF ChatMain, MessagesAssign
  <2> QED BY <1>7, <1>8, <1>19, <2>1 DEF MessagesAssign
<1>20. CASE MessagesSnap(d)
  <2> DEFINE it == Item("messagesAssign", Head(main[d]).load, NoUser, TRUE)
  <2>1. NextMain(d, "messagesSnap") /\ Then(d, it)
    BY <1>20 DEF MessagesSnap
  <2>2. Head(main[d]).load \subseteq MessageNodes
    BY <2>1, QueueSteps, MainLoads
  <2>3. it \in MainItems
    BY <2>2, MainTypes
  <2>4. it.kind = "messagesAssign"
    BY DEF Item
  <2> HIDE DEF it
  <2>5. Alike(main[d], main'[d], ListMain)
    BY <1>17, <2>1, <2>3, <2>4 DEF ChatMain, ListMain
  <2> QED BY <1>7, <1>8, <1>20, <2>5 DEF MessagesSnap
\* The answer becomes rows for the user of now: if it was the last one, the
\* rows are the last ones.
<1>21. CASE GroupsSnap(d) /\ ~Crash(d)
  <2> DEFINE old == Head(main[d])
             mine == {g \in old.load : currentUser[d] \in g.members}
             it == Item("groupsAssign", mine, currentUser[d], TRUE)
  <2>1. /\ NextMain(d, "groupsSnap") /\ Then(d, it)
        /\ UNCHANGED <<loaded, listeners, shown, groupsArray, owner, place, currentUser, replaced, work>>
    BY <1>21 DEF GroupsSnap
  <2>2. old \in MainItems /\ old.kind = "groupsSnap" /\ main[d] # <<>>
    BY <2>1, QueueSteps
  <2>3. it \in MainItems
    <3>1. old.load \subseteq GroupNodes
      BY <2>2, MainLoads
    <3> QED BY <3>1, MainTypes DEF TypeInv
  <2>4. it.kind = "groupsAssign" /\ it.load = mine /\ it.by = currentUser[d]
    BY DEF Item
  <2> HIDE DEF it
  <2>5. main'[d] = Append(Tail(main[d]), it)
    BY <2>1, <2>3, QueueSteps
  <2> DEFINE tl == Tail(main[d])
  <2>6. /\ tl \in Seq(MainItems)
        /\ \A k : Has(main[d], k) <=> "groupsSnap" = k \/ Has(tl, k)
        /\ \A S : LastIn(main[d], "groupsSnap", S) =>
               LastIn(tl, "groupsSnap", S) /\ (Has(tl, "groupsSnap") \/ old \in S)
    BY <1>0, <2>2, TailQueue
  <2>7. /\ \A k : Has(main'[d], k) <=> Has(tl, k) \/ k = "groupsAssign"
        /\ \A S : LastIn(tl, "groupsSnap", S) => LastIn(main'[d], "groupsSnap", S)
        /\ \A S : it \in S => LastIn(main'[d], "groupsAssign", S)
    <3> HIDE DEF tl, mine
    <3>1. /\ \A k : Has(Append(tl, it), k) <=> Has(tl, k) \/ it.kind = k
          /\ \A k, S : LastIn(tl, k, S) /\ it.kind # k => LastIn(Append(tl, it), k, S)
          /\ \A k, S : it \in S /\ it.kind = k => LastIn(Append(tl, it), k, S)
      BY <2>3, <2>6, AppendQueue
    <3>2. main'[d] = Append(tl, it)
      BY <2>5 DEF tl
    <3> QED BY <2>4, <3>1, <3>2
  <2> HIDE DEF tl, mine
  <2>8. it \in OwnRows(d)'
    BY <2>1, <2>3, <2>4 DEF OwnRows
  <2>9. ListOwner(d)'
    BY <2>7, <2>8 DEF ListOwner
  <2>10. GoodSnaps(d)' = GoodSnaps(d) /\ GoodRows(d)' = GoodRows(d)
    BY <2>1 DEF GoodSnaps, GoodRows
  <2>11. ListComing(d) => ListComing(d)'
    BY <2>1, <2>6, <2>7 DEF ListComing
  <2>12. old \in GoodSnaps(d) => it \in GoodRows(d)
    BY <2>3, <2>4 DEF GoodSnaps, GoodRows, RowsOf, mine
  <2>13. ListContent(d)'
    BY <2>1, <2>6, <2>7, <2>10, <2>11, <2>12 DEF ListContent
  <2> QED BY <2>9, <2>13
\* The rows go on screen: if they were the last ones, the screen is right.
<1>22. CASE GroupsAssign(d)
  <2> DEFINE old == Head(main[d])
             tl == Tail(main[d])
  <2>1. /\ NextMain(d, "groupsAssign") /\ main'[d] = tl
        /\ groupsArray'[d] = old.load /\ owner'[d] = old.by
        /\ UNCHANGED <<loaded, listeners, shown, place, currentUser, replaced, work>>
    BY <1>22 DEF GroupsAssign, MainDone, TypeInv
  <2>2. old \in MainItems /\ old.kind = "groupsAssign" /\ main[d] # <<>>
    BY <2>1, QueueSteps
  <2>3. /\ \A k : Has(main[d], k) <=> "groupsAssign" = k \/ Has(tl, k)
        /\ \A k, S : LastIn(main[d], k, S) => LastIn(tl, k, S)
        /\ \A S : LastIn(main[d], "groupsAssign", S) => (Has(tl, "groupsAssign") \/ old \in S)
    BY <1>0, <2>2, TailQueue
  <2> HIDE DEF tl, old
  <2>4. GoodSnaps(d)' = GoodSnaps(d) /\ GoodRows(d)' = GoodRows(d) /\ OwnRows(d)' = OwnRows(d)
    BY <2>1 DEF GoodSnaps, GoodRows, OwnRows
  <2>5. ListComing(d) <=> ListComing(d)'
    BY <2>1, <2>3 DEF ListComing
  <2>6. old \in GoodRows(d) => groupsArray'[d] = RowsOf(owner'[d], shown'[d])
    BY <2>1 DEF GoodRows
  <2>7. old \in OwnRows(d) => owner'[d] = currentUser[d]
    BY <2>1 DEF OwnRows
  <2>8. ListContent(d)'
    BY <2>1, <2>3, <2>4, <2>5, <2>6 DEF ListContent
  <2>9. ListOwner(d)'
    BY <2>1, <2>3, <2>4, <2>5, <2>7 DEF ListOwner
  <2> QED BY <2>8, <2>9
<1> QED BY <1>1, <1>4, <1>5, <1>6, <1>9, <1>10, <1>12, <1>13, <1>14, <1>15, <1>16, <1>18, <1>19,
           <1>20, <1>21, <1>22, OtherSteps

\* The chat's messages: what they are or what is coming.
LEMMA ChatStep ==
    ASSUME TypeInv, TypeInv', NEW d \in Devices, FormCalls(d), ChatContent(d), DeviceStep(d)
    PROVE  ChatContent(d)'
<1> USE DEF data, session, listing, rows, chatting, queues
<1>0. work[d] \in Seq(WorkItems) /\ main[d] \in Seq(MainItems)
  BY DEF TypeInv
<1>1. ASSUME place'[d] # "chat" PROVE ChatContent(d)'
  BY <1>1 DEF ChatContent
<1>2. ASSUME loaded'[d] => ChatComing(d)', chatOn'[d] \/ Has(work'[d], "observeChat")
      PROVE  ChatContent(d)'
  BY <1>2 DEF ChatContent
<1>3. ASSUME UNCHANGED <<loaded[d], shown[d], chat[d], chatOn[d], messages[d]>>,
             Alike(work[d], work'[d], ChatWork), Alike(main[d], main'[d], ChatMain),
             place'[d] = "chat" => place[d] = "chat"
      PROVE  ChatContent(d)'
  <2>1. /\ ChatComing(d)' = ChatComing(d)
        /\ Has(work'[d], "observeChat") <=> Has(work[d], "observeChat")
    BY <1>3 DEF ChatComing, Alike, ChatWork, ChatMain
  <2>2. /\ Has(main'[d], "messagesSnap") <=> Has(main[d], "messagesSnap")
        /\ Has(main'[d], "messagesAssign") <=> Has(main[d], "messagesAssign")
        /\ \A S : LastIn(main[d], "messagesSnap", S) => LastIn(main'[d], "messagesSnap", S)
        /\ \A S : LastIn(main[d], "messagesAssign", S) => LastIn(main'[d], "messagesAssign", S)
    BY <1>3 DEF Alike, ChatMain
  <2>3. GoodMessages(d)' = GoodMessages(d)
    BY <1>3 DEF GoodMessages
  <2> QED BY <1>3, <2>1, <2>2, <2>3 DEF ChatContent
<1>4. CASE Neutral(d)
  <2>1. UNCHANGED <<loaded[d], shown[d], chat[d], chatOn[d], messages[d]>>
    BY <1>4, NeutralSteps
  <2>2. Alike(work[d], work'[d], ChatWork) /\ Alike(main[d], main'[d], ChatMain)
    BY <1>4, NeutralSteps, AlikeParts
  <2>3. place'[d] = "chat" => place[d] = "chat"
    BY <1>4, NeutralSteps
  <2> QED BY <1>3, <2>1, <2>2, <2>3
<1>5. ASSUME NEW how \in {"off", "crashed"}, Die(d, how) PROVE place'[d] # "chat"
  BY <1>5 DEF Die, TypeInv
<1>6. CASE OpenGroups(d) \/ CloseForm(d) \/ CloseChat(d) \/ (Close(d) /\ Head(main[d]).here)
  BY <1>1, <1>6, Appears
<1>7. ASSUME UNCHANGED <<loaded, shown, chat, chatOn, messages, place>>,
             Alike(work[d], work'[d], ChatWork), Alike(main[d], main'[d], ChatMain)
      PROVE  ChatContent(d)'
  BY <1>3, <1>7
<1>8. Alike(work[d], work[d], ChatWork) /\ Alike(main[d], main[d], ChatMain)
  BY DEF Alike
<1>9. CASE \E g \in groupsArray[d] : SelectRow(d, g)
  <2>1. work'[d] = Append(work[d], Plain("observeChat"))
    BY <1>9 DEF SelectRow, TypeInv
  <2>2. Plain("observeChat") \in WorkItems /\ Plain("observeChat").kind = "observeChat"
    BY WorkTypes, Fields
  <2>3. Has(work'[d], "observeChat")
    BY <1>0, <2>1, <2>2, AppendQueue
  <2> QED BY <1>2, <2>3 DEF ChatComing
<1>10. CASE AttachChat(d)
  <2>1. chatOn'[d] /\ loaded' = loaded
    BY <1>10 DEF AttachChat, TypeInv
  <2>2. CASE loaded[d]
    <3>1. Tell(d, <<Plain("chatEvent")>>)
      BY <1>10, <2>2 DEF AttachChat
    <3>2. <<Plain("chatEvent")>> \in Seq(MainItems) /\ Has(<<Plain("chatEvent")>>, "chatEvent")
      <4>1. Plain("chatEvent") \in MainItems /\ Plain("chatEvent").kind = "chatEvent"
        BY MainTypes, Fields
      <4> QED BY <4>1 DEF Has
    <3>3. ChatComing(d)'
      BY <3>1, <3>2, QueueSteps DEF ChatComing
    <3> QED BY <1>2, <2>1, <3>3
  <2>3. CASE ~loaded[d]
    BY <1>2, <2>1, <2>3
  <2> QED BY <2>2, <2>3
<1>11. ASSUME NEW p \in Seq(MainItems), Tell(d, p), \A k \in ChatMain : ~Has(p, k),
              NEW k \in ListWork, NextWork(d, k), WorkDone(d),
              UNCHANGED <<loaded, shown, chat, chatOn, messages, place>>
       PROVE  ChatContent(d)'
  <2>1. Alike(main[d], main'[d], ChatMain)
    BY <1>11, QueueSteps
  <2>2. Alike(work[d], work'[d], ChatWork)
    <3>1. k \notin ChatWork
      BY DEF ListWork, ChatWork
    <3> QED BY <1>11, <3>1, QueueSteps
  <2> QED BY <1>7, <1>11, <2>1, <2>2
<1>12. CASE AttachGroups(d)
  <2>1. PICK p \in {<<Plain("groupsEvent")>>, <<>>} : Tell(d, p)
    BY <1>12 DEF AttachGroups
  <2>2. p \in Seq(MainItems) /\ \A k \in ChatMain : ~Has(p, k)
    <3>1. Plain("groupsEvent") \in MainItems /\ Plain("groupsEvent").kind = "groupsEvent"
      BY MainTypes, Fields
    <3>2. CASE p = <<Plain("groupsEvent")>>
      BY <3>1, <3>2 DEF Has, ChatMain
    <3>3. CASE p = <<>>
      BY <3>3 DEF Has
    <3> QED BY <3>2, <3>3
  <2>3. "observeGroups" \in ListWork
    BY DEF ListWork
  <2> QED BY <1>11, <1>12, <2>1, <2>2, <2>3 DEF AttachGroups
<1>13. CASE ReadGroups(d)
  <2> DEFINE it == Item("groupsSnap", Grps(shown[d]), NoUser, TRUE)
  <2>1. it \in MainItems
    BY MainTypes DEF Grps
  <2>2. it.kind = "groupsSnap"
    BY DEF Item
  <2>3. Tell(d, <<it>>)
    BY <1>13 DEF ReadGroups
  <2> HIDE DEF it
  <2>4. <<it>> \in Seq(MainItems) /\ \A k \in ChatMain : ~Has(<<it>>, k)
    BY <2>1, <2>2 DEF Has, ChatMain
  <2>5. "readGroups" \in ListWork
    BY DEF ListWork
  <2> QED BY <1>11, <1>13, <2>3, <2>4, <2>5 DEF ReadGroups
<1>14. CASE ReadMessages(d)
  <2> DEFINE it == Item("messagesSnap", MessagesOf(chat[d], shown[d]), NoUser, TRUE)
  <2>1. it \in MainItems
    BY MainTypes DEF MessagesOf
  <2>2. it.kind = "messagesSnap" /\ it.load = MessagesOf(chat[d], shown[d])
    BY DEF Item
  <2>3. /\ main'[d] = main[d] \o <<it>> /\ NextWork(d, "readMessages") /\ WorkDone(d)
        /\ UNCHANGED <<loaded, shown, chat, chatOn, messages, place>>
    BY <1>14 DEF ReadMessages, Tell, TypeInv
  <2> HIDE DEF it
  <2>4. main'[d] = Append(main[d], it)
    BY <1>0, <2>1, <2>3
  <2>5. it \in GoodMessages(d)'
    BY <2>1, <2>2, <2>3 DEF GoodMessages
  <2>6. LastIn(main'[d], "messagesSnap", GoodMessages(d)') /\ Has(main'[d], "messagesSnap")
    BY <1>0, <2>1, <2>2, <2>4, <2>5, AppendQueue
  <2>7. Has(work'[d], "observeChat") <=> Has(work[d], "observeChat")
    <3>1. Alike(work[d], work'[d], {"observeChat"})
      <4>1. "readMessages" \notin {"observeChat"}
        OBVIOUS
      <4> QED BY <2>3, <4>1, QueueSteps
    <3> QED BY <3>1 DEF Alike
  <2> QED BY <2>3, <2>6, <2>7 DEF ChatContent
<1>15. CASE WriteGroup(d) \/ WriteMessage(d) \/ Receive(d)
  <2>1. /\ loaded'[d] /\ chatOn[d] => Has(main'[d], "chatEvent")
        /\ UNCHANGED <<place, chatOn>>
    BY <1>15, Announced DEF WriteGroup, WriteMessage
  <2>2. Has(work'[d], "observeChat") <=> Has(work[d], "observeChat")
    <3>1. CASE Receive(d)
      BY <3>1 DEF Receive
    <3>2. CASE WriteGroup(d) \/ WriteMessage(d)
      <4>1. PICK k \in {"putGroup", "putMessage"} : NextWork(d, k) /\ WorkDone(d)
        BY <3>2 DEF WriteGroup, WriteMessage, Write
      <4>2. Alike(work[d], work'[d], {"observeChat"})
        BY <4>1, QueueSteps
      <4> QED BY <4>2 DEF Alike
    <3> QED BY <1>15, <3>1, <3>2
  <2>3. CASE place[d] = "chat"
    <3>1. chatOn[d] \/ Has(work[d], "observeChat")
      BY <2>3 DEF ChatContent
    <3> QED BY <1>2, <2>1, <2>2, <3>1 DEF ChatComing
  <2> QED BY <1>1, <2>1, <2>3
<1>16. CASE ChatEvent(d)
  <2>1. /\ work'[d] = Append(work[d], Plain("readMessages")) /\ UNCHANGED <<loaded, chatOn, place>>
    BY <1>16 DEF ChatEvent, TypeInv
  <2>2. /\ Has(work'[d], "readMessages")
        /\ Has(work[d], "observeChat") => Has(work'[d], "observeChat")
    <3>1. Plain("readMessages") \in WorkItems /\ Plain("readMessages").kind = "readMessages"
      BY WorkTypes, Fields
    <3> QED BY <1>0, <2>1, <3>1, AppendQueue
  <2>3. CASE place[d] = "chat"
    BY <1>2, <2>1, <2>2, <2>3 DEF ChatComing, ChatContent
  <2> QED BY <1>1, <2>1, <2>3
<1>17. ASSUME NEW k \in ListMain, NextMain(d, k),
              MainDone(d) \/ \E it \in MainItems : it.kind \notin ChatMain /\ Then(d, it)
       PROVE  Alike(main[d], main'[d], ChatMain)
  <2>1. k \notin ChatMain
    BY DEF ListMain, ChatMain
  <2> QED BY <1>17, <2>1, QueueSteps
<1>18. CASE GroupsEvent(d)
  <2>1. /\ work'[d] = Append(work[d], Plain("readGroups")) /\ MainDone(d) /\ NextMain(d, "groupsEvent")
        /\ UNCHANGED <<loaded, shown, chat, chatOn, messages, place>>
    BY <1>18 DEF GroupsEvent, TypeInv
  <2>2. Alike(work[d], work'[d], ChatWork)
    <3>1. Plain("readGroups") \in WorkItems /\ Plain("readGroups").kind \notin ChatWork
      BY WorkTypes, Fields DEF ChatWork
    <3> QED BY <1>0, <2>1, <3>1, AlikeQueues
  <2>3. Alike(main[d], main'[d], ChatMain)
    BY <1>17, <2>1 DEF ListMain
  <2> QED BY <1>7, <2>1, <2>2, <2>3
<1>19. CASE GroupsAssign(d)
  <2>1. Alike(main[d], main'[d], ChatMain)
    BY <1>17, <1>19 DEF ListMain, GroupsAssign
  <2> QED BY <1>7, <1>8, <1>19, <2>1 DEF GroupsAssign
<1>20. CASE GroupsSnap(d) /\ ~Crash(d)
  <2> DEFINE mine == {g \in Head(main[d]).load : currentUser[d] \in g.members}
             it == Item("groupsAssign", mine, currentUser[d], TRUE)
  <2>1. /\ NextMain(d, "groupsSnap") /\ Then(d, it)
        /\ UNCHANGED <<loaded, shown, chat, chatOn, messages, place, work>>
    BY <1>20 DEF GroupsSnap
  <2>2. it \in MainItems
    <3>1. Head(main[d]).load \subseteq GroupNodes
      BY <2>1, QueueSteps, MainLoads
    <3> QED BY <3>1, MainTypes DEF TypeInv
  <2>3. it.kind = "groupsAssign"
    BY DEF Item
  <2> HIDE DEF it
  <2>4. Alike(main[d], main'[d], ChatMain)
    BY <1>17, <2>1, <2>2, <2>3 DEF ListMain, ChatMain
  <2> QED BY <1>7, <1>8, <2>1, <2>4
\* The answer becomes rows: if it was the last one, the rows are the last ones.
<1>21. CASE MessagesSnap(d)
  <2> DEFINE old == Head(main[d])
             it == Item("messagesAssign", old.load, NoUser, TRUE)
             tl == Tail(main[d])
  <2>1. /\ NextMain(d, "messagesSnap") /\ Then(d, it)
        /\ UNCHANGED <<loaded, shown, chat, chatOn, messages, place, work>>
    BY <1>21 DEF MessagesSnap
  <2>2. old \in MainItems /\ old.kind = "messagesSnap" /\ main[d] # <<>>
    BY <2>1, QueueSteps
  <2>3. it \in MainItems
    <3>1. old.load \subseteq MessageNodes
      BY <2>2, MainLoads
    <3> QED BY <3>1, MainTypes
  <2>4. it.kind = "messagesAssign" /\ it.load = old.load
    BY DEF Item
  <2> HIDE DEF it
  <2>5. main'[d] = Append(tl, it)
    BY <2>1, <2>3, QueueSteps
  <2>6. /\ tl \in Seq(MainItems)
        /\ \A k : Has(main[d], k) <=> "messagesSnap" = k \/ Has(tl, k)
        /\ \A S : LastIn(main[d], "messagesSnap", S) =>
               LastIn(tl, "messagesSnap", S) /\ (Has(tl, "messagesSnap") \/ old \in S)
    BY <1>0, <2>2, TailQueue
  <2> HIDE DEF tl, old
  <2>7. /\ \A k : Has(Append(tl, it), k) <=> Has(tl, k) \/ it.kind = k
        /\ \A k, S : LastIn(tl, k, S) /\ it.kind # k => LastIn(Append(tl, it), k, S)
        /\ \A k, S : it \in S /\ it.kind = k => LastIn(Append(tl, it), k, S)
    BY <2>3, <2>6, AppendQueue
  <2>8. /\ \A k : Has(main'[d], k) <=> Has(tl, k) \/ k = "messagesAssign"
        /\ \A S : LastIn(tl, "messagesSnap", S) => LastIn(main'[d], "messagesSnap", S)
        /\ \A S : it \in S => LastIn(main'[d], "messagesAssign", S)
    BY <2>4, <2>5, <2>7
  <2>9. GoodMessages(d)' = GoodMessages(d)
    BY <2>1 DEF GoodMessages
  <2>10. ChatComing(d) => ChatComing(d)'
    BY <2>1, <2>6, <2>8 DEF ChatComing
  <2>11. old \in GoodMessages(d) => it \in GoodMessages(d)
    BY <2>3, <2>4 DEF GoodMessages
  <2> QED BY <2>1, <2>6, <2>8, <2>9, <2>10, <2>11 DEF ChatContent
\* The rows go on screen: if they were the last ones, the screen is right.
<1>22. CASE MessagesAssign(d)
  <2> DEFINE old == Head(main[d])
             tl == Tail(main[d])
  <2>1. /\ NextMain(d, "messagesAssign") /\ main'[d] = tl /\ messages'[d] = old.load
        /\ UNCHANGED <<loaded, shown, chat, chatOn, place, work>>
    BY <1>22 DEF MessagesAssign, MainDone, TypeInv
  <2>2. old \in MainItems /\ old.kind = "messagesAssign" /\ main[d] # <<>>
    BY <2>1, QueueSteps
  <2>3. /\ \A k : Has(main[d], k) <=> "messagesAssign" = k \/ Has(tl, k)
        /\ \A k, S : LastIn(main[d], k, S) => LastIn(tl, k, S)
        /\ \A S : LastIn(main[d], "messagesAssign", S) => (Has(tl, "messagesAssign") \/ old \in S)
    BY <1>0, <2>2, TailQueue
  <2> HIDE DEF tl, old
  <2>4. GoodMessages(d)' = GoodMessages(d)
    BY <2>1 DEF GoodMessages
  <2>5. ChatComing(d) <=> ChatComing(d)'
    BY <2>1, <2>3 DEF ChatComing
  <2>6. old \in GoodMessages(d) => messages'[d] = MessagesOf(chat'[d], shown'[d])
    BY <2>1 DEF GoodMessages
  <2> QED BY <2>1, <2>3, <2>4, <2>5, <2>6 DEF ChatContent
<1> QED BY <1>1, <1>4, <1>5, <1>6, <1>9, <1>10, <1>12, <1>13, <1>14, <1>15, <1>16, <1>18, <1>19,
           <1>20, <1>21, <1>22, OtherSteps

-----------------------------------------------------------------------------
(* The theorems.                                                           *)

Inside(d) ==
    /\ ChatOpen(d) /\ FormCalls(d) /\ MakerIn(d) /\ RowsOwned(d) /\ ChatOwned(d)
    /\ Sessions(d) /\ SendOff(d) /\ ListContent(d) /\ ListOwner(d) /\ ChatContent(d)

\* The inductive invariant.
IInv == TypeInv /\ \A d \in Devices : Inside(d)

\* The invariant holds at first.
LEMMA InvInit == Init => IInv
<1> SUFFICES ASSUME Init PROVE IInv
  OBVIOUS
<1>1. TypeInv
  BY TypeInit
<1>2. ASSUME NEW d \in Devices PROVE Inside(d)
  <2>1. /\ place[d] = "off" /\ chat[d] = NoGroup /\ groupsArray[d] = {} /\ asks[d] = <<>>
        /\ work[d] = <<>> /\ main[d] = <<>> /\ listeners[d] = 0 /\ ~loaded[d]
        /\ draft[d] = "empty"
    BY DEF Init
  <2>2. Elems(<<>>) = {}
    BY DEF Elems
  <2> QED BY <2>1, <2>2 DEF Inside, ChatOpen, FormCalls, MakerIn, RowsOwned, ChatOwned, Sessions,
                            Running, Idle, SendOff, ListContent, ListOwner, ChatContent
<1> QED BY <1>1, <1>2 DEF IInv

\* A phone of which nothing changes keeps its part of the invariant.
LEMMA Untouched ==
    ASSUME TypeInv, NEW e \in Devices, Inside(e), UNCHANGED Local(e)
    PROVE  Inside(e)'
BY DEF Local, Inside, ChatOpen, FormCalls, MakerIn, RowsOwned, ChatOwned, Sessions, Running, Idle,
       SendOff, ListContent, ListOwner, ListComing, GoodSnaps, GoodRows, OwnRows, ChatContent,
       ChatComing, GoodMessages

\* Every step keeps the invariant.
LEMMA InvStep == IInv /\ [Next]_vars => IInv'
<1> SUFFICES ASSUME IInv, [Next]_vars PROVE IInv'
  OBVIOUS
<1>1. TypeInv /\ TypeInv' /\ \A d \in Devices : Inside(d)
  <2>1. TypeInv /\ \A d \in Devices : ChatOpen(d)
    BY DEF IInv, Inside
  <2> QED BY <2>1, TypeStep DEF IInv
<1>2. ASSUME NEW d \in Devices, DeviceStep(d), NEW e \in Devices PROVE Inside(e)'
  <2>1. CASE e = d
    <3>1. ChatOpen(d)' /\ RowsOwned(d)' /\ ChatOwned(d)' /\ SendOff(d)' /\ Sessions(d)'
      BY <1>1, <1>2, ChatOpenStep, RowsStep, ChatOwnedStep, SendOffStep, SessionsStep DEF Inside
    <3>2. FormCalls(d)' /\ MakerIn(d)'
      BY <1>1, <1>2, FormCallsStep, MakerStep DEF Inside
    <3>3. ListContent(d)' /\ ListOwner(d)' /\ ChatContent(d)'
      BY <1>1, <1>2, ListStep, ChatStep DEF Inside
    <3> QED BY <2>1, <3>1, <3>2, <3>3 DEF Inside
  <2>2. CASE e # d
    BY <1>1, <1>2, <2>2, Others, Untouched
  <2> QED BY <2>1, <2>2
<1>3. ASSUME World \/ UNCHANGED vars, NEW e \in Devices PROVE Inside(e)'
  <2>1. UNCHANGED Local(e)
    BY <1>3 DEF World, B!Accept, vars, Local, data, session, listing, rows, chatting, queues
  <2> QED BY <1>1, <2>1, Untouched
<1> QED BY <1>1, <1>2, <1>3 DEF Next, DeviceStep, IInv

\* The invariant holds always.
LEMMA Invariant == Spec => []IInv
BY InvInit, InvStep, PTL DEF Spec

\* The types hold: what is queued is always something the queues are made for.
LEMMA TypeInvImplies == TypeInv => TypeOK
<1> SUFFICES ASSUME TypeInv PROVE TypeOK
  OBVIOUS
<1>1. GroupNodes \subseteq Nodes /\ MessageNodes \subseteq Nodes
  BY DEF Nodes
<1>2. AskItems \subseteq Items
  BY DEF AskItems, Of, AnyUser, Items, Kinds
<1>3. WorkItems \subseteq Items
  BY <1>1 DEF WorkItems, Of, AnyUser, Items, Kinds
<1>4. MainItems \subseteq Items
  BY <1>1, <1>2 DEF MainItems, RowItems, Of, AnyUser, Items, Kinds
<1>5. \A d \in Devices : asks[d] \in Seq(Items) /\ work[d] \in Seq(Items) /\ main[d] \in Seq(Items)
  <2> SUFFICES ASSUME NEW d \in Devices
               PROVE  asks[d] \in Seq(Items) /\ work[d] \in Seq(Items) /\ main[d] \in Seq(Items)
    OBVIOUS
  <2>1. asks[d] \in Seq(AskItems) /\ work[d] \in Seq(WorkItems) /\ main[d] \in Seq(MainItems)
    BY DEF TypeInv
  <2>2. ASSUME NEW T, T \subseteq Items, NEW q \in Seq(T) PROVE q \in Seq(Items)
    <3>1. \A i \in 1..Len(q) : q[i] \in Items
      BY <2>2, ElementOfSeq
    <3> QED BY <2>2, <3>1, SeqMonotonic
  <2> QED BY <1>2, <1>3, <1>4, <2>1, <2>2
<1> QED BY <1>5 DEF TypeInv, TypeOK, AnyUser

\* Every state of the groups tab is one of its types.
THEOREM TypesHold == Spec => []TypeOK
<1>1. IInv => TypeOK
  BY TypeInvImplies DEF IInv
<1> QED BY <1>1, Invariant, PTL

\* Once the queues are empty the list and the chat show what the local view
\* has, however many listeners, readings, writes and users there were.
THEOREM ScreensShowTheView == Spec => []ScreensSettle
<1>1. \A k : ~Has(<<>>, k)
  BY DEF Has
<1>2. ASSUME IInv, NEW d \in Devices, Quiet(d) 
      PROVE  /\ groupsArray[d] = RowsOf(owner[d], shown[d])
             /\ place[d] = "groups" => owner[d] = currentUser[d] \/ replaced[d]
             /\ place[d] = "chat" => messages[d] = MessagesOf(chat[d], shown[d])
  <2>1. loaded[d] /\ work[d] = <<>> /\ main[d] = <<>> /\ Inside(d)
    BY <1>2 DEF IInv, Quiet
  <2>2. ~ListComing(d) /\ ~ChatComing(d) /\ \A k : ~Has(main[d], k)
    BY <1>1, <2>1 DEF ListComing, ChatComing
  <2>3. groupsArray[d] = RowsOf(owner[d], shown[d])
    BY <2>1, <2>2 DEF Inside, ListContent
  <2>4. place[d] = "groups" => owner[d] = currentUser[d] \/ replaced[d]
    BY <2>1, <2>2 DEF Inside, ListOwner
  <2>5. place[d] = "chat" => messages[d] = MessagesOf(chat[d], shown[d])
    BY <2>1, <2>2 DEF Inside, ChatContent
  <2> QED BY <2>3, <2>4, <2>5
<1>3. IInv => ScreensSettle
  BY <1>2 DEF ScreensSettle, ListSettles, ChatSettles, RowsOf
<1> QED BY <1>3, Invariant, PTL

\* Whoever has a chat on screen is in its group, or got there through another
\* user's rows or a late answer.
THEOREM ChatOfItsMembers == Spec => []ChatMembership
<1>1. IInv => ChatMembership
  BY DEF IInv, Inside, ChatOwned, ChatMembership
<1> QED BY <1>1, Invariant, PTL

\* A group made from a form still on screen has its maker in it.
THEOREM MakersInTheirGroups == Spec => []GroupOfItsMaker
<1>1. IInv => GroupOfItsMaker
  BY DEF IInv, Inside, MakerIn, GroupOfItsMaker
<1> QED BY <1>1, Invariant, PTL

\* No process ends on an unwrapped uid unless somebody logged out in it.
THEOREM CrashesNeedLogout == Spec => []CrashNeedsLogout
<1>1. IInv => CrashNeedsLogout
  BY DEF IInv, Inside, Sessions, CrashNeedsLogout
<1> QED BY <1>1, Invariant, PTL

\* No message is sent a second time while it is still in the field.
THEOREM OneSend == Spec => NoDoubleSend
<1>1. ASSUME IInv, NEW d \in Devices, DeviceStep(d),
             Len(work'[d]) > Len(work[d]), work'[d][Len(work'[d])].kind = "putMessage"
      PROVE  draft[d] = "typed"
  <2>1. TypeInv /\ work[d] \in Seq(WorkItems) /\ SendOff(d)
        /\ draft[d] \in {"empty", "typed", "sent"}
    BY <1>1 DEF IInv, Inside, TypeInv
  <2>2. ASSUME NEW q \in Seq(WorkItems), NEW it, work'[d] = Append(q, it)
        PROVE  work'[d][Len(work'[d])] = it
    BY <2>2
  <2>3. work'[d] \notin {work[d], <<>>} /\ ~(work[d] # <<>> /\ work'[d] = Tail(work[d]))
    <3>1. Len(work[d]) \in Nat
      BY <2>1
    <3>2. work[d] # <<>> => Len(Tail(work[d])) = Len(work[d]) - 1
      BY <2>1, TailQueue
    <3>3. Len(<<>>) = 0
      OBVIOUS
    <3>4. work'[d] # work[d]
      <4> SUFFICES ASSUME work'[d] = work[d] PROVE FALSE
        OBVIOUS
      <4>1. Len(work[d]) > Len(work[d])
        BY <1>1
      <4> QED BY <3>1, <4>1
    <3>5. work'[d] # <<>>
      <4> SUFFICES ASSUME work'[d] = <<>> PROVE FALSE
        OBVIOUS
      <4>1. 0 > Len(work[d])
        BY <1>1, <3>3
      <4> QED BY <3>1, <4>1
    <3>6. ASSUME work[d] # <<>> PROVE work'[d] # Tail(work[d])
      <4> SUFFICES ASSUME work'[d] = Tail(work[d]) PROVE FALSE
        OBVIOUS
      <4>1. Len(work[d]) - 1 > Len(work[d])
        BY <1>1, <3>2, <3>6
      <4> QED BY <3>1, <4>1
    <3> QED BY <3>4, <3>5, <3>6
  <2>4. ASSUME NEW k \in {"observeGroups", "observeChat", "readGroups", "readMessages"}
        PROVE  work'[d] # Append(work[d], Plain(k))
    BY <1>1, <2>1, <2>2, Fields
  <2>5. work'[d] # Append(WithoutChat(work[d]), Plain("observeGroups"))
    BY <1>1, <2>1, <2>2, Fields, WithoutChatQueue
  <2>6. work'[d] # Append(work[d], Making(d))
    <3>1. Making(d).kind = "putGroup"
      BY DEF Making, Item
    <3> QED BY <1>1, <2>1, <2>2, <3>1
  <2>7. draft[d] # "empty" /\ sendEnabled[d]
    BY <1>1, <2>1, <2>3, <2>4, <2>5, <2>6, WorkEffect
  <2> QED BY <2>1, <2>7 DEF SendOff
<1>2. ASSUME IInv, [Next]_vars PROVE [SendsOnce]_vars
  <2>1. ASSUME NEW d \in Devices, DeviceStep(d) PROVE SendsOnce
    <3> SUFFICES ASSUME NEW e \in Devices, Len(work'[e]) > Len(work[e]),
                        work'[e][Len(work'[e])].kind = "putMessage"
                 PROVE  draft[e] = "typed"
      BY DEF SendsOnce
    <3>1. CASE e = d
      BY <1>1, <1>2, <2>1, <3>1
    <3>2. CASE e # d
      <4>1. work'[e] = work[e] /\ work[e] \in Seq(WorkItems)
        BY <1>2, <2>1, <3>2, Others DEF Local, IInv, TypeInv
      <4> QED BY <4>1
    <3> QED BY <3>1, <3>2
  <2>2. ASSUME World PROVE SendsOnce
    <3>1. work' = work /\ \A e \in Devices : Len(work[e]) \in Nat
      BY <1>2, <2>2 DEF World, queues, IInv, TypeInv
    <3> QED BY <3>1 DEF SendsOnce
  <2> QED BY <1>2, <2>1, <2>2 DEF Next, DeviceStep
<1> QED BY <1>2, Invariant, PTL DEF Spec, NoDoubleSend
=============================================================================
