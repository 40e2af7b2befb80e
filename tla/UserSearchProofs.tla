-------------------------- MODULE UserSearchProofs --------------------------
(* The search for members, for any users, queries and listeners: types, what *)
(* its rows are once it has settled, when a user may be listed twice, and    *)
(* that the check marks of the rows tell the choice.                         *)
EXTENDS UserSearch, FiniteSetTheorems, TLAPS

-----------------------------------------------------------------------------
(* The check marks. *)

\* There is one row for each result, and its mark is one; with the marks and
\* the choice in step, this is inductive.
RowsOK == DOMAIN rows = DOMAIN emailArray /\ \A r \in DOMAIN rows : rows[r] \in Rows

MarksInv == RowsOK /\ MarksTellChoice

\* An emptied list has no rows.
LEMMA InitMarks == Init => MarksInv
<1> SUFFICES ASSUME Init PROVE MarksInv
  OBVIOUS
<1>1. rows = <<>> /\ emailArray = <<>> /\ choosenOnes = {} /\ doneHidden = TRUE
  BY DEF Init
<1>2. DOMAIN rows = {} /\ DOMAIN emailArray = {}
  BY <1>1
<1> QED BY <1>1, <1>2 DEF MarksInv, RowsOK, MarksTellChoice

\* A table that is loaded anew shows the choice as it is, whatever the results.
LEMMA ShowMarks ==
    ASSUME NEW results, MarksInv, Show(results), UNCHANGED selection
    PROVE  MarksInv'
BY DEF MarksInv, RowsOK, MarksTellChoice, Show, Display, Rows, selection

\* Neither table nor choice is touched.
LEMMA SameMarks ==
    ASSUME MarksInv, UNCHANGED <<table, selection>>
    PROVE  MarksInv'
BY DEF MarksInv, RowsOK, MarksTellChoice, table, selection

\* Selecting a row changes its mark and the choice of its user together; other
\* rows of that user are set aside, and those of other users are not concerned.
LEMMA SelectMarks ==
    ASSUME MarksInv, NEW r \in DOMAIN rows, Select(r)
    PROVE  MarksInv'
<1> DEFINE e == emailArray[r]
<1> USE DEF MarksInv
<1>1. /\ emailArray' = emailArray
      /\ rows' = [rows EXCEPT ![r] = SetSelected(@)]
      /\ odd' = odd \union {s \in DOMAIN rows \ {r} : emailArray[s] = e}
      /\ choosenOnes' = IF e \in choosenOnes THEN choosenOnes \ {e} ELSE choosenOnes \union {e}
      /\ doneHidden' = (choosenOnes' = {})
  BY DEF Select, Choose
<1>2. RowsOK'
  BY <1>1 DEF RowsOK, Rows, SetSelected
<1>3. ASSUME NEW s \in DOMAIN rows', s \notin odd'
      PROVE  rows'[s].mark = (emailArray'[s] \in choosenOnes')
  <2>1. s \in DOMAIN rows /\ s \notin odd /\ rows[s] \in Rows
    BY <1>1, <1>3 DEF RowsOK
  <2>2. rows[s].mark = (emailArray[s] \in choosenOnes) /\ rows[s].mark \in BOOLEAN
    BY <2>1 DEF MarksTellChoice, Rows
  <2>3. CASE s = r
    <3>1. rows'[s].mark = ~rows[s].mark
      BY <1>1, <2>1, <2>3 DEF SetSelected
    <3>2. (e \in choosenOnes') = ~(e \in choosenOnes)
      BY <1>1
    <3> QED BY <1>1, <2>2, <2>3, <3>1, <3>2
  <2>4. CASE s # r
    <3>1. rows'[s] = rows[s] /\ emailArray[s] # e
      BY <1>1, <1>3, <2>1, <2>4
    <3> QED BY <1>1, <2>2, <3>1
  <2> QED BY <2>3, <2>4
<1> QED BY <1>1, <1>2, <1>3 DEF MarksTellChoice

\* Every step keeps the invariant.
LEMMA StepMarks == MarksInv /\ [Next]_vars => MarksInv'
<1> SUFFICES ASSUME MarksInv, [Next]_vars PROVE MarksInv'
  OBVIOUS
<1>1. CASE Clear
  BY <1>1, ShowMarks DEF Clear
<1>2. ASSUME NEW q \in Queries, Type(q) PROVE MarksInv'
  BY <1>2, SameMarks DEF Type
<1>3. ASSUME NEW r \in DOMAIN rows, Select(r) PROVE MarksInv'
  BY <1>3, SelectMarks
<1>4. ASSUME NEW r \in DOMAIN rows, Deselect(r) PROVE MarksInv'
  BY <1>4 DEF Deselect, SetSelected, MarksInv, RowsOK, MarksTellChoice, Rows, selection
<1>5. ASSUME NEW r \in DOMAIN rows, Redisplay(r) PROVE MarksInv'
  <2> DEFINE chosen == emailArray[r] \in choosenOnes
  <2>1. /\ rows' = [rows EXCEPT ![r].mark = chosen]
        /\ odd' = odd \ {r} /\ emailArray' = emailArray
        /\ choosenOnes' = choosenOnes /\ doneHidden' = doneHidden
    BY <1>5 DEF Redisplay, selection
  <2>2. RowsOK /\ chosen \in BOOLEAN
    BY DEF MarksInv
  <2>3. rows'[r].mark = chosen /\ RowsOK' /\ \A s \in DOMAIN rows \ {r} : rows'[s] = rows[s]
    <3> HIDE DEF chosen
    <3> QED BY <2>1, <2>2 DEF RowsOK, Rows
  <2> QED BY <2>1, <2>3 DEF MarksInv, RowsOK, MarksTellChoice
<1>6. CASE SignUp
  BY <1>6, SameMarks DEF SignUp
<1>7. CASE Receive
  BY <1>7, SameMarks DEF Receive
<1>8. CASE Attach
  BY <1>8, SameMarks DEF Attach
<1>9. CASE Called
  BY <1>9, SameMarks DEF Called
<1>10. CASE Assign
  BY <1>10, ShowMarks DEF Assign
<1>11. CASE UNCHANGED vars
  BY <1>11, SameMarks DEF vars
<1> QED BY <1>1, <1>2, <1>3, <1>4, <1>5, <1>6, <1>7, <1>8, <1>9, <1>10, <1>11
        DEF Next, User, System

\* UserCell's marks and choosenOnes tell the same, except for rows tapped twice
\* or chosen through another row; Done is there just when somebody is chosen
\* (setSelected, cellForRowAt, didSelectRowAt).
THEOREM MarksTellChoiceHolds == Spec => []MarksTellChoice
<1>1. MarksInv => MarksTellChoice
  BY DEF MarksInv
<1> QED BY <1>1, InitMarks, StepMarks, PTL DEF Spec

-----------------------------------------------------------------------------
(* Sequences. *)

\* How many of S come up to e.
Place(S, e) == Cardinality({d \in S : d <= e})

\* The children of a node, in order, are all of them, each once: the number of
\* those before or at a child tells it from the others, and since there are as
\* many numbers as children every number has its child.
LEMMA InOrderIs ==
    ASSUME NEW S \in SUBSET Emails
    PROVE  /\ InOrder(S) \in Seq(S)
           /\ ToSet(InOrder(S)) = S
           /\ IsInjective(InOrder(S))
<1> DEFINE n == Cardinality(S)
           P == [e \in S |-> Place(S, e)]
<1>1. MaxEmail \in Nat /\ S \subseteq 1..MaxEmail
  BY SearchAssumption DEF Emails
<1>2. IsFiniteSet(S) /\ n \in Nat
  <2>1. IsFiniteSet(1..MaxEmail)
    BY <1>1, FS_Interval
  <2> QED BY <1>1, <2>1, FS_Subset, FS_CardinalityType
<1>3. ASSUME NEW e \in S
      PROVE  Place(S, e) \in 1..n
  <2> DEFINE B == {d \in S : d <= e}
  <2>1. B \in SUBSET S /\ e \in B
    BY <1>1
  <2>2. IsFiniteSet(B) /\ Cardinality(B) <= n /\ Cardinality(B) \in Nat
    BY <1>2, <2>1, FS_Subset, FS_CardinalityType
  <2>3. Cardinality(B) # 0
    BY <2>1, <2>2, FS_EmptySet
  <2> QED BY <1>2, <2>2, <2>3 DEF Place
<1>4. ASSUME NEW d \in S, NEW e \in S, d < e
      PROVE  Place(S, d) # Place(S, e)
  <2> DEFINE A == {x \in S : x <= d}
             B == {x \in S : x <= e}
  <2>1. A \in SUBSET B /\ e \in B /\ e \notin A /\ B \in SUBSET S
    <3>1. \A x \in S : x \in Int
      BY <1>1
    <3>2. \A x \in S : x <= d => x <= e
      BY <1>4, <3>1
    <3>3. e <= e /\ ~(e <= d)
      BY <1>4, <3>1
    <3> QED BY <3>2, <3>3
  <2>2. IsFiniteSet(B)
    BY <1>2, <2>1, FS_Subset
  <2> QED BY <2>1, <2>2, FS_Subset DEF Place
<1>5. P \in Injection(S, 1..n)
  <2>1. P \in [S -> 1..n]
    BY <1>3
  <2>2. ASSUME NEW d \in S, NEW e \in S, P[d] = P[e]
        PROVE  d = e
    <3>1. Place(S, d) = Place(S, e)
      BY <2>2
    <3>2. d < e \/ e < d \/ d = e
      BY <1>1
    <3> QED BY <1>4, <3>1, <3>2
  <2> QED BY <2>1, <2>2 DEF Injection, IsInjective
<1>6. P \in Surjection(S, 1..n)
  <2>1. IsFiniteSet(1..n) /\ Cardinality(1..n) = n
    BY <1>2, FS_Interval
  <2> HIDE DEF P
  <2> QED BY <1>2, <1>5, <2>1, FS_Injection
<1>7. ASSUME NEW i \in 1..n
      PROVE  InOrder(S)[i] \in S /\ Place(S, InOrder(S)[i]) = i
  <2>1. \E e \in S : Place(S, e) = i
    BY <1>6 DEF Surjection
  <2>2. InOrder(S)[i] = CHOOSE e \in S : Place(S, e) = i
    BY DEF InOrder, Place
  <2> QED BY <2>1, <2>2
<1>8. DOMAIN InOrder(S) = 1..n /\ InOrder(S) = [i \in 1..n |-> InOrder(S)[i]]
  BY DEF InOrder
<1>9. InOrder(S) \in [1..n -> S]
  BY <1>7, <1>8
<1>10. InOrder(S) \in Seq(S)
  BY <1>2, <1>9
<1>11. ASSUME NEW e \in S
       PROVE  InOrder(S)[Place(S, e)] = e
  <2> DEFINE i == Place(S, e)
             f == InOrder(S)[i]
  <2>1. i \in 1..n
    BY <1>3
  <2>2. f \in S /\ Place(S, f) = i
    BY <1>7, <2>1
  <2>3. f < e \/ e < f \/ f = e
    <3> HIDE DEF f
    <3> QED BY <1>1, <2>2
  <2> QED BY <1>4, <2>2, <2>3
<1>12. ToSet(InOrder(S)) = S
  BY <1>3, <1>7, <1>8, <1>11 DEF ToSet
<1>13. IsInjective(InOrder(S))
  BY <1>7, <1>8 DEF IsInjective
<1> QED BY <1>10, <1>12, <1>13

\* What is left when the head is taken.
LEMMA TailAt ==
    ASSUME NEW T, NEW s \in Seq(T), s # <<>>
    PROVE  /\ Tail(s) \in Seq(T) /\ Len(Tail(s)) = Len(s) - 1 /\ Len(s) \in Nat \ {0}
           /\ DOMAIN s = 1..Len(s) /\ DOMAIN Tail(s) = 1..(Len(s) - 1)
           /\ Head(s) = s[1] /\ Head(s) \in T
           /\ \A i \in 1..(Len(s) - 1) : Tail(s)[i] = s[i + 1]
OBVIOUS

\* What is there when one is put at the end.
LEMMA AppendAt ==
    ASSUME NEW T, NEW s \in Seq(T), NEW x \in T
    PROVE  /\ Append(s, x) \in Seq(T) /\ Len(Append(s, x)) = Len(s) + 1 /\ Len(s) \in Nat
           /\ DOMAIN s = 1..Len(s) /\ DOMAIN Append(s, x) = 1..(Len(s) + 1)
           /\ \A i \in 1..Len(s) : Append(s, x)[i] = s[i]
           /\ Append(s, x)[Len(s) + 1] = x
OBVIOUS

\* What is there when others are put at the end.
LEMMA ConcatAt ==
    ASSUME NEW T, NEW s \in Seq(T), NEW t \in Seq(T)
    PROVE  /\ s \o t \in Seq(T) /\ Len(s \o t) = Len(s) + Len(t)
           /\ Len(s) \in Nat /\ Len(t) \in Nat
           /\ DOMAIN s = 1..Len(s) /\ DOMAIN t = 1..Len(t)
           /\ DOMAIN (s \o t) = 1..(Len(s) + Len(t))
           /\ \A i \in 1..Len(s) : (s \o t)[i] = s[i]
           /\ \A i \in 1..Len(t) : (s \o t)[Len(s) + i] = t[i]
OBVIOUS

\* What was in either is in both together.
LEMMA ConcatSet ==
    ASSUME NEW T, NEW s \in Seq(T), NEW t \in Seq(T)
    PROVE  ToSet(s \o t) = ToSet(s) \union ToSet(t)
<1> DEFINE st == s \o t
<1>1. /\ Len(s) \in Nat /\ Len(t) \in Nat
      /\ DOMAIN s = 1..Len(s) /\ DOMAIN t = 1..Len(t)
      /\ DOMAIN st = 1..(Len(s) + Len(t))
      /\ \A i \in 1..Len(s) : st[i] = s[i]
      /\ \A i \in 1..Len(t) : st[Len(s) + i] = t[i]
  OBVIOUS
<1> HIDE DEF st
<1>2. ASSUME NEW i \in DOMAIN st
      PROVE  st[i] \in ToSet(s) \union ToSet(t)
  <2>1. CASE i \in 1..Len(s)
    BY <1>1, <2>1 DEF ToSet
  <2>2. CASE i \notin 1..Len(s)
    <3>1. i - Len(s) \in 1..Len(t) /\ i = Len(s) + (i - Len(s))
      BY <1>1, <1>2, <2>2
    <3> QED BY <1>1, <3>1 DEF ToSet
  <2> QED BY <2>1, <2>2
<1>3. ASSUME NEW i \in DOMAIN s
      PROVE  s[i] \in ToSet(st)
  BY <1>1 DEF ToSet
<1>4. ASSUME NEW i \in DOMAIN t
      PROVE  t[i] \in ToSet(st)
  <2>1. Len(s) + i \in DOMAIN st /\ st[Len(s) + i] = t[i]
    BY <1>1
  <2> QED BY <2>1 DEF ToSet
<1>5. ToSet(st) = ToSet(s) \union ToSet(t)
  BY <1>2, <1>3, <1>4 DEF ToSet
<1> QED BY <1>5 DEF st

-----------------------------------------------------------------------------
(* The inductive invariant. *)

Items == Events \union [results : Results]

\* main has calls of listeners and lists of results.
IsCall(item) == "listener" \in DOMAIN item

\* A call is of a listener there is, with data Firebase has had since; a
\* listener has made nothing of other data.
Heard ==
    /\ Len(listeners) + Len(work) <= MaxListeners
    /\ \A i \in DOMAIN main : IsCall(main[i]) =>
          main[i].listener \in DOMAIN listeners /\ main[i].snap \subseteq known
    /\ \A l \in DOMAIN listeners :
          ToSet(listeners[l].made) \subseteq Found(known, listeners[l].query)

\* The newest listener, there or asked for, is that of the text.
Newest ==
    text # Empty => \/ work # <<>> /\ work[Len(work)] = text
                    \/ work = <<>> /\ listeners # <<>> /\ listeners[Len(listeners)].query = text

NoCalls == \A i \in DOMAIN main : ~IsCall(main[i])

LastCall(i) == IsCall(main[i]) /\ \A j \in DOMAIN main : j > i => ~IsCall(main[j])

\* Of the calls the last one is the newest listener's, with all Firebase has;
\* behind the calls, and then on the screen, is what that listener found.
LastIsNewest ==
    arrived /\ listeners # <<>> =>
        /\ \A i \in DOMAIN main : LastCall(i) =>
              main[i].listener = Len(listeners) /\ main[i].snap = known
        /\ NoCalls /\ main # <<>> =>
              ToSet(main[Len(main)].results) = Found(known, listeners[Len(listeners)].query)

\* Nothing comes that was not asked for.
Still == text = Empty /\ calm => Quiet /\ emailArray = <<>>

\* Without data there are no calls.
NothingYet == ~arrived => NoCalls /\ \A l \in DOMAIN listeners : listeners[l].made = <<>>

\* Before /users changes under a listener, each is called once.
CalledOnce ==
    ~regrown =>
        /\ \A i \in DOMAIN main : IsCall(main[i]) => listeners[main[i].listener].made = <<>>
        /\ \A i, j \in DOMAIN main :
              IsCall(main[i]) /\ IsCall(main[j]) /\ main[i].listener = main[j].listener => i = j
        /\ \A i \in DOMAIN main : ~IsCall(main[i]) => IsInjective(main[i].results)
        /\ IsInjective(emailArray)

IInv == /\ TypeOK /\ Heard /\ Newest /\ LastIsNewest /\ Still /\ ResultsSettle
        /\ NothingYet /\ CalledOnce

-----------------------------------------------------------------------------
(* What the steps do to the queue and the listeners. *)

\* An item is a call or a list of results.
LEMMA Kinds ==
    ASSUME NEW x \in Items
    PROVE  /\ IsCall(x) => x.listener \in 1..MaxListeners /\ x.snap \in SUBSET Emails
           /\ ~IsCall(x) => x.results \in Results
           /\ "results" \in DOMAIN x <=> ~IsCall(x)
<1>1. CASE x \in Events
  BY <1>1 DEF Events, IsCall
<1>2. CASE x \in [results : Results]
  BY <1>2 DEF IsCall
<1> QED BY <1>1, <1>2 DEF Items

\* A call that is made.
LEMMA NewCall ==
    ASSUME NEW l \in 1..MaxListeners, NEW S \in SUBSET Emails,
           NEW c, c = [listener |-> l, snap |-> S]
    PROVE  c \in Items /\ IsCall(c) /\ c.listener = l /\ c.snap = S
BY DEF Items, Events, IsCall

\* A list of results that is made.
LEMMA NewResults ==
    ASSUME NEW r \in Results, NEW c, c = [results |-> r]
    PROVE  c \in Items /\ ~IsCall(c) /\ c.results = r
BY DEF Items, IsCall

\* What is found is among the others' emails, and grows with the data.
LEMMA FoundTypes ==
    ASSUME NEW S \in SUBSET Emails, NEW q \in Queries
    PROVE  /\ Found(S, q) \in SUBSET (Emails \ {Me})
           /\ \A T \in SUBSET S : Found(T, q) \subseteq Found(S, q)
BY SearchAssumption DEF Found

Listeners == [query : Queries, made : Results]

\* Firebase takes up the next query: a listener with an empty array joins, and
\* is called when there are data.
LEMMA AttachEffect ==
    ASSUME TypeOK, Heard, Attach
    PROVE  /\ work # <<>> /\ work' \in Seq(Queries) /\ Len(work') = Len(work) - 1
           /\ \A i \in 1..(Len(work) - 1) : work'[i] = work[i + 1]
           /\ listeners' \in Seq(Listeners) /\ Len(listeners') = Len(listeners) + 1
           /\ DOMAIN listeners' = 1..(Len(listeners) + 1)
           /\ \A l \in DOMAIN listeners : listeners'[l] = listeners[l]
           /\ listeners'[Len(listeners')].query = work[1]
           /\ listeners'[Len(listeners')].made = <<>>
           /\ ~arrived => main' = main
           /\ arrived => /\ main' \in Seq(Items) /\ Len(main') = Len(main) + 1
                         /\ \A i \in DOMAIN main : main'[i] = main[i]
                         /\ IsCall(main'[Len(main')]) /\ main'[Len(main')].snap = known
                         /\ main'[Len(main')].listener = Len(listeners')
<1> DEFINE new == [query |-> Head(work), made |-> <<>>]
           c == [listener |-> Len(listeners'), snap |-> known]
<1>1. /\ work # <<>> /\ work' = Tail(work) /\ listeners' = Append(listeners, new)
      /\ main' = IF arrived THEN Append(main, c) ELSE main
  BY DEF Attach
<1>2. /\ work \in Seq(Queries) /\ listeners \in Seq(Listeners) /\ main \in Seq(Items)
      /\ known \in SUBSET Emails
  BY DEF TypeOK, Listeners, Items
<1>3. Head(work) \in Queries /\ Head(work) = work[1] /\ Len(work) \in Nat \ {0}
      /\ work' \in Seq(Queries) /\ Len(work') = Len(work) - 1
      /\ \A i \in 1..(Len(work) - 1) : work'[i] = work[i + 1]
  BY <1>1, <1>2, TailAt
<1>4. new \in Listeners /\ new.query = work[1] /\ new.made = <<>>
  <2>1. <<>> \in Results
    BY DEF Results
  <2> QED BY <1>3, <2>1 DEF Listeners
<1>5. /\ listeners' \in Seq(Listeners) /\ Len(listeners') = Len(listeners) + 1
      /\ Len(listeners) \in Nat
      /\ DOMAIN listeners = 1..Len(listeners) /\ DOMAIN listeners' = 1..(Len(listeners) + 1)
      /\ \A l \in DOMAIN listeners : listeners'[l] = listeners[l]
      /\ listeners'[Len(listeners')] = new
  <2> HIDE DEF new
  <2> QED BY <1>1, <1>2, <1>4, AppendAt
<1>6. Len(listeners') \in 1..MaxListeners
  <2>1. Len(listeners) + Len(work) <= MaxListeners /\ MaxListeners \in Nat
    BY SearchAssumption DEF Heard
  <2> QED BY <1>3, <1>5, <2>1
<1>7. c \in Items /\ IsCall(c) /\ c.listener = Len(listeners') /\ c.snap = known
  BY <1>2, <1>6, NewCall
<1>8. ASSUME arrived
      PROVE  /\ main' \in Seq(Items) /\ Len(main') = Len(main) + 1
             /\ \A i \in DOMAIN main : main'[i] = main[i]
             /\ main'[Len(main')] = c
  <2> HIDE DEF c
  <2> QED BY <1>1, <1>2, <1>7, <1>8, AppendAt
<1> HIDE DEF new, c
<1> QED BY <1>1, <1>3, <1>4, <1>5, <1>7, <1>8

\* Data of /users: each listener is called with them, in order.
LEMMA ReceiveEffect ==
    ASSUME TypeOK, Heard, Receive
    PROVE  /\ arrived \/ listeners # <<>>
           /\ known' \in SUBSET Emails /\ known \subseteq known' /\ known' \subseteq users
           /\ arrived' = TRUE /\ calm' = FALSE
           /\ main' \in Seq(Items) /\ Len(main') = Len(main) + Len(listeners)
           /\ DOMAIN main = 1..Len(main) /\ DOMAIN main' = 1..(Len(main) + Len(listeners))
           /\ \A i \in 1..Len(main) : main'[i] = main[i]
           /\ \A i \in 1..Len(main') : i > Len(main) =>
                 IsCall(main'[i]) /\ main'[i].listener = i - Len(main) /\ main'[i].snap = known'
           /\ listeners = <<>> => main' = main
<1>1. PICK S \in SUBSET users :
          known \subseteq S /\ known' = S /\ arrived' = TRUE /\ main' = main \o Calls(S)
  BY DEF Receive
<1> DEFINE calls == Calls(S)
<1>2. /\ listeners \in Seq(Listeners) /\ main \in Seq(Items) /\ users \in SUBSET Emails
      /\ DOMAIN listeners = 1..Len(listeners) /\ Len(listeners) \in 0..MaxListeners
  <2>1. /\ listeners \in Seq(Listeners) /\ main \in Seq(Items) /\ users \in SUBSET Emails
        /\ work \in Seq(Queries)
    BY DEF TypeOK, Listeners, Items
  <2>2. Len(listeners) + Len(work) <= MaxListeners /\ MaxListeners \in Nat
    BY SearchAssumption DEF Heard
  <2>3. Len(listeners) \in Nat /\ Len(work) \in Nat /\ DOMAIN listeners = 1..Len(listeners)
    BY <2>1
  <2> QED BY <2>1, <2>2, <2>3
<1>3. DOMAIN calls = 1..Len(listeners) /\ calls = [l \in 1..Len(listeners) |-> calls[l]]
  BY <1>2 DEF Calls
<1>4. ASSUME NEW l \in 1..Len(listeners)
      PROVE  calls[l] \in Items /\ IsCall(calls[l]) /\ calls[l].listener = l /\ calls[l].snap = S
  <2>1. calls[l] = [listener |-> l, snap |-> S] /\ l \in 1..MaxListeners /\ S \in SUBSET Emails
    <3>1. l \in 1..MaxListeners /\ l \in DOMAIN listeners
      BY <1>2, SearchAssumption
    <3>2. S \in SUBSET Emails
      BY <1>2
    <3>3. calls[l] = [listener |-> l, snap |-> S]
      BY <3>1 DEF Calls
    <3> QED BY <3>1, <3>2, <3>3
  <2> HIDE DEF calls
  <2> QED BY <2>1, NewCall
<1>5. calls \in Seq(Items) /\ Len(calls) = Len(listeners)
  <2> HIDE DEF calls
  <2> QED BY <1>2, <1>3, <1>4
<1>6. /\ main' \in Seq(Items) /\ Len(main') = Len(main) + Len(calls)
      /\ Len(main) \in Nat
      /\ DOMAIN main = 1..Len(main) /\ DOMAIN main' = 1..(Len(main) + Len(calls))
      /\ \A i \in 1..Len(main) : main'[i] = main[i]
      /\ \A i \in 1..Len(calls) : main'[Len(main) + i] = calls[i]
  <2> DEFINE all == main \o calls
  <2>1. main' = all
    BY <1>1
  <2>2. /\ all \in Seq(Items) /\ Len(all) = Len(main) + Len(calls)
        /\ Len(main) \in Nat
        /\ DOMAIN main = 1..Len(main) /\ DOMAIN all = 1..(Len(main) + Len(calls))
        /\ \A i \in 1..Len(main) : all[i] = main[i]
        /\ \A i \in 1..Len(calls) : all[Len(main) + i] = calls[i]
    <3>1. main \in Seq(Items) /\ calls \in Seq(Items)
      BY <1>2, <1>5
    <3> HIDE DEF calls
    <3> QED BY <3>1, ConcatAt
  <2> HIDE DEF calls, all
  <2> QED BY <2>1, <2>2
<1>7. ASSUME NEW i \in 1..Len(main'), i > Len(main)
      PROVE  IsCall(main'[i]) /\ main'[i].listener = i - Len(main) /\ main'[i].snap = known'
  <2> DEFINE l == i - Len(main)
  <2>1. l \in 1..Len(listeners) /\ i = Len(main) + l
    BY <1>2, <1>5, <1>6, <1>7
  <2> HIDE DEF l, calls
  <2>2. main'[i] = calls[l]
    BY <1>5, <1>6, <2>1
  <2>3. l = i - Len(main)
    BY DEF l
  <2> QED BY <1>1, <1>4, <2>1, <2>2, <2>3
<1>8. listeners = <<>> => main' = main
  <2> HIDE DEF calls
  <2> QED BY <1>2, <1>5, <1>6
<1>9. calm' = FALSE /\ (arrived \/ listeners # <<>>)
  BY DEF Receive
<1> HIDE DEF calls
<1> QED BY <1>1, <1>2, <1>5, <1>6, <1>7, <1>8, <1>9

\* A listener is called: what it finds is added to its array, and the array
\* goes to the end of the queue.
LEMMA CalledEffect ==
    ASSUME TypeOK, Heard, Called
    PROVE  \E l \in DOMAIN listeners, made \in Results :
              LET q == listeners[l].query  S == main[1].snap IN
              /\ main # <<>> /\ IsCall(main[1]) /\ l = main[1].listener /\ S \subseteq known
              /\ listeners[l].made = <<>> => made = InOrder(Found(S, q))
              /\ ToSet(made) = ToSet(listeners[l].made) \union Found(S, q)
              /\ listeners' \in Seq(Listeners) /\ Len(listeners') = Len(listeners)
              /\ DOMAIN listeners' = DOMAIN listeners
              /\ \A k \in DOMAIN listeners :
                    /\ listeners'[k].query = listeners[k].query
                    /\ listeners'[k].made = IF k = l THEN made ELSE listeners[k].made
              /\ main' \in Seq(Items) /\ Len(main') = Len(main)
              /\ DOMAIN main = 1..Len(main) /\ DOMAIN main' = 1..Len(main)
              /\ \A i \in 1..(Len(main) - 1) : main'[i] = main[i + 1]
              /\ ~IsCall(main'[Len(main)]) /\ main'[Len(main)].results = made
<1> DEFINE c == Head(main)
           l == c.listener
           made == Made(c)
           new == [results |-> made]
<1>1. /\ main # <<>> /\ IsCall(c) /\ main' = Append(Tail(main), new)
      /\ listeners' = [listeners EXCEPT ![l].made = made]
  BY DEF Called, NextMain, IsCall
<1>2. main \in Seq(Items) /\ listeners \in Seq(Listeners) /\ DOMAIN listeners = 1..Len(listeners)
  BY DEF TypeOK, Listeners, Items
<1>3. /\ Tail(main) \in Seq(Items) /\ Len(Tail(main)) = Len(main) - 1
      /\ Len(main) \in Nat \ {0} /\ DOMAIN main = 1..Len(main)
      /\ c = main[1] /\ c \in Items
      /\ \A i \in 1..(Len(main) - 1) : Tail(main)[i] = main[i + 1]
  BY <1>1, <1>2, TailAt
<1>4. c.snap \in SUBSET Emails /\ l \in DOMAIN listeners /\ c.snap \subseteq known
  <2>1. c.snap \in SUBSET Emails
    BY <1>1, <1>3, Kinds
  <2>2. 1 \in DOMAIN main
    BY <1>3
  <2> QED BY <1>1, <1>3, <2>1, <2>2 DEF Heard
<1> DEFINE q == listeners[l].query
           old == listeners[l].made
           found == InOrder(Found(c.snap, q))
<1>5. q \in Queries /\ old \in Seq(Emails \ {Me})
  <2>1. l \in 1..Len(listeners)
    BY <1>2, <1>4
  <2> HIDE DEF l
  <2>2. listeners[l] \in Listeners
    BY <1>2, <2>1
  <2> QED BY <2>2 DEF Listeners, Results
<1>6. /\ Found(c.snap, q) \in SUBSET (Emails \ {Me})
      /\ found \in Seq(Emails \ {Me}) /\ ToSet(found) = Found(c.snap, q)
  <2>1. Found(c.snap, q) \in SUBSET (Emails \ {Me})
    BY <1>4, <1>5, FoundTypes
  <2>2. Found(c.snap, q) \in SUBSET Emails
    BY <2>1
  <2>3. found \in Seq(Found(c.snap, q)) /\ ToSet(found) = Found(c.snap, q)
    BY <2>2, InOrderIs
  <2>4. found \in Seq(Emails \ {Me})
    <3> DEFINE F == Found(c.snap, q)
    <3>1. F \subseteq Emails \ {Me} /\ found \in Seq(F)
      BY <2>1, <2>3
    <3> HIDE DEF F, found
    <3> QED BY <3>1
  <2> QED BY <2>1, <2>3, <2>4
<1>7. made = old \o found
  BY DEF Made
<1>8. /\ made \in Results /\ ToSet(made) = ToSet(old) \union Found(c.snap, q)
      /\ old = <<>> => made = found
  <2> HIDE DEF made, old, found
  <2>1. made \in Seq(Emails \ {Me})
    BY <1>5, <1>6, <1>7
  <2>2. ToSet(made) = ToSet(old) \union ToSet(found)
    BY <1>5, <1>6, <1>7, ConcatSet
  <2>3. old = <<>> => made = found
    BY <1>5, <1>6, <1>7
  <2> QED BY <1>6, <2>1, <2>2, <2>3 DEF Results
<1>9. new \in Items /\ ~IsCall(new) /\ new.results = made
  <2> HIDE DEF made
  <2> QED BY <1>8, NewResults
<1>10. /\ main' \in Seq(Items) /\ Len(main') = Len(main) /\ DOMAIN main' = 1..Len(main)
       /\ \A i \in 1..(Len(main) - 1) : main'[i] = main[i + 1]
       /\ main'[Len(main)] = new
  <2> DEFINE rest == Tail(main)
             all == Append(rest, new)
  <2>1. rest \in Seq(Items) /\ Len(rest) = Len(main) - 1 /\ Len(main) \in Nat \ {0}
        /\ main' = all /\ \A i \in 1..(Len(main) - 1) : rest[i] = main[i + 1]
    BY <1>1, <1>3
  <2> HIDE DEF new, rest
  <2>2. /\ all \in Seq(Items) /\ Len(all) = Len(rest) + 1 /\ DOMAIN all = 1..(Len(rest) + 1)
        /\ \A i \in 1..Len(rest) : all[i] = rest[i]
        /\ all[Len(rest) + 1] = new
    BY <1>9, <2>1, AppendAt
  <2> HIDE DEF all
  <2> QED BY <2>1, <2>2
<1>11. /\ listeners' \in Seq(Listeners) /\ Len(listeners') = Len(listeners)
       /\ DOMAIN listeners' = DOMAIN listeners
       /\ \A k \in DOMAIN listeners :
             /\ listeners'[k].query = listeners[k].query
             /\ listeners'[k].made = IF k = l THEN made ELSE listeners[k].made
  <2> DEFINE L == listeners[l]
             one == [L EXCEPT !.made = made]
  <2>1. L \in Listeners /\ listeners' = [listeners EXCEPT ![l] = one]
    BY <1>1, <1>2, <1>4
  <2> HIDE DEF made, l, c
  <2>2. one \in Listeners /\ one.query = listeners[l].query /\ one.made = made
    BY <1>8, <2>1 DEF Listeners
  <2> HIDE DEF one
  <2>3. listeners' \in Seq(Listeners) /\ Len(listeners') = Len(listeners)
        /\ DOMAIN listeners' = DOMAIN listeners
    BY <1>2, <1>4, <2>1, <2>2
  <2>4. \A k \in DOMAIN listeners : listeners'[k] = IF k = l THEN one ELSE listeners[k]
    BY <1>2, <1>4, <2>1
  <2> QED BY <2>2, <2>3, <2>4
<1>12. Len(main) \in 1..Len(main)
  BY <1>3
<1> HIDE DEF c, made, new, found, old
<1> USE <1>4, <1>8
<1> WITNESS l \in DOMAIN listeners, made \in Results
<1> QED BY <1>1, <1>3, <1>4, <1>8, <1>9, <1>10, <1>11 DEF old, found

\* A list of results is assigned.
LEMMA AssignEffect ==
    ASSUME TypeOK, Assign
    PROVE  /\ main # <<>> /\ ~IsCall(main[1]) /\ emailArray' = main[1].results
           /\ main[1].results \in Results
           /\ main' \in Seq(Items) /\ Len(main') = Len(main) - 1 /\ Len(main) \in Nat \ {0}
           /\ DOMAIN main = 1..Len(main) /\ DOMAIN main' = 1..(Len(main) - 1)
           /\ \A i \in 1..(Len(main) - 1) : main'[i] = main[i + 1]
<1> DEFINE r == Head(main)
<1>1. main # <<>> /\ "results" \in DOMAIN r /\ main' = Tail(main) /\ emailArray' = r.results
  BY DEF Assign, NextMain, Show
<1>2. main \in Seq(Items)
  BY DEF TypeOK, Items
<1>3. /\ Tail(main) \in Seq(Items) /\ Len(Tail(main)) = Len(main) - 1
      /\ Len(main) \in Nat \ {0} /\ DOMAIN main = 1..Len(main)
      /\ DOMAIN Tail(main) = 1..(Len(main) - 1)
      /\ r = main[1] /\ r \in Items
      /\ \A i \in 1..(Len(main) - 1) : Tail(main)[i] = main[i + 1]
  BY <1>1, <1>2, TailAt
<1>4. ~IsCall(r) /\ r.results \in Results
  BY <1>1, <1>3, Kinds
<1> HIDE DEF r
<1> QED BY <1>1, <1>3, <1>4

-----------------------------------------------------------------------------
(* Types. *)

\* The types of the data, of the queues, and of the table.
DataTypes == /\ users \subseteq Emails /\ known \subseteq users
             /\ arrived \in BOOLEAN /\ regrown \in BOOLEAN /\ calm \in BOOLEAN

QueueTypes == /\ text \in Queries \union {Empty} /\ work \in Seq(Queries)
              /\ listeners \in Seq(Listeners) /\ main \in Seq(Items)

TableTypes == /\ emailArray \in Results /\ rows \in Seq(Rows) /\ Len(rows) = Len(emailArray)
              /\ choosenOnes \subseteq Emails \ {Me} /\ odd \subseteq DOMAIN rows
              /\ doneHidden \in BOOLEAN

\* TypeOK is the three of them.
LEMMA TypeParts == TypeOK <=> DataTypes /\ QueueTypes /\ TableTypes
<1>1. {arrived, doneHidden, regrown, calm} \subseteq BOOLEAN <=>
        /\ arrived \in BOOLEAN /\ doneHidden \in BOOLEAN
        /\ regrown \in BOOLEAN /\ calm \in BOOLEAN
  OBVIOUS
<1>2. [query : Queries, made : Results] = Listeners /\ Events \union [results : Results] = Items
  BY DEF Listeners, Items
<1> QED BY <1>1, <1>2 DEF TypeOK, DataTypes, QueueTypes, TableTypes

\* A table that is loaded anew has a row for each result.
LEMMA ShowTypes ==
    ASSUME TableTypes, NEW results \in Results, Show(results), UNCHANGED selection
    PROVE  TableTypes'
<1> DEFINE made == [r \in DOMAIN results |-> Display(results[r])]
<1>1. results \in Seq(Emails \ {Me}) /\ DOMAIN results = 1..Len(results) /\ Len(results) \in Nat
  BY DEF Results
<1>2. /\ emailArray' = results /\ rows' = made /\ odd' = {}
      /\ choosenOnes' = choosenOnes /\ doneHidden' = doneHidden
  BY DEF Show, selection
<1>3. made \in [1..Len(results) -> Rows]
  BY <1>1 DEF Display, Rows
<1>4. made \in Seq(Rows) /\ Len(made) = Len(results)
  <2> HIDE DEF made
  <2> QED BY <1>1, <1>3
<1> HIDE DEF made
<1> QED BY <1>2, <1>4 DEF TableTypes

\* One row changes.
LEMMA RowTypes ==
    ASSUME TableTypes, NEW r \in DOMAIN rows, NEW row \in Rows,
           rows' = [rows EXCEPT ![r] = row], odd' \subseteq DOMAIN rows,
           emailArray' = emailArray, choosenOnes' \subseteq Emails \ {Me},
           doneHidden' \in BOOLEAN
    PROVE  TableTypes'
<1>1. rows' \in Seq(Rows) /\ Len(rows') = Len(rows) /\ DOMAIN rows' = DOMAIN rows
  BY DEF TableTypes
<1> QED BY <1>1 DEF TableTypes

\* A row's user is one of the others.
LEMMA RowEmail ==
    ASSUME TableTypes, NEW r \in DOMAIN rows
    PROVE  emailArray[r] \in Emails \ {Me} /\ rows[r] \in Rows
<1>1. DOMAIN rows = 1..Len(rows) /\ DOMAIN emailArray = 1..Len(emailArray)
  BY DEF TableTypes, Results
<1> QED BY <1>1 DEF TableTypes, Results

\* Every step keeps the types of the table.
LEMMA TableTypesStep ==
    ASSUME TypeOK, Heard, [Next]_vars
    PROVE  TableTypes'
<1>0. TableTypes
  BY TypeParts
<1>1. <<>> \in Results
  BY DEF Results
<1>2. ASSUME UNCHANGED <<table, selection>> PROVE TableTypes'
  BY <1>0, <1>2 DEF TableTypes, table, selection
<1>3. CASE Clear
  BY <1>0, <1>1, <1>3, ShowTypes DEF Clear
<1>4. ASSUME NEW r \in DOMAIN rows, Select(r) PROVE TableTypes'
  <2> DEFINE e == emailArray[r]
             row == SetSelected(rows[r])
  <2>1. e \in Emails \ {Me} /\ rows[r] \in Rows
    BY <1>0, RowEmail
  <2>2. row \in Rows
    BY <2>1 DEF Rows, SetSelected
  <2>3. /\ rows' = [rows EXCEPT ![r] = row] /\ emailArray' = emailArray
        /\ odd' = odd \union {s \in DOMAIN rows \ {r} : emailArray[s] = e}
        /\ choosenOnes' = IF e \in choosenOnes THEN choosenOnes \ {e} ELSE choosenOnes \union {e}
        /\ doneHidden' = (choosenOnes' = {})
    BY <1>4 DEF Select, Choose
  <2>4. /\ odd' \subseteq DOMAIN rows /\ choosenOnes' \subseteq Emails \ {Me}
        /\ doneHidden' \in BOOLEAN
    <3> HIDE DEF e
    <3> QED BY <1>0, <2>1, <2>3 DEF TableTypes
  <2> HIDE DEF row
  <2> QED BY <1>0, <2>2, <2>3, <2>4, RowTypes
<1>5. ASSUME NEW r \in DOMAIN rows, Deselect(r) PROVE TableTypes'
  <2> DEFINE row == SetSelected(rows[r])
  <2>1. rows[r] \in Rows
    BY <1>0, RowEmail
  <2>2. row \in Rows
    BY <2>1 DEF Rows, SetSelected
  <2>3. /\ rows' = [rows EXCEPT ![r] = row] /\ emailArray' = emailArray
        /\ odd' = odd \union {r} /\ choosenOnes' = choosenOnes /\ doneHidden' = doneHidden
    BY <1>5 DEF Deselect, selection
  <2>4. /\ odd' \subseteq DOMAIN rows /\ choosenOnes' \subseteq Emails \ {Me}
        /\ doneHidden' \in BOOLEAN
    BY <1>0, <2>3 DEF TableTypes
  <2> HIDE DEF row
  <2> QED BY <1>0, <2>2, <2>3, <2>4, RowTypes
<1>6. ASSUME NEW r \in DOMAIN rows, Redisplay(r) PROVE TableTypes'
  <2> DEFINE chosen == emailArray[r] \in choosenOnes
             old == rows[r]
             row == [old EXCEPT !.mark = chosen]
  <2>1. old \in Rows
    BY <1>0, RowEmail
  <2>2. row \in Rows
    <3>1. chosen \in BOOLEAN
      OBVIOUS
    <3> HIDE DEF chosen, old
    <3> QED BY <2>1, <3>1 DEF Rows
  <2>3. /\ rows' = [rows EXCEPT ![r] = row] /\ emailArray' = emailArray
        /\ odd' = odd \ {r} /\ choosenOnes' = choosenOnes /\ doneHidden' = doneHidden
    BY <1>6 DEF Redisplay, selection
  <2>4. /\ odd' \subseteq DOMAIN rows /\ choosenOnes' \subseteq Emails \ {Me}
        /\ doneHidden' \in BOOLEAN
    BY <1>0, <2>3 DEF TableTypes
  <2> HIDE DEF row
  <2> QED BY <1>0, <2>2, <2>3, <2>4, RowTypes
<1>7. CASE Assign
  <2> DEFINE r == Head(main).results
  <2>1. Show(r) /\ UNCHANGED selection
    BY <1>7 DEF Assign
  <2>2. r = emailArray'
    BY <2>1 DEF Show
  <2>3. r \in Results
    BY <1>7, <2>2, AssignEffect
  <2> HIDE DEF r
  <2> QED BY <1>0, <2>1, <2>3, ShowTypes
<1>8. CASE UNCHANGED <<table, selection>>
  BY <1>2, <1>8
<1>9. ASSUME NEW q \in Queries, Type(q) PROVE TableTypes'
  BY <1>2, <1>9 DEF Type
<1>10. CASE SignUp
  BY <1>2, <1>10 DEF SignUp
<1>11. CASE Receive
  BY <1>2, <1>11 DEF Receive
<1>12. CASE Attach
  BY <1>2, <1>12 DEF Attach
<1>13. CASE Called
  BY <1>2, <1>13 DEF Called
<1>14. CASE UNCHANGED vars
  BY <1>2, <1>14 DEF vars
<1> QED BY <1>3, <1>4, <1>5, <1>6, <1>7, <1>9, <1>10, <1>11, <1>12, <1>13, <1>14
        DEF Next, User, System

-----------------------------------------------------------------------------
(* The steps. *)

\* Taps, scrolling and signing up leave the search alone.
LEMMA Cases ==
    ASSUME [Next]_vars
    PROVE  \/ UNCHANGED <<known, arrived, text, work, listeners, main, emailArray, regrown, calm>>
           \/ Clear \/ (\E q \in Queries : Type(q)) \/ Receive \/ Attach \/ Called \/ Assign
<1> DEFINE Alone ==
       UNCHANGED <<known, arrived, text, work, listeners, main, emailArray, regrown, calm>>
<1>1. ASSUME NEW r, Select(r) PROVE Alone
  BY <1>1 DEF Select, server, firebase
<1>2. ASSUME NEW r, Deselect(r) PROVE Alone
  BY <1>2 DEF Deselect, server, firebase
<1>3. ASSUME NEW r, Redisplay(r) PROVE Alone
  BY <1>3 DEF Redisplay, server, firebase
<1>4. CASE SignUp
  BY <1>4 DEF SignUp, firebase, table
<1>5. CASE UNCHANGED vars
  BY <1>5 DEF vars, server, firebase, table
<1>6. CASE \E r \in DOMAIN rows : Select(r) \/ Deselect(r) \/ Redisplay(r)
  BY <1>1, <1>2, <1>3, <1>6
<1> QED BY <1>4, <1>5, <1>6 DEF Next, User, System

\* Every step keeps the types of the data.
LEMMA DataTypesStep ==
    ASSUME TypeOK, Heard, [Next]_vars
    PROVE  DataTypes'
<1>0. DataTypes
  BY TypeParts
<1>1. CASE Clear
  BY <1>0, <1>1 DEF Clear, DataTypes, Quiet, server
<1>2. ASSUME NEW q \in Queries, Type(q) PROVE DataTypes'
  BY <1>0, <1>2 DEF Type, DataTypes, server
<1>3. CASE SignUp
  BY <1>0, <1>3 DEF SignUp, DataTypes
<1>4. CASE Receive
  <2>1. users' = users /\ regrown' = (regrown \/ (arrived /\ listeners # <<>>)) 
    BY <1>4 DEF Receive
  <2>2. regrown' \in BOOLEAN
    BY <2>1
  <2>3. known' \subseteq users' /\ arrived' \in BOOLEAN /\ calm' \in BOOLEAN
    BY <1>4, <2>1, ReceiveEffect
  <2> QED BY <1>0, <2>1, <2>2, <2>3 DEF DataTypes
<1>5. CASE Attach
  BY <1>0, <1>5 DEF Attach, DataTypes, server
<1>6. CASE Called
  BY <1>0, <1>6 DEF Called, DataTypes, server
<1>7. CASE Assign
  BY <1>0, <1>7 DEF Assign, DataTypes, server
<1>8. ASSUME NEW r, Select(r) \/ Deselect(r) \/ Redisplay(r) PROVE DataTypes'
  BY <1>0, <1>8 DEF Select, Deselect, Redisplay, DataTypes, server
<1>9. CASE UNCHANGED vars
  BY <1>0, <1>9 DEF vars, DataTypes, server
<1> QED BY <1>1, <1>2, <1>3, <1>4, <1>5, <1>6, <1>7, <1>8, <1>9 DEF Next, User, System

\* Every step keeps the types of the queues.
LEMMA QueueTypesStep ==
    ASSUME TypeOK, Heard, [Next]_vars
    PROVE  QueueTypes'
<1>0. QueueTypes
  BY TypeParts
<1>1. CASE Clear
  BY <1>0, <1>1 DEF Clear, QueueTypes, firebase
<1>2. ASSUME NEW q \in Queries, Type(q) PROVE QueueTypes'
  <2>1. /\ text' = q /\ work' = Append(work, q)
        /\ listeners' = listeners /\ main' = main
    BY <1>2 DEF Type
  <2> QED BY <1>0, <2>1 DEF QueueTypes
<1>3. CASE Receive
  <2>1. text' = text /\ work' = work /\ listeners' = listeners
    BY <1>3 DEF Receive, firebase
  <2> QED BY <1>0, <1>3, <2>1, ReceiveEffect DEF QueueTypes
<1>4. CASE Attach
  <2>1. text' = text
    BY <1>4 DEF Attach
  <2>2. main' \in Seq(Items)
    BY <1>0, <1>4, AttachEffect DEF QueueTypes
  <2> QED BY <1>0, <1>4, <2>1, <2>2, AttachEffect DEF QueueTypes
<1>5. CASE Called
  <2>1. text' = text /\ work' = work
    BY <1>5 DEF Called
  <2> QED BY <1>0, <1>5, <2>1, CalledEffect DEF QueueTypes
<1>6. CASE Assign
  <2>1. text' = text /\ work' = work /\ listeners' = listeners
    BY <1>6 DEF Assign, firebase
  <2> QED BY <1>0, <1>6, <2>1, AssignEffect DEF QueueTypes
<1>7. CASE UNCHANGED <<text, work, listeners, main>>
  BY <1>0, <1>7 DEF QueueTypes
<1> QED BY <1>1, <1>2, <1>3, <1>4, <1>5, <1>6, <1>7, Cases

\* Every step keeps: calls are of listeners there are, data are ones had since.
LEMMA HeardStep ==
    ASSUME TypeOK, Heard, [Next]_vars
    PROVE  Heard'
<1>0. /\ work \in Seq(Queries) /\ listeners \in Seq(Listeners) /\ main \in Seq(Items)
      /\ Len(work) \in Nat /\ Len(listeners) \in Nat /\ MaxListeners \in Nat
      /\ DOMAIN listeners = 1..Len(listeners) /\ DOMAIN main = 1..Len(main) /\ Len(main) \in Nat
      /\ known \in SUBSET Emails
  BY SearchAssumption DEF TypeOK, Listeners, Items
<1>1. CASE Clear
  BY <1>1 DEF Clear, Heard, firebase, server
<1>2. ASSUME NEW q \in Queries, Type(q) PROVE Heard'
  <2>1. /\ listeners' = listeners /\ main' = main /\ known' = known
        /\ work' = Append(work, q) /\ Len(listeners) + Len(work) < MaxListeners
    BY <1>2 DEF Type, server
  <2>2. Len(work') = Len(work) + 1
    BY <1>0, <2>1
  <2>3. Len(listeners') + Len(work') <= MaxListeners
    BY <1>0, <2>1, <2>2
  <2> QED BY <2>1, <2>3 DEF Heard
<1>3. CASE Receive
  <2>1. listeners' = listeners /\ work' = work
    BY <1>3 DEF Receive, firebase
  <2>2. known' \in SUBSET Emails /\ known \subseteq known'
    BY <1>3, ReceiveEffect
  <2>3. ASSUME NEW i \in DOMAIN main', IsCall(main'[i])
        PROVE  main'[i].listener \in DOMAIN listeners' /\ main'[i].snap \subseteq known'
    <3>1. CASE i \in 1..Len(main)
      <4>1. main'[i] = main[i]
        BY <1>3, <3>1, ReceiveEffect
      <4> QED BY <1>0, <2>1, <2>2, <2>3, <3>1, <4>1 DEF Heard
    <3>2. CASE i \notin 1..Len(main)
      <4>1. i \in 1..(Len(main) + Len(listeners)) /\ Len(main') = Len(main) + Len(listeners)
        BY <1>3, <2>3, ReceiveEffect
      <4>2. i \in 1..Len(main') /\ i > Len(main)
        BY <1>0, <3>2, <4>1
      <4>3. main'[i].listener = i - Len(main) /\ main'[i].snap = known'
        BY <1>3, <4>2, ReceiveEffect
      <4> QED BY <1>0, <2>1, <4>1, <4>2, <4>3
    <3> QED BY <3>1, <3>2
  <2>4. ASSUME NEW l \in DOMAIN listeners'
        PROVE  ToSet(listeners'[l].made) \subseteq Found(known', listeners'[l].query)
    <3>1. listeners[l].query \in Queries
      <4>1. listeners[l] \in Listeners
        BY <1>0, <2>1
      <4> QED BY <4>1 DEF Listeners
    <3>2. Found(known, listeners[l].query) \subseteq Found(known', listeners[l].query)
      BY <2>2, <3>1, FoundTypes
    <3> QED BY <2>1, <3>2 DEF Heard
  <2> QED BY <2>1, <2>3, <2>4 DEF Heard
<1>4. CASE Attach
  <2>1. known' = known
    BY <1>4 DEF Attach, server
  <2>2. /\ Len(listeners') = Len(listeners) + 1 /\ Len(work') = Len(work) - 1
        /\ DOMAIN listeners' = 1..(Len(listeners) + 1)
        /\ \A l \in DOMAIN listeners : listeners'[l] = listeners[l]
        /\ listeners'[Len(listeners')].made = <<>>
    BY <1>4, AttachEffect
  <2>3. Len(listeners') + Len(work') <= MaxListeners
    BY <1>0, <2>2 DEF Heard
  <2>4. ASSUME NEW i \in DOMAIN main', IsCall(main'[i])
        PROVE  main'[i].listener \in DOMAIN listeners' /\ main'[i].snap \subseteq known'
    <3>1. CASE i \in DOMAIN main
      <4>1. main'[i] = main[i]
        BY <1>4, <3>1, AttachEffect
      <4>2. main[i].listener \in DOMAIN listeners /\ main[i].snap \subseteq known
        BY <2>4, <3>1, <4>1 DEF Heard
      <4> QED BY <1>0, <2>1, <2>2, <4>1, <4>2
    <3>2. CASE i \notin DOMAIN main
      <4>1. arrived
        BY <1>4, <2>4, <3>2, AttachEffect
      <4>2. /\ main' \in Seq(Items) /\ Len(main') = Len(main) + 1
            /\ main'[Len(main')].snap = known /\ main'[Len(main')].listener = Len(listeners')
        BY <1>4, <4>1, AttachEffect
      <4>3. i = Len(main')
        BY <1>0, <2>4, <3>2, <4>2
      <4> QED BY <1>0, <2>1, <2>2, <4>2, <4>3
    <3> QED BY <3>1, <3>2
  <2>5. ASSUME NEW l \in DOMAIN listeners'
        PROVE  ToSet(listeners'[l].made) \subseteq Found(known', listeners'[l].query)
    <3>1. CASE l \in DOMAIN listeners
      BY <2>1, <2>2, <3>1 DEF Heard
    <3>2. CASE l \notin DOMAIN listeners
      <4>1. l = Len(listeners')
        BY <1>0, <2>2, <2>5, <3>2
      <4> QED BY <2>2, <4>1 DEF ToSet
    <3> QED BY <3>1, <3>2
  <2> QED BY <2>3, <2>4, <2>5 DEF Heard
<1>5. CASE Called
  <2>1. known' = known /\ work' = work
    BY <1>5 DEF Called, server
  <2>2. PICK l \in DOMAIN listeners, made \in Results :
           /\ main # <<>> /\ main[1].snap \subseteq known
           /\ ToSet(made) = ToSet(listeners[l].made) \union Found(main[1].snap, listeners[l].query)
           /\ Len(listeners') = Len(listeners) /\ DOMAIN listeners' = DOMAIN listeners
           /\ \A k \in DOMAIN listeners :
                 /\ listeners'[k].query = listeners[k].query
                 /\ listeners'[k].made = IF k = l THEN made ELSE listeners[k].made
           /\ DOMAIN main' = 1..Len(main)
           /\ \A i \in 1..(Len(main) - 1) : main'[i] = main[i + 1]
           /\ ~IsCall(main'[Len(main)])
    BY <1>5, CalledEffect
  <2>3. ASSUME NEW i \in DOMAIN main', IsCall(main'[i])
        PROVE  main'[i].listener \in DOMAIN listeners' /\ main'[i].snap \subseteq known'
    <3>1. i \in 1..(Len(main) - 1) /\ i + 1 \in DOMAIN main /\ main'[i] = main[i + 1]
      BY <1>0, <2>2, <2>3
    <3> QED BY <2>1, <2>2, <2>3, <3>1 DEF Heard
  <2>4. ASSUME NEW k \in DOMAIN listeners'
        PROVE  ToSet(listeners'[k].made) \subseteq Found(known', listeners'[k].query)
    <3>1. listeners[k].query \in Queries
      <4>1. listeners[k] \in Listeners
        BY <1>0, <2>2
      <4> QED BY <4>1 DEF Listeners
    <3>2. Found(main[1].snap, listeners[k].query) \subseteq Found(known, listeners[k].query)
      BY <1>0, <2>2, <3>1, FoundTypes
    <3> QED BY <2>1, <2>2, <3>2 DEF Heard
  <2> QED BY <2>1, <2>2, <2>3, <2>4 DEF Heard
<1>6. CASE Assign
  <2>1. known' = known /\ work' = work /\ listeners' = listeners
    BY <1>6 DEF Assign, server, firebase
  <2>2. ASSUME NEW i \in DOMAIN main'
        PROVE  i + 1 \in DOMAIN main /\ main'[i] = main[i + 1]
    BY <1>0, <1>6, <2>2, AssignEffect
  <2> QED BY <2>1, <2>2 DEF Heard
<1>7. CASE UNCHANGED <<known, work, listeners, main>>
  BY <1>7 DEF Heard
<1> QED BY <1>1, <1>2, <1>3, <1>4, <1>5, <1>6, <1>7, Cases

\* What the steps below know of the queues.
LEMMA Shapes ==
    ASSUME TypeOK
    PROVE  /\ work \in Seq(Queries) /\ listeners \in Seq(Listeners) /\ main \in Seq(Items)
           /\ Len(work) \in Nat /\ Len(listeners) \in Nat /\ Len(main) \in Nat
           /\ DOMAIN listeners = 1..Len(listeners) /\ DOMAIN main = 1..Len(main)
           /\ work = <<>> <=> Len(work) = 0
           /\ listeners = <<>> <=> Len(listeners) = 0
           /\ main = <<>> <=> Len(main) = 0
BY DEF TypeOK, Listeners, Items

\* Every step keeps: the newest listener is that of the text.
LEMMA NewestStep ==
    ASSUME TypeOK, Heard, Newest, [Next]_vars
    PROVE  Newest'
<1>0. /\ work \in Seq(Queries) /\ Len(work) \in Nat /\ Len(listeners) \in Nat
      /\ work = <<>> <=> Len(work) = 0
      /\ listeners = <<>> <=> Len(listeners) = 0
      /\ DOMAIN listeners = 1..Len(listeners)
  BY Shapes
<1>1. CASE Clear
  BY <1>1 DEF Clear, Newest
<1>2. ASSUME NEW q \in Queries, Type(q) PROVE Newest'
  <2>1. text' = q /\ work' = Append(work, q)
    BY <1>2 DEF Type
  <2>2. work' # <<>> /\ work'[Len(work')] = q
    BY <1>0, <2>1
  <2> QED BY <2>1, <2>2 DEF Newest
<1>3. CASE Attach
  <2>1. text' = text
    BY <1>3 DEF Attach
  <2>2. /\ work # <<>> /\ work' \in Seq(Queries) /\ Len(work') = Len(work) - 1
        /\ \A i \in 1..(Len(work) - 1) : work'[i] = work[i + 1]
        /\ Len(listeners') = Len(listeners) + 1 /\ listeners' \in Seq(Listeners)
        /\ listeners'[Len(listeners')].query = work[1]
    BY <1>3, AttachEffect
  <2>3. listeners' # <<>>
    BY <1>0, <2>2
  <2>4. CASE Len(work) = 1
    <3>1. work' = <<>>
      BY <2>2, <2>4
    <3> QED BY <2>1, <2>2, <2>3, <2>4, <3>1 DEF Newest
  <2>5. CASE Len(work) # 1
    <3>1. work' # <<>> /\ Len(work') \in 1..(Len(work) - 1) /\ Len(work') + 1 = Len(work)
      BY <1>0, <2>2, <2>5
    <3>2. work'[Len(work')] = work[Len(work)]
      BY <2>2, <3>1
    <3> QED BY <2>1, <2>2, <3>1, <3>2 DEF Newest
  <2> QED BY <2>4, <2>5
<1>4. CASE Called
  <2>1. text' = text /\ work' = work
    BY <1>4 DEF Called
  <2>2. /\ listeners' \in Seq(Listeners) /\ Len(listeners') = Len(listeners)
        /\ \A k \in DOMAIN listeners : listeners'[k].query = listeners[k].query
    BY <1>4, CalledEffect
  <2>3. listeners # <<>> =>
          listeners' # <<>> /\ listeners'[Len(listeners')].query = listeners[Len(listeners)].query
    BY <1>0, <2>2
  <2> QED BY <2>1, <2>3 DEF Newest
<1>5. CASE UNCHANGED <<text, work, listeners>>
  BY <1>5 DEF Newest
<1>6. CASE Receive
  BY <1>5, <1>6 DEF Receive, firebase
<1>7. CASE Assign
  BY <1>5, <1>7 DEF Assign, firebase
<1> QED BY <1>1, <1>2, <1>3, <1>4, <1>5, <1>6, <1>7, Cases

\* Every step keeps: the last call is the newest listener's, and what is
\* behind the calls is what that listener found.
LEMMA LastIsNewestStep ==
    ASSUME TypeOK, Heard, LastIsNewest, [Next]_vars
    PROVE  LastIsNewest'
<1>0. /\ listeners \in Seq(Listeners) /\ main \in Seq(Items)
      /\ Len(listeners) \in Nat /\ Len(main) \in Nat
      /\ DOMAIN listeners = 1..Len(listeners) /\ DOMAIN main = 1..Len(main)
      /\ listeners = <<>> <=> Len(listeners) = 0
      /\ main = <<>> <=> Len(main) = 0
  BY Shapes
<1>1. CASE UNCHANGED <<known, arrived, listeners, main>>
  BY <1>1 DEF LastIsNewest, LastCall, NoCalls
<1>2. CASE Clear
  BY <1>1, <1>2 DEF Clear, server, firebase
<1>3. ASSUME NEW q \in Queries, Type(q) PROVE LastIsNewest'
  BY <1>1, <1>3 DEF Type, server
<1>4. CASE Receive
  <2>1. listeners' = listeners
    BY <1>4 DEF Receive, firebase
  <2>2. /\ arrived \/ listeners # <<>>
        /\ main' \in Seq(Items) /\ Len(main') = Len(main) + Len(listeners)
        /\ DOMAIN main' = 1..(Len(main) + Len(listeners))
        /\ \A i \in 1..Len(main') : i > Len(main) =>
              IsCall(main'[i]) /\ main'[i].listener = i - Len(main) /\ main'[i].snap = known'
    BY <1>4, ReceiveEffect
  <2> SUFFICES ASSUME listeners # <<>> PROVE LastIsNewest'
    BY <2>1 DEF LastIsNewest
  <2>3. /\ Len(main') \in DOMAIN main' /\ Len(main') > Len(main) /\ Len(main') - Len(main) = Len(listeners)
        /\ Len(main') \in 1..Len(main')
    BY <1>0, <2>2
  <2>4. /\ IsCall(main'[Len(main')]) /\ main'[Len(main')].listener = Len(listeners)
        /\ main'[Len(main')].snap = known'
    BY <2>2, <2>3
  <2>5. ASSUME NEW i \in DOMAIN main', LastCall(i)'
        PROVE  i = Len(main')
    <3>1. Len(main') > i => ~IsCall(main'[Len(main')])
      BY <2>3, <2>5 DEF LastCall
    <3>2. ~(Len(main') > i)
      BY <2>4, <3>1
    <3>3. i \in 1..Len(main') /\ Len(main') \in Nat
      BY <1>0, <2>2, <2>5
    <3> QED BY <3>2, <3>3
  <2> QED BY <2>1, <2>3, <2>4, <2>5 DEF LastIsNewest, NoCalls
<1>5. CASE Attach
  <2>1. known' = known /\ arrived' = arrived
    BY <1>5 DEF Attach, server
  <2> SUFFICES ASSUME arrived PROVE LastIsNewest'
    BY <2>1 DEF LastIsNewest
  <2>2. /\ main' \in Seq(Items) /\ Len(main') = Len(main) + 1
        /\ IsCall(main'[Len(main')]) /\ main'[Len(main')].snap = known
        /\ main'[Len(main')].listener = Len(listeners')
    BY <1>5, AttachEffect
  <2>3. Len(main') \in DOMAIN main' /\ DOMAIN main' = 1..(Len(main) + 1)
    BY <1>0, <2>2
  <2>4. ASSUME NEW i \in DOMAIN main', LastCall(i)'
        PROVE  i = Len(main')
    <3>1. Len(main') > i => ~IsCall(main'[Len(main')])
      BY <2>3, <2>4 DEF LastCall
    <3> QED BY <1>0, <2>2, <2>3, <2>4, <3>1
  <2> QED BY <2>1, <2>2, <2>3, <2>4 DEF LastIsNewest, NoCalls
<1>6. CASE Called
  <2>1. known' = known /\ arrived' = arrived
    BY <1>6 DEF Called, server
  <2>2. PICK l \in DOMAIN listeners, made \in Results :
           /\ main # <<>> /\ IsCall(main[1]) /\ l = main[1].listener
           /\ ToSet(made) = ToSet(listeners[l].made) \union Found(main[1].snap, listeners[l].query)
           /\ Len(listeners') = Len(listeners) /\ DOMAIN listeners' = DOMAIN listeners
           /\ \A k \in DOMAIN listeners : listeners'[k].query = listeners[k].query
           /\ Len(main') = Len(main) /\ DOMAIN main' = 1..Len(main)
           /\ \A i \in 1..(Len(main) - 1) : main'[i] = main[i + 1]
           /\ ~IsCall(main'[Len(main)]) /\ main'[Len(main)].results = made
    BY <1>6, CalledEffect
  <2> SUFFICES ASSUME arrived PROVE LastIsNewest'
    BY <2>1 DEF LastIsNewest
  <2>3. listeners # <<>> /\ Len(listeners) \in DOMAIN listeners /\ Len(main) \in 1..Len(main)
    BY <1>0, <2>2
  <2>4. /\ \A i \in DOMAIN main : LastCall(i) =>
              main[i].listener = Len(listeners) /\ main[i].snap = known
    BY <2>3 DEF LastIsNewest
  <2>5. ASSUME NEW i \in DOMAIN main', LastCall(i)'
        PROVE  main'[i].listener = Len(listeners') /\ main'[i].snap = known'
    <3>1. IsCall(main'[i]) /\ \A j \in DOMAIN main' : j > i => ~IsCall(main'[j])
      BY <2>5 DEF LastCall
    <3>2. i \in 1..(Len(main) - 1) /\ i + 1 \in DOMAIN main /\ main'[i] = main[i + 1]
      BY <1>0, <2>2, <2>5, <3>1
    <3>3. ASSUME NEW j \in DOMAIN main, j > i + 1
          PROVE  ~IsCall(main[j])
      <4>1. j - 1 \in 1..(Len(main) - 1) /\ j - 1 > i /\ (j - 1) + 1 = j /\ j - 1 \in DOMAIN main'
        BY <1>0, <2>2, <3>2, <3>3
      <4> QED BY <2>2, <3>1, <4>1
    <3>4. LastCall(i + 1)
      BY <3>1, <3>2, <3>3 DEF LastCall
    <3> QED BY <2>1, <2>2, <2>4, <3>2, <3>4
  <2>6. ASSUME NoCalls'
        PROVE  ToSet(main'[Len(main')].results)
                 = Found(known', listeners'[Len(listeners')].query)
    <3>1. ASSUME NEW j \in DOMAIN main, j > 1
          PROVE  ~IsCall(main[j])
      <4>1. j - 1 \in 1..(Len(main) - 1) /\ (j - 1) + 1 = j /\ j - 1 \in DOMAIN main'
        BY <1>0, <2>2, <3>1
      <4> QED BY <2>2, <2>6, <4>1 DEF NoCalls
    <3>2. 1 \in DOMAIN main /\ LastCall(1)
      BY <1>0, <2>2, <3>1 DEF LastCall
    <3>3. l = Len(listeners) /\ main[1].snap = known
      BY <2>2, <2>4, <3>2
    <3>4. ToSet(listeners[l].made) \subseteq Found(known, listeners[l].query)
      BY <2>2 DEF Heard
    <3>5. ToSet(made) = Found(known, listeners[l].query)
      BY <2>2, <3>3, <3>4
    <3> QED BY <2>1, <2>2, <2>3, <3>3, <3>5
  <2> QED BY <2>5, <2>6 DEF LastIsNewest
<1>7. CASE Assign
  <2>1. known' = known /\ arrived' = arrived /\ listeners' = listeners
    BY <1>7 DEF Assign, server, firebase
  <2>2. /\ main # <<>> /\ ~IsCall(main[1])
        /\ main' \in Seq(Items) /\ Len(main') = Len(main) - 1
        /\ DOMAIN main' = 1..(Len(main) - 1)
        /\ \A i \in 1..(Len(main) - 1) : main'[i] = main[i + 1]
    BY <1>7, AssignEffect
  <2> SUFFICES ASSUME arrived, listeners # <<>> PROVE LastIsNewest'
    BY <2>1 DEF LastIsNewest
  <2>3. ASSUME NEW i \in DOMAIN main', LastCall(i)'
        PROVE  main'[i].listener = Len(listeners') /\ main'[i].snap = known'
    <3>1. IsCall(main'[i]) /\ \A j \in DOMAIN main' : j > i => ~IsCall(main'[j])
      BY <2>3 DEF LastCall
    <3>2. i \in 1..(Len(main) - 1) /\ i + 1 \in DOMAIN main /\ main'[i] = main[i + 1]
      BY <1>0, <2>2, <2>3
    <3>3. ASSUME NEW j \in DOMAIN main, j > i + 1
          PROVE  ~IsCall(main[j])
      <4>1. j - 1 \in 1..(Len(main) - 1) /\ j - 1 > i /\ (j - 1) + 1 = j /\ j - 1 \in DOMAIN main'
        BY <1>0, <2>2, <3>2, <3>3
      <4> QED BY <2>2, <3>1, <4>1
    <3>4. LastCall(i + 1)
      BY <3>1, <3>2, <3>3 DEF LastCall
    <3> QED BY <2>1, <3>2, <3>4 DEF LastIsNewest
  <2>4. ASSUME NoCalls', main' # <<>>
        PROVE  ToSet(main'[Len(main')].results)
                 = Found(known', listeners'[Len(listeners')].query)
    <3>1. Len(main') # 0
      BY <2>2, <2>4
    <3>2. Len(main') \in 1..(Len(main) - 1) /\ Len(main') + 1 = Len(main) /\ main # <<>>
      BY <1>0, <2>2, <3>1
    <3>3. main'[Len(main')] = main[Len(main)]
      BY <2>2, <3>2
    <3>4. ASSUME NEW j \in DOMAIN main
          PROVE  ~IsCall(main[j])
      <4>1. CASE j = 1
        BY <2>2, <4>1
      <4>2. CASE j # 1
        <5>1. j - 1 \in 1..(Len(main) - 1) /\ (j - 1) + 1 = j /\ j - 1 \in DOMAIN main'
          BY <1>0, <2>2, <4>2
        <5> QED BY <2>2, <2>4, <5>1 DEF NoCalls
      <4> QED BY <4>1, <4>2
    <3> QED BY <2>1, <3>2, <3>3, <3>4 DEF LastIsNewest, NoCalls
  <2> QED BY <2>3, <2>4 DEF LastIsNewest
<1> QED BY <1>1, <1>2, <1>3, <1>4, <1>5, <1>6, <1>7, Cases

\* Every step keeps: nothing comes that was not asked for.
LEMMA StillStep ==
    ASSUME TypeOK, Heard, NothingYet, Still, [Next]_vars
    PROVE  Still'
<1>1. CASE Clear
  <2>1. /\ emailArray' = <<>> /\ calm' = (Quiet /\ arrived)
        /\ work' = work /\ main' = main
    BY <1>1 DEF Clear, Show, firebase
  <2> QED BY <2>1 DEF Still, Quiet
<1>2. ASSUME NEW q \in Queries, Type(q) PROVE Still'
  <2>1. text' = q /\ q # Empty
    BY <1>2, SearchAssumption DEF Type
  <2> QED BY <2>1 DEF Still
<1>3. CASE Receive
  BY <1>3, ReceiveEffect DEF Still
<1>4. CASE Attach
  <2>1. work # <<>> /\ text' = text /\ calm' = calm
    BY <1>4 DEF Attach
  <2> QED BY <2>1 DEF Still, Quiet
<1>5. CASE Called
  <2>1. main # <<>> /\ text' = text /\ calm' = calm
    BY <1>5 DEF Called, NextMain
  <2> QED BY <2>1 DEF Still, Quiet
<1>6. CASE Assign
  <2>1. main # <<>> /\ text' = text /\ calm' = calm
    BY <1>6 DEF Assign, NextMain
  <2> QED BY <2>1 DEF Still, Quiet
<1>7. CASE UNCHANGED <<text, calm, work, main, emailArray>>
  BY <1>7 DEF Still, Quiet
<1> QED BY <1>1, <1>2, <1>3, <1>4, <1>5, <1>6, <1>7, Cases

\* Every step keeps: with nothing under way the rows are what the text finds.
LEMMA SettleStep ==
    ASSUME TypeOK, Heard, Newest, LastIsNewest, ResultsSettle, [Next]_vars
    PROVE  ResultsSettle'
<1>0. /\ listeners \in Seq(Listeners) /\ main \in Seq(Items)
      /\ Len(listeners) \in Nat /\ Len(main) \in Nat
      /\ DOMAIN listeners = 1..Len(listeners) /\ DOMAIN main = 1..Len(main)
      /\ listeners = <<>> <=> Len(listeners) = 0
      /\ main = <<>> <=> Len(main) = 0
  BY Shapes
<1>1. CASE Clear
  BY <1>1 DEF Clear, ResultsSettle
<1>2. ASSUME NEW q \in Queries, Type(q) PROVE ResultsSettle'
  <2>1. work \in Seq(Queries) /\ work' = Append(work, q)
    BY <1>2, Shapes DEF Type
  <2>2. work' # <<>>
    BY <2>1
  <2> QED BY <2>2 DEF ResultsSettle, Quiet
<1>3. CASE Receive
  <2>1. text' = text /\ work' = work /\ listeners' = listeners
    BY <1>3 DEF Receive, firebase
  <2>2. main' \in Seq(Items) /\ Len(main') = Len(main) + Len(listeners)
    BY <1>3, ReceiveEffect
  <2>3. text' # Empty /\ work' = <<>> => main' # <<>>
    BY <1>0, <2>1, <2>2 DEF Newest
  <2> QED BY <2>3 DEF ResultsSettle, Quiet
<1>4. CASE Attach
  <2>1. arrived' = arrived
    BY <1>4 DEF Attach, server
  <2>2. arrived => main' \in Seq(Items) /\ Len(main') = Len(main) + 1
    BY <1>4, AttachEffect
  <2>3. arrived => main' # <<>>
    BY <1>0, <2>2
  <2> QED BY <2>1, <2>3 DEF ResultsSettle, Quiet
<1>5. CASE Called
  <2>1. main # <<>> /\ main' \in Seq(Items) /\ Len(main') = Len(main)
    BY <1>5, CalledEffect
  <2>2. main' # <<>>
    BY <1>0, <2>1
  <2> QED BY <2>2 DEF ResultsSettle, Quiet
<1>6. CASE Assign
  <2>1. /\ known' = known /\ arrived' = arrived /\ text' = text
        /\ work' = work /\ listeners' = listeners
    BY <1>6 DEF Assign, server, firebase
  <2>2. /\ main # <<>> /\ ~IsCall(main[1]) /\ emailArray' = main[1].results
        /\ main' \in Seq(Items) /\ Len(main') = Len(main) - 1
    BY <1>6, AssignEffect
  <2> SUFFICES ASSUME work = <<>>, main' = <<>>, text # Empty, arrived
               PROVE  ToSet(emailArray') = Found(known, text)
    BY <2>1 DEF ResultsSettle, Quiet
  <2>3. Len(main) = 1 /\ NoCalls
    <3>1. Len(main') = 0
      OBVIOUS
    <3>2. Len(main) = 1
      <4> DEFINE n == Len(main)
      <4>1. n \in Nat /\ 0 = n - 1
        BY <1>0, <2>2, <3>1
      <4> HIDE DEF n
      <4>2. n = 1
        BY <4>1
      <4> QED BY <4>2 DEF n
    <3>3. \A i \in DOMAIN main : i = 1
      BY <1>0, <3>2
    <3> QED BY <2>2, <3>2, <3>3 DEF NoCalls
  <2>4. listeners # <<>> /\ listeners[Len(listeners)].query = text
    BY DEF Newest
  <2> QED BY <2>2, <2>3, <2>4 DEF LastIsNewest
<1>7. CASE UNCHANGED <<known, arrived, text, work, main, emailArray>>
  BY <1>7 DEF ResultsSettle, Quiet
<1> QED BY <1>1, <1>2, <1>3, <1>4, <1>5, <1>6, <1>7, Cases

\* Every step keeps: without data there are no calls.
LEMMA NothingYetStep ==
    ASSUME TypeOK, Heard, NothingYet, [Next]_vars
    PROVE  NothingYet'
<1>0. /\ listeners \in Seq(Listeners) /\ Len(listeners) \in Nat /\ Len(main) \in Nat
      /\ DOMAIN listeners = 1..Len(listeners) /\ DOMAIN main = 1..Len(main)
      /\ main = <<>> <=> Len(main) = 0
  BY Shapes
<1>1. CASE UNCHANGED <<arrived, listeners, main>>
  BY <1>1 DEF NothingYet, NoCalls
<1>2. CASE Clear
  BY <1>1, <1>2 DEF Clear, server, firebase
<1>3. ASSUME NEW q \in Queries, Type(q) PROVE NothingYet'
  BY <1>1, <1>3 DEF Type, server
<1>4. CASE Receive
  BY <1>4, ReceiveEffect DEF NothingYet
<1>5. CASE Attach
  <2>1. arrived' = arrived
    BY <1>5 DEF Attach, server
  <2> SUFFICES ASSUME ~arrived PROVE NothingYet'
    BY <2>1 DEF NothingYet
  <2>2. /\ main' = main /\ DOMAIN listeners' = 1..(Len(listeners) + 1)
        /\ Len(listeners') = Len(listeners) + 1
        /\ \A l \in DOMAIN listeners : listeners'[l] = listeners[l]
        /\ listeners'[Len(listeners')].made = <<>>
    BY <1>5, AttachEffect
  <2>3. ASSUME NEW l \in DOMAIN listeners'
        PROVE  listeners'[l].made = <<>>
    <3>1. l \in DOMAIN listeners \/ l = Len(listeners')
      BY <1>0, <2>2
    <3> QED BY <2>2, <3>1 DEF NothingYet
  <2> QED BY <2>2, <2>3 DEF NothingYet, NoCalls
<1>6. CASE Called
  <2>1. arrived' = arrived
    BY <1>6 DEF Called, server
  <2>2. main # <<>> /\ IsCall(main[1])
    BY <1>6, CalledEffect
  <2>3. 1 \in DOMAIN main
    BY <1>0, <2>2
  <2> QED BY <2>1, <2>2, <2>3 DEF NothingYet, NoCalls
<1>7. CASE Assign
  <2>1. arrived' = arrived /\ listeners' = listeners
    BY <1>7 DEF Assign, server, firebase
  <2>2. ASSUME NEW i \in DOMAIN main'
        PROVE  i + 1 \in DOMAIN main /\ main'[i] = main[i + 1]
    BY <1>0, <1>7, <2>2, AssignEffect
  <2> QED BY <2>1, <2>2 DEF NothingYet, NoCalls
<1> QED BY <1>1, <1>2, <1>3, <1>4, <1>5, <1>6, <1>7, Cases

\* Every step keeps: before /users changes under a listener, each listener is
\* called once, with its array empty, and no list has a user twice.
LEMMA CalledOnceStep ==
    ASSUME TypeOK, Heard, NothingYet, CalledOnce, [Next]_vars
    PROVE  CalledOnce'
<1>0. /\ listeners \in Seq(Listeners) /\ main \in Seq(Items)
      /\ Len(listeners) \in Nat /\ Len(main) \in Nat
      /\ DOMAIN listeners = 1..Len(listeners) /\ DOMAIN main = 1..Len(main)
      /\ listeners = <<>> <=> Len(listeners) = 0
      /\ main = <<>> <=> Len(main) = 0
  BY Shapes
<1>1. CASE UNCHANGED <<listeners, main, regrown, emailArray>>
  BY <1>1 DEF CalledOnce
<1>2. CASE Clear
  <2>1. /\ listeners' = listeners /\ main' = main /\ regrown' = regrown /\ emailArray' = <<>>
    BY <1>2 DEF Clear, Show, firebase
  <2>2. IsInjective(emailArray')
    BY <2>1 DEF IsInjective
  <2> QED BY <2>1, <2>2 DEF CalledOnce
<1>3. ASSUME NEW q \in Queries, Type(q) PROVE CalledOnce'
  BY <1>1, <1>3 DEF Type, table
<1>4. CASE Receive
  <2>1. /\ listeners' = listeners /\ emailArray' = emailArray
        /\ regrown' = (regrown \/ (arrived /\ listeners # <<>>))
    BY <1>4 DEF Receive, firebase, table
  <2> SUFFICES ASSUME ~regrown, ~(arrived /\ listeners # <<>>) PROVE CalledOnce'
    BY <2>1 DEF CalledOnce
  <2>2. CASE listeners = <<>>
    <3>1. main' = main
      BY <1>4, <2>2, ReceiveEffect
    <3> QED BY <2>1, <3>1 DEF CalledOnce
  <2>3. CASE ~arrived
    <3>1. NoCalls /\ \A l \in DOMAIN listeners : listeners[l].made = <<>>
      BY <2>3 DEF NothingYet
    <3>2. /\ DOMAIN main' = 1..(Len(main) + Len(listeners)) /\ Len(main') = Len(main) + Len(listeners)
          /\ \A i \in 1..Len(main) : main'[i] = main[i]
          /\ \A i \in 1..Len(main') : i > Len(main) =>
                IsCall(main'[i]) /\ main'[i].listener = i - Len(main)
      BY <1>4, ReceiveEffect
    <3>3. ASSUME NEW i \in DOMAIN main'
          PROVE  IF i \in 1..Len(main)
                 THEN ~IsCall(main'[i]) /\ IsInjective(main'[i].results)
                 ELSE /\ IsCall(main'[i]) /\ main'[i].listener = i - Len(main)
                      /\ i - Len(main) \in DOMAIN listeners /\ i \in Nat
      <4>1. CASE i \in 1..Len(main)
        BY <1>0, <3>1, <3>2, <4>1 DEF CalledOnce, NoCalls
      <4>2. CASE i \notin 1..Len(main)
        <5>1. i \in 1..Len(main') /\ i > Len(main)
          BY <1>0, <3>2, <4>2
        <5>2. i - Len(main) \in DOMAIN listeners /\ i \in Nat
          BY <1>0, <3>2, <5>1
        <5> QED BY <3>2, <4>2, <5>1, <5>2
      <4> QED BY <4>1, <4>2
    <3>4. ASSUME NEW i \in DOMAIN main', IsCall(main'[i])
          PROVE  listeners'[main'[i].listener].made = <<>>
      BY <2>1, <3>1, <3>3, <3>4
    <3>5. ASSUME NEW i \in DOMAIN main', NEW j \in DOMAIN main', IsCall(main'[i]), IsCall(main'[j]),
                 main'[i].listener = main'[j].listener
          PROVE  i = j
      <4>1. i \in Nat /\ j \in Nat /\ i - Len(main) = j - Len(main)
        BY <3>3, <3>5
      <4> QED BY <1>0, <4>1
    <3>6. ASSUME NEW i \in DOMAIN main', ~IsCall(main'[i])
          PROVE  IsInjective(main'[i].results)
      BY <3>3, <3>6
    <3>7. IsInjective(emailArray')
      BY <2>1 DEF CalledOnce
    <3> QED BY <3>4, <3>5, <3>6, <3>7 DEF CalledOnce
  <2> QED BY <2>2, <2>3
<1>5. CASE Attach
  <2>1. emailArray' = emailArray /\ regrown' = regrown
    BY <1>5 DEF Attach, table
  <2>2. /\ Len(listeners') = Len(listeners) + 1
        /\ \A l \in DOMAIN listeners : listeners'[l] = listeners[l]
        /\ listeners'[Len(listeners')].made = <<>>
        /\ ~arrived => main' = main
        /\ arrived => /\ main' \in Seq(Items) /\ Len(main') = Len(main) + 1
                      /\ \A i \in DOMAIN main : main'[i] = main[i]
                      /\ IsCall(main'[Len(main')])
                      /\ main'[Len(main')].listener = Len(listeners')
    BY <1>5, AttachEffect
  <2> SUFFICES ASSUME ~regrown PROVE CalledOnce'
    BY <2>1 DEF CalledOnce
  <2>3. CASE ~arrived
    <3>1. main' = main /\ NoCalls
      BY <2>2, <2>3 DEF NothingYet
    <3> QED BY <2>1, <3>1 DEF CalledOnce, NoCalls
  <2>4. CASE arrived
    <3>1. DOMAIN main' = 1..(Len(main) + 1) /\ Len(main') = Len(main) + 1
      BY <1>0, <2>2, <2>4
    <3>2. ASSUME NEW i \in DOMAIN main'
          PROVE  \/ i \in DOMAIN main /\ main'[i] = main[i]
                 \/ /\ i = Len(main) + 1 /\ IsCall(main'[i])
                    /\ main'[i].listener = Len(listeners) + 1
      <4>1. i \in DOMAIN main \/ i = Len(main')
        BY <1>0, <3>1, <3>2
      <4> QED BY <2>2, <2>4, <3>1, <4>1
    <3>3. \A i \in DOMAIN main : IsCall(main[i]) =>
             /\ main[i].listener \in DOMAIN listeners
             /\ main[i].listener # Len(listeners) + 1
      BY <1>0 DEF Heard
    <3>4. ASSUME NEW i \in DOMAIN main', IsCall(main'[i])
          PROVE  listeners'[main'[i].listener].made = <<>>
      BY <2>2, <3>2, <3>3, <3>4 DEF CalledOnce
    <3>5. ASSUME NEW i \in DOMAIN main', NEW j \in DOMAIN main', IsCall(main'[i]), IsCall(main'[j]),
                 main'[i].listener = main'[j].listener
          PROVE  i = j
      BY <3>2, <3>3, <3>5 DEF CalledOnce
    <3>6. ASSUME NEW i \in DOMAIN main', ~IsCall(main'[i])
          PROVE  IsInjective(main'[i].results)
      BY <3>2, <3>6 DEF CalledOnce
    <3>7. IsInjective(emailArray')
      BY <2>1 DEF CalledOnce
    <3> QED BY <3>4, <3>5, <3>6, <3>7 DEF CalledOnce
  <2> QED BY <2>3, <2>4
<1>6. CASE Called
  <2>1. emailArray' = emailArray /\ regrown' = regrown
    BY <1>6 DEF Called, table
  <2>2. PICK l \in DOMAIN listeners, made \in Results :
           /\ main # <<>> /\ IsCall(main[1]) /\ l = main[1].listener /\ main[1].snap \subseteq known
           /\ listeners[l].made = <<>> => made = InOrder(Found(main[1].snap, listeners[l].query))
           /\ DOMAIN listeners' = DOMAIN listeners
           /\ \A k \in DOMAIN listeners :
                 listeners'[k].made = IF k = l THEN made ELSE listeners[k].made
           /\ DOMAIN main' = 1..Len(main)
           /\ \A i \in 1..(Len(main) - 1) : main'[i] = main[i + 1]
           /\ ~IsCall(main'[Len(main)]) /\ main'[Len(main)].results = made
    BY <1>6, CalledEffect
  <2> SUFFICES ASSUME ~regrown PROVE CalledOnce'
    BY <2>1 DEF CalledOnce
  <2>3. 1 \in DOMAIN main /\ listeners[l].made = <<>>
    <3>1. 1 \in DOMAIN main
      BY <1>0, <2>2
    <3> QED BY <2>2, <3>1 DEF CalledOnce
  <2>4. IsInjective(made)
    <3>1. listeners[l] \in Listeners
      BY <1>0
    <3>2. listeners[l].query \in Queries /\ main[1].snap \in SUBSET Emails
      BY <2>2, <3>1 DEF Listeners, TypeOK
    <3>3. Found(main[1].snap, listeners[l].query) \in SUBSET Emails
      BY <3>2, FoundTypes
    <3> QED BY <2>2, <2>3, <3>3, InOrderIs
  <2>5. ASSUME NEW i \in DOMAIN main'
        PROVE  \/ i + 1 \in DOMAIN main /\ i + 1 # 1 /\ i \in Nat /\ main'[i] = main[i + 1]
               \/ ~IsCall(main'[i]) /\ main'[i].results = made
    <3>1. i \in 1..(Len(main) - 1) \/ i = Len(main)
      BY <1>0, <2>2, <2>5
    <3>2. i \in 1..(Len(main) - 1) => i + 1 \in DOMAIN main /\ i + 1 # 1 /\ i \in Nat
      BY <1>0
    <3> QED BY <2>2, <3>1, <3>2
  <2>6. ASSUME NEW i \in DOMAIN main', IsCall(main'[i])
        PROVE  listeners'[main'[i].listener].made = <<>>
    <3>1. i + 1 \in DOMAIN main /\ i + 1 # 1 /\ main'[i] = main[i + 1]
      BY <2>5, <2>6
    <3>2. main[i + 1].listener # l /\ main[i + 1].listener \in DOMAIN listeners
      BY <2>2, <2>3, <2>6, <3>1 DEF CalledOnce, Heard
    <3> QED BY <2>2, <2>6, <3>1, <3>2 DEF CalledOnce
  <2>7. ASSUME NEW i \in DOMAIN main', NEW j \in DOMAIN main', IsCall(main'[i]), IsCall(main'[j]),
               main'[i].listener = main'[j].listener
        PROVE  i = j
    <3>1. /\ i + 1 \in DOMAIN main /\ i \in Nat /\ main'[i] = main[i + 1]
          /\ j + 1 \in DOMAIN main /\ j \in Nat /\ main'[j] = main[j + 1]
      BY <2>5, <2>7
    <3>2. i + 1 = j + 1
      BY <2>7, <3>1 DEF CalledOnce
    <3> QED BY <3>1, <3>2
  <2>8. ASSUME NEW i \in DOMAIN main', ~IsCall(main'[i])
        PROVE  IsInjective(main'[i].results)
    BY <2>4, <2>5, <2>8 DEF CalledOnce
  <2>9. IsInjective(emailArray')
    BY <2>1 DEF CalledOnce
  <2> QED BY <2>6, <2>7, <2>8, <2>9 DEF CalledOnce
<1>7. CASE Assign
  <2>1. listeners' = listeners /\ regrown' = regrown
    BY <1>7 DEF Assign, firebase
  <2>2. /\ main # <<>> /\ ~IsCall(main[1]) /\ emailArray' = main[1].results
        /\ DOMAIN main' = 1..(Len(main) - 1)
        /\ \A i \in 1..(Len(main) - 1) : main'[i] = main[i + 1]
    BY <1>7, AssignEffect
  <2> SUFFICES ASSUME ~regrown PROVE CalledOnce'
    BY <2>1 DEF CalledOnce
  <2>3. ASSUME NEW i \in DOMAIN main'
        PROVE  i + 1 \in DOMAIN main /\ i \in Nat /\ main'[i] = main[i + 1]
    BY <1>0, <2>2, <2>3
  <2>4. ASSUME NEW i \in DOMAIN main', IsCall(main'[i])
        PROVE  listeners'[main'[i].listener].made = <<>>
    BY <2>1, <2>3, <2>4 DEF CalledOnce
  <2>5. ASSUME NEW i \in DOMAIN main', NEW j \in DOMAIN main', IsCall(main'[i]), IsCall(main'[j]),
               main'[i].listener = main'[j].listener
        PROVE  i = j
    <3>1. /\ i + 1 \in DOMAIN main /\ i \in Nat /\ main'[i] = main[i + 1]
          /\ j + 1 \in DOMAIN main /\ j \in Nat /\ main'[j] = main[j + 1]
      BY <2>3
    <3>2. i + 1 = j + 1
      BY <2>5, <3>1 DEF CalledOnce
    <3> QED BY <3>1, <3>2
  <2>6. ASSUME NEW i \in DOMAIN main', ~IsCall(main'[i])
        PROVE  IsInjective(main'[i].results)
    BY <2>3, <2>6 DEF CalledOnce
  <2>7. IsInjective(emailArray')
    <3>1. 1 \in DOMAIN main
      BY <1>0, <2>2
    <3> QED BY <2>2, <3>1 DEF CalledOnce
  <2> QED BY <2>4, <2>5, <2>6, <2>7 DEF CalledOnce
<1> QED BY <1>1, <1>2, <1>3, <1>4, <1>5, <1>6, <1>7, Cases

-----------------------------------------------------------------------------
(* The theorems. *)

\* A new form has no rows, no listeners and nothing under way.
LEMMA InitInv == Init => IInv
<1> SUFFICES ASSUME Init PROVE IInv
  OBVIOUS
<1>1. /\ users \in SUBSET Emails /\ arrived \in BOOLEAN
      /\ known = IF arrived THEN users ELSE {}
      /\ text = Empty /\ work = <<>> /\ listeners = <<>> /\ main = <<>>
      /\ emailArray = <<>> /\ rows = <<>> /\ choosenOnes = {} /\ doneHidden = TRUE
      /\ regrown = FALSE /\ calm = TRUE /\ odd = {}
  BY DEF Init
<1>2. DOMAIN main = {} /\ DOMAIN listeners = {} /\ DOMAIN emailArray = {} /\ DOMAIN rows = {}
  BY <1>1
<1>3. TypeOK
  <2>1. DataTypes
    BY <1>1 DEF DataTypes
  <2>2. QueueTypes
    BY <1>1 DEF QueueTypes
  <2>3. TableTypes
    BY <1>1 DEF TableTypes, Results
  <2> QED BY <2>1, <2>2, <2>3, TypeParts
<1>4. Heard
  <2>1. Len(listeners) + Len(work) = 0
    BY <1>1
  <2> QED BY <1>2, <2>1, SearchAssumption DEF Heard
<1>5. Newest /\ Still /\ ResultsSettle
  BY <1>1 DEF Newest, Still, ResultsSettle, Quiet
<1>6. LastIsNewest /\ NothingYet
  BY <1>1, <1>2 DEF LastIsNewest, NothingYet, NoCalls
<1>7. CalledOnce
  BY <1>1, <1>2 DEF CalledOnce, IsInjective
<1> QED BY <1>3, <1>4, <1>5, <1>6, <1>7 DEF IInv

\* Every step keeps the inductive invariant.
LEMMA StepInv == IInv /\ [Next]_vars => IInv'
<1> SUFFICES ASSUME IInv, [Next]_vars PROVE IInv'
  OBVIOUS
<1>1. TypeOK /\ Heard /\ Newest /\ LastIsNewest /\ Still /\ ResultsSettle /\ NothingYet /\ CalledOnce
  BY DEF IInv
<1>2. TypeOK'
  <2>1. DataTypes' /\ QueueTypes' /\ TableTypes'
    BY <1>1, DataTypesStep, QueueTypesStep, TableTypesStep
  <2> QED BY <2>1, TypeParts, PTL
<1>3. Heard' /\ Newest' /\ LastIsNewest'
  BY <1>1, HeardStep, NewestStep, LastIsNewestStep
<1>4. Still' /\ ResultsSettle' /\ NothingYet' /\ CalledOnce'
  BY <1>1, StillStep, SettleStep, NothingYetStep, CalledOnceStep
<1> QED BY <1>2, <1>3, <1>4 DEF IInv

\* The inductive invariant holds.
LEMMA Invariant == Spec => []IInv
BY InitInv, StepInv, PTL DEF Spec

\* The types of the search's state (NewGroupVC, UserCell, getEmail).
THEOREM TypesHold == Spec => []TypeOK
<1>1. IInv => TypeOK
  BY DEF IInv
<1> QED BY <1>1, Invariant, PTL

\* With nothing under way the rows are the users found by the text, in spite of
\* the listeners of earlier texts; once emptied the list stays empty unless
\* /users changes or was being read (newInputChange).
THEOREM SearchSettlesHolds == Spec => []SearchSettles
<1>1. IInv => SearchSettles
  BY DEF IInv, SearchSettles, Still, ClearStaysClear
<1> QED BY <1>1, Invariant, PTL

\* A user is listed twice only after /users has changed under a listener
\* (getEmail's emailArray, which is never emptied).
THEOREM RepeatsNeedChangeHolds == Spec => []RepeatsNeedChange
<1>1. IInv => RepeatsNeedChange
  BY DEF IInv, CalledOnce, RepeatsNeedChange
<1> QED BY <1>1, Invariant, PTL
=============================================================================
