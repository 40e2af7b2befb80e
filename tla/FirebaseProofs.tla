--------------------------- MODULE FirebaseProofs ---------------------------
(***************************************************************************)
(* Proofs about what stands between the app and Firebase: Database, for    *)
(* any clients, writes and references, and Session, for any number of      *)
(* devices, emails, passwords and concurrent calls.                        *)
(***************************************************************************)
EXTENDS Database, Session, TLAPS

-----------------------------------------------------------------------------
(* Database. *)

USE NeedsAssumption

\* The types hold at first.
LEMMA DatabaseTypeInit == DatabaseInit => DatabaseTypeOK
BY DEF DatabaseInit, DatabaseTypeOK

\* Every action keeps the types.
LEMMA DatabaseTypeStep == DatabaseTypeOK /\ [DatabaseNext]_databaseVars => DatabaseTypeOK'
<1> SUFFICES ASSUME DatabaseTypeOK, [DatabaseNext]_databaseVars PROVE DatabaseTypeOK'
  OBVIOUS
<1> USE DEF DatabaseTypeOK
<1>1. CASE UNCHANGED databaseVars
  BY <1>1 DEF databaseVars
<1>2. ASSUME NEW c \in Clients, NEW w \in Writes, Put(c, w) PROVE DatabaseTypeOK'
  BY <1>2 DEF Put
<1>3. ASSUME NEW c \in Clients, Commit(c) PROVE DatabaseTypeOK'
  BY <1>3 DEF Commit
<1>4. ASSUME NEW c \in Clients, Ack(c) PROVE DatabaseTypeOK'
  BY <1>4 DEF Ack
<1>5. ASSUME NEW c \in Clients, Deliver(c) PROVE DatabaseTypeOK'
  BY <1>5 DEF Deliver
<1>6. ASSUME NEW c \in Clients, Die(c) PROVE DatabaseTypeOK'
  BY <1>6 DEF Die
<1> QED
  BY <1>1, <1>2, <1>3, <1>4, <1>5, <1>6 DEF DatabaseNext

-----------------------------------------------------------------------------
(* References are never dangling.                                          *)

\* A node of the log refers to earlier ones only.
LogCausal ==
    \A i \in DOMAIN log : \A v \in Needs[log[i]] : \E j \in 1..(i - 1) : log[j] = v

\* A node not yet acknowledged refers to received ones or to earlier ones.
PendingCausal ==
    \A c \in Clients : \A i \in DOMAIN pending[c] : \A v \in Needs[pending[c][i]] :
        v \in Seen(c) \/ \E j \in 1..(i - 1) : pending[c][j] = v

SeenOK == \A c \in Clients : seen[c] <= Len(log)

CausalInv == SeenOK /\ LogCausal /\ PendingCausal

\* Nothing has been written at first.
LEMMA CausalInit == DatabaseInit => CausalInv
BY DEF DatabaseInit, CausalInv, SeenOK, LogCausal, PendingCausal

\* The invariant on log and queues gives what readers see.
LEMMA CausalInvImplies == DatabaseTypeOK /\ CausalInv => Causal
<1> SUFFICES ASSUME DatabaseTypeOK, CausalInv PROVE Causal
  OBVIOUS
<1>1. Closed(Committed)
  BY DEF Closed, Committed, CausalInv, LogCausal, DatabaseTypeOK
<1>2. ASSUME NEW c \in Clients PROVE Closed(View(c))
  <2>1. ASSUME NEW w \in Seen(c), NEW v \in Needs[w] PROVE v \in Seen(c)
    <3>1. PICK i \in 1..seen[c] : w = log[i]
      BY <2>1 DEF Seen
    <3>2. i \in DOMAIN log
      BY <3>1 DEF CausalInv, SeenOK, DatabaseTypeOK
    <3>3. PICK j \in 1..(i - 1) : log[j] = v
      BY <2>1, <3>1, <3>2 DEF CausalInv, LogCausal
    <3> QED
      BY <3>1, <3>3 DEF Seen, DatabaseTypeOK
  <2>2. ASSUME NEW w \in Mine(c), NEW v \in Needs[w] PROVE v \in View(c)
    <3>1. PICK i \in DOMAIN pending[c] : w = pending[c][i]
      BY <2>2 DEF Mine
    <3>2. v \in Seen(c) \/ \E j \in 1..(i - 1) : pending[c][j] = v
      BY <2>2, <3>1 DEF CausalInv, PendingCausal
    <3> QED
      BY <3>1, <3>2 DEF View, Mine, DatabaseTypeOK
  <2> QED
    BY <2>1, <2>2 DEF Closed, View
<1> QED
  BY <1>1, <1>2 DEF Causal

\* What a listener has received is not changed by a longer log.
LEMMA SeenStable ==
    ASSUME DatabaseTypeOK, SeenOK, NEW x \in Writes, log' = Append(log, x), UNCHANGED seen
    PROVE  /\ \A c \in Clients : Seen(c)' = Seen(c)
           /\ Committed' = Committed \union {x}
<1> USE DEF DatabaseTypeOK, SeenOK
<1>1. Len(log') = Len(log) + 1 /\ log'[Len(log) + 1] = x
  OBVIOUS
<1>2. \A i \in 1..Len(log) : log'[i] = log[i]
  OBVIOUS
<1>3. \A c \in Clients : Seen(c)' = Seen(c)
  <2> SUFFICES ASSUME NEW c \in Clients PROVE Seen(c)' = Seen(c)
    OBVIOUS
  <2>1. seen[c] \in Nat /\ seen[c] <= Len(log) /\ seen'[c] = seen[c]
    OBVIOUS
  <2>2. \A i \in 1..seen[c] : log'[i] = log[i]
    BY <1>2, <2>1
  <2> QED
    BY <2>1, <2>2 DEF Seen
<1>4. Committed' = Committed \union {x}
  <2>1. DOMAIN log = 1..Len(log) /\ DOMAIN log' = 1..(Len(log) + 1) /\ Len(log) \in Nat
    BY <1>1
  <2>2. \A i \in 1..(Len(log) + 1) : i \in 1..Len(log) \/ i = Len(log) + 1
    BY <2>1
  <2>3. \A i \in 1..Len(log) : i \in 1..(Len(log) + 1)
    BY <2>1
  <2>4. Len(log) + 1 \in 1..(Len(log) + 1)
    BY <2>1
  <2> HIDE DEF DatabaseTypeOK, SeenOK
  <2> QED
    BY <1>1, <1>2, <2>1, <2>2, <2>3, <2>4 DEF Committed
<1> QED
  BY <1>3, <1>4

\* A client that commits has already received, or committed, what its write refers to.
LEMMA CommitNeeds ==
    ASSUME DatabaseTypeOK, CausalInv, NEW c \in Clients, NEW i \in DOMAIN pending[c],
           \A j \in 1..(i - 1) : pending[c][j] \in Committed
    PROVE  Needs[pending[c][i]] \subseteq Committed
<1> SUFFICES ASSUME NEW v \in Needs[pending[c][i]] PROVE v \in Committed
  OBVIOUS
<1>1. v \in Seen(c) \/ \E j \in 1..(i - 1) : pending[c][j] = v
  BY DEF CausalInv, PendingCausal
<1>2. Seen(c) \subseteq Committed
  BY DEF CausalInv, SeenOK, Seen, Committed, DatabaseTypeOK
<1> QED
  BY <1>1, <1>2

\* No listener gets ahead of the log.
LEMMA SeenStep == DatabaseTypeOK /\ CausalInv /\ [DatabaseNext]_databaseVars => SeenOK'
<1> SUFFICES ASSUME DatabaseTypeOK, SeenOK, [DatabaseNext]_databaseVars PROVE SeenOK'
  BY DEF CausalInv
<1> USE DEF DatabaseTypeOK, SeenOK
<1>1. CASE UNCHANGED databaseVars
  BY <1>1 DEF databaseVars
<1>2. ASSUME NEW c \in Clients, NEW w \in Writes, Put(c, w) PROVE SeenOK'
  BY <1>2 DEF Put
<1>3. ASSUME NEW c \in Clients, Commit(c) PROVE SeenOK'
  BY <1>3 DEF Commit
<1>4. ASSUME NEW c \in Clients, Ack(c) PROVE SeenOK'
  BY <1>4 DEF Ack
<1>5. ASSUME NEW c \in Clients, Deliver(c) PROVE SeenOK'
  BY <1>5 DEF Deliver
<1>6. ASSUME NEW c \in Clients, Die(c) PROVE SeenOK'
  BY <1>6 DEF Die
<1> QED
  BY <1>1, <1>2, <1>3, <1>4, <1>5, <1>6 DEF DatabaseNext

\* Only Commit makes the log longer.
LEMMA LogStep == DatabaseTypeOK /\ CausalInv /\ [DatabaseNext]_databaseVars => LogCausal'
<1> SUFFICES ASSUME DatabaseTypeOK, CausalInv, [DatabaseNext]_databaseVars PROVE LogCausal'
  OBVIOUS
<1>1. ASSUME UNCHANGED log PROVE LogCausal'
  BY <1>1 DEF LogCausal, CausalInv
<1>2. ASSUME NEW c \in Clients, Commit(c) PROVE LogCausal'
  <2>1. PICK i \in DOMAIN pending[c] :
            /\ \A j \in 1..(i - 1) : pending[c][j] \in Committed
            /\ log' = Append(log, pending[c][i])
    BY <1>2 DEF Commit
  <2>2. Needs[pending[c][i]] \subseteq Committed
    BY <2>1, CommitNeeds
  <2>3. \A k \in 1..Len(log) : log'[k] = log[k]
    BY <2>1 DEF DatabaseTypeOK
  <2>4. Len(log') = Len(log) + 1 /\ log'[Len(log) + 1] = pending[c][i]
    BY <2>1 DEF DatabaseTypeOK
  <2>5. SUFFICES ASSUME NEW k \in 1..(Len(log) + 1), NEW v \in Needs[log'[k]]
                 PROVE \E j \in 1..(k - 1) : log'[j] = v
    BY <2>1, <2>4 DEF LogCausal, DatabaseTypeOK
  <2>6. CASE k = Len(log) + 1
    <3>1. PICK j \in 1..Len(log) : log[j] = v
      BY <2>2, <2>4, <2>5, <2>6 DEF Committed, DatabaseTypeOK
    <3> QED
      BY <3>1, <2>3, <2>6 DEF DatabaseTypeOK
  <2>7. CASE k \in 1..Len(log)
    <3>1. PICK j \in 1..(k - 1) : log[j] = v
      BY <2>3, <2>5, <2>7 DEF LogCausal, CausalInv, DatabaseTypeOK
    <3>2. j \in 1..Len(log)
      BY <2>7 DEF DatabaseTypeOK
    <3> QED
      BY <3>1, <3>2, <2>3
  <2> QED
    BY <2>6, <2>7 DEF DatabaseTypeOK
<1> QED
  BY <1>1, <1>2 DEF DatabaseNext, databaseVars, Put, Ack, Deliver, Die

\* Pending writes refer to what was received or comes before them.
LEMMA PendingStep == DatabaseTypeOK /\ CausalInv /\ [DatabaseNext]_databaseVars => PendingCausal'
<1> SUFFICES ASSUME DatabaseTypeOK, CausalInv, [DatabaseNext]_databaseVars PROVE PendingCausal'
  OBVIOUS
<1>1. CASE UNCHANGED databaseVars
  BY <1>1 DEF databaseVars, PendingCausal, Seen, CausalInv
<1>2. ASSUME NEW c \in Clients, NEW w \in Writes, Put(c, w) PROVE PendingCausal'
  <2>1. \A x \in Clients : Seen(x)' = Seen(x)
    BY <1>2 DEF Put, Seen
  <2>2. ASSUME NEW x \in Clients, NEW i \in DOMAIN pending'[x], NEW v \in Needs[pending'[x][i]]
        PROVE v \in Seen(x) \/ \E j \in 1..(i - 1) : pending'[x][j] = v
    <3>1. CASE x # c
      BY <3>1, <1>2, <2>2 DEF Put, PendingCausal, CausalInv, DatabaseTypeOK
    <3>2. CASE x = c
      <4>1. pending'[c] = Append(pending[c], w) /\ pending[c] \in Seq(Writes)
        BY <1>2 DEF Put, DatabaseTypeOK
      <4>2. i \in 1..(Len(pending[c]) + 1)
        BY <2>2, <3>2, <4>1
      <4>3. CASE i = Len(pending[c]) + 1
        <5>1. v \in View(c)
          BY <1>2, <2>2, <3>2, <4>1, <4>3 DEF Put
        <5>2. v \in Seen(c) \/ \E j \in 1..Len(pending[c]) : pending[c][j] = v
          BY <5>1, <4>1 DEF View, Mine
        <5> QED
          BY <5>2, <4>1, <4>3, <3>2
      <4>4. CASE i \in 1..Len(pending[c])
        <5>1. pending'[c][i] = pending[c][i]
          BY <4>1, <4>4
        <5>2. v \in Seen(c) \/ \E j \in 1..(i - 1) : pending[c][j] = v
          BY <5>1, <4>1, <4>4, <2>2, <3>2 DEF PendingCausal, CausalInv
        <5>3. \A j \in 1..(i - 1) : pending'[c][j] = pending[c][j]
          BY <4>1, <4>4
        <5> QED
          BY <5>2, <5>3, <3>2
      <4> QED
        BY <4>1, <4>2, <4>3, <4>4
    <3> QED
      BY <3>1, <3>2
  <2> QED
    BY <2>1, <2>2 DEF PendingCausal
<1>3. ASSUME NEW c \in Clients, Commit(c) PROVE PendingCausal'
  <2>1. PICK i \in DOMAIN pending[c] : log' = Append(log, pending[c][i])
    BY <1>3 DEF Commit
  <2>2. pending[c][i] \in Writes /\ UNCHANGED <<pending, seen>>
    BY <1>3 DEF Commit, DatabaseTypeOK
  <2>3. \A x \in Clients : Seen(x)' = Seen(x)
    BY <2>1, <2>2, SeenStable DEF CausalInv
  <2> QED
    BY <2>2, <2>3 DEF PendingCausal, CausalInv
<1>4. ASSUME NEW c \in Clients, Ack(c) PROVE PendingCausal'
  <2>1. \A x \in Clients : Seen(x)' = Seen(x)
    BY <1>4 DEF Ack, Seen
  <2>2. ASSUME NEW x \in Clients, NEW i \in DOMAIN pending'[x], NEW v \in Needs[pending'[x][i]]
        PROVE v \in Seen(x) \/ \E j \in 1..(i - 1) : pending'[x][j] = v
    <3>1. CASE x # c
      BY <3>1, <1>4, <2>2 DEF Ack, PendingCausal, CausalInv, DatabaseTypeOK
    <3>2. CASE x = c
      <4>1. pending'[c] = Tail(pending[c]) /\ pending[c] \in Seq(Writes) /\ pending[c] # <<>>
        BY <1>4 DEF Ack, DatabaseTypeOK
      <4>2. /\ i \in 1..(Len(pending[c]) - 1)
            /\ \A j \in 1..(Len(pending[c]) - 1) : pending'[c][j] = pending[c][j + 1]
        BY <2>2, <3>2, <4>1
      <4>3. v \in Seen(c) \/ \E j \in 1..i : pending[c][j] = v
        BY <2>2, <3>2, <4>1, <4>2 DEF PendingCausal, CausalInv
      <4>4. ASSUME NEW j \in 1..i, pending[c][j] = v
            PROVE v \in Seen(c) \/ \E k \in 1..(i - 1) : pending'[c][k] = v
        <5>1. CASE j = 1
          BY <5>1, <4>4, <4>1, <1>4 DEF Ack
        <5>2. CASE j # 1
          <6>1. j - 1 \in 1..(i - 1) /\ pending'[c][j - 1] = pending[c][j]
            BY <5>2, <4>2, <4>1
          <6> QED
            BY <6>1, <4>4
        <5> QED
          BY <5>1, <5>2
      <4> QED
        BY <4>3, <4>4, <3>2
    <3> QED
      BY <3>1, <3>2
  <2> QED
    BY <2>1, <2>2 DEF PendingCausal
<1>5. ASSUME NEW c \in Clients, Deliver(c) PROVE PendingCausal'
  <2>1. \A x \in Clients : Seen(x) \subseteq Seen(x)'
    BY <1>5 DEF Deliver, Seen, DatabaseTypeOK
  <2>2. UNCHANGED pending
    BY <1>5 DEF Deliver
  <2> QED
    BY <2>1, <2>2 DEF PendingCausal, CausalInv
<1>6. ASSUME NEW c \in Clients, Die(c) PROVE PendingCausal'
  <2>1. \A x \in Clients \ {c} : Seen(x)' = Seen(x) /\ pending'[x] = pending[x]
    BY <1>6 DEF Die, Seen, DatabaseTypeOK
  <2>2. pending'[c] = <<>>
    BY <1>6 DEF Die, DatabaseTypeOK
  <2>3. \A x \in Clients : \A i \in DOMAIN pending'[x] : x # c
    BY <2>2
  <2> QED
    BY <2>1, <2>3 DEF PendingCausal, CausalInv
<1> QED
  BY <1>1, <1>2, <1>3, <1>4, <1>5, <1>6 DEF DatabaseNext

\* Every action keeps the invariant.
LEMMA CausalStep == DatabaseTypeOK /\ CausalInv /\ [DatabaseNext]_databaseVars => CausalInv'
BY SeenStep, LogStep, PendingStep DEF CausalInv

\* The clients' views and the server's log hold values of the right kind.
THEOREM DatabaseTypesHold == DatabaseSpec => []DatabaseTypeOK
<1> QED
  BY DatabaseTypeInit, DatabaseTypeStep, PTL DEF DatabaseSpec

\* So it always holds, with the types.
LEMMA Inductive == DatabaseSpec => [](DatabaseTypeOK /\ CausalInv)
<1>1. DatabaseTypeOK /\ CausalInv /\ [DatabaseNext]_databaseVars => (DatabaseTypeOK /\ CausalInv)'
  BY DatabaseTypeStep, CausalStep
<1> QED
  BY DatabaseTypeInit, CausalInit, <1>1, PTL DEF DatabaseSpec

\* However writes, repetitions, deliveries and deaths interleave, no view and
\* no state of the server holds a node without those it refers to.
THEOREM CausalHolds == DatabaseSpec => []Causal
<1> QED
  BY Inductive, CausalInvImplies, PTL

-----------------------------------------------------------------------------
(* Database implements Board.                                              *)

Shown == [c \in Clients |-> View(c)]

\* What each step does to the views and to the server's data.
LEMMA PutEffect ==
    ASSUME DatabaseTypeOK, NEW c \in Clients, NEW w \in Writes, Put(c, w)
    PROVE  Committed' = Committed /\ Shown' = [Shown EXCEPT ![c] = @ \union {w}]
<1>1. Committed' = Committed /\ \A x \in Clients : Seen(x)' = Seen(x)
  BY DEF Put, Committed, Seen
<1>2. \A x \in Clients \ {c} : Mine(x)' = Mine(x)
  BY DEF Put, Mine, DatabaseTypeOK
<1>3. Mine(c)' = Mine(c) \union {w}
  <2>1. pending'[c] = Append(pending[c], w) /\ pending[c] \in Seq(Writes)
    BY DEF Put, DatabaseTypeOK
  <2>2. /\ DOMAIN pending'[c] = DOMAIN pending[c] \union {Len(pending[c]) + 1}
        /\ \A i \in DOMAIN pending[c] : pending'[c][i] = pending[c][i]
        /\ pending'[c][Len(pending[c]) + 1] = w
    BY <2>1
  <2> QED
    BY <2>2 DEF Mine
<1>4. \A x \in Clients : View(x)' = IF x = c THEN View(x) \union {w} ELSE View(x)
  BY <1>1, <1>2, <1>3 DEF View
<1> QED
  BY <1>1, <1>4 DEF Shown

\* The server takes a write its client shows, and no view changes.
LEMMA CommitEffect ==
    ASSUME DatabaseTypeOK, CausalInv, NEW c \in Clients, Commit(c)
    PROVE  \E w \in View(c) : /\ w \in Writes
                               /\ Needs[w] \subseteq Committed
                               /\ Committed' = Committed \union {w}
                               /\ Shown' = Shown
<1>1. PICK i \in DOMAIN pending[c] :
          /\ \A j \in 1..(i - 1) : pending[c][j] \in Committed
          /\ log' = Append(log, pending[c][i])
          /\ UNCHANGED <<pending, seen>>
  BY DEF Commit
<1>2. pending[c][i] \in Writes /\ pending[c][i] \in View(c)
  BY DEF DatabaseTypeOK, View, Mine
<1>3. Needs[pending[c][i]] \subseteq Committed
  BY <1>1, CommitNeeds
<1>4. Committed' = Committed \union {pending[c][i]} /\ \A x \in Clients : Seen(x)' = Seen(x)
  BY <1>1, <1>2, SeenStable DEF CausalInv
<1>5. Shown' = Shown
  BY <1>1, <1>4 DEF Shown, View, Mine
<1> QED
  BY <1>2, <1>3, <1>4, <1>5

\* Taking out an acknowledged write changes no view: the data received have it.
LEMMA AckEffect ==
    ASSUME DatabaseTypeOK, NEW c \in Clients, Ack(c)
    PROVE  Committed' = Committed /\ Shown' = Shown
<1>1. Committed' = Committed /\ \A x \in Clients : Seen(x)' = Seen(x)
  BY DEF Ack, Committed, Seen
<1>2. \A x \in Clients \ {c} : Mine(x)' = Mine(x)
  BY DEF Ack, Mine, DatabaseTypeOK
<1>3. Mine(c) = Mine(c)' \union {Head(pending[c])}
  <2>1. pending'[c] = Tail(pending[c]) /\ pending[c] \in Seq(Writes) /\ pending[c] # <<>>
    BY DEF Ack, DatabaseTypeOK
  <2>2. /\ \A i \in DOMAIN pending'[c] : i + 1 \in DOMAIN pending[c] /\ pending'[c][i] = pending[c][i + 1]
        /\ \A i \in DOMAIN pending[c] :
              i = 1 \/ (i - 1 \in DOMAIN pending'[c] /\ pending'[c][i - 1] = pending[c][i])
        /\ 1 \in DOMAIN pending[c] /\ Head(pending[c]) = pending[c][1]
    BY <2>1
  <2> QED
    BY <2>2 DEF Mine
<1>4. \A x \in Clients : View(x)' = View(x)
  BY <1>1, <1>2, <1>3 DEF View, Ack
<1> QED
  BY <1>1, <1>4 DEF Shown

\* Data for a client add to its view what others have written, and change no other.
LEMMA DeliverEffect ==
    ASSUME DatabaseTypeOK, CausalInv, NEW c \in Clients, Deliver(c)
    PROVE  /\ Committed' = Committed
           /\ \E new \in SUBSET (Committed \ View(c)) :
                 /\ View(c)' = View(c) \union new
                 /\ Shown' = [Shown EXCEPT ![c] = @ \union new]
<1>1. PICK n \in (seen[c] + 1)..Len(log) : seen' = [seen EXCEPT ![c] = n]
  BY DEF Deliver
<1>2. Committed' = Committed /\ \A x \in Clients : Mine(x)' = Mine(x)
  BY DEF Deliver, Committed, Mine
<1>3. \A x \in Clients \ {c} : Seen(x)' = Seen(x)
  BY DEF Deliver, Seen, DatabaseTypeOK
<1>4. Seen(c)' = {log[i] : i \in 1..n}
  BY <1>1 DEF Deliver, Seen, DatabaseTypeOK
<1>5. Seen(c) \subseteq Seen(c)' /\ Seen(c)' \subseteq Committed
  <2>1. 1..seen[c] \subseteq 1..n /\ 1..n \subseteq DOMAIN log
    BY <1>1 DEF DatabaseTypeOK
  <2> QED
    BY <2>1, <1>4 DEF Seen, Committed
<1>6. View(c)' = View(c) \union (Seen(c)' \ View(c))
  BY <1>2, <1>5 DEF View
<1>7. \A x \in Clients \ {c} : View(x)' = View(x)
  BY <1>2, <1>3 DEF View
<1> DEFINE new == Seen(c)' \ View(c)
<1>8. new \in SUBSET (Committed \ View(c))
  BY <1>5
<1>9. Shown' = [Shown EXCEPT ![c] = @ \union new]
  BY <1>6, <1>7 DEF Shown
<1> QED
  BY <1>2, <1>6, <1>8, <1>9

\* A death empties one view only.
LEMMA DieEffect ==
    ASSUME DatabaseTypeOK, NEW c \in Clients, Die(c)
    PROVE  Committed' = Committed /\ Shown' = [Shown EXCEPT ![c] = {}]
<1>1. Committed' = Committed
  BY DEF Die, Committed
<1>2. \A x \in Clients \ {c} : Seen(x)' = Seen(x) /\ Mine(x)' = Mine(x)
  BY DEF Die, Seen, Mine, DatabaseTypeOK
<1>3. Seen(c)' = {} /\ Mine(c)' = {}
  BY DEF Die, Seen, Mine, DatabaseTypeOK
<1>4. \A x \in Clients : View(x)' = IF x = c THEN {} ELSE View(x)
  BY <1>2, <1>3 DEF View
<1> QED
  BY <1>1, <1>4 DEF Shown

\* No step takes anything out of a view, unless the client dies.
LEMMA ViewStep ==
    DatabaseTypeOK /\ CausalInv /\ [DatabaseNext]_databaseVars
        => [\A c \in Clients : View(c) \subseteq View(c)' \/ Die(c)]_databaseVars
<1> SUFFICES ASSUME DatabaseTypeOK, CausalInv, DatabaseNext, NEW x \in Clients
             PROVE  View(x) \subseteq View(x)' \/ Die(x)
  OBVIOUS
<1>1. \A y \in Clients : Shown[y] = View(y) /\ Shown'[y] = View(y)'
  BY DEF Shown
<1>2. ASSUME NEW c \in Clients, NEW w \in Writes, Put(c, w) PROVE View(x) \subseteq View(x)'
  BY <1>1, <1>2, PutEffect DEF Shown
<1>3. ASSUME NEW c \in Clients, Commit(c) PROVE View(x) \subseteq View(x)'
  BY <1>1, <1>3, CommitEffect
<1>4. ASSUME NEW c \in Clients, Ack(c) PROVE View(x) \subseteq View(x)'
  BY <1>1, <1>4, AckEffect
<1>5. ASSUME NEW c \in Clients, Deliver(c) PROVE View(x) \subseteq View(x)'
  BY <1>1, <1>5, DeliverEffect DEF Shown
<1>6. ASSUME NEW c \in Clients, Die(c) PROVE View(x) \subseteq View(x)' \/ Die(x)
  BY <1>1, <1>6, DieEffect DEF Shown
<1> QED
  BY <1>2, <1>3, <1>4, <1>5, <1>6 DEF DatabaseNext

\* Nothing a client shows disappears before the client dies.
THEOREM ViewGrowsHolds == DatabaseSpec => ViewGrows
<1> QED
  BY Inductive, ViewStep, PTL DEF DatabaseSpec, ViewGrows

\* The initial states are initial states of Board.
LEMMA BoardInit == DatabaseInit => B!Init
BY DEF DatabaseInit, B!Init, Committed, View, Seen, Mine

\* Every step is a step of Board, or none.
LEMMA BoardStep == DatabaseTypeOK /\ CausalInv /\ Causal' /\ [DatabaseNext]_databaseVars => [B!Next]_(B!vars)
<1> SUFFICES ASSUME DatabaseTypeOK, CausalInv, Causal', [DatabaseNext]_databaseVars
             PROVE  B!Next \/ (Committed' = Committed /\ Shown' = Shown)
  BY DEF B!vars, Shown
<1>1. CASE UNCHANGED databaseVars
  BY <1>1 DEF databaseVars, Committed, Shown, View, Seen, Mine
<1>2. ASSUME NEW c \in Clients, NEW w \in Writes, Put(c, w) PROVE B!Next
  <2>1. \A x \in Clients : View(x) \subseteq Committed \union Mine(x)
    BY DEF View, Seen, Committed, CausalInv, SeenOK, DatabaseTypeOK
  <2>2. w \notin Committed \union UNION {Shown[x] : x \in Clients}
    BY <1>2, <2>1 DEF Put, Shown
  <2>3. Needs[w] \subseteq Shown[c]
    BY <1>2 DEF Put, Shown
  <2>4. B!Post(c, w)
    BY <1>2, <2>2, <2>3, PutEffect DEF B!Post, Shown
  <2> QED
    BY <2>4 DEF B!Next
<1>3. ASSUME NEW c \in Clients, Commit(c) PROVE B!Next
  <2>1. PICK w \in View(c) : /\ w \in Writes
                             /\ Needs[w] \subseteq Committed
                             /\ Committed' = Committed \union {w}
                             /\ Shown' = Shown
    BY <1>3, CommitEffect
  <2>2. B!Accept(w)
    BY <2>1 DEF B!Accept, Shown
  <2> QED
    BY <2>1, <2>2 DEF B!Next
<1>4. ASSUME NEW c \in Clients, Ack(c) PROVE Committed' = Committed /\ Shown' = Shown
  BY <1>4, AckEffect
<1>5. ASSUME NEW c \in Clients, Deliver(c)
      PROVE  B!Next \/ (Committed' = Committed /\ Shown' = Shown)
  <2>1. PICK new \in SUBSET (Committed \ View(c)) :
            /\ Committed' = Committed
            /\ View(c)' = View(c) \union new
            /\ Shown' = [Shown EXCEPT ![c] = @ \union new]
    BY <1>5, DeliverEffect
  <2>2. Closed(View(c)')
    BY DEF Causal
  <2>3. CASE new = {}
    BY <2>1, <2>3 DEF Shown
  <2>4. CASE new # {}
    <3>1. B!Closed(Shown[c] \union new)
      BY <2>1, <2>2 DEF B!Closed, Closed, Shown
    <3>2. B!Learn(c)
      BY <2>1, <2>4, <3>1 DEF B!Learn, Shown
    <3> QED
      BY <3>2 DEF B!Next
  <2> QED
    BY <2>3, <2>4
<1>6. ASSUME NEW c \in Clients, Die(c) PROVE B!Next
  <2>1. B!Restart(c)
    BY <1>6, DieEffect DEF B!Restart, Shown
  <2> QED
    BY <2>1 DEF B!Next
<1> QED
  BY <1>1, <1>2, <1>3, <1>4, <1>5, <1>6 DEF DatabaseNext

\* The queues, deliveries and acknowledgements of the clients amount to the
\* shared board the app's screens are modelled on.
THEOREM ImplementsBoard == DatabaseSpec => IsBoard
<1>1. DatabaseTypeOK /\ CausalInv /\ Causal' /\ [DatabaseNext]_databaseVars => [B!Next]_(B!vars)
  BY BoardStep
<1> QED
  BY Inductive, CausalHolds, BoardInit, <1>1, PTL DEF DatabaseSpec, IsBoard, B!Spec

HIDE NeedsAssumption

-----------------------------------------------------------------------------
(* Session. *)

\* A closure that will write a record holds the email of a real account: the
\* answer of a registration or of a Google sign-in, never the empty fields.
CallsOK ==
    \A d \in Devices, c \in Slots :
        calls[d][c].stage \in GoogleStages \union {"registerOk"}
            => calls[d][c].cred.email \in Emails

TypeInv == TypeOK /\ CallsOK

USE SentinelAssumption DEF Move, Ask, Orphaned

\* What the fields of a call are.
LEMMA CallRecords ==
    /\ Idle \in Call
    /\ \A x \in Call :
        /\ x.stage \in EmailStages \union GoogleStages \union {"idle"}
        /\ x.cred \in Creds \union {Unfilled} \union {Google(e) : e \in Emails}
        /\ x.here \in BOOLEAN
        /\ x.typed \in Creds \union {Unfilled}
BY DEF Call, Idle

\* Leaving a screen keeps the stage and the credentials of every call.
LEMMA LeaveType ==
    ASSUME TypeOK, NEW d \in Devices, NEW cs \in [Slots -> Call], NEW stages
    PROVE  /\ Leave(cs, d, stages) \in [Slots -> Call]
           /\ \A c \in Slots : /\ Leave(cs, d, stages)[c].stage = cs[c].stage
                               /\ Leave(cs, d, stages)[c].cred = cs[c].cred
BY DEF TypeOK, Leave, Call

\* Credentials are made of an email and a password.
LEMMA CredParts ==
    \A x \in Call : /\ x.cred.password \in Passwords \union {NoPassword}
                    /\ x.cred # Unfilled => x.cred.email \in Emails
BY DEF Call, Creds, Unfilled, Google

\* One call changes: the others keep what is known of them.
LEMMA UpdateCall ==
    ASSUME TypeInv, NEW d \in Devices, NEW c \in Slots, NEW x \in Call,
           x.stage \in GoogleStages \union {"registerOk"} => x.cred.email \in Emails,
           calls' = [calls EXCEPT ![d][c] = x]
    PROVE  calls' \in [Devices -> [Slots -> Call]] /\ CallsOK'
<1>1. calls' \in [Devices -> [Slots -> Call]]
  BY DEF TypeInv, TypeOK
<1>2. \A a \in Devices, b \in Slots : calls'[a][b] = x \/ calls'[a][b] = calls[a][b]
  BY DEF TypeInv, TypeOK
<1> QED
  BY <1>1, <1>2 DEF TypeInv, CallsOK

\* What every move between screens leaves true.
LEMMA MoveType ==
    ASSUME TypeOK, NEW d \in Devices, NEW cs \in [Slots -> Call],
           DismissEmail(d, cs) \/ DismissLogin(d, cs) \/ Stay(d, cs)
    PROVE  /\ screen' \in [Devices -> Screens]
           /\ appearing' \in [Devices -> BOOLEAN]
           /\ fields' \in [Devices -> Creds \union {Unfilled}]
           /\ late' \in [Devices -> BOOLEAN]
           /\ calls' \in [Devices -> [Slots -> Call]]
           /\ \A c \in Slots : /\ calls'[d][c].stage = cs[c].stage
                                /\ calls'[d][c].cred = cs[c].cred
           /\ \A x \in Devices \ {d} : calls'[x] = calls[x]
<1>1. CASE DismissEmail(d, cs)
  BY <1>1, LeaveType DEF DismissEmail, TypeOK, Screens
<1>2. CASE DismissLogin(d, cs)
  BY <1>2, LeaveType DEF DismissLogin, TypeOK, Screens
<1>3. CASE Stay(d, cs)
  BY <1>3 DEF Stay, TypeOK
<1> QED
  BY <1>1, <1>2, <1>3

\* A move between screens that keeps the stages and credentials of the calls,
\* except for a call that ends, keeps the invariant on them.
LEMMA MoveTypeInv ==
    ASSUME TypeInv, NEW d \in Devices, NEW cs \in [Slots -> Call],
           \A c \in Slots : cs[c] = calls[d][c] \/ cs[c] = Idle,
           DismissEmail(d, cs) \/ DismissLogin(d, cs) \/ Stay(d, cs),
           UNCHANGED <<accounts, records, currentUser, puts, cut>>
    PROVE  TypeInv'
<1>1. TypeOK'
  BY MoveType DEF TypeInv, TypeOK
<1>2. ASSUME NEW a \in Devices, NEW c \in Slots,
             calls'[a][c].stage \in GoogleStages \union {"registerOk"}
      PROVE  calls'[a][c].cred.email \in Emails
  <2>1. CASE a = d
    <3>1. calls'[d][c].stage = cs[c].stage /\ calls'[d][c].cred = cs[c].cred
      BY MoveType DEF TypeInv
    <3>2. cs[c] # Idle
      BY <1>2, <2>1, <3>1 DEF Idle, GoogleStages
    <3> QED
      BY <1>2, <2>1, <3>1, <3>2 DEF TypeInv, CallsOK
  <2>2. CASE a # d
    <3>1. calls'[a] = calls[a]
      BY <2>2, MoveType DEF TypeInv
    <3> QED
      BY <1>2, <3>1 DEF TypeInv, CallsOK
  <2> QED
    BY <2>1, <2>2
<1> QED
  BY <1>1, <1>2 DEF TypeInv, CallsOK

\* The types hold at first.
LEMMA TypeInit == Init => TypeInv
BY CallRecords DEF Init, TypeInv, TypeOK, CallsOK, Idle, Unfilled, GoogleStages, Screens

\* Every action keeps the types.
LEMMA TypeStep == TypeInv /\ [Next]_vars => TypeInv'
<1> SUFFICES ASSUME TypeInv, [Next]_vars PROVE TypeInv'
  OBVIOUS
<1> USE DEF TypeInv
<1>1. CASE UNCHANGED vars
  BY <1>1 DEF vars, TypeOK, CallsOK
<1>2. ASSUME NEW d \in Devices, Launch(d) PROVE TypeInv'
  BY <1>2 DEF Launch, PresentLogin, TypeOK, CallsOK, Screens
<1>3. ASSUME NEW d \in Devices, Kill(d) PROVE TypeInv'
  BY <1>3 DEF Kill, TypeOK, CallsOK, Screens, Idle, Call, Owed, GoogleStages
<1>4. ASSUME NEW d \in Devices, LoginWithEmailPressed(d) PROVE TypeInv'
  BY <1>4 DEF LoginWithEmailPressed, TypeOK, CallsOK, Screens
<1>5. ASSUME NEW d \in Devices, NEW cred \in Creds \union {Unfilled}, EditFields(d, cred)
      PROVE TypeInv'
  BY <1>5 DEF EditFields, TypeOK, CallsOK
<1>6. ASSUME NEW d \in Devices, NEW c \in Slots, LoginPressed(d, c) PROVE TypeInv'
  BY <1>6 DEF LoginPressed, Start, TypeOK, CallsOK, Call, EmailStages, GoogleStages
<1>7. ASSUME NEW d \in Devices, ClosePressed(d) PROVE TypeInv'
  <2>1. calls[d] \in [Slots -> Call]
    BY DEF TypeOK
  <2> QED
    BY <1>7, <2>1, MoveTypeInv DEF ClosePressed
<1>8. ASSUME NEW d \in Devices, NEW c \in Slots, NEW e \in Emails, GoogleSignIn(d, c, e)
      PROVE TypeInv'
  BY <1>8 DEF GoogleSignIn, Start, TypeOK, CallsOK, Call, GoogleStages, Google
<1>9. ASSUME NEW d \in Devices, LogoutPressed(d) \/ CancelLogout(d) \/ ConfirmLogout(d)
      PROVE TypeInv'
  BY <1>9 DEF LogoutPressed, CancelLogout, ConfirmLogout, PresentLogin, TypeOK, CallsOK, Screens
<1>10. ASSUME NEW d \in Devices, NEW c \in Slots, LoginAnswered(d, c) PROVE TypeInv'
  <2>1. CASE Knows(calls[d][c].cred)
    <3> DEFINE x == Move(calls[d][c], "loginOk")
    <3>1. calls[d][c].cred.email \in Emails /\ calls[d][c].cred.password \in Passwords \union {NoPassword}
      BY <2>1, CredParts DEF Knows, TypeOK
    <3>2. x \in Call /\ x.cred.email \in Emails
      BY <3>1 DEF TypeOK, Call, EmailStages
    <3>3. calls' = [calls EXCEPT ![d][c] = x]
      BY <1>10, <2>1 DEF LoginAnswered
    <3> QED
      BY <1>10, <2>1, <3>1, <3>2, <3>3, UpdateCall DEF LoginAnswered, SignedIn, TypeOK
  <2>2. CASE ~Knows(calls[d][c].cred)
    <3> DEFINE y == IF calls[d][c].stage = "login" THEN Move(calls[d][c], "loginErr") ELSE Idle
    <3>1. y \in Call /\ y.stage \notin GoogleStages \union {"registerOk"}
      BY CallRecords DEF TypeOK, Call, EmailStages, GoogleStages, Idle
    <3>2. calls' = [calls EXCEPT ![d][c] = y]
      BY <1>10, <2>2 DEF LoginAnswered
    <3>3. calls' \in [Devices -> [Slots -> Call]] /\ CallsOK'
      <4> HIDE DEF y
      <4> QED  BY <3>1, <3>2, UpdateCall
    <3> QED
      BY <1>10, <2>2, <3>3 DEF LoginAnswered, TypeOK
  <2> QED
    BY <2>1, <2>2
<1>11. ASSUME NEW d \in Devices, NEW c \in Slots, RegisterAnswered(d, c) PROVE TypeInv'
  <2>1. CASE Registrable(calls[d][c].cred)
    <3> DEFINE x == Move(calls[d][c], "registerOk")
    <3>1. calls[d][c].cred.email \in Emails /\ calls[d][c].cred.password \in Passwords \union {NoPassword}
      BY <2>1, CredParts DEF Registrable, TypeOK
    <3>2. x \in Call /\ x.cred.email \in Emails
      BY <3>1 DEF TypeOK, Call, EmailStages
    <3>3. calls' = [calls EXCEPT ![d][c] = x]
      BY <1>11, <2>1 DEF RegisterAnswered
    <3>4. calls' \in [Devices -> [Slots -> Call]] /\ CallsOK'
      BY <3>2, <3>3, UpdateCall
    <3>5. accounts' = [accounts EXCEPT ![calls[d][c].cred.email] = calls[d][c].cred.password]
      BY <1>11, <2>1 DEF RegisterAnswered
    <3>6. accounts' \in [Emails -> Passwords \union {NoPassword, NoAccount}]
      BY <3>1, <3>5 DEF TypeOK
    <3> QED
      BY <1>11, <2>1, <3>1, <3>4, <3>6 DEF RegisterAnswered, SignedIn, TypeOK
  <2>2. CASE ~Registrable(calls[d][c].cred)
    <3>1. Idle.stage \notin GoogleStages \union {"registerOk"}
      BY DEF GoogleStages, Idle
    <3>2. calls' = [calls EXCEPT ![d][c] = Idle]
      BY <1>11, <2>2 DEF RegisterAnswered
    <3>3. calls' \in [Devices -> [Slots -> Call]] /\ CallsOK'
      BY <3>1, <3>2, CallRecords, UpdateCall
    <3> QED
      BY <1>11, <2>2, <3>3 DEF RegisterAnswered, TypeOK
  <2> QED
    BY <2>1, <2>2
<1>12. ASSUME NEW d \in Devices, NEW c \in Slots, GoogleAnswered(d, c) PROVE TypeInv'
  BY <1>12 DEF GoogleAnswered, GoogleAccount, SignedIn, TypeOK, CallsOK, Call, GoogleStages
<1>13. ASSUME NEW d \in Devices, NEW c \in Slots, RequestFails(d, c) PROVE TypeInv'
  BY <1>13 DEF RequestFails, TypeOK, CallsOK, Call, EmailStages, GoogleStages, Idle, Unfilled
<1>14. ASSUME NEW d \in Devices, NEW c \in Slots, AnswerLost(d, c) PROVE TypeInv'
  <2>1. calls[d][c].cred.email \in Emails /\ calls[d][c].cred.password \in Passwords \union {NoPassword}
    BY <1>14, CredParts DEF AnswerLost, Registrable, TypeOK, CallsOK, GoogleStages
  <2>2. accounts' \in [Emails -> Passwords \union {NoPassword, NoAccount}]
    BY <1>14, <2>1 DEF AnswerLost, GoogleAccount, TypeOK
  <2>3. Idle.stage \notin GoogleStages \union {"registerOk"}
    BY DEF GoogleStages, Idle
  <2> QED
    BY <1>14, <2>1, <2>2, <2>3, CallRecords, UpdateCall DEF AnswerLost, TypeOK
<1>15. ASSUME NEW d \in Devices, NEW c \in Slots, LoginSucceeded(d, c) PROVE TypeInv'
  <2> DEFINE done == [calls[d] EXCEPT ![c] = Idle]
  <2>1. done \in [Slots -> Call] /\ \A s \in Slots : done[s] = calls[d][s] \/ done[s] = Idle
    BY CallRecords DEF TypeOK
  <2>2. DismissEmail(d, done) \/ Stay(d, done)
    BY <1>15 DEF LoginSucceeded
  <2> QED
    BY <1>15, <2>1, <2>2, MoveTypeInv DEF LoginSucceeded
<1>16. ASSUME NEW d \in Devices, NEW c \in Slots, LoginFailed(d, c) PROVE TypeInv'
  BY <1>16 DEF LoginFailed, Typed, TypeOK, CallsOK, Call, EmailStages, GoogleStages
<1>17. ASSUME NEW d \in Devices, NEW c \in Slots, RegisterSucceeded(d, c) PROVE TypeInv'
  BY <1>17 DEF RegisterSucceeded, CreateDBUser, Typed, TypeOK, CallsOK, Call, EmailStages, GoogleStages
<1>18. ASSUME NEW d \in Devices, NEW c \in Slots, GoogleSucceeded(d, c) PROVE TypeInv'
  BY <1>18 DEF GoogleSucceeded, CreateDBUser, TypeOK, CallsOK, Call, GoogleStages
<1>19. ASSUME NEW d \in Devices, NEW c \in Slots, GoogleDismiss(d, c) PROVE TypeInv'
  <2> DEFINE done == [calls[d] EXCEPT ![c] = Idle]
  <2>1. done \in [Slots -> Call] /\ \A s \in Slots : done[s] = calls[d][s] \/ done[s] = Idle
    BY CallRecords DEF TypeOK
  <2>2. DismissEmail(d, done) \/ DismissLogin(d, done) \/ Stay(d, done)
    BY <1>19 DEF GoogleDismiss
  <2> QED
    BY <1>19, <2>1, <2>2, MoveTypeInv DEF GoogleDismiss
<1>20. ASSUME NEW d \in Devices, LoginViewDidAppear(d) PROVE TypeInv'
  <2>1. calls[d] \in [Slots -> Call]
    BY DEF TypeOK
  <2>2. CASE DismissLogin(d, calls[d])
    BY <1>20, <2>1, <2>2, MoveTypeInv DEF LoginViewDidAppear
  <2>3. CASE appearing' = [appearing EXCEPT ![d] = FALSE] /\ UNCHANGED <<screen, fields, calls, late>>
    BY <1>20, <2>3 DEF LoginViewDidAppear, TypeOK, CallsOK
  <2> QED
    BY <1>20, <2>2, <2>3 DEF LoginViewDidAppear
<1>21. ASSUME NEW d \in Devices, NEW e \in Emails, CommitRecord(d, e) PROVE TypeInv'
  BY <1>21 DEF CommitRecord, TypeOK, CallsOK
<1> QED
  BY <1>1, <1>2, <1>3, <1>4, <1>5, <1>6, <1>7, <1>8, <1>9, <1>10, <1>11, <1>12, <1>13,
     <1>14, <1>15, <1>16, <1>17, <1>18, <1>19, <1>20, <1>21
     DEF Next, UserStep, AnswerStep, Closure

\* The types of Session are kept by every step: in particular nothing but the
\* email of an account is ever queued for /users.
THEOREM TypeCorrect == Spec => []TypeOK
<1>1. TypeInv => TypeOK
  BY DEF TypeInv
<1> QED
  BY <1>1, TypeInit, TypeStep, PTL DEF Spec

-----------------------------------------------------------------------------
(* The screens and the session.                                            *)

\* A call is tied to the view controller that made it: one of LoginEmailVC
\* while that is on top, one of LoginVC while that is presented.
HereOK ==
    \A d \in Devices, c \in Slots : calls[d][c].here =>
        \/ calls[d][c].stage \in GoogleStages /\ screen[d] \in {"login", "email"}
        \/ calls[d][c].stage \in EmailStages /\ screen[d] = "email"

\* A LoginVC about to be dismissed by its Google call belongs to a session.
DismissOK ==
    \A d \in Devices : Dismissing(d) => currentUser[d] # NoUser

AppearOK == \A d \in Devices : appearing[d] => screen[d] = "login"

ScreenInv == HereOK /\ DismissOK /\ AppearOK /\ AuthGate /\ StuckOnlyWhenLate

\* Nothing is on screen and no call is under way at first.
LEMMA ScreenInit == Init => ScreenInv
BY DEF Init, ScreenInv, HereOK, DismissOK, AppearOK, AuthGate, StuckOnlyWhenLate, Dismissing, Idle

\* After a screen has gone, none of the calls it made is here.
LEMMA LeaveHere ==
    ASSUME NEW d \in Devices, NEW cs \in [Slots -> Call], NEW stages, NEW c \in Slots
    PROVE  /\ Leave(cs, d, stages)[c].stage = cs[c].stage
           /\ Leave(cs, d, stages)[c].here => cs[c].here /\ cs[c].stage \notin stages
BY DEF Leave, Call

\* The invariant holds when LoginEmailVC has gone.
LEMMA DismissEmailScreen ==
    ASSUME TypeInv, ScreenInv, NEW d \in Devices, NEW cs \in [Slots -> Call],
           \A c \in Slots : cs[c] = calls[d][c] \/ cs[c] = Idle,
           screen[d] = "email", DismissEmail(d, cs), UNCHANGED currentUser
    PROVE  ScreenInv'
<1>1. \A c \in Slots : calls'[d][c].here =>
         calls[d][c].here /\ calls'[d][c].stage = calls[d][c].stage
                          /\ calls[d][c].stage \notin EmailStages
  BY LeaveHere DEF DismissEmail, TypeInv, TypeOK, Idle
<1>2. \A a \in Devices \ {d} : calls'[a] = calls[a]
  BY DEF DismissEmail, TypeInv, TypeOK
<1> QED
  BY <1>1, <1>2 DEF DismissEmail, TypeInv, TypeOK, ScreenInv, HereOK, DismissOK, AppearOK,
     AuthGate, StuckOnlyWhenLate, Dismissing

\* The invariant holds when LoginVC has gone.
LEMMA DismissLoginScreen ==
    ASSUME TypeInv, ScreenInv, NEW d \in Devices, NEW cs \in [Slots -> Call],
           \A c \in Slots : cs[c] = calls[d][c] \/ cs[c] = Idle,
           screen[d] = "login", currentUser[d] # NoUser,
           DismissLogin(d, cs), UNCHANGED currentUser
    PROVE  ScreenInv'
<1>1. \A c \in Slots : ~calls'[d][c].here
  <2> SUFFICES ASSUME NEW c \in Slots, calls'[d][c].here PROVE FALSE
    OBVIOUS
  <2>1. calls'[d][c] = Leave(cs, d, GoogleStages)[c]
    BY DEF DismissLogin, TypeInv, TypeOK
  <2>2. cs[c].here /\ cs[c].stage \notin GoogleStages
    BY <2>1, LeaveHere
  <2>3. cs[c] = calls[d][c]
    BY <2>2 DEF Idle
  <2> QED
    BY <2>2, <2>3 DEF ScreenInv, HereOK
<1>2. \A a \in Devices \ {d} : calls'[a] = calls[a]
  BY DEF DismissLogin, TypeInv, TypeOK
<1> QED
  BY <1>1, <1>2 DEF DismissLogin, TypeInv, TypeOK, ScreenInv, HereOK, DismissOK, AppearOK,
     AuthGate, StuckOnlyWhenLate, Dismissing

\* A successful answer: the session opens, for a screen that is there or late.
LEMMA SignInScreen ==
    ASSUME TypeInv, ScreenInv, NEW d \in Devices, NEW c \in Slots, NEW st,
           SignedIn(d, c), calls' = [calls EXCEPT ![d][c] = Move(@, st)],
           UNCHANGED <<screen, appearing>>,
           calls[d][c].cred.email \in Emails,
           \/ st \in EmailStages /\ calls[d][c].stage \in EmailStages
           \/ st = "googleOk" /\ calls[d][c].stage \in GoogleStages
    PROVE  ScreenInv'
<1>1. \A a \in Devices, b \in Slots : a # d \/ b # c => calls'[a][b] = calls[a][b]
  BY DEF TypeInv, TypeOK
<1>2. calls'[d][c].stage = st /\ calls'[d][c].here = calls[d][c].here
  BY DEF TypeInv, TypeOK
<1>3. /\ currentUser'[d] # NoUser
      /\ late'[d] = (late[d] \/ ~calls[d][c].here)
      /\ \A a \in Devices \ {d} : currentUser'[a] = currentUser[a] /\ late'[a] = late[a]
  BY DEF SignedIn, TypeInv, TypeOK
<1>4. HereOK'
  BY <1>1, <1>2 DEF ScreenInv, HereOK, EmailStages, GoogleStages
<1>5. DismissOK' /\ AuthGate' /\ AppearOK'
  BY <1>1, <1>3 DEF ScreenInv, DismissOK, AuthGate, AppearOK, Dismissing
<1>6. StuckOnlyWhenLate'
  <2> SUFFICES ASSUME NEW a \in Devices, screen'[a] = "login", ~appearing'[a], currentUser'[a] # NoUser
               PROVE  late'[a] \/ Dismissing(a)'
    BY DEF StuckOnlyWhenLate
  <2>1. CASE a # d
    BY <1>1, <1>3, <2>1 DEF ScreenInv, StuckOnlyWhenLate, Dismissing
  <2>2. CASE a = d /\ ~calls[d][c].here
    BY <1>3, <2>2
  <2>3. CASE a = d /\ calls[d][c].here
    <3>1. st = "googleOk"
      BY <2>3 DEF ScreenInv, HereOK, EmailStages, GoogleStages
    <3> QED
      BY <1>2, <2>3, <3>1 DEF Dismissing
  <2> QED
    BY <2>1, <2>2, <2>3
<1> QED
  BY <1>4, <1>5, <1>6 DEF ScreenInv

\* A call whose screen has gone ends.
LEMMA DropCall ==
    ASSUME TypeInv, ScreenInv, NEW d \in Devices, NEW c \in Slots, ~calls[d][c].here,
           Stay(d, [calls[d] EXCEPT ![c] = Idle]), UNCHANGED currentUser
    PROVE  ScreenInv'
<1>1. \A a \in Devices, b \in Slots :
         \/ calls'[a][b] = calls[a][b]
         \/ a = d /\ b = c /\ ~calls'[a][b].here
  BY DEF Stay, TypeInv, TypeOK, Idle
<1> QED
  BY <1>1 DEF Stay, ScreenInv, HereOK, DismissOK, AppearOK, AuthGate, StuckOnlyWhenLate, Dismissing

\* A call of a LoginEmailVC goes on or ends without a session.
LEMMA CallFails ==
    ASSUME TypeInv, ScreenInv, NEW d \in Devices, NEW c \in Slots, NEW y,
           calls' = [calls EXCEPT ![d][c] = y],
           calls[d][c].stage \in EmailStages,
           y.here => calls[d][c].here /\ y.stage \in EmailStages,
           UNCHANGED <<screen, appearing, currentUser, late>>
    PROVE  ScreenInv'
<1>1. /\ \A a \in Devices, b \in Slots : a # d \/ b # c => calls'[a][b] = calls[a][b]
      /\ calls'[d][c] = y
  BY DEF TypeInv, TypeOK
<1>2. EmailStages \intersect GoogleStages = {}
  BY DEF EmailStages, GoogleStages
<1>3. HereOK'
  BY <1>1, <1>2 DEF ScreenInv, HereOK
<1>4. \A a \in Devices : Dismissing(a)' <=> Dismissing(a)
  BY <1>1, <1>2 DEF Dismissing, EmailStages
<1> QED
  BY <1>3, <1>4 DEF ScreenInv, DismissOK, AppearOK, AuthGate, StuckOnlyWhenLate

\* Every action keeps calls and screens in step.
LEMMA ScreenStep == TypeInv /\ ScreenInv /\ [Next]_vars => ScreenInv'
<1> SUFFICES ASSUME TypeInv, ScreenInv, [Next]_vars PROVE ScreenInv'
  OBVIOUS
<1> USE DEF ScreenInv, HereOK, DismissOK, AppearOK, AuthGate, StuckOnlyWhenLate, Dismissing
<1>1. CASE UNCHANGED vars
  BY <1>1 DEF vars
<1>2. ASSUME NEW d \in Devices, Launch(d) PROVE ScreenInv'
  <2>1. ~appearing[d] /\ \A c \in Slots : ~calls[d][c].here
    BY <1>2 DEF Launch
  <2>2. /\ UNCHANGED <<currentUser, calls, late>>
        /\ \A a \in Devices \ {d} : screen'[a] = screen[a] /\ appearing'[a] = appearing[a]
        /\ \A a \in Devices : Dismissing(a)' <=> Dismissing(a)
    BY <1>2 DEF Launch, PresentLogin, TypeInv, TypeOK
  <2> HIDE DEF Dismissing
  <2>3. CASE currentUser[d] = NoUser
    <3>1. screen'[d] = "login" /\ appearing'[d] = TRUE
      BY <1>2, <2>3 DEF Launch, PresentLogin, TypeInv, TypeOK
    <3> QED
      BY <2>1, <2>2, <2>3, <3>1
  <2>4. CASE currentUser[d] # NoUser
    <3>1. screen'[d] = "tabs" /\ appearing' = appearing
      BY <1>2, <2>4 DEF Launch, TypeInv, TypeOK
    <3> QED
      BY <2>1, <2>2, <2>4, <3>1
  <2> QED
    BY <2>3, <2>4
<1>3. ASSUME NEW d \in Devices, Kill(d) PROVE ScreenInv'
  BY <1>3 DEF Kill, TypeInv, TypeOK, Idle
<1>4. ASSUME NEW d \in Devices, LoginWithEmailPressed(d) PROVE ScreenInv'
  BY <1>4 DEF LoginWithEmailPressed, TypeInv, TypeOK
<1>5. ASSUME NEW d \in Devices, NEW cred \in Creds \union {Unfilled}, EditFields(d, cred)
      PROVE ScreenInv'
  BY <1>5 DEF EditFields, TypeInv, TypeOK
<1>6. ASSUME NEW d \in Devices, NEW c \in Slots, LoginPressed(d, c) PROVE ScreenInv'
  BY <1>6 DEF LoginPressed, Start, Idle, TypeInv, TypeOK, EmailStages, GoogleStages
<1>7. ASSUME NEW d \in Devices, ClosePressed(d) PROVE ScreenInv'
  BY <1>7, DismissEmailScreen DEF ClosePressed, TypeInv, TypeOK
<1>8. ASSUME NEW d \in Devices, NEW c \in Slots, NEW e \in Emails, GoogleSignIn(d, c, e)
      PROVE ScreenInv'
  BY <1>8 DEF GoogleSignIn, Start, Idle, TypeInv, TypeOK, GoogleStages
<1>9. ASSUME NEW d \in Devices, LogoutPressed(d) \/ CancelLogout(d) \/ ConfirmLogout(d)
      PROVE ScreenInv'
  <2>1. ~appearing[d] /\ \A c \in Slots : ~calls[d][c].here
    BY <1>9 DEF LogoutPressed, CancelLogout, ConfirmLogout
  <2>2. CASE LogoutPressed(d)
    BY <2>1, <2>2 DEF LogoutPressed, TypeInv, TypeOK
  <2>3. CASE CancelLogout(d)
    BY <2>1, <2>3 DEF CancelLogout, TypeInv, TypeOK
  <2>4. CASE ConfirmLogout(d)
    BY <2>1, <2>4 DEF ConfirmLogout, PresentLogin, TypeInv, TypeOK
  <2> QED
    BY <1>9, <2>2, <2>3, <2>4
<1>10. ASSUME NEW d \in Devices, NEW c \in Slots, LoginAnswered(d, c) PROVE ScreenInv'
  <2>1. CASE Knows(calls[d][c].cred)
    <3>1. /\ calls' = [calls EXCEPT ![d][c] = Move(@, "loginOk")]
          /\ SignedIn(d, c) /\ UNCHANGED <<screen, appearing>>
          /\ calls[d][c].stage \in EmailStages /\ "loginOk" \in EmailStages
      BY <1>10, <2>1 DEF LoginAnswered, EmailStages
    <3>2. calls[d][c].cred.email \in Emails
      BY <2>1, CredParts DEF Knows, TypeInv, TypeOK
    <3> QED
      <4> HIDE DEF Move, ScreenInv
      <4> QED  BY <3>1, <3>2, SignInScreen
  <2>2. CASE ~Knows(calls[d][c].cred)
    <3> DEFINE y == IF calls[d][c].stage = "login" THEN Move(calls[d][c], "loginErr") ELSE Idle
    <3>1. calls' = [calls EXCEPT ![d][c] = y]
      BY <1>10, <2>2 DEF LoginAnswered
    <3>2. y.here => calls[d][c].here /\ y.stage \in EmailStages
      BY DEF Idle, EmailStages
    <3>3. calls[d][c].stage \in EmailStages /\ UNCHANGED <<screen, appearing, currentUser, late>>
      BY <1>10, <2>2 DEF LoginAnswered, EmailStages
    <3> QED
      <4> HIDE DEF y, ScreenInv
      <4> QED  BY <3>1, <3>2, <3>3, CallFails
  <2> QED
    BY <2>1, <2>2
<1>11. ASSUME NEW d \in Devices, NEW c \in Slots, RegisterAnswered(d, c) PROVE ScreenInv'
  <2>1. CASE Registrable(calls[d][c].cred)
    <3>1. /\ calls' = [calls EXCEPT ![d][c] = Move(@, "registerOk")]
          /\ SignedIn(d, c) /\ UNCHANGED <<screen, appearing>>
          /\ calls[d][c].stage \in EmailStages /\ "registerOk" \in EmailStages
      BY <1>11, <2>1 DEF RegisterAnswered, EmailStages
    <3>2. calls[d][c].cred.email \in Emails
      BY <2>1, CredParts DEF Registrable, TypeInv, TypeOK
    <3> QED
      <4> HIDE DEF Move, ScreenInv
      <4> QED  BY <3>1, <3>2, SignInScreen
  <2>2. CASE ~Registrable(calls[d][c].cred)
    <3> DEFINE y == Idle
    <3>1. calls' = [calls EXCEPT ![d][c] = y]
      BY <1>11, <2>2 DEF RegisterAnswered
    <3>2. y.here => calls[d][c].here /\ y.stage \in EmailStages
      BY DEF Idle, EmailStages
    <3>3. calls[d][c].stage \in EmailStages /\ UNCHANGED <<screen, appearing, currentUser, late>>
      BY <1>11, <2>2 DEF RegisterAnswered, EmailStages
    <3> QED
      <4> HIDE DEF y, ScreenInv
      <4> QED  BY <3>1, <3>2, <3>3, CallFails
  <2> QED
    BY <2>1, <2>2
<1>12. ASSUME NEW d \in Devices, NEW c \in Slots, GoogleAnswered(d, c) PROVE ScreenInv'
  <2>1. /\ calls' = [calls EXCEPT ![d][c] = Move(@, "googleOk")]
        /\ SignedIn(d, c) /\ UNCHANGED <<screen, appearing>>
        /\ calls[d][c].stage \in GoogleStages
    BY <1>12 DEF GoogleAnswered, GoogleStages
  <2>2. calls[d][c].cred.email \in Emails
    BY <2>1 DEF TypeInv, CallsOK
  <2> QED
    <3> HIDE DEF Move, ScreenInv
    <3> QED  BY <2>1, <2>2, SignInScreen
<1>13. ASSUME NEW d \in Devices, NEW c \in Slots, RequestFails(d, c) PROVE ScreenInv'
  BY <1>13 DEF RequestFails, TypeInv, TypeOK, EmailStages, GoogleStages, Idle, Waiting
<1>14. ASSUME NEW d \in Devices, NEW c \in Slots, AnswerLost(d, c) PROVE ScreenInv'
  BY <1>14 DEF AnswerLost, TypeInv, TypeOK, Idle, GoogleStages
<1>15. ASSUME NEW d \in Devices, NEW c \in Slots, LoginSucceeded(d, c) PROVE ScreenInv'
  <2> DEFINE done == [calls[d] EXCEPT ![c] = Idle]
  <2>1. done \in [Slots -> Call] /\ \A s \in Slots : done[s] = calls[d][s] \/ done[s] = Idle
    BY CallRecords DEF TypeInv, TypeOK
  <2>2. CASE calls[d][c].here
    <3>1. screen[d] = "email"
      BY <1>15, <2>2 DEF LoginSucceeded, EmailStages, GoogleStages
    <3> QED
      BY <1>15, <2>1, <2>2, <3>1, DismissEmailScreen DEF LoginSucceeded
  <2>3. CASE ~calls[d][c].here
    <3>1. Stay(d, done) /\ UNCHANGED currentUser
      BY <1>15, <2>3 DEF LoginSucceeded
    <3> QED
      BY <2>3, <3>1, DropCall
  <2> QED
    BY <2>2, <2>3
<1>16. ASSUME NEW d \in Devices, NEW c \in Slots, LoginFailed(d, c) PROVE ScreenInv'
  BY <1>16 DEF LoginFailed, TypeInv, TypeOK, EmailStages, GoogleStages
<1>17. ASSUME NEW d \in Devices, NEW c \in Slots, RegisterSucceeded(d, c) PROVE ScreenInv'
  <2>1. \A a \in Devices, b \in Slots : a # d \/ b # c => calls'[a][b] = calls[a][b]
    BY <1>17 DEF RegisterSucceeded, TypeInv, TypeOK
  <2>2. calls'[d][c].stage = "relogin" /\ calls'[d][c].here = calls[d][c].here
    BY <1>17 DEF RegisterSucceeded, TypeInv, TypeOK
  <2> QED
    BY <1>17, <2>1, <2>2 DEF RegisterSucceeded, EmailStages, GoogleStages
<1>18. ASSUME NEW d \in Devices, NEW c \in Slots, GoogleSucceeded(d, c) PROVE ScreenInv'
  BY <1>18 DEF GoogleSucceeded, TypeInv, TypeOK, EmailStages, GoogleStages
<1>19. ASSUME NEW d \in Devices, NEW c \in Slots, GoogleDismiss(d, c) PROVE ScreenInv'
  <2> DEFINE done == [calls[d] EXCEPT ![c] = Idle]
  <2>1. done \in [Slots -> Call] /\ \A s \in Slots : done[s] = calls[d][s] \/ done[s] = Idle
    BY CallRecords DEF TypeInv, TypeOK
  <2>2. CASE calls[d][c].here /\ screen[d] = "email"
    BY <1>19, <2>1, <2>2, DismissEmailScreen DEF GoogleDismiss
  <2>3. CASE calls[d][c].here /\ screen[d] # "email"
    <3>1. screen[d] = "login" /\ currentUser[d] # NoUser
      BY <1>19, <2>3 DEF GoogleDismiss
    <3> QED
      BY <1>19, <2>1, <2>3, <3>1, DismissLoginScreen DEF GoogleDismiss
  <2>4. CASE ~calls[d][c].here
    <3>1. Stay(d, done) /\ UNCHANGED currentUser
      BY <1>19, <2>4 DEF GoogleDismiss
    <3> QED
      BY <2>4, <3>1, DropCall
  <2> QED
    BY <2>2, <2>3, <2>4
<1>20. ASSUME NEW d \in Devices, LoginViewDidAppear(d) PROVE ScreenInv'
  <2>1. screen[d] = "login" /\ calls[d] \in [Slots -> Call]
    BY <1>20 DEF LoginViewDidAppear, TypeInv, TypeOK
  <2>2. CASE currentUser[d] # NoUser
    BY <1>20, <2>1, <2>2, DismissLoginScreen DEF LoginViewDidAppear
  <2>3. CASE currentUser[d] = NoUser
    <3>1. /\ UNCHANGED <<screen, currentUser, calls, late>> /\ ~appearing'[d]
          /\ \A a \in Devices \ {d} : appearing'[a] = appearing[a]
          /\ \A a \in Devices : Dismissing(a)' <=> Dismissing(a)
      BY <1>20, <2>3 DEF LoginViewDidAppear, TypeInv, TypeOK
    <3> QED
      <4> HIDE DEF Dismissing
      <4> QED  BY <2>1, <2>3, <3>1
  <2> QED
    BY <2>2, <2>3
<1>21. ASSUME NEW d \in Devices, NEW e \in Emails, CommitRecord(d, e) PROVE ScreenInv'
  BY <1>21 DEF CommitRecord, TypeInv, TypeOK
<1> QED
  BY <1>1, <1>2, <1>3, <1>4, <1>5, <1>6, <1>7, <1>8, <1>9, <1>10, <1>11, <1>12, <1>13,
     <1>14, <1>15, <1>16, <1>17, <1>18, <1>19, <1>20, <1>21
     DEF Next, UserStep, AnswerStep, Closure

\* So types, and the agreement of calls and screens, always hold.
LEMMA ScreenInvariance == Spec => [](TypeInv /\ ScreenInv)
BY TypeInit, TypeStep, ScreenInit, ScreenStep, PTL DEF Spec

\* Whoever sees the tab bar is signed in, on every device at every moment.
THEOREM AuthGateHolds == Spec => []AuthGate
<1>1. TypeInv /\ ScreenInv => AuthGate
  BY DEF ScreenInv
<1> QED
  BY <1>1, ScreenInvariance, PTL

\* A signed-in user faces an idle login screen only after a late answer.
THEOREM StuckOnlyWhenLateHolds == Spec => []StuckOnlyWhenLate
<1>1. TypeInv /\ ScreenInv => StuckOnlyWhenLate
  BY DEF ScreenInv
<1> QED
  BY <1>1, ScreenInvariance, PTL

-----------------------------------------------------------------------------
(* Accounts and their records.                                             *)

\* A closure that will write a record was answered for an account that exists.
OwedHaveAccounts ==
    \A d \in Devices : \A e \in Owed(d) : accounts[e] # NoAccount

RecordInv == RecordsHaveAccounts /\ OwedHaveAccounts /\ NoOrphanUnlessCut

\* What a step may do to accounts and records.
AccountsGrow ==
    \A e \in Emails : accounts[e] # NoAccount => accounts'[e] # NoAccount

\* There are neither accounts nor records at first.
LEMMA RecordInit == Init => RecordInv
BY DEF Init, RecordInv, RecordsHaveAccounts, OwedHaveAccounts, NoOrphanUnlessCut, Owed, Idle

\* Steps that make no account and owe the same records keep the invariant.
LEMMA SameDebts ==
    ASSUME RecordInv, UNCHANGED <<accounts, records, puts, cut>>,
           \A d \in Devices : Owed(d)' = Owed(d),
           \A d \in Devices : currentUser'[d] # NoUser => accounts[currentUser'[d]] # NoAccount
    PROVE  RecordInv'
BY DEF RecordInv, RecordsHaveAccounts, OwedHaveAccounts, NoOrphanUnlessCut

\* Changing one call changes only what that call owes.
LEMMA OwedUpdate ==
    ASSUME TypeInv, NEW d \in Devices, NEW c \in Slots, NEW x,
           calls' = [calls EXCEPT ![d][c] = x], UNCHANGED puts
    PROVE  /\ \A a \in Devices \ {d} : Owed(a)' = Owed(a)
           /\ x.stage \notin {"registerOk", "googleOk"} /\ calls[d][c].stage \notin {"registerOk", "googleOk"}
                => Owed(d)' = Owed(d)
           /\ x.stage \in {"registerOk", "googleOk"} /\ calls[d][c].stage \notin {"registerOk", "googleOk"}
                => Owed(d)' = Owed(d) \union {x.cred.email}
<1>1. /\ \A a \in Devices \ {d} : calls'[a] = calls[a]
      /\ \A b \in Slots : calls'[d][b] = IF b = c THEN x ELSE calls[d][b]
  BY DEF TypeInv, TypeOK
<1> QED
  BY <1>1 DEF Owed

\* Moving between screens changes no debt.
LEMMA OwedMove ==
    ASSUME TypeInv, NEW d \in Devices, NEW cs \in [Slots -> Call],
           \A c \in Slots : cs[c] = calls[d][c] \/ (cs[c] = Idle /\ calls[d][c].stage \notin {"registerOk", "googleOk"}),
           DismissEmail(d, cs) \/ DismissLogin(d, cs) \/ Stay(d, cs), UNCHANGED puts
    PROVE  \A a \in Devices : Owed(a)' = Owed(a)
<1>1. /\ \A a \in Devices \ {d} : calls'[a] = calls[a]
      /\ \A c \in Slots : /\ calls'[d][c].stage = cs[c].stage
                          /\ calls'[d][c].cred = cs[c].cred
  BY MoveType DEF TypeInv
<1>2. \A c \in Slots :
         /\ cs[c].stage \in {"registerOk", "googleOk"} <=> calls[d][c].stage \in {"registerOk", "googleOk"}
         /\ cs[c].stage \in {"registerOk", "googleOk"} => cs[c].cred = calls[d][c].cred
  BY DEF Idle
<1>3. Owed(d)' = Owed(d)
  BY <1>1, <1>2 DEF Owed
<1> QED
  BY <1>1, <1>3 DEF Owed

\* The server makes or finds the account of `e`, and a closure that writes its
\* record is queued (or the answer is lost, and `e` is in cut).
LEMMA AccountMade ==
    ASSUME TypeInv, RecordInv, NEW d \in Devices, NEW e \in Emails, AccountsGrow,
           accounts'[e] # NoAccount,
           \A x \in Emails \ {e} : accounts'[x] = accounts[x],
           UNCHANGED <<records, puts>>,
           \A a \in Devices \ {d} : Owed(a)' = Owed(a),
           \/ Owed(d)' = Owed(d) \union {e} /\ cut' = cut
           \/ Owed(d)' = Owed(d) /\ cut' = cut \union {e},
           \A a \in Devices : currentUser'[a] \in {currentUser[a], e}
    PROVE  RecordInv'
<1>1. RecordsHaveAccounts'
  BY DEF RecordInv, RecordsHaveAccounts, AccountsGrow, TypeInv, TypeOK
<1>2. \A a \in Devices : Owed(a) \subseteq Emails
  BY DEF Owed, TypeInv, TypeOK, CallsOK, GoogleStages
<1>3. OwedHaveAccounts'
  BY <1>2 DEF RecordInv, OwedHaveAccounts, AccountsGrow
<1>4. NoOrphanUnlessCut'
  <2> SUFFICES ASSUME NEW x \in Emails, accounts'[x] # NoAccount, x \notin records'
               PROVE  x \in cut' \/ \E a \in Devices : x \in Owed(a)'
    BY DEF NoOrphanUnlessCut
  <2>1. CASE x = e
    BY <2>1
  <2>2. CASE x # e
    BY <2>2 DEF RecordInv, NoOrphanUnlessCut
  <2> QED
    BY <2>1, <2>2
<1> QED
  BY <1>1, <1>3, <1>4 DEF RecordInv

\* Every action keeps accounts and records in step.
LEMMA RecordStep == TypeInv /\ RecordInv /\ [Next]_vars => RecordInv'
<1> SUFFICES ASSUME TypeInv, RecordInv, [Next]_vars PROVE RecordInv'
  OBVIOUS
<1>a. \A d \in Devices : currentUser[d] # NoUser => accounts[currentUser[d]] # NoAccount
  BY DEF RecordInv, RecordsHaveAccounts
<1>b. \A d \in Devices : Owed(d) \subseteq Emails
  BY DEF Owed, TypeInv, TypeOK, CallsOK, GoogleStages
<1>1. CASE UNCHANGED vars
  BY <1>1, <1>a, SameDebts DEF vars, Owed
<1>2. ASSUME NEW d \in Devices, Launch(d) PROVE RecordInv'
  BY <1>2, <1>a, SameDebts DEF Launch, Owed
<1>3. ASSUME NEW d \in Devices, Kill(d) PROVE RecordInv'
  <2>1. /\ Owed(d)' = {}
        /\ \A a \in Devices \ {d} : Owed(a)' = Owed(a)
    BY <1>3 DEF Kill, Owed, Idle, TypeInv, TypeOK
  <2>2. /\ UNCHANGED <<accounts, records, currentUser>> /\ cut' = cut \union Owed(d)
        /\ \A a \in Devices : puts'[a] \subseteq puts[a]
    BY <1>3 DEF Kill, TypeInv, TypeOK
  <2> QED
    BY <2>1, <2>2 DEF RecordInv, RecordsHaveAccounts, OwedHaveAccounts, NoOrphanUnlessCut
<1>4. ASSUME NEW d \in Devices, LoginWithEmailPressed(d) PROVE RecordInv'
  BY <1>4, <1>a, SameDebts DEF LoginWithEmailPressed, Owed
<1>5. ASSUME NEW d \in Devices, NEW cred \in Creds \union {Unfilled}, EditFields(d, cred)
      PROVE RecordInv'
  BY <1>5, <1>a, SameDebts DEF EditFields, Owed
<1>6. ASSUME NEW d \in Devices, NEW c \in Slots, NEW stage, NEW cred,
             stage \notin {"registerOk", "googleOk"}, Start(d, c, stage, cred),
             UNCHANGED <<accounts, records, puts, cut, currentUser>>
      PROVE RecordInv'
  <2>1. \A a \in Devices : Owed(a)' = Owed(a)
    <3> DEFINE x == [stage |-> stage, cred |-> cred, here |-> TRUE, typed |-> Unfilled]
    <3>1. /\ calls' = [calls EXCEPT ![d][c] = x] /\ UNCHANGED puts
          /\ x.stage \notin {"registerOk", "googleOk"}
          /\ calls[d][c].stage \notin {"registerOk", "googleOk"}
      BY <1>6 DEF Start, Idle
    <3> HIDE DEF x
    <3> QED
      BY <3>1, OwedUpdate
  <2> QED
    BY <1>6, <1>a, <2>1, SameDebts
<1>7. ASSUME NEW d \in Devices, ClosePressed(d) PROVE RecordInv'
  <2>1. \A a \in Devices : Owed(a)' = Owed(a)
    BY <1>7, OwedMove DEF ClosePressed, TypeInv, TypeOK
  <2> QED
    BY <1>7, <1>a, <2>1, SameDebts DEF ClosePressed
<1>8. ASSUME NEW d \in Devices, LogoutPressed(d) \/ CancelLogout(d)
      PROVE RecordInv'
  BY <1>8, <1>a, SameDebts DEF LogoutPressed, CancelLogout, Owed
<1>9. ASSUME NEW d \in Devices, ConfirmLogout(d) PROVE RecordInv'
  <2>1. \A a \in Devices : currentUser'[a] # NoUser => accounts[currentUser'[a]] # NoAccount
    BY <1>9, <1>a DEF ConfirmLogout, TypeInv, TypeOK
  <2> QED
    BY <1>9, <2>1, SameDebts DEF ConfirmLogout, Owed
<1>10. ASSUME NEW d \in Devices, NEW c \in Slots, LoginAnswered(d, c) PROVE RecordInv'
  <2>1. CASE Knows(calls[d][c].cred)
    <3>1. \A a \in Devices : Owed(a)' = Owed(a)
      BY <1>10, <2>1, OwedUpdate DEF LoginAnswered
    <3>2. accounts[calls[d][c].cred.email] # NoAccount
      BY <2>1, CredParts DEF Knows, TypeInv, TypeOK
    <3>3. \A a \in Devices : currentUser'[a] # NoUser => accounts[currentUser'[a]] # NoAccount
      BY <1>10, <2>1, <1>a, <3>2 DEF LoginAnswered, SignedIn, TypeInv, TypeOK
    <3> QED
      BY <1>10, <3>1, <3>3, SameDebts DEF LoginAnswered
  <2>2. CASE ~Knows(calls[d][c].cred)
    <3>1. \A a \in Devices : Owed(a)' = Owed(a)
      BY <1>10, <2>2, OwedUpdate DEF LoginAnswered, Idle
    <3> QED
      BY <1>10, <2>2, <1>a, <3>1, SameDebts DEF LoginAnswered
  <2> QED
    BY <2>1, <2>2
<1>11. ASSUME NEW d \in Devices, NEW c \in Slots, RegisterAnswered(d, c) PROVE RecordInv'
  <2> DEFINE e == calls[d][c].cred.email
  <2>1. CASE Registrable(calls[d][c].cred)
    <3>1. e \in Emails /\ accounts[e] = NoAccount /\ calls[d][c].cred.password # NoAccount
      BY <2>1, CredParts DEF Registrable, TypeInv, TypeOK
    <3>2. /\ accounts' = [accounts EXCEPT ![e] = calls[d][c].cred.password]
          /\ SignedIn(d, c) /\ UNCHANGED <<records, puts, cut>>
          /\ calls' = [calls EXCEPT ![d][c] = Move(@, "registerOk")]
          /\ calls[d][c].stage = "register"
      BY <1>11, <2>1 DEF RegisterAnswered, Registrable
    <3>3. /\ \A a \in Devices \ {d} : Owed(a)' = Owed(a)
          /\ Owed(d)' = Owed(d) \union {e}
      <4> DEFINE x == Move(calls[d][c], "registerOk")
      <4>1. /\ calls' = [calls EXCEPT ![d][c] = x] /\ UNCHANGED puts
            /\ x.stage = "registerOk" /\ x.cred.email = e
            /\ calls[d][c].stage \notin {"registerOk", "googleOk"}
        BY <3>2
      <4> HIDE DEF x
      <4> QED
        BY <4>1, OwedUpdate
    <3>4. AccountsGrow /\ accounts'[e] # NoAccount /\ \A x \in Emails \ {e} : accounts'[x] = accounts[x]
      BY <3>1, <3>2 DEF AccountsGrow, TypeInv, TypeOK
    <3>5. \A a \in Devices : currentUser'[a] \in {currentUser[a], e}
      BY <3>2 DEF SignedIn, TypeInv, TypeOK
    <3> QED
      BY <3>1, <3>2, <3>3, <3>4, <3>5, AccountMade
  <2>2. CASE ~Registrable(calls[d][c].cred)
    <3>1. \A a \in Devices : Owed(a)' = Owed(a)
      BY <1>11, <2>2, OwedUpdate DEF RegisterAnswered, Idle
    <3> QED
      BY <1>11, <2>2, <1>a, <3>1, SameDebts DEF RegisterAnswered
  <2> QED
    BY <2>1, <2>2
<1>12. ASSUME NEW d \in Devices, NEW c \in Slots, GoogleAnswered(d, c) PROVE RecordInv'
  <2> DEFINE e == calls[d][c].cred.email
  <2>1. e \in Emails
    BY <1>12 DEF GoogleAnswered, TypeInv, CallsOK, GoogleStages
  <2>2. AccountsGrow /\ accounts'[e] # NoAccount /\ \A x \in Emails \ {e} : accounts'[x] = accounts[x]
    BY <1>12, <2>1 DEF GoogleAnswered, GoogleAccount, AccountsGrow, TypeInv, TypeOK
  <2>3. /\ \A a \in Devices \ {d} : Owed(a)' = Owed(a)
        /\ Owed(d)' = Owed(d) \union {e}
    <3> DEFINE x == Move(calls[d][c], "googleOk")
    <3>1. /\ calls' = [calls EXCEPT ![d][c] = x] /\ UNCHANGED puts
          /\ x.stage = "googleOk" /\ x.cred.email = e
          /\ calls[d][c].stage \notin {"registerOk", "googleOk"}
      BY <1>12 DEF GoogleAnswered
    <3> HIDE DEF x
    <3> QED
      BY <3>1, OwedUpdate
  <2>4. \A a \in Devices : currentUser'[a] \in {currentUser[a], e}
    BY <1>12 DEF GoogleAnswered, SignedIn, TypeInv, TypeOK
  <2> QED
    BY <1>12, <2>1, <2>2, <2>3, <2>4, AccountMade DEF GoogleAnswered
<1>13. ASSUME NEW d \in Devices, NEW c \in Slots, RequestFails(d, c) PROVE RecordInv'
  <2>1. \A a \in Devices : Owed(a)' = Owed(a)
    BY <1>13, OwedUpdate DEF RequestFails, Waiting, Idle
  <2> QED
    BY <1>13, <1>a, <2>1, SameDebts DEF RequestFails
<1>14. ASSUME NEW d \in Devices, NEW c \in Slots, AnswerLost(d, c) PROVE RecordInv'
  <2> DEFINE e == calls[d][c].cred.email
  <2>1. e \in Emails
    BY <1>14, CredParts DEF AnswerLost, Registrable, TypeInv, TypeOK, CallsOK, GoogleStages
  <2>2. AccountsGrow /\ accounts'[e] # NoAccount /\ \A x \in Emails \ {e} : accounts'[x] = accounts[x]
    <3>1. CASE Registrable(calls[d][c].cred) /\ accounts' = [accounts EXCEPT ![e] = calls[d][c].cred.password]
      <4>1. calls[d][c].cred.password # NoAccount
        BY CredParts DEF TypeInv, TypeOK
      <4> QED
        BY <2>1, <3>1, <4>1 DEF AccountsGrow, TypeInv, TypeOK
    <3>2. CASE GoogleAccount(e)
      BY <2>1, <3>2 DEF GoogleAccount, AccountsGrow, TypeInv, TypeOK
    <3> QED
      BY <1>14, <3>1, <3>2 DEF AnswerLost
  <2>3. \A a \in Devices : Owed(a)' = Owed(a)
    BY <1>14, OwedUpdate DEF AnswerLost, Idle
  <2> QED
    BY <1>14, <2>1, <2>2, <2>3, AccountMade DEF AnswerLost
<1>15. ASSUME NEW d \in Devices, NEW c \in Slots, LoginSucceeded(d, c) \/ GoogleDismiss(d, c)
       PROVE RecordInv'
  <2> DEFINE done == [calls[d] EXCEPT ![c] = Idle]
  <2>1. /\ done \in [Slots -> Call]
        /\ \A s \in Slots : done[s] = calls[d][s]
               \/ (done[s] = Idle /\ calls[d][s].stage \notin {"registerOk", "googleOk"})
    BY <1>15, CallRecords DEF LoginSucceeded, GoogleDismiss, TypeInv, TypeOK
  <2>2. DismissEmail(d, done) \/ DismissLogin(d, done) \/ Stay(d, done)
    BY <1>15 DEF LoginSucceeded, GoogleDismiss
  <2>3. UNCHANGED <<accounts, records, currentUser, puts, cut>>
    BY <1>15 DEF LoginSucceeded, GoogleDismiss
  <2>4. \A a \in Devices : Owed(a)' = Owed(a)
    BY <2>1, <2>2, <2>3, OwedMove
  <2> QED
    BY <1>a, <2>3, <2>4, SameDebts
<1>16. ASSUME NEW d \in Devices, NEW c \in Slots, LoginFailed(d, c) PROVE RecordInv'
  <2>1. \A a \in Devices : Owed(a)' = Owed(a)
    BY <1>16, OwedUpdate DEF LoginFailed
  <2> QED
    BY <1>16, <1>a, <2>1, SameDebts DEF LoginFailed
<1>17. ASSUME NEW d \in Devices, NEW c \in Slots, RegisterSucceeded(d, c) \/ GoogleSucceeded(d, c)
       PROVE RecordInv'
  <2>1. /\ \A b \in Slots \ {c} : calls'[d][b] = calls[d][b]
        /\ calls'[d][c].stage \notin {"registerOk", "googleOk"}
        /\ calls[d][c].stage \in {"registerOk", "googleOk"}
        /\ puts'[d] = puts[d] \union {calls[d][c].cred.email}
        /\ \A a \in Devices \ {d} : puts'[a] = puts[a] /\ calls'[a] = calls[a]
    BY <1>17 DEF RegisterSucceeded, GoogleSucceeded, CreateDBUser, TypeInv, TypeOK
  <2>2. \A a \in Devices : Owed(a)' = Owed(a)
    <3>1. Owed(d)' = Owed(d)
      BY <2>1 DEF Owed
    <3> QED
      BY <2>1, <3>1 DEF Owed
  <2>3. UNCHANGED <<accounts, records, currentUser, cut>>
    BY <1>17 DEF RegisterSucceeded, GoogleSucceeded
  <2>4. \A a \in Devices : puts'[a] \subseteq Owed(a)
    BY <2>2 DEF Owed
  <2> QED
    BY <2>2, <2>3, <2>4 DEF RecordInv, RecordsHaveAccounts, OwedHaveAccounts, NoOrphanUnlessCut
<1>18. ASSUME NEW d \in Devices, LoginViewDidAppear(d) PROVE RecordInv'
  <2>1. \A a \in Devices : Owed(a)' = Owed(a)
    <3>1. CASE DismissLogin(d, calls[d])
      BY <1>18, <3>1, OwedMove DEF LoginViewDidAppear, TypeInv, TypeOK
    <3>2. CASE UNCHANGED calls
      BY <1>18, <3>2 DEF LoginViewDidAppear, Owed
    <3> QED
      BY <1>18, <3>1, <3>2 DEF LoginViewDidAppear
  <2> QED
    BY <1>18, <1>a, <2>1, SameDebts DEF LoginViewDidAppear
<1>19. ASSUME NEW d \in Devices, NEW e \in Emails, CommitRecord(d, e) PROVE RecordInv'
  <2>1. /\ UNCHANGED <<accounts, currentUser, cut>> /\ records' = records \union {e}
        /\ \A a \in Devices : puts'[a] \subseteq puts[a] /\ puts[a] \subseteq puts'[a] \union {e}
    BY <1>19 DEF CommitRecord, TypeInv, TypeOK
  <2>2. \A a \in Devices : /\ Owed(a)' \subseteq Owed(a)
                           /\ Owed(a) \subseteq Owed(a)' \union {e}
    BY <1>19, <2>1 DEF CommitRecord, Owed
  <2>3. accounts[e] # NoAccount
    BY <1>19 DEF CommitRecord, RecordInv, RecordsHaveAccounts
  <2>4. RecordsHaveAccounts' /\ OwedHaveAccounts'
    BY <2>1, <2>2, <2>3 DEF RecordInv, RecordsHaveAccounts, OwedHaveAccounts
  <2>5. NoOrphanUnlessCut'
    BY <2>1, <2>2 DEF RecordInv, NoOrphanUnlessCut
  <2> QED
    BY <2>4, <2>5 DEF RecordInv
<1>20. ASSUME NEW d \in Devices, NEW c \in Slots, LoginPressed(d, c) PROVE RecordInv'
  BY <1>6, <1>20 DEF LoginPressed
<1>21. ASSUME NEW d \in Devices, NEW c \in Slots, NEW e \in Emails, GoogleSignIn(d, c, e)
       PROVE RecordInv'
  BY <1>6, <1>21 DEF GoogleSignIn
<1> QED
  BY <1>1, <1>2, <1>3, <1>4, <1>5, <1>7, <1>8, <1>9, <1>10, <1>11, <1>12, <1>13,
     <1>14, <1>15, <1>16, <1>17, <1>18, <1>19, <1>20, <1>21
     DEF Next, UserStep, AnswerStep, Closure

\* No record and no session without an account.
THEOREM RecordsHaveAccountsHolds == Spec => []RecordsHaveAccounts
<1>1. RecordInv => RecordsHaveAccounts
  BY DEF RecordInv
<1> QED
  BY <1>1, TypeInit, TypeStep, RecordInit, RecordStep, PTL DEF Spec

\* An account misses its record only when its registration was cut short.
THEOREM NoOrphanUnlessCutHolds == Spec => []NoOrphanUnlessCut
<1>1. RecordInv => NoOrphanUnlessCut
  BY DEF RecordInv
<1> QED
  BY <1>1, TypeInit, TypeStep, RecordInit, RecordStep, PTL DEF Spec
=============================================================================
