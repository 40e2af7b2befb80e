-------------------------- MODULE WriteQueueProofs --------------------------
(* What DBImpl::Write keeps, for any threads, batches, sizes and limits,     *)
(* whatever fails and whoever leads a group.                                 *)
EXTENDS WriteQueue, FiniteSetTheorems, TLAPS

-----------------------------------------------------------------------------
(* Numbers, entries and groups. *)

Rank(S, i) == Cardinality({j \in S : j <= i})

\* Every number up to how many there are is the rank of one, and of two the
\* smaller has the smaller rank.
LEMMA RankIs ==
    ASSUME NEW S \in SUBSET Nat, IsFiniteSet(S)
    PROVE  /\ Cardinality(S) \in Nat
           /\ \A i \in S : Rank(S, i) \in 1 .. Cardinality(S)
           /\ \A i, j \in S : i < j => Rank(S, i) < Rank(S, j)
           /\ \A k \in 1 .. Cardinality(S) : \E i \in S : Rank(S, i) = k
<1> DEFINE n == Cardinality(S)
           P == [i \in S |-> Rank(S, i)]
<1>1. n \in Nat
  BY FS_CardinalityType
<1>2. ASSUME NEW i \in S
      PROVE  Rank(S, i) \in 1 .. n
  <2> DEFINE B == {j \in S : j <= i}
  <2>1. B \in SUBSET S /\ i \in B
    OBVIOUS
  <2>2. IsFiniteSet(B) /\ Cardinality(B) <= n /\ Cardinality(B) \in Nat
    BY <2>1, FS_Subset, FS_CardinalityType
  <2>3. Cardinality(B) # 0
    BY <2>1, <2>2, FS_EmptySet
  <2> QED BY <1>1, <2>2, <2>3 DEF Rank
<1>3. ASSUME NEW i \in S, NEW j \in S, i < j
      PROVE  Rank(S, i) < Rank(S, j)
  <2> DEFINE A == {x \in S : x <= i}
             B == {x \in S : x <= j}
  <2>1. A \in SUBSET B /\ j \in B /\ j \notin A /\ B \in SUBSET S
    <3>1. \A x \in S : x \in Int
      OBVIOUS
    <3>2. \A x \in S : x <= i => x <= j
      BY <1>3, <3>1
    <3>3. j <= j /\ ~(j <= i)
      BY <1>3, <3>1
    <3> QED BY <3>2, <3>3
  <2>2. IsFiniteSet(B)
    BY <2>1, FS_Subset
  <2>3. Cardinality(A) <= Cardinality(B) /\ Cardinality(A) # Cardinality(B)
    BY <2>1, <2>2, FS_Subset
  <2>4. Cardinality(A) = Rank(S, i) /\ Cardinality(B) = Rank(S, j)
    BY DEF Rank
  <2>5. Rank(S, i) \in Int /\ Rank(S, j) \in Int
    BY <1>1, <1>2
  <2> HIDE DEF A, B
  <2> QED BY <2>3, <2>4, <2>5
<1>4. P \in Injection(S, 1 .. n)
  <2>1. P \in [S -> 1 .. n]
    BY <1>2
  <2>2. ASSUME NEW i \in S, NEW j \in S, P[i] = P[j]
        PROVE  i = j
    <3>1. Rank(S, i) = Rank(S, j)
      BY <2>2
    <3>2. i < j \/ j < i \/ i = j
      OBVIOUS
    <3>3. Rank(S, i) \in Int /\ Rank(S, j) \in Int
      BY <1>1, <1>2
    <3> QED BY <1>3, <3>1, <3>2, <3>3
  <2> QED BY <2>1, <2>2 DEF Injection, IsInjective
<1>5. P \in Surjection(S, 1 .. n)
  <2>1. IsFiniteSet(1 .. n) /\ Cardinality(1 .. n) = n
    BY <1>1, FS_Interval
  <2> HIDE DEF P
  <2> QED BY <1>1, <1>4, <2>1, FS_Injection
<1>6. \A k \in 1 .. n : \E i \in S : Rank(S, i) = k
  BY <1>5 DEF Surjection
<1> QED BY <1>1, <1>2, <1>3, <1>6

\* A set of numbers has a least one.
LEMMA Least ==
    ASSUME NEW S \in SUBSET Nat, IsFiniteSet(S), S # {}
    PROVE  \E i \in S : \A j \in S : i <= j
<1>1. Cardinality(S) \in Nat /\ Cardinality(S) # 0
  BY FS_CardinalityType, FS_EmptySet
<1>2. PICK i \in S : Rank(S, i) = 1
  <2>1. 1 \in 1 .. Cardinality(S)
    BY <1>1
  <2> QED BY <2>1, RankIs
<1>3. ASSUME NEW j \in S, ~(i <= j)
      PROVE  FALSE
  <2>1. j < i
    BY <1>3
  <2>2. Rank(S, j) < 1 /\ Rank(S, j) \in 1 .. Cardinality(S)
    BY <1>2, <2>1, RankIs
  <2> QED BY <1>1, <2>2
<1> QED BY <1>3

\* The entries of the first n of the batches of m.
EntriesTo(m, n) == UNION {{i} \X (1 .. m[i].size) : i \in 1 .. n}

\* There are finitely many, and each batch adds its own.
LEMMA EntriesToIs ==
    ASSUME NEW m, NEW N \in Nat, \A i \in 1 .. N : m[i].size \in Nat
    PROVE  /\ \A n \in 0 .. N : Cardinality(EntriesTo(m, n)) \in Nat
           /\ \A i \in 1 .. N : \A n \in i .. N :
                 Cardinality(EntriesTo(m, i - 1)) + m[i].size <= Cardinality(EntriesTo(m, n))
<1> DEFINE E(n) == EntriesTo(m, n)
           C(i) == {i} \X (1 .. m[i].size)
<1>1. ASSUME NEW i \in 1 .. N
      PROVE  IsFiniteSet(C(i)) /\ Cardinality(C(i)) = m[i].size
  <2>1. IsFiniteSet({i}) /\ Cardinality({i}) = 1
    BY FS_Singleton
  <2>2. IsFiniteSet(1 .. m[i].size) /\ Cardinality(1 .. m[i].size) = m[i].size /\ m[i].size \in Nat
    <3> DEFINE size == m[i].size
    <3>1. size \in Nat
      OBVIOUS
    <3> HIDE DEF size
    <3>2. IsFiniteSet(1 .. size) /\ Cardinality(1 .. size) = size
      BY <3>1, FS_Interval
    <3> QED BY <3>1, <3>2 DEF size
  <2>3. IsFiniteSet(C(i)) /\ Cardinality(C(i)) = 1 * m[i].size
    BY <2>1, <2>2, FS_Product
  <2> QED BY <2>2, <2>3
<1>2. ASSUME NEW n \in 0 .. N
      PROVE  IsFiniteSet(E(n)) /\ Cardinality(E(n)) \in Nat
  <2> DEFINE parts == {C(i) : i \in 1 .. n}
             f == [i \in 1 .. n |-> C(i)]
  <2>1. f \in Surjection(1 .. n, parts)
    BY DEF Surjection
  <2>2. IsFiniteSet(1 .. n)
    BY FS_Interval
  <2>3. IsFiniteSet(parts)
    <3> HIDE DEF f, parts
    <3> QED BY <2>1, <2>2, FS_Surjection
  <2>4. \A T \in parts : IsFiniteSet(T)
    BY <1>1
  <2>5. IsFiniteSet(UNION parts)
    <3> HIDE DEF parts
    <3> QED BY <2>3, <2>4, FS_UNION
  <2>6. E(n) = UNION parts
    BY DEF EntriesTo
  <2> QED BY <2>5, <2>6, FS_CardinalityType
<1>3. ASSUME NEW i \in 1 .. N, NEW n \in i .. N
      PROVE  Cardinality(E(i - 1)) + m[i].size <= Cardinality(E(n))
  <2>1. IsFiniteSet(E(i - 1)) /\ IsFiniteSet(E(n)) /\ Cardinality(E(i - 1)) \in Nat /\ Cardinality(E(n)) \in Nat
    BY <1>2
  <2>2. E(i - 1) \cap C(i) = {}
    BY DEF EntriesTo
  <2>3. E(i - 1) \cup C(i) \in SUBSET E(n)
    BY DEF EntriesTo
  <2> DEFINE A == E(i - 1)
             B == C(i)
             D == E(n)
  <2>4. IsFiniteSet(B) /\ Cardinality(B) = m[i].size
    BY <1>1
  <2>5. m[i].size \in Nat
    OBVIOUS
  <2> HIDE DEF E, C, A, B, D
  <2>6. IsFiniteSet(A) /\ IsFiniteSet(D) /\ A \cap B = {} /\ A \cup B \in SUBSET D
        /\ Cardinality(A) \in Nat /\ Cardinality(D) \in Nat
    BY <2>1, <2>2, <2>3 DEF A, B, D
  <2>7. Cardinality(A \cup B) = Cardinality(A) + Cardinality(B) - Cardinality(A \cap B)
    BY <2>4, <2>6, FS_Union
  <2>8. Cardinality(A \cap B) = 0
    BY <2>6, FS_EmptySet
  <2>9. Cardinality(A \cup B) <= Cardinality(D)
    BY <2>6, FS_Subset
  <2> QED BY <2>4, <2>5, <2>6, <2>7, <2>8, <2>9 DEF A, D
<1> QED BY <1>2, <1>3

\* What Entries counts of the first batches, and of all.
LEMMA EntriesIs ==
    ASSUME NEW T, NEW m \in Seq(T), \A i \in 1 .. Len(m) : m[i].size \in Nat
    PROVE  /\ Entries(m) \in Nat
           /\ \A i \in 1 .. Len(m) :
                 /\ Entries(SubSeq(m, 1, i - 1)) \in Nat
                 /\ Entries(SubSeq(m, 1, i - 1)) + m[i].size <= Entries(m)
           /\ \A i, j \in 1 .. Len(m) : i < j =>
                 Entries(SubSeq(m, 1, i - 1)) + m[i].size <= Entries(SubSeq(m, 1, j - 1))
<1>1. Len(m) \in Nat /\ DOMAIN m = 1 .. Len(m)
  OBVIOUS
<1>2. Entries(m) = Cardinality(EntriesTo(m, Len(m)))
  BY <1>1 DEF Entries, EntriesTo
<1>3. ASSUME NEW n \in 0 .. Len(m)
      PROVE  Entries(SubSeq(m, 1, n)) = Cardinality(EntriesTo(m, n))
  <2> DEFINE s == SubSeq(m, 1, n)
  <2>1. DOMAIN s = 1 .. n /\ \A i \in 1 .. n : s[i] = m[i]
    BY <1>1
  <2> HIDE DEF s
  <2>2. UNION {{i} \X (1 .. s[i].size) : i \in DOMAIN s} = EntriesTo(m, n)
    BY <2>1 DEF EntriesTo
  <2>3. Entries(s) = Cardinality(EntriesTo(m, n))
    BY <2>2 DEF Entries
  <2> QED BY <2>3 DEF s
<1> DEFINE N == Len(m)
<1>4. N \in Nat /\ \A i \in 1 .. N : m[i].size \in Nat
  BY <1>1
<1>5. /\ \A n \in 0 .. N : Cardinality(EntriesTo(m, n)) \in Nat
      /\ \A i \in 1 .. N : \A n \in i .. N :
           Cardinality(EntriesTo(m, i - 1)) + m[i].size <= Cardinality(EntriesTo(m, n))
  <2> HIDE DEF N
  <2> QED BY <1>4, EntriesToIs
<1>6. Entries(m) \in Nat
  BY <1>1, <1>2, <1>5
<1>7. ASSUME NEW i \in 1 .. N
      PROVE  /\ Entries(SubSeq(m, 1, i - 1)) \in Nat
             /\ Entries(SubSeq(m, 1, i - 1)) + m[i].size <= Entries(m)
  <2>1. i - 1 \in 0 .. N /\ N \in i .. N
    BY <1>4
  <2> QED BY <1>2, <1>3, <1>5, <2>1
<1>8. ASSUME NEW i \in 1 .. N, NEW j \in 1 .. N, i < j
      PROVE  Entries(SubSeq(m, 1, i - 1)) + m[i].size <= Entries(SubSeq(m, 1, j - 1))
  <2>1. i - 1 \in 0 .. N /\ j - 1 \in 0 .. N /\ j - 1 \in i .. N
    BY <1>4, <1>8
  <2> QED BY <1>3, <1>5, <2>1
<1> QED BY <1>6, <1>7, <1>8

-----------------------------------------------------------------------------
(* The inductive invariant: types. *)

Calls == [id : 0 .. MaxOps, size : Nat, sync : BOOLEAN, done : BOOLEAN, ok : BOOLEAN,
          seen : SUBSET (1 .. MaxOps)]

Batch == [id : 1 .. MaxOps, size : Nat \ {0}, seq : Nat]
Log == [recs : Seq(Seq(Batch)), synced : Nat]

\* The thread at the front has a group from when it has room to its answer.
Leading == {"append", "sync", "insert", "written", "failed", "syncfailed", "answer"}
Working == Leading \cup {"room", "delayed"}
Closing == {"close", "deleted"}
PCs == Working \cup Closing \cup {"idle", "check", "memwait", "start", "manual"}

Manuals == {"manual", "manualflush", "manualapply"}
BgPCs == Manuals \cup {"idle", "queued", "flush", "apply", "auto", "autoflush", "autoapply", "crashed"}

ThreadTypes ==
    /\ mutex \in Threads \cup {None} /\ asleep \subseteq Threads
    /\ writers \in Seq(Threads) /\ pc \in [Threads -> PCs] /\ call \in [Threads -> Calls]
    /\ group \in Seq(Threads) /\ force \in BOOLEAN /\ delay \in BOOLEAN

StoreTypes ==
    /\ lastSequence \in Nat /\ logs \in Seq(Log) /\ logs # <<>>
    /\ mem \in Seq(Batch) /\ imm \in Seq(Batch) /\ tables \in Seq(Batch)
    /\ hasImm \in BOOLEAN /\ level0 \in Nat

BackTypes ==
    /\ bgError \in BOOLEAN /\ scheduled \in BOOLEAN /\ bgPc \in BgPCs
    /\ editLog \in 1 .. Len(logs) /\ manual \in Threads \cup {None}
    /\ pieces \in [Threads -> [left : 0 .. MaxPieces, done : BOOLEAN]]
    /\ shuttingDown \in BOOLEAN

HistTypes ==
    /\ ops \in 0 .. MaxOps /\ outcome \in [1 .. MaxOps -> {"none", "ok", "error"}]
    /\ syncs \subseteq 1 .. ops /\ late \subseteq 1 .. ops

TypeInv == ThreadTypes /\ StoreTypes /\ BackTypes /\ HistTypes

-----------------------------------------------------------------------------
(* Numbers of a group. *)

\* Batches in the order of their numbers.
Ordered(s) == \A i, j \in DOMAIN s : i < j => s[i].seq + s[i].size <= s[j].seq

\* The batches that are numbered are those of the calls with one, in their
\* order, with numbers for their entries only.
LEMMA NumberedIs ==
    ASSUME NEW m \in Seq(Calls), NEW n \in Nat,
           \A i \in 1 .. Len(m) : m[i].id # NullBatch => m[i].size > 0
    PROVE  /\ NumberedFrom(m, n) \in Seq(Batch)
           /\ Entries(m) \in Nat
           /\ \A k \in DOMAIN NumberedFrom(m, n) :
                 /\ NumberedFrom(m, n)[k].seq > n
                 /\ NumberedFrom(m, n)[k].seq + NumberedFrom(m, n)[k].size <= n + 1 + Entries(m)
           /\ Ordered(NumberedFrom(m, n))
           /\ \E at \in [DOMAIN NumberedFrom(m, n) -> {i \in 1 .. Len(m) : m[i].id # NullBatch}] :
                 /\ \A k \in DOMAIN at : NumberedFrom(m, n)[k].id = m[at[k]].id
                 /\ \A k, l \in DOMAIN at : k < l => at[k] < at[l]
                 /\ \A i \in 1 .. Len(m) : m[i].id # NullBatch => \E k \in DOMAIN at : at[k] = i
<1> DEFINE S == {i \in DOMAIN m : m[i].id # NullBatch}
           N == Cardinality(S)
           At(k) == CHOOSE i \in S : Cardinality({j \in S : j <= i}) = k
           first(i) == Entries(SubSeq(m, 1, i - 1))
           f == NumberedFrom(m, n)
<1>1. Len(m) \in Nat /\ DOMAIN m = 1 .. Len(m) /\ \A i \in 1 .. Len(m) : m[i] \in Calls
  OBVIOUS
<1>2. \A i \in 1 .. Len(m) : m[i].size \in Nat /\ m[i].id \in 0 .. MaxOps
  BY <1>1 DEF Calls
<1>3. S \in SUBSET Nat /\ IsFiniteSet(S)
  <2>1. IsFiniteSet(1 .. Len(m)) /\ S \in SUBSET (1 .. Len(m))
    BY <1>1, FS_Interval
  <2> QED BY <1>1, <2>1, FS_Subset
<1>4. N \in Nat /\ \A i \in S : Rank(S, i) \in 1 .. N
  BY <1>3, RankIs
<1>5. ASSUME NEW k \in 1 .. N
      PROVE  At(k) \in S /\ Rank(S, At(k)) = k
  <2>1. \E i \in S : Rank(S, i) = k
    BY <1>3, RankIs
  <2> QED BY <2>1 DEF Rank
<1>6. ASSUME NEW i \in S
      PROVE  At(Rank(S, i)) = i
  <2> DEFINE r == Rank(S, i)
             j == At(r)
  <2>1. r \in 1 .. N
    BY <1>4
  <2>2. j \in S /\ Rank(S, j) = r
    BY <1>5, <2>1
  <2>3. \A x, y \in S : x < y => Rank(S, x) < Rank(S, y)
    BY <1>3, RankIs
  <2> HIDE DEF j, S
  <2>4. i \in Nat /\ j \in Nat
    BY <1>3, <2>2
  <2>5. ~(i < j) /\ ~(j < i)
    BY <1>4, <2>1, <2>2, <2>3
  <2>6. i = j
    BY <2>4, <2>5
  <2> QED BY <2>6 DEF j
<1>7. ASSUME NEW k \in 1 .. N, NEW l \in 1 .. N, k < l
      PROVE  At(k) < At(l)
  <2> DEFINE x == At(k)
             y == At(l)
  <2>1. x \in S /\ y \in S /\ Rank(S, x) = k /\ Rank(S, y) = l
    BY <1>5
  <2>2. \A u, v \in S : u < v => Rank(S, u) < Rank(S, v)
    BY <1>3, RankIs
  <2> HIDE DEF x, y, S
  <2>3. x \in Nat /\ y \in Nat /\ ~(y < x) /\ x # y
    BY <1>3, <1>7, <2>1, <2>2
  <2>4. x < y
    BY <2>3
  <2> QED BY <2>4 DEF x, y
<1>8. /\ DOMAIN f = 1 .. N
      /\ f = [k \in 1 .. N |-> [id |-> m[At(k)].id, size |-> m[At(k)].size, seq |-> n + 1 + first(At(k))]]
  BY DEF NumberedFrom, Nth
<1> HIDE DEF At, S, N, f
<1>9. S = {i \in 1 .. Len(m) : m[i].id # NullBatch}
  BY <1>1 DEF S
<1>10. /\ Entries(m) \in Nat
       /\ \A i \in 1 .. Len(m) : first(i) \in Nat /\ first(i) + m[i].size <= Entries(m)
       /\ \A i, j \in 1 .. Len(m) : i < j => first(i) + m[i].size <= first(j)
  BY <1>2, EntriesIs
<1> HIDE DEF first
<1>11. ASSUME NEW k \in 1 .. N
       PROVE  /\ f[k] \in Batch /\ f[k].id = m[At(k)].id
              /\ f[k].size = m[At(k)].size /\ f[k].seq = n + 1 + first(At(k))
              /\ At(k) \in 1 .. Len(m) /\ m[At(k)].size > 0
  <2> DEFINE a == At(k)
  <2>1. a \in 1 .. Len(m) /\ m[a].id # NullBatch
    BY <1>5, <1>9
  <2>2. f[k] = [id |-> m[a].id, size |-> m[a].size, seq |-> n + 1 + first(a)]
    BY <1>8
  <2> HIDE DEF a
  <2>3. m[a].id \in 1 .. MaxOps
    BY <1>2, <2>1, WriteQueueAssumption DEF NullBatch
  <2>4. first(a) \in Nat /\ m[a].size \in Nat /\ m[a].size > 0
    BY <1>2, <1>10, <2>1
  <2>5. f[k] \in Batch
    BY <2>2, <2>3, <2>4 DEF Batch
  <2> QED BY <2>1, <2>2, <2>4, <2>5 DEF a
<1>12. f \in Seq(Batch)
  <2>1. f = [k \in 1 .. N |-> f[k]]
    BY <1>8
  <2> QED BY <1>4, <1>11, <2>1
<1>13. ASSUME NEW k \in 1 .. N
       PROVE  f[k].seq > n /\ f[k].seq + f[k].size <= n + 1 + Entries(m)
  <2> DEFINE a == At(k)
             b == first(a)
             c == m[a].size
  <2>1. a \in 1 .. Len(m) /\ f[k].seq = n + 1 + b /\ f[k].size = c
    BY <1>11
  <2>2. b \in Nat /\ c \in Nat /\ b + c <= Entries(m)
    BY <1>2, <1>10, <2>1
  <2> HIDE DEF a, b, c
  <2> QED BY <1>10, <2>1, <2>2
<1>14. ASSUME NEW k \in 1 .. N, NEW l \in 1 .. N, k < l
       PROVE  f[k].seq + f[k].size <= f[l].seq
  <2> DEFINE a == At(k)
             b == At(l)
             c == m[a].size
             x == first(a)
             y == first(b)
  <2>1. /\ a \in 1 .. Len(m) /\ b \in 1 .. Len(m) /\ f[k].seq = n + 1 + x /\ f[k].size = c
        /\ f[l].seq = n + 1 + y /\ a < b
    BY <1>7, <1>11, <1>14
  <2>2. x \in Nat /\ y \in Nat /\ c \in Nat /\ x + c <= y
    BY <1>2, <1>10, <2>1
  <2> HIDE DEF a, b, c, x, y
  <2> QED BY <2>1, <2>2
<1>15. \E at \in [DOMAIN f -> {i \in 1 .. Len(m) : m[i].id # NullBatch}] :
          /\ \A k \in DOMAIN at : f[k].id = m[at[k]].id
          /\ \A k, l \in DOMAIN at : k < l => at[k] < at[l]
          /\ \A i \in 1 .. Len(m) : m[i].id # NullBatch => \E k \in DOMAIN at : at[k] = i
  <2> DEFINE at == [k \in 1 .. N |-> At(k)]
  <2>1. at \in [DOMAIN f -> {i \in 1 .. Len(m) : m[i].id # NullBatch}]
    BY <1>5, <1>8, <1>9
  <2>2. \A k \in DOMAIN at : f[k].id = m[at[k]].id
    BY <1>11
  <2>3. \A k, l \in DOMAIN at : k < l => at[k] < at[l]
    BY <1>7
  <2>4. ASSUME NEW i \in 1 .. Len(m), m[i].id # NullBatch
        PROVE  \E k \in DOMAIN at : at[k] = i
    <3>1. i \in S
      BY <1>9, <2>4
    <3>2. Rank(S, i) \in 1 .. N /\ At(Rank(S, i)) = i
      BY <1>4, <1>6, <3>1
    <3> QED BY <3>2
  <2> HIDE DEF at
  <2> QED BY <2>1, <2>2, <2>3, <2>4
<1>16. Ordered(f)
  BY <1>8, <1>14 DEF Ordered
<1> QED BY <1>8, <1>10, <1>12, <1>13, <1>15, <1>16 DEF f

-----------------------------------------------------------------------------
(* The inductive invariant: the queue and its group. *)

\* The queue has the threads in Write that are not served, each once; who
\* works is at the front.
Queue ==
    /\ \A i, j \in DOMAIN writers : writers[i] = writers[j] => i = j
    /\ \A t \in Threads :
          t \in ToSet(writers) <=> pc[t] \in Working \/ (pc[t] = "check" /\ ~call[t].done)
    /\ \A t \in Threads : pc[t] \in Working => writers # <<>> /\ t = writers[1]

\* A batch has one writer, and an outcome once its writer is served.
Tickets ==
    /\ \A t \in Threads :
          /\ call[t].id <= ops
          /\ IF IsRange(t) THEN call[t].size = 0 /\ ~call[t].sync
             ELSE call[t].size > 0 /\ (call[t].sync <=> call[t].id \in syncs)
    /\ \A t, u \in ToSet(writers) : ~IsRange(t) /\ call[t].id = call[u].id => t = u
    /\ \A t \in ToSet(writers) : ~IsRange(t) => outcome[call[t].id] = "none"
    /\ \A b \in 1 .. MaxOps : b > ops => outcome[b] = "none"
    /\ late # {} => bgError

\* The group is the front of the queue.  If it is not going to fail, its
\* leader syncs when one of it asks to, and none of it came after an error.
Group ==
    /\ Len(group) <= Len(writers)
    /\ \A i \in 1 .. Len(group) : group[i] = writers[i]
    /\ \A t \in Threads : pc[t] \in Leading =>
        /\ group # <<>>
        /\ pc[t] # "answer" => ~IsRange(t)
        /\ pc[t] # "answer" \/ call[t].ok =>
              \A i \in 1 .. Len(group) :
                 (call[group[i]].sync => call[t].sync) /\ call[group[i]].id \notin late

-----------------------------------------------------------------------------
(* The inductive invariant: what is stored. *)

\* All entries of a batch are visible.
Whole(e) == e.seq + e.size - 1 <= lastSequence

\* The last k batches of mem are the first k of the group, the others whole.
Ends(k) ==
    /\ k \in 0 .. Len(mem)
    /\ \A i \in 1 .. Len(mem) - k : Whole(mem[i])
    /\ \A j \in 1 .. k : mem[Len(mem) - k + j] = Numbered[j]

\* Only the thread that inserts has put something invisible in the memtable.
Inserting ==
    /\ (\A t \in Threads : pc[t] \notin {"insert", "written"}) => Ends(0)
    /\ \A t \in Threads :
          /\ pc[t] = "insert" => \E k \in 0 .. Len(Numbered) - 1 : Ends(k)
          /\ pc[t] = "written" => Ends(Len(Numbered))

Flushed ==
    /\ \A e \in ToSet(imm) \cup ToSet(tables) : Whole(e)
    /\ Ordered(Stored)
    /\ ~hasImm => imm = <<>>

LastLog == logs[Len(logs)]

\* The memtable is in the last log, imm_ in some log; the group being inserted
\* is the last record, on the disk if its leader syncs.
Logged ==
    /\ \A i \in DOMAIN logs : logs[i].synced <= Len(logs[i].recs)
    /\ \A e \in ToSet(mem) : \E k \in DOMAIN LastLog.recs : e \in ToSet(LastLog.recs[k])
    /\ \A e \in ToSet(imm) : InLogs(e)
    /\ \A t \in Threads :
          /\ pc[t] \in {"sync", "insert", "written"} =>
                LastLog.recs # <<>> /\ LastLog.recs[Len(LastLog.recs)] = Numbered
          /\ pc[t] \in {"insert", "written"} /\ call[t].sync =>
                LastLog.synced = Len(LastLog.recs)

\* In a table; or in imm_ and on the disk in some log; or in the memtable and
\* on the disk in the last log.
OnDisk(b, i) == \E k \in 1 .. logs[i].synced : \E e \in ToSet(logs[i].recs[k]) : e.id = b
In(b, m) == \E e \in ToSet(m) : e.id = b
Safe(b) == \/ In(b, tables)
           \/ In(b, imm) /\ \E i \in DOMAIN logs : OnDisk(b, i)
           \/ In(b, mem) /\ OnDisk(b, Len(logs))

\* A batch with sync is safe when its caller is, or is about to be, told OK.
Durable ==
    /\ \A b \in syncs : outcome[b] = "ok" => Safe(b)
    /\ \A t \in Threads : pc[t] = "answer" /\ call[t].ok =>
          \A i \in 1 .. Len(group) : call[group[i]].sync => Safe(call[group[i]].id)

-----------------------------------------------------------------------------
(* The inductive invariant: the background thread and the destructor. *)

\* The manual compaction that runs has files left, unless an error made its
\* caller take the record back; nothing begins once the database closes.
Background ==
    /\ scheduled <=> bgPc # "idle"
    /\ IF shuttingDown THEN \A t \in Threads : pc[t] \in Closing \cup {"idle"}
                       ELSE \A t \in Threads : pc[t] \notin Closing
    /\ \A t \in Threads : pc[t] = "deleted" => ~scheduled
    /\ manual # None => pc[manual] = "manual" /\ ~pieces[manual].done
    /\ bgPc \in Manuals => IF manual # None THEN pieces[manual].left > 0 ELSE bgError

Accepted == \A b \in late : outcome[b] # "ok"

IInv == /\ TypeInv /\ Queue /\ Tickets /\ Group /\ Inserting /\ Flushed /\ Logged
        /\ Durable /\ Background /\ Accepted

-----------------------------------------------------------------------------
(* Facts about sequences. *)

\* What SubSeq keeps: the elements from m to n, in their order.
LEMMA Part ==
    ASSUME NEW T, NEW s \in Seq(T), NEW m \in 1 .. Len(s) + 1, NEW n \in m - 1 .. Len(s)
    PROVE  /\ SubSeq(s, m, n) \in Seq(T)
           /\ Len(SubSeq(s, m, n)) = n - m + 1
           /\ \A i \in 1 .. n - m + 1 : SubSeq(s, m, n)[i] = s[m + i - 1]
<1>1. Len(s) \in Nat /\ m \in Nat /\ n \in Int
  OBVIOUS
<1>2. \A i \in m .. n : s[i] \in T
  BY <1>1
<1> QED BY <1>1, <1>2

\* The elements of a sequence are those at its places.
LEMMA Elements ==
    ASSUME NEW T, NEW s \in Seq(T)
    PROVE  /\ DOMAIN s = 1 .. Len(s) /\ Len(s) \in Nat
           /\ ToSet(s) \in SUBSET T
           /\ \A x : x \in ToSet(s) <=> \E i \in 1 .. Len(s) : s[i] = x
<1>1. DOMAIN s = 1 .. Len(s) /\ Len(s) \in Nat /\ \A i \in 1 .. Len(s) : s[i] \in T
  OBVIOUS
<1> QED BY <1>1 DEF ToSet

-----------------------------------------------------------------------------
(* The invariant holds at first. *)

\* An empty database, no thread in a call.
LEMMA InitInv == Init => IInv
<1> SUFFICES ASSUME Init PROVE IInv
  OBVIOUS
<1> USE WriteQueueAssumption
<1>1. /\ writers = <<>> /\ group = <<>> /\ mem = <<>> /\ imm = <<>> /\ tables = <<>>
      /\ logs = <<EmptyLog>> /\ Len(logs) = 1 /\ Stored = <<>>
  BY DEF Init, Stored
<1>2. EmptyLog \in Log
  BY DEF EmptyLog, Log
<1>3. IdleCall \in Calls
  BY DEF IdleCall, Calls, NullBatch
<1>4. TypeInv
  <2>1. ThreadTypes
    <3>1. call \in [Threads -> Calls]
      BY <1>3 DEF Init
    <3>2. "idle" \in PCs
      BY DEF PCs
    <3>3. pc \in [Threads -> PCs]
      BY <3>2 DEF Init
    <3>4. writers \in Seq(Threads) /\ group \in Seq(Threads)
      BY <1>1
    <3> QED BY <3>1, <3>3, <3>4 DEF Init, ThreadTypes
  <2>2. StoreTypes
    <3>1. mem \in Seq(Batch) /\ imm \in Seq(Batch) /\ tables \in Seq(Batch)
      BY <1>1
    <3>2. logs \in Seq(Log) /\ logs # <<>>
      BY <1>1, <1>2
    <3> QED BY <3>1, <3>2 DEF Init, StoreTypes
  <2>3. BackTypes
    <3>1. pieces \in [Threads -> [left : 0 .. MaxPieces, done : BOOLEAN]]
      BY DEF Init
    <3>2. "idle" \in BgPCs
      BY DEF BgPCs
    <3>3. editLog \in 1 .. Len(logs)
      BY <1>1 DEF Init
    <3>4. /\ bgError \in BOOLEAN /\ scheduled \in BOOLEAN /\ shuttingDown \in BOOLEAN
          /\ bgPc \in BgPCs /\ manual \in Threads \cup {None}
      BY <3>2 DEF Init
    <3> QED BY <3>1, <3>3, <3>4 DEF BackTypes
  <2>4. HistTypes
    BY DEF Init, HistTypes
  <2> QED BY <2>1, <2>2, <2>3, <2>4 DEF TypeInv
<1>5. ToSet(writers) = {} /\ ToSet(imm) = {} /\ ToSet(mem) = {} /\ ToSet(tables) = {}
  BY <1>1 DEF ToSet
<1>6. \A t \in Threads : pc[t] = "idle" /\ call[t] = IdleCall
  BY DEF Init
<1>7. Queue
  BY <1>1, <1>5, <1>6 DEF Queue, Working, Leading
<1>8. Tickets
  BY <1>5, <1>6 DEF Tickets, Init, IsRange, IdleCall, NullBatch
<1>9. Group
  BY <1>1, <1>6 DEF Group, Leading
<1>10. Ends(0)
  BY <1>1 DEF Ends
<1>11. Inserting
  BY <1>6, <1>10 DEF Inserting
<1>12. Flushed
  BY <1>1, <1>5 DEF Flushed, Ordered
<1>13. Logged
  BY <1>1, <1>5, <1>6 DEF Logged, EmptyLog
<1>14. Durable
  BY <1>6 DEF Durable, Init
<1>15. Background
  BY <1>6 DEF Background, Init, Manuals, Closing
<1>16. Accepted
  BY DEF Accepted, Init
<1> QED BY <1>4, <1>7, <1>8, <1>9, <1>11, <1>12, <1>13, <1>14, <1>15, <1>16 DEF IInv

-----------------------------------------------------------------------------
(* Steps that leave the queue's calls, the stored batches and the logs alone. *)

Calm ==
    /\ UNCHANGED <<writers, call, group, lastSequence, logs, mem, imm, hasImm, tables,
                   ops, outcome, syncs, late>>
    /\ bgError => bgError'
    /\ \A t \in Threads : pc[t] \in Leading \/ pc'[t] \in Leading => pc'[t] = pc[t]

\* The group's numbers depend on its calls and the last number only.
LEMMA SameNumbers ==
    ASSUME group' = group, lastSequence' = lastSequence,
           \A i \in DOMAIN group : call'[group[i]] = call[group[i]]
    PROVE  Updates' = Updates /\ Numbered' = Numbered
<1>1. Updates' = Updates
  BY DEF Updates
<1> QED BY <1>1 DEF Numbered

\* Such a step keeps what is known of the batches.
LEMMA CalmKeeps ==
    ASSUME IInv, Calm
    PROVE  Tickets' /\ Group' /\ Inserting' /\ Flushed' /\ Logged' /\ Durable' /\ Accepted'
<1> USE DEF Calm
<1>1. Numbered' = Numbered
  BY SameNumbers
<1>2. Tickets'
  BY DEF IInv, Tickets, IsRange
<1>3. Group'
  BY DEF IInv, Group, IsRange
<1>4. Inserting'
  <2>1. \A k : Ends(k)' <=> Ends(k)
    BY <1>1 DEF Ends, Whole
  <2>2. \A t \in Threads : pc'[t] \in {"insert", "written"} \/ pc[t] \in {"insert", "written"} =>
           pc'[t] = pc[t]
    BY DEF Leading
  <2> QED BY <1>1, <2>1, <2>2 DEF IInv, Inserting
<1>5. Flushed'
  BY DEF IInv, Flushed, Stored, Whole
<1>6. Logged'
  <2>1. \A t \in Threads : pc'[t] \in {"sync", "insert", "written"} => pc'[t] = pc[t]
    BY DEF Leading
  <2>2. LastLog' = LastLog
    BY DEF LastLog
  <2>3. \A e : InLogs(e)' <=> InLogs(e)
    BY DEF InLogs
  <2> QED BY <1>1, <2>1, <2>2, <2>3 DEF IInv, Logged
<1>7. Durable'
  <2>1. \A b : Safe(b)' <=> Safe(b)
    BY DEF Safe, In, OnDisk
  <2>2. \A t \in Threads : pc'[t] = "answer" => pc[t] = "answer"
    BY DEF Leading
  <2> QED BY <2>1, <2>2 DEF IInv, Durable
<1>8. Accepted'
  BY DEF IInv, Accepted
<1> QED BY <1>2, <1>3, <1>4, <1>5, <1>6, <1>7, <1>8

-----------------------------------------------------------------------------
(* What a step does to the threads. *)

\* A thread that goes somewhere leaves the others where they are.
LEMMA Move ==
    ASSUME IInv, NEW t \in Threads, NEW p \in PCs, Goto(t, p)
    PROVE  pc' \in [Threads -> PCs] /\ pc'[t] = p /\ \A u \in Threads : u # t => pc'[u] = pc[u]
BY DEF IInv, TypeInv, ThreadTypes, Goto

\* The locks and waiting threads stay threads.
LEMMA Woken ==
    ASSUME IInv, NEW t \in Threads, Keep(t) \/ Unlock \/ Sleep(t)
    PROVE  mutex' \in Threads \cup {None} /\ asleep' \subseteq Threads
BY DEF IInv, TypeInv, ThreadTypes, Keep, Unlock, Sleep

\* Types of a calm step.
LEMMA CalmTypes ==
    ASSUME IInv, Calm, mutex' \in Threads \cup {None}, asleep' \subseteq Threads,
           pc' \in [Threads -> PCs], force' \in BOOLEAN, delay' \in BOOLEAN,
           level0' \in Nat, BackTypes'
    PROVE  TypeInv'
<1> USE DEF IInv, TypeInv, Calm
<1>1. ThreadTypes'
  BY DEF ThreadTypes
<1>2. StoreTypes'
  BY DEF StoreTypes
<1>3. HistTypes'
  BY DEF HistTypes
<1> QED BY <1>1, <1>2, <1>3

\* A calm step in which nobody enters or leaves Write keeps the invariant.
LEMMA QuietStep ==
    ASSUME IInv, Calm, TypeInv', Background',
           \A t \in Threads : /\ pc'[t] \in Working <=> pc[t] \in Working
                              /\ pc'[t] = "check" <=> pc[t] = "check"
    PROVE  IInv'
<1>1. Queue'
  BY DEF IInv, Queue, Calm
<1> QED BY <1>1, CalmKeeps DEF IInv

\* The background thread keeps what it knows when a thread moves about
\* elsewhere.
LEMMA BackSame ==
    ASSUME IInv, NEW t \in Threads,
           UNCHANGED <<scheduled, bgPc, manual, pieces, shuttingDown>>, bgError => bgError',
           \A u \in Threads : u # t => pc'[u] = pc[u],
           pc[t] \notin Closing \cup {"manual"}, pc'[t] \notin Closing,
           pc[t] # "idle" \/ ~shuttingDown
    PROVE  Background'
<1>1. manual # None => manual \in Threads /\ manual # t
  BY DEF IInv, TypeInv, BackTypes, Background
<1> QED BY <1>1 DEF IInv, Background, Closing

\* A database that is closing has no thread in a call.
LEMMA InCall ==
    ASSUME IInv, NEW t \in Threads, pc[t] \notin Closing \cup {"idle"}
    PROVE  ~shuttingDown
BY DEF IInv, Background

\* BackTypes is kept when the log and the background thread are left alone.
LEMMA BackTypesSame ==
    ASSUME IInv, UNCHANGED <<back, logs, shuttingDown>>
    PROVE  BackTypes'
BY DEF IInv, TypeInv, BackTypes, back

-----------------------------------------------------------------------------
(* Steps of a thread that waits, is delayed or goes on. *)

\* Write before its turn: it waits, leads or is done.
LEMMA CheckStep ==
    ASSUME IInv, NEW t \in Threads, WriteCheck(t)
    PROVE  IInv'
<1> USE DEF WriteCheck, IInv
<1>1. /\ UNCHANGED <<writers, call, group, store, back, shuttingDown, hist>>
      /\ pc[t] = "check"
  OBVIOUS
<1>2. BackTypes'
  BY BackTypesSame DEF store
<1>3. mutex' \in Threads \cup {None} /\ asleep' \subseteq Threads
  BY Woken
<1>4. force' \in BOOLEAN /\ delay' \in BOOLEAN
  BY DEF TypeInv, ThreadTypes, IsRange
<1>5. pc' \in [Threads -> PCs] /\ \A u \in Threads : u # t => pc'[u] = pc[u]
  <2>1. AfterWrite(t, call[t].ok) \in PCs /\ "room" \in PCs
    BY DEF AfterWrite, PCs, Working
  <2> QED BY <2>1, Move DEF Stay, TypeInv, ThreadTypes
<1>6. \/ call[t].done /\ pc'[t] \in {"idle", "memwait", "start"}
      \/ ~call[t].done /\ pc'[t] = "check"
      \/ ~call[t].done /\ pc'[t] = "room" /\ t = Head(writers)
  <2>1. pc \in [Threads -> PCs]
    BY DEF TypeInv, ThreadTypes
  <2> QED BY <1>1, <2>1 DEF Goto, Stay, AfterWrite
<1>7. Calm
  BY <1>1, <1>5, <1>6 DEF Calm, store, back, hist, Leading
<1>8. TypeInv'
  <2>1. level0' \in Nat
    BY <1>1 DEF store, TypeInv, StoreTypes
  <2> QED BY <1>2, <1>3, <1>4, <1>5, <1>7, <2>1, CalmTypes
<1>9. Background'
  <2>1. pc'[t] \notin Closing
    BY <1>6 DEF Closing
  <2> QED BY <1>1, <1>5, <2>1, BackSame DEF back, Closing
<1>10. Queue'
  <2>1. writers' = writers /\ call' = call
    BY <1>1
  <2>2. ~call[t].done => writers # <<>> /\ t \in ToSet(writers)
    BY <1>1 DEF Queue, ToSet
  <2>3. \A u \in Threads : pc'[u] \in Working => writers # <<>> /\ u = writers[1]
    BY <1>5, <1>6, <2>2 DEF Queue, Working, Leading
  <2>4. \A u \in Threads :
           u \in ToSet(writers) <=> pc'[u] \in Working \/ (pc'[u] = "check" /\ ~call[u].done)
    BY <1>1, <1>5, <1>6 DEF Queue, Working, Leading
  <2> QED BY <2>1, <2>3, <2>4 DEF Queue
<1> QED BY <1>7, <1>8, <1>9, <1>10, CalmKeeps

\* A thread moves from one place outside the group's phases to another, and
\* changes nothing but its locals.
LEMMA Wanders ==
    ASSUME IInv, NEW t \in Threads, NEW p \in PCs \ (Leading \cup Closing \cup {"check"}),
           UNCHANGED <<writers, call, group, store, back, shuttingDown, hist>>,
           Goto(t, p), Keep(t) \/ Unlock \/ Sleep(t),
           force' \in BOOLEAN, delay' \in BOOLEAN,
           pc[t] \notin Leading \cup Closing \cup {"check", "manual", "idle"},
           pc[t] \in Working <=> p \in Working
    PROVE  IInv'
<1>1. pc' \in [Threads -> PCs] /\ pc'[t] = p /\ \A u \in Threads : u # t => pc'[u] = pc[u]
  BY Move
<1>2. Calm
  BY <1>1 DEF Calm, store, back, hist
<1>3. TypeInv'
  <2>1. level0' \in Nat
    BY DEF store, IInv, TypeInv, StoreTypes
  <2>2. BackTypes'
    BY BackTypesSame DEF store
  <2> QED BY <1>1, <1>2, <2>1, <2>2, CalmTypes, Woken
<1>4. Background'
  BY <1>1, BackSame DEF back
<1> QED BY <1>1, <1>2, <1>3, <1>4, QuietStep

\* MakeRoomForWrite sleeps once for a millisecond without the mutex.
LEMMA DelayStep ==
    ASSUME IInv, NEW t \in Threads, RoomDelay(t)
    PROVE  IInv'
<1> DEFINE p == IF pc[t] = "room" THEN "delayed" ELSE "room"
<1>1. p \in PCs \ (Leading \cup Closing \cup {"check"}) /\ p \in Working
  BY DEF PCs, Working, Leading, Closing
<1>2. pc[t] \in {"room", "delayed"} /\ Goto(t, p)
  BY DEF RoomDelay
<1>3. force' \in BOOLEAN /\ delay' \in BOOLEAN
  BY DEF RoomDelay, IInv, TypeInv, ThreadTypes
<1>4. pc[t] \in Working /\ pc[t] \notin Leading \cup Closing \cup {"check", "manual", "idle"}
  BY <1>2 DEF Working, Leading, Closing
<1> HIDE DEF p
<1> QED BY <1>1, <1>2, <1>3, <1>4, Wanders DEF RoomDelay

\* A thread stays where it is and goes to sleep.
LEMMA Dozes ==
    ASSUME IInv, NEW t \in Threads, Sleep(t), UNCHANGED <<pc, writers, call, world>>
    PROVE  IInv'
<1>1. Calm
  BY DEF Calm, world, locals, store, back, hist
<1>2. TypeInv'
  <2>1. level0' \in Nat /\ force' \in BOOLEAN /\ delay' \in BOOLEAN /\ pc' \in [Threads -> PCs]
    BY DEF world, locals, store, IInv, TypeInv, StoreTypes, ThreadTypes
  <2>2. BackTypes'
    BY BackTypesSame DEF world, store
  <2> QED BY <1>1, <2>1, <2>2, CalmTypes, Woken
<1>3. Background'
  BY DEF world, back, IInv, Background
<1> QED BY <1>1, <1>2, <1>3, QuietStep

\* MakeRoomForWrite waits for the background thread.
LEMMA WaitStep ==
    ASSUME IInv, NEW t \in Threads, RoomWait(t)
    PROVE  IInv'
BY Dozes DEF RoomWait, Stay

\* TEST_CompactMemTable waits for its memtable to be flushed.
LEMMA MemTableWaitStep ==
    ASSUME IInv, NEW t \in Threads, MemTableWait(t)
    PROVE  IInv'
<1>1. CASE Sleep(t) /\ Stay
  BY <1>1, Dozes DEF MemTableWait, Stay
<1>2. CASE Unlock /\ Goto(t, "start")
  <2>1. "start" \in PCs \ (Leading \cup Closing \cup {"check"}) /\ "start" \notin Working
    BY DEF PCs, Working, Leading, Closing
  <2>2. pc[t] = "memwait" /\ pc[t] \notin Leading \cup Closing \cup {"check", "manual", "idle"} \cup Working
    BY DEF MemTableWait, Working, Leading, Closing
  <2>3. force' \in BOOLEAN /\ delay' \in BOOLEAN
    BY DEF MemTableWait, world, locals, IInv, TypeInv, ThreadTypes
  <2> QED BY <1>2, <2>1, <2>2, <2>3, Wanders DEF MemTableWait, world, locals
<1> QED BY <1>1, <1>2 DEF MemTableWait

\* A range begins with its own record of a manual compaction, which the
\* background thread does not have yet.
LEMMA RangeStartStep ==
    ASSUME IInv, NEW t \in Threads, RangeStart(t)
    PROVE  IInv'
<1> USE WriteQueueAssumption DEF RangeStart
<1>1. "manual" \in PCs
  BY DEF PCs
<1>2. pc' \in [Threads -> PCs] /\ pc'[t] = "manual" /\ \A u \in Threads : u # t => pc'[u] = pc[u]
  BY <1>1, Move
<1>3. pc[t] = "start"
  OBVIOUS
<1>4. Calm
  BY <1>2, <1>3 DEF Calm, Leading, locals, store, hist
<1>5. PICK n \in 0 .. MaxPieces : pieces' = [pieces EXCEPT ![t] = [left |-> n, done |-> FALSE]]
  OBVIOUS
<1>6. /\ pieces' \in [Threads -> [left : 0 .. MaxPieces, done : BOOLEAN]]
      /\ \A u \in Threads : u # t => pieces'[u] = pieces[u]
  BY <1>5 DEF IInv, TypeInv, BackTypes
<1>7. TypeInv'
  <2>1. BackTypes'
    BY <1>6 DEF BackTypes, store, IInv, TypeInv
  <2>2. /\ level0' \in Nat /\ force' \in BOOLEAN /\ delay' \in BOOLEAN
        /\ mutex' \in Threads \cup {None} /\ asleep' \subseteq Threads
    BY DEF locals, store, IInv, TypeInv, StoreTypes, ThreadTypes
  <2> QED BY <1>2, <1>4, <2>1, <2>2, CalmTypes
<1>8. Background'
  <2>1. manual # None => manual \in Threads /\ manual # t
    BY <1>3 DEF IInv, TypeInv, BackTypes, Background
  <2> QED BY <1>2, <1>3, <1>6, <2>1 DEF IInv, Background, Closing
<1>9. \A u \in Threads : /\ pc'[u] \in Working <=> pc[u] \in Working
                         /\ pc'[u] = "check" <=> pc[u] = "check"
  BY <1>2, <1>3 DEF Working, Leading
<1> QED BY <1>4, <1>7, <1>8, <1>9, QuietStep

\* What MaybeScheduleCompaction does to the background thread.
LEMMA Scheduling ==
    ASSUME IInv, NEW immediate \in BOOLEAN, NEW man, MaybeSchedule(immediate, man)
    PROVE  /\ scheduled' \in BOOLEAN /\ bgPc' \in BgPCs
           /\ scheduled' <=> bgPc' # "idle"
           /\ bgPc' \in Manuals => bgPc' = bgPc
           /\ shuttingDown => (scheduled' <=> scheduled)
           /\ UNCHANGED <<bgError, editLog, pieces>>
<1>1. scheduled' = (scheduled \/ HasWork(bgError, immediate, man, level0))
  BY DEF MaybeSchedule
<1>2. scheduled' \in BOOLEAN /\ (scheduled => scheduled') /\ (shuttingDown => (scheduled' <=> scheduled))
  BY <1>1 DEF HasWork, IInv, TypeInv, BackTypes
<1>3. bgPc' = IF scheduled' /\ ~scheduled THEN "queued" ELSE bgPc
  BY DEF MaybeSchedule
<1>4. bgPc \in BgPCs /\ (scheduled <=> bgPc # "idle") /\ "queued" \in BgPCs /\ "queued" \notin Manuals
  BY DEF IInv, TypeInv, BackTypes, Background, BgPCs, Manuals
<1> QED BY <1>2, <1>3, <1>4 DEF MaybeSchedule

\* TEST_CompactRange enters its request, or waits for a turn.
LEMMA RangeLoopStep ==
    ASSUME IInv, NEW t \in Threads, RangeLoop(t)
    PROVE  IInv'
<1> USE DEF RangeLoop
<1>1. CASE manual # None
  <2>1. Sleep(t) /\ UNCHANGED <<pc, writers, call, world>>
    BY <1>1 DEF Stay, world
  <2> QED BY <2>1, Dozes
<1>2. CASE manual = None
  <2>1. /\ manual' = t /\ Keep(t) /\ MaybeSchedule(hasImm, t)
        /\ UNCHANGED <<pc, writers, call, locals, store, shuttingDown, hist>>
    BY <1>2 DEF Stay
  <2>2. pc[t] = "manual" /\ ~pieces[t].done
    BY DEF RangeGoesOn
  <2>3. hasImm \in BOOLEAN
    BY DEF IInv, TypeInv, StoreTypes
  <2>4. /\ scheduled' \in BOOLEAN /\ bgPc' \in BgPCs
        /\ scheduled' <=> bgPc' # "idle"
        /\ bgPc' \in Manuals => bgPc' = bgPc
        /\ shuttingDown => (scheduled' <=> scheduled)
        /\ UNCHANGED <<bgError, editLog, pieces>>
    BY <2>1, <2>3, Scheduling
  <2>5. Calm
    BY <2>1, <2>4 DEF Calm, locals, store, hist
  <2>6. TypeInv'
    <3>1. BackTypes'
      BY <2>1, <2>4 DEF BackTypes, store, IInv, TypeInv
    <3>2. level0' \in Nat /\ force' \in BOOLEAN /\ delay' \in BOOLEAN /\ pc' \in [Threads -> PCs]
      BY <2>1 DEF locals, store, IInv, TypeInv, StoreTypes, ThreadTypes
    <3>3. mutex' \in Threads \cup {None} /\ asleep' \subseteq Threads
      BY <2>1, Woken
    <3> QED BY <2>5, <3>1, <3>2, <3>3, CalmTypes
  <2>7. ~bgError
    BY DEF RangeGoesOn
  <2>8. bgPc' \notin Manuals
    BY <1>2, <2>4, <2>7 DEF IInv, Background
  <2>9. Background'
    BY <2>1, <2>2, <2>4, <2>8 DEF IInv, Background, Closing
  <2> QED BY <2>1, <2>5, <2>6, <2>9, QuietStep
<1> QED BY <1>1, <1>2

\* TEST_CompactRange takes its request back and returns.
LEMMA RangeReturnStep ==
    ASSUME IInv, NEW t \in Threads, RangeReturn(t)
    PROVE  IInv'
<1> USE WriteQueueAssumption DEF RangeReturn
<1>1. "idle" \in PCs
  BY DEF PCs
<1>2. pc' \in [Threads -> PCs] /\ pc'[t] = "idle" /\ \A u \in Threads : u # t => pc'[u] = pc[u]
  BY <1>1, Move
<1>3. pc[t] = "manual"
  OBVIOUS
<1>4. Calm
  BY <1>2, <1>3 DEF Calm, Leading, locals, store, hist
<1>5. manual' \in Threads \cup {None} /\ (manual' # None => manual' = manual /\ manual' # t)
  BY DEF IInv, TypeInv, BackTypes
<1>6. TypeInv'
  <2>1. BackTypes'
    BY <1>5 DEF BackTypes, store, IInv, TypeInv
  <2>2. level0' \in Nat /\ force' \in BOOLEAN /\ delay' \in BOOLEAN
    BY DEF locals, store, IInv, TypeInv, StoreTypes, ThreadTypes
  <2>3. mutex' \in Threads \cup {None} /\ asleep' \subseteq Threads
    BY Woken
  <2> QED BY <1>2, <1>4, <2>1, <2>2, <2>3, CalmTypes
<1>7. Background'
  <2>1. ~shuttingDown
    BY <1>3, InCall DEF Closing
  <2>2. manual = t => bgError
    BY <2>1 DEF RangeGoesOn, IInv, Background
  <2> QED BY <1>2, <1>3, <1>5, <2>1, <2>2 DEF IInv, Background, Closing
<1>8. \A u \in Threads : /\ pc'[u] \in Working <=> pc[u] \in Working
                         /\ pc'[u] = "check" <=> pc[u] = "check"
  BY <1>2, <1>3 DEF Working, Leading
<1> QED BY <1>4, <1>6, <1>7, <1>8, QuietStep

\* The destructor tells the background to stop.
LEMMA CloseBeginStep ==
    ASSUME IInv, NEW t \in Threads, CloseBegin(t)
    PROVE  IInv'
<1> USE WriteQueueAssumption DEF CloseBegin
<1>1. "close" \in PCs
  BY DEF PCs, Closing
<1>2. pc' \in [Threads -> PCs] /\ pc'[t] = "close" /\ \A u \in Threads : u # t => pc'[u] = pc[u]
  BY <1>1, Move
<1>3. \A u \in Threads : pc[u] = "idle"
  OBVIOUS
<1>4. Calm
  BY <1>2, <1>3 DEF Calm, Leading, locals, store, back, hist
<1>5. TypeInv'
  <2>1. BackTypes'
    BY DEF BackTypes, back, store, IInv, TypeInv
  <2>2. level0' \in Nat /\ force' \in BOOLEAN /\ delay' \in BOOLEAN
    BY DEF locals, store, IInv, TypeInv, StoreTypes, ThreadTypes
  <2>3. mutex' \in Threads \cup {None} /\ asleep' \subseteq Threads
    BY Woken
  <2> QED BY <1>2, <1>4, <2>1, <2>2, <2>3, CalmTypes
<1>6. Background'
  <2>1. manual = None
    BY <1>3 DEF IInv, TypeInv, BackTypes, Background
  <2> QED BY <1>2, <1>3, <2>1 DEF IInv, Background, Closing, back
<1>7. \A u \in Threads : /\ pc'[u] \in Working <=> pc[u] \in Working
                         /\ pc'[u] = "check" <=> pc[u] = "check"
  BY <1>2, <1>3 DEF Working, Leading
<1> QED BY <1>4, <1>5, <1>6, <1>7, QuietStep

\* The destructor waits until no background call is scheduled.
LEMMA CloseWaitStep ==
    ASSUME IInv, NEW t \in Threads, CloseWait(t)
    PROVE  IInv'
<1> USE WriteQueueAssumption DEF CloseWait
<1>1. CASE Sleep(t) /\ Stay
  BY <1>1, Dozes DEF Stay
<1>2. CASE ~scheduled /\ Unlock /\ Goto(t, "deleted")
  <2>1. "deleted" \in PCs
    BY DEF PCs, Closing
  <2>2. pc' \in [Threads -> PCs] /\ pc'[t] = "deleted" /\ \A u \in Threads : u # t => pc'[u] = pc[u]
    BY <1>2, <2>1, Move
  <2>3. pc[t] = "close"
    OBVIOUS
  <2>4. Calm
    BY <2>2, <2>3 DEF Calm, Leading, world, locals, store, back, hist
  <2>5. TypeInv'
    <3>1. BackTypes'
      BY BackTypesSame DEF world, store
    <3>2. level0' \in Nat /\ force' \in BOOLEAN /\ delay' \in BOOLEAN
      BY DEF world, locals, store, IInv, TypeInv, StoreTypes, ThreadTypes
    <3>3. mutex' \in Threads \cup {None} /\ asleep' \subseteq Threads
      BY <1>2, Woken
    <3> QED BY <2>2, <2>4, <3>1, <3>2, <3>3, CalmTypes
  <2>6. Background'
    <3>1. manual # None => manual \in Threads /\ manual # t
      BY <2>3 DEF IInv, TypeInv, BackTypes, Background
    <3> QED BY <1>2, <2>2, <2>3, <3>1 DEF IInv, Background, Closing, world, back
  <2>7. \A u \in Threads : /\ pc'[u] \in Working <=> pc[u] \in Working
                           /\ pc'[u] = "check" <=> pc[u] = "check"
    BY <2>2, <2>3 DEF Working, Leading
  <2> QED BY <2>4, <2>5, <2>6, <2>7, QuietStep
<1> QED BY <1>1, <1>2

-----------------------------------------------------------------------------
(* Steps of the background thread that do not touch what is stored. *)

\* The threads are woken, not lost.
LEMMA Awake == IInv => SignalAll \subseteq Threads
BY DEF IInv, TypeInv, ThreadTypes, SignalAll

\* What the end of BackgroundCall does.
LEMMA Done ==
    ASSUME IInv, NEW err \in BOOLEAN, NEW immediate \in BOOLEAN, NEW man, NEW files,
           BackgroundDone(err, immediate, man, files)
    PROVE  /\ scheduled' \in BOOLEAN /\ bgPc' \in {"idle", "queued"}
           /\ scheduled' <=> bgPc' # "idle"
           /\ scheduled' => ~shuttingDown
           /\ asleep' \subseteq Threads
<1>1. scheduled' = HasWork(err, immediate, man, files)
  BY DEF BackgroundDone
<1>2. HasWork(err, immediate, man, files) \in BOOLEAN /\ (HasWork(err, immediate, man, files) => ~shuttingDown)
  BY DEF HasWork
<1>3. asleep' \subseteq Threads
  BY Awake DEF BackgroundDone
<1> QED BY <1>1, <1>2, <1>3 DEF BackgroundDone

\* A step of the background thread that leaves the store alone, but for
\* level 0, keeps the invariant when it keeps its own part of it.
LEMMA BackgroundQuiet ==
    ASSUME IInv, UNCHANGED <<mutex, writers, pc, call, locals, lastSequence, logs, mem, imm, hasImm,
                             tables, shuttingDown, hist>>,
           bgError => bgError', asleep' \subseteq Threads, level0' \in Nat, BackTypes', Background'
    PROVE  IInv'
<1>1. Calm
  BY DEF Calm, locals, hist
<1>2. TypeInv'
  <2>1. force' \in BOOLEAN /\ delay' \in BOOLEAN /\ pc' \in [Threads -> PCs] /\ mutex' \in Threads \cup {None}
    BY DEF locals, IInv, TypeInv, ThreadTypes
  <2> QED BY <1>1, <2>1, CalmTypes
<1> QED BY <1>1, <1>2, QuietStep

\* A background call that finds nothing to do, or an error.
LEMMA NothingStep ==
    ASSUME IInv, BackgroundNothing
    PROVE  IInv'
<1> USE DEF BackgroundNothing, store, IInv
<1>1. bgError \in BOOLEAN /\ hasImm \in BOOLEAN /\ level0 \in Nat
  BY DEF TypeInv, BackTypes, StoreTypes
<1>2. BackgroundDone(bgError, hasImm, manual, level0)
  OBVIOUS
<1>3. /\ scheduled' \in BOOLEAN /\ bgPc' \in {"idle", "queued"}
      /\ scheduled' <=> bgPc' # "idle"
      /\ scheduled' => ~shuttingDown
      /\ asleep' \subseteq Threads
  <2> HIDE DEF BackgroundNothing
  <2> QED BY <1>1, <1>2, Done
<1>4. BackTypes'
  BY <1>3 DEF TypeInv, BackTypes, BgPCs, Manuals
<1>5. Background'
  BY <1>3 DEF Background, Manuals, Closing
<1> QED BY <1>1, <1>3, <1>4, <1>5, BackgroundQuiet

\* A background call takes what it will do.
LEMMA BeginStep ==
    ASSUME IInv, BackgroundBegin
    PROVE  IInv'
<1> USE DEF BackgroundBegin, store, IInv
<1>1. \/ bgPc' \in {"flush", "auto"}
      \/ bgPc' = "manual" /\ manual # None /\ pieces[manual].left > 0
  OBVIOUS
<1>2. BackTypes'
  BY <1>1 DEF TypeInv, BackTypes, BgPCs, Manuals
<1>3. Background'
  BY <1>1 DEF Background, Manuals, Closing
<1>4. asleep' \subseteq Threads /\ level0' \in Nat
  BY DEF TypeInv, ThreadTypes, StoreTypes
<1> QED BY <1>2, <1>3, <1>4, BackgroundQuiet

\* A manual compaction with nothing left to compact.
LEMMA FinishedStep ==
    ASSUME IInv, ManualFinished
    PROVE  IInv'
<1> USE WriteQueueAssumption DEF ManualFinished, store, IInv
<1>1. bgError \in BOOLEAN /\ hasImm \in BOOLEAN /\ level0 \in Nat
  BY DEF TypeInv, BackTypes, StoreTypes
<1>2. BackgroundDone(bgError, hasImm, None, level0)
  OBVIOUS
<1>3. /\ scheduled' \in BOOLEAN /\ bgPc' \in {"idle", "queued"}
      /\ scheduled' <=> bgPc' # "idle"
      /\ scheduled' => ~shuttingDown
      /\ asleep' \subseteq Threads
  <2> HIDE DEF ManualFinished
  <2> QED BY <1>1, <1>2, Done
<1>4. pieces' \in [Threads -> [left : 0 .. MaxPieces, done : BOOLEAN]]
  BY DEF TypeInv, BackTypes
<1>5. BackTypes'
  BY <1>3, <1>4 DEF TypeInv, BackTypes, BgPCs, Manuals
<1>6. Background'
  BY <1>3 DEF Background, Manuals, Closing
<1> QED BY <1>1, <1>3, <1>5, <1>6, BackgroundQuiet

\* A flush goes from building its table to recording it, and ends.
LEMMA PhaseStep ==
    ASSUME IInv, FlushStep
    PROVE  IInv'
<1> USE DEF FlushStep, store, IInv
<1>1. /\ bgPc' \in BgPCs /\ bgPc' # "idle" /\ bgPc # "idle"
      /\ bgPc' \in Manuals <=> bgPc \in Manuals
  <2>1. CASE bgPc \in DOMAIN InlineFlush /\ bgPc' = InlineFlush[bgPc]
    BY <2>1 DEF InlineFlush, BgPCs, Manuals
  <2>2. CASE bgPc \in Building /\ bgPc' = FlushPhase[bgPc]
    BY <2>2 DEF Building, FlushPhase, BgPCs, Manuals
  <2> QED BY <2>1, <2>2
<1>2. editLog' \in 1 .. Len(logs) /\ logs' = logs
  <2>1. Len(logs) \in Nat /\ Len(logs) > 0
    BY DEF TypeInv, StoreTypes
  <2> QED BY <2>1 DEF TypeInv, BackTypes
<1>3. BackTypes'
  BY <1>1, <1>2 DEF TypeInv, BackTypes
<1>4. Background'
  BY <1>1 DEF Background, Closing
<1>5. asleep' \subseteq Threads /\ level0' \in Nat
  BY DEF TypeInv, ThreadTypes, StoreTypes
<1> QED BY <1>2, <1>3, <1>4, <1>5, BackgroundQuiet

\* What the end of a flush does.
LEMMA Flushing ==
    ASSUME IInv, NEW err \in BOOLEAN, NEW immediate \in BOOLEAN, NEW files,
           bgPc \in Building \cup Applying, AfterFlush(err, immediate, files)
    PROVE  /\ scheduled' \in BOOLEAN /\ bgPc' \in BgPCs
           /\ scheduled' <=> bgPc' # "idle"
           /\ bgPc' \in Manuals => bgPc \in Manuals
           /\ scheduled' => scheduled
           /\ asleep' \subseteq Threads
<1>1. bgPc \in {"flush", "apply", "autoflush", "autoapply", "manualflush", "manualapply"}
  BY DEF Building, Applying, FlushPhase
<1>2. scheduled /\ scheduled \in BOOLEAN
  BY <1>1 DEF IInv, Background, TypeInv, BackTypes
<1>3. CASE bgPc \in {"flush", "apply"}
  <2>1. BackgroundDone(err, immediate, manual, files)
    BY <1>3 DEF AfterFlush
  <2>2. /\ scheduled' \in BOOLEAN /\ bgPc' \in {"idle", "queued"}
        /\ scheduled' <=> bgPc' # "idle"
        /\ asleep' \subseteq Threads
    BY <2>1, Done
  <2> QED BY <1>2, <2>2 DEF BgPCs, Manuals
<1>4. CASE bgPc \notin {"flush", "apply"}
  <2>1. /\ bgPc' = IF bgPc \in {"autoflush", "autoapply"} THEN "auto" ELSE "manual"
        /\ asleep' = SignalAll
        /\ UNCHANGED scheduled
    BY <1>4 DEF AfterFlush
  <2> QED BY <1>1, <1>2, <1>4, <2>1, Awake DEF BgPCs, Manuals
<1> QED BY <1>3, <1>4

\* A flush that fails records the error and keeps the memtable.
LEMMA FlushFailsStep ==
    ASSUME IInv, FlushFails
    PROVE  IInv'
<1> USE DEF FlushFails, store, IInv
<1>1. hasImm \in BOOLEAN /\ level0 \in Nat /\ Len(logs) \in Nat /\ Len(logs) > 0
  BY DEF TypeInv, StoreTypes
<1>2. AfterFlush(TRUE, hasImm, level0) /\ bgPc \in Building \cup Applying
  OBVIOUS
<1>3. /\ scheduled' \in BOOLEAN /\ bgPc' \in BgPCs
      /\ scheduled' <=> bgPc' # "idle"
      /\ bgPc' \in Manuals => bgPc \in Manuals
      /\ scheduled' => scheduled
      /\ asleep' \subseteq Threads
  <2> HIDE DEF FlushFails
  <2> QED BY <1>1, <1>2, Flushing
<1>4. BackTypes'
  BY <1>1, <1>3 DEF TypeInv, BackTypes
<1>5. Background'
  BY <1>3 DEF Background, Closing
<1> QED BY <1>1, <1>3, <1>4, <1>5, BackgroundQuiet

\* A compaction ends, or fails.
LEMMA CompactionStep ==
    ASSUME IInv, NEW ok \in BOOLEAN, CompactionEnds(ok)
    PROVE  IInv'
<1> USE WriteQueueAssumption DEF IInv
<1>1. /\ bgError \in BOOLEAN /\ hasImm \in BOOLEAN /\ level0 \in Nat
      /\ pieces \in [Threads -> [left : 0 .. MaxPieces, done : BOOLEAN]]
      /\ manual \in Threads \cup {None}
  BY DEF TypeInv, BackTypes, StoreTypes
<1>2. /\ bgError' = (bgError \/ ~ok) /\ bgPc \in {"auto", "manual"}
      /\ UNCHANGED <<mutex, writers, pc, call, locals, lastSequence, logs, mem,
                     imm, hasImm, tables, editLog, shuttingDown, hist>>
  BY DEF CompactionEnds
<1>3. bgError' \in BOOLEAN /\ (bgError => bgError')
  BY <1>1, <1>2
<1>4. level0' \in Nat
  <2>1. level0' \in {level0} \/ level0' \in 0 .. level0 - 1 \/ level0' \in 0 .. level0
    BY DEF CompactionEnds
  <2> QED BY <1>1, <2>1
<1>5. /\ pieces' \in [Threads -> [left : 0 .. MaxPieces, done : BOOLEAN]]
      /\ scheduled' \in BOOLEAN /\ bgPc' \in {"idle", "queued", "crashed"}
      /\ scheduled' <=> bgPc' # "idle"
      /\ (\E t \in Threads : pc[t] = "deleted") => ~scheduled'
      /\ asleep' \subseteq Threads
      /\ manual' = None \/ (manual' = manual /\ pieces' = pieces)
  <2>1. CASE bgPc = "auto"
    <3>1. BackgroundDone(bgError', hasImm, manual, level0') /\ UNCHANGED <<pieces, manual>>
      BY <2>1 DEF CompactionEnds
    <3>2. /\ scheduled' \in BOOLEAN /\ bgPc' \in {"idle", "queued"}
          /\ scheduled' <=> bgPc' # "idle"
          /\ scheduled' => ~shuttingDown
          /\ asleep' \subseteq Threads
      BY <1>1, <1>3, <3>1, Done
    <3> QED BY <1>1, <3>1, <3>2 DEF Background, Closing
  <2>2. CASE bgPc = "manual" /\ manual # None
    <3>1. /\ pieces' = [pieces EXCEPT ![manual] = [left |-> @.left - 1, done |-> ~ok]]
          /\ manual' = None
          /\ BackgroundDone(bgError', hasImm, None, level0')
      BY <2>2 DEF CompactionEnds
    <3>2. /\ scheduled' \in BOOLEAN /\ bgPc' \in {"idle", "queued"}
          /\ scheduled' <=> bgPc' # "idle"
          /\ scheduled' => ~shuttingDown
          /\ asleep' \subseteq Threads
      BY <1>1, <1>3, <3>1, Done
    <3>3. pieces[manual].left > 0
      BY <2>2 DEF Background, Manuals
    <3>4. pieces' \in [Threads -> [left : 0 .. MaxPieces, done : BOOLEAN]]
      <4>1. manual \in Threads /\ pieces[manual].left - 1 \in 0 .. MaxPieces /\ (~ok) \in BOOLEAN
        BY <1>1, <2>2, <3>3
      <4> QED BY <1>1, <3>1, <4>1
    <3> QED BY <3>1, <3>2, <3>4 DEF Background, Closing
  <2>3. CASE bgPc = "manual" /\ manual = None
    <3>1. bgPc' = "crashed" /\ UNCHANGED <<asleep, scheduled, pieces, manual>>
      BY <2>3 DEF CompactionEnds
    <3> QED BY <1>1, <2>3, <3>1 DEF Background, TypeInv, BackTypes, ThreadTypes
  <2> QED BY <1>2, <2>1, <2>2, <2>3
<1>6. BackTypes'
  BY <1>1, <1>2, <1>3, <1>5 DEF TypeInv, BackTypes, BgPCs
<1>7. Background'
  BY <1>2, <1>5 DEF Background, Manuals, Closing
<1> QED BY <1>2, <1>3, <1>4, <1>5, <1>6, <1>7, BackgroundQuiet

-----------------------------------------------------------------------------
(* Steps in which a call joins the queue, finds room or is refused. *)

Storing == {"sync", "insert", "written"}

\* The store is kept when nobody gets to store or stops, or when nobody does.
LEMMA StoreKeeps ==
    ASSUME IInv, UNCHANGED <<lastSequence, logs, mem, imm, hasImm, tables>>,
           \/ /\ Numbered' = Numbered
              /\ \A t \in Threads : pc[t] \in Storing \/ pc'[t] \in Storing =>
                                       pc'[t] = pc[t] /\ call'[t] = call[t]
           \/ \A t \in Threads : pc[t] \notin Storing /\ pc'[t] \notin Storing
    PROVE  Inserting' /\ Flushed' /\ Logged' /\ (\A b : Safe(b)' <=> Safe(b))
<1>1. Inserting'
  <2>1. Numbered' = Numbered => \A k : Ends(k)' <=> Ends(k)
    BY DEF Ends, Whole
  <2>2. Ends(0)' <=> Ends(0)
    BY DEF Ends, Whole, IInv, TypeInv, StoreTypes
  <2> QED BY <2>1, <2>2 DEF IInv, Inserting, Storing
<1>2. Flushed'
  BY DEF IInv, Flushed, Stored, Whole
<1>3. Logged'
  <2>1. LastLog' = LastLog
    BY DEF LastLog
  <2>2. \A e : InLogs(e)' <=> InLogs(e)
    BY DEF InLogs
  <2> QED BY <2>1, <2>2 DEF IInv, Logged, Storing
<1>4. \A b : Safe(b)' <=> Safe(b)
  BY DEF Safe, In, OnDisk
<1> QED BY <1>1, <1>2, <1>3, <1>4

\* Who works is alone, at the front of the queue.
LEMMA Alone ==
    ASSUME IInv, NEW t \in Threads, pc[t] \in Working
    PROVE  /\ writers \in Seq(Threads) /\ Len(writers) \in Nat /\ Len(writers) > 0
           /\ writers[1] = t /\ Head(writers) = t
           /\ \A u \in Threads : u # t => pc[u] \notin Working
<1>1. writers \in Seq(Threads) /\ writers # <<>> /\ writers[1] = t
  BY DEF IInv, TypeInv, ThreadTypes, Queue
<1> QED BY <1>1 DEF IInv, Queue

\* A call joins the queue: CompactRange without a batch, Write with the next.
LEMMA JoinStep ==
    ASSUME IInv, NEW t \in Threads, NEW id, NEW size \in Nat, NEW sync \in BOOLEAN,
           Enqueue(t, id, size, sync),
           \/ id = NullBatch /\ size = 0 /\ sync = FALSE /\ UNCHANGED <<ops, syncs, late>>
           \/ /\ id = ops + 1 /\ ops' = ops + 1 /\ ops < MaxOps /\ size > 0
              /\ syncs' = IF sync THEN syncs \cup {id} ELSE syncs
              /\ late' = IF bgError THEN late \cup {id} ELSE late
    PROVE  IInv'
<1> DEFINE new == [id |-> id, size |-> size, sync |-> sync, done |-> FALSE, ok |-> TRUE,
                   seen |-> {b \in 1 .. ops : id = NullBatch /\ outcome[b] = "ok"}]
<1> USE WriteQueueAssumption DEF IInv
<1>1. /\ pc[t] = "idle" /\ ~shuttingDown /\ Keep(t)
      /\ writers' = Append(writers, t)
      /\ call' = [call EXCEPT ![t] = new]
      /\ Goto(t, "check")
      /\ UNCHANGED <<locals, store, back, shuttingDown, outcome>>
  BY DEF Enqueue
<1>2. /\ writers \in Seq(Threads) /\ pc \in [Threads -> PCs] /\ call \in [Threads -> Calls]
      /\ ops \in 0 .. MaxOps /\ syncs \subseteq 1 .. ops /\ late \subseteq 1 .. ops
      /\ group \in Seq(Threads)
  BY DEF TypeInv, ThreadTypes, HistTypes
<1>3. id \in 0 .. MaxOps /\ ops' \in 0 .. MaxOps /\ id <= ops' /\ ops <= ops'
  BY <1>2 DEF NullBatch
<1>4. /\ new \in Calls /\ new.id = id /\ new.size = size /\ new.sync = sync /\ new.done = FALSE
  BY <1>2, <1>3 DEF Calls
<1> HIDE DEF new
<1>5. call' \in [Threads -> Calls] /\ call'[t] = new /\ \A u \in Threads : u # t => call'[u] = call[u]
  BY <1>1, <1>2, <1>4
<1>6. /\ pc' \in [Threads -> PCs] /\ pc'[t] = "check" /\ \A u \in Threads : u # t => pc'[u] = pc[u]
  <2>1. "check" \in PCs
    BY DEF PCs
  <2> QED BY <1>1, <2>1, Move
<1>7. /\ writers' \in Seq(Threads) /\ Len(writers') = Len(writers) + 1
      /\ \A i \in 1 .. Len(writers) : writers'[i] = writers[i]
      /\ writers'[Len(writers) + 1] = t
      /\ Len(writers) \in Nat
  BY <1>1, <1>2
<1>8. DOMAIN writers = 1 .. Len(writers) /\ DOMAIN writers' = 1 .. Len(writers) + 1
  BY <1>2, <1>7
<1>9. ToSet(writers') = ToSet(writers) \cup {t}
  <2>1. \A x : x \in ToSet(writers) <=> \E i \in 1 .. Len(writers) : writers[i] = x
    BY <1>2, Elements
  <2>2. \A x : x \in ToSet(writers') <=> \E i \in 1 .. Len(writers) + 1 : writers'[i] = x
    BY <1>7, Elements
  <2> QED BY <1>7, <2>1, <2>2
<1>10. t \notin ToSet(writers) /\ \A i \in 1 .. Len(writers) : writers[i] # t
  <2>1. t \notin ToSet(writers)
    BY <1>1 DEF Queue, Working, Leading
  <2> QED BY <1>8, <2>1 DEF ToSet
<1>11. \A i \in 1 .. Len(group) : group[i] # t
  BY <1>2, <1>7, <1>10 DEF Group
<1>12. TypeInv'
  <2>1. ThreadTypes'
    <3>1. mutex' \in Threads \cup {None} /\ asleep' \subseteq Threads
      BY <1>1, Woken
    <3> QED BY <1>1, <1>5, <1>6, <1>7, <3>1 DEF ThreadTypes, TypeInv, locals
  <2>2. StoreTypes'
    BY <1>1 DEF StoreTypes, TypeInv, store
  <2>3. BackTypes'
    BY <1>1, BackTypesSame DEF store
  <2>4. HistTypes'
    <3>1. outcome' \in [1 .. MaxOps -> {"none", "ok", "error"}]
      BY <1>1 DEF HistTypes, TypeInv
    <3>2. CASE id = NullBatch /\ UNCHANGED <<ops, syncs, late>>
      BY <1>2, <1>3, <3>1, <3>2 DEF HistTypes
    <3>3. CASE ops' = ops + 1 /\ syncs' \subseteq syncs \cup {ops + 1} /\ late' \subseteq late \cup {ops + 1}
      <4>1. \A b \in 1 .. ops : b \in 1 .. ops + 1
        BY <1>2
      <4>2. ops + 1 \in 1 .. ops + 1
        BY <1>2
      <4> QED BY <1>2, <1>3, <3>1, <3>3, <4>1, <4>2 DEF HistTypes
    <3> QED BY <3>2, <3>3
  <2> QED BY <2>1, <2>2, <2>3, <2>4 DEF TypeInv
<1>13. Queue'
  <2>1. \A i, j \in DOMAIN writers' : writers'[i] = writers'[j] => i = j
    BY <1>7, <1>8, <1>10 DEF Queue
  <2>2. \A u \in Threads :
           u \in ToSet(writers') <=> pc'[u] \in Working \/ (pc'[u] = "check" /\ ~call'[u].done)
    BY <1>4, <1>5, <1>6, <1>9 DEF Queue
  <2>3. \A u \in Threads : pc'[u] \in Working => writers' # <<>> /\ u = writers'[1]
    <3>1. SUFFICES ASSUME NEW u \in Threads, pc'[u] \in Working
                   PROVE  writers' # <<>> /\ u = writers'[1]
      OBVIOUS
    <3>2. pc[u] \in Working
      BY <1>6, <3>1 DEF Working, Leading
    <3>3. Len(writers) > 0 /\ writers[1] = u
      BY <3>2, Alone
    <3> QED BY <1>7, <3>3
  <2> QED BY <2>1, <2>2, <2>3 DEF Queue
<1>14. Tickets'
  <2>1. \A b \in 1 .. MaxOps : b > ops' => outcome'[b] = "none"
    BY <1>1, <1>2, <1>3 DEF Tickets
  <2>2. late' # {} => bgError'
    BY <1>1 DEF Tickets, back
  <2>3. /\ call'[t].id <= ops'
        /\ IF call'[t].id = NullBatch THEN call'[t].size = 0 /\ ~call'[t].sync
           ELSE call'[t].size > 0 /\ (call'[t].sync <=> call'[t].id \in syncs')
    <3>1. ops + 1 \notin syncs /\ ops + 1 # NullBatch
      BY <1>2 DEF NullBatch
    <3> QED BY <1>2, <1>3, <1>4, <1>5, <3>1
  <2>4. ASSUME NEW u \in Threads, u # t
        PROVE  /\ call'[u].id <= ops'
               /\ IF call'[u].id = NullBatch THEN call'[u].size = 0 /\ ~call'[u].sync
                  ELSE call'[u].size > 0 /\ (call'[u].sync <=> call'[u].id \in syncs')
    <3>1. /\ call[u].id <= ops /\ call'[u] = call[u] /\ call[u].id \in Nat
          /\ IF call[u].id = NullBatch THEN call[u].size = 0 /\ ~call[u].sync
             ELSE call[u].size > 0 /\ (call[u].sync <=> call[u].id \in syncs)
      BY <1>2, <1>5, <2>4 DEF Tickets, IsRange, Calls
    <3>2. call[u].id # ops + 1
      BY <1>2, <3>1
    <3>3. call[u].id \in syncs' <=> call[u].id \in syncs
      BY <3>2
    <3> QED BY <1>2, <1>3, <3>1, <3>3
  <2>5. ASSUME NEW u \in ToSet(writers'), call'[u].id # NullBatch
        PROVE  outcome'[call'[u].id] = "none"
    <3>1. CASE u = t
      BY <1>1, <1>2, <1>3, <1>4, <1>5, <2>5, <3>1 DEF Tickets, NullBatch
    <3>2. CASE u # t
      BY <1>1, <1>2, <1>5, <1>9, <2>5, <3>2, Elements DEF Tickets, IsRange
    <3> QED BY <3>1, <3>2
  <2>6. ASSUME NEW u \in ToSet(writers'), NEW v \in ToSet(writers'),
               call'[u].id # NullBatch, call'[u].id = call'[v].id
        PROVE  u = v
    <3>1. u \in Threads /\ v \in Threads
      BY <1>7, Elements
    <3>2. \A w \in Threads : w # t => call'[w].id = call[w].id /\ call[w].id <= ops /\ call[w].id \in Int
      BY <1>2, <1>5 DEF Tickets, Calls
    <3>3. call'[t].id = id /\ (id = NullBatch \/ id = ops + 1)
      BY <1>4, <1>5
    <3>4. CASE u = t \/ v = t
      BY <1>2, <2>6, <3>1, <3>2, <3>3, <3>4
    <3>5. CASE u # t /\ v # t
      BY <1>9, <2>6, <3>1, <3>2, <3>5 DEF Tickets, IsRange
    <3> QED BY <3>4, <3>5
  <2> QED BY <2>1, <2>2, <2>3, <2>4, <2>5, <2>6 DEF Tickets, IsRange
<1>15. group' = group /\ \A i \in DOMAIN group : call'[group[i]] = call[group[i]] /\ group[i] \in Threads /\ group[i] # t
  <2>1. DOMAIN group = 1 .. Len(group) /\ \A i \in DOMAIN group : group[i] \in Threads
    BY <1>2
  <2> QED BY <1>1, <1>5, <1>11, <2>1 DEF locals
<1>16. \A u \in Threads : pc[u] \in Leading \/ pc'[u] \in Leading => pc'[u] = pc[u] /\ call'[u] = call[u]
  BY <1>1, <1>5, <1>6 DEF Leading
<1>17. Numbered' = Numbered
  BY <1>1, <1>15, SameNumbers DEF store
<1>18. Group'
  <2>1. Len(group') <= Len(writers') /\ \A i \in 1 .. Len(group') : group'[i] = writers'[i]
    BY <1>2, <1>7, <1>15 DEF Group
  <2>2. DOMAIN group = 1 .. Len(group)
    BY <1>2
  <2>3. \A i \in 1 .. Len(group) : call[group[i]].id \in late' => call[group[i]].id \in late
    <3>1. SUFFICES ASSUME NEW i \in 1 .. Len(group), call[group[i]].id \in late'
                   PROVE  call[group[i]].id \in late
      OBVIOUS
    <3>2. call[group[i]].id <= ops /\ call[group[i]].id \in Nat
      BY <1>2, <1>15, <2>2 DEF Tickets, Calls
    <3> QED BY <1>2, <3>1, <3>2
  <2>4. ASSUME NEW u \in Threads, pc'[u] \in Leading
        PROVE  /\ group' # <<>>
               /\ pc'[u] # "answer" => call'[u].id # NullBatch
               /\ pc'[u] # "answer" \/ call'[u].ok =>
                    \A i \in 1 .. Len(group') :
                       (call'[group'[i]].sync => call'[u].sync) /\ call'[group'[i]].id \notin late'
    BY <1>15, <1>16, <2>2, <2>3, <2>4 DEF Group, IsRange
  <2> QED BY <2>1, <2>4 DEF Group, IsRange
<1>19. Inserting' /\ Flushed' /\ Logged' /\ (\A b : Safe(b)' <=> Safe(b))
  <2>1. \A u \in Threads : pc[u] \in Storing \/ pc'[u] \in Storing => pc'[u] = pc[u] /\ call'[u] = call[u]
    BY <1>16 DEF Storing, Leading
  <2> QED BY <1>1, <1>17, <2>1, StoreKeeps DEF store
<1>20. Durable'
  <2>1. \A b \in syncs' : outcome'[b] = "ok" => Safe(b)
    <3>1. SUFFICES ASSUME NEW b \in syncs', outcome[b] = "ok"
                   PROVE  Safe(b)
      BY <1>1
    <3>2. b \in syncs \/ (b = ops + 1 /\ ops < MaxOps)
      OBVIOUS
    <3>3. b # ops + 1
      BY <1>2, <3>1, <3>2 DEF Tickets
    <3> QED BY <3>1, <3>2, <3>3 DEF Durable
  <2>2. \A u \in Threads : pc'[u] = "answer" => pc[u] = "answer" /\ call'[u] = call[u]
    BY <1>16 DEF Leading
  <2>3. \A i \in 1 .. Len(group) : call'[group[i]] = call[group[i]]
    BY <1>2, <1>15
  <2> QED BY <1>15, <1>19, <2>1, <2>2, <2>3 DEF Durable
<1>21. Background'
  BY <1>1, <1>6, BackSame DEF back, Closing
<1>22. Accepted'
  <2>1. \A b \in late' : b \in late \/ (b = ops + 1 /\ ops < MaxOps)
    OBVIOUS
  <2>2. ops < MaxOps => outcome[ops + 1] = "none"
    <3>1. \A b \in 1 .. MaxOps : b > ops => outcome[b] = "none"
      BY DEF Tickets
    <3> QED BY <1>2, <3>1
  <2>3. \A b \in late : outcome[b] # "ok"
    BY DEF Accepted
  <2>4. outcome' = outcome
    BY <1>1
  <2> QED BY <2>1, <2>2, <2>3, <2>4 DEF Accepted
<1> QED BY <1>12, <1>13, <1>14, <1>18, <1>19, <1>20, <1>21, <1>22

\* The queue and its tickets stay as they are while who works goes on.
LEMMA WorkerGoesOn ==
    ASSUME IInv, NEW t \in Threads, pc[t] \in Working, pc'[t] \in Working,
           \A u \in Threads : u # t => pc'[u] = pc[u],
           UNCHANGED <<writers, ops, outcome, syncs, late>>, bgError => bgError',
           \A u \in Threads : /\ call'[u].id = call[u].id /\ call'[u].size = call[u].size
                              /\ call'[u].sync = call[u].sync /\ call'[u].done = call[u].done
    PROVE  Queue' /\ Tickets' /\ Accepted'
<1> USE DEF IInv
<1>1. Queue'
  <2>1. pc[t] # "check" /\ pc'[t] # "check"
    BY DEF Working, Leading
  <2> QED BY <2>1 DEF Queue
<1>2. Tickets'
  <2>1. \A u : u \in ToSet(writers) => u \in Threads
    BY Elements DEF TypeInv, ThreadTypes
  <2> QED BY <2>1 DEF Tickets, IsRange
<1>3. Accepted'
  BY DEF Accepted
<1> QED BY <1>1, <1>2, <1>3

\* A step of a thread in Write that leaves its own status alone or sets it.
LEMMA StatusTypes ==
    ASSUME IInv, NEW t \in Threads, NEW ok \in BOOLEAN, call' = [call EXCEPT ![t].ok = ok]
    PROVE  /\ call' \in [Threads -> Calls] /\ call'[t].ok = ok
           /\ \A u \in Threads : u # t => call'[u] = call[u]
           /\ \A u \in Threads : /\ call'[u].id = call[u].id /\ call'[u].size = call[u].size
                                 /\ call'[u].sync = call[u].sync /\ call'[u].done = call[u].done
<1>1. call \in [Threads -> Calls]
  BY DEF IInv, TypeInv, ThreadTypes
<1>2. call' = [call EXCEPT ![t] = [call[t] EXCEPT !.ok = ok]]
  OBVIOUS
<1>3. [call[t] EXCEPT !.ok = ok] \in Calls
  BY <1>1 DEF Calls
<1> QED BY <1>1, <1>2, <1>3 DEF Calls

\* A leader is refused and goes to answer its group.
LEMMA RefusedStep ==
    ASSUME IInv, NEW t \in Threads, pc[t] = "room", RoomFails(t)
    PROVE  IInv'
<1> USE WriteQueueAssumption DEF IInv
<1>1. /\ Keep(t) /\ Goto(t, "answer") /\ group' = <<t>> /\ call' = [call EXCEPT ![t].ok = FALSE]
      /\ UNCHANGED <<writers, force, delay, store, back, shuttingDown, hist>>
  BY DEF RoomFails
<1>2. /\ writers \in Seq(Threads) /\ Len(writers) \in Nat /\ Len(writers) > 0 /\ writers[1] = t
      /\ \A u \in Threads : u # t => pc[u] \notin Working
  BY Alone DEF Working
<1>3. pc' \in [Threads -> PCs] /\ pc'[t] = "answer" /\ \A u \in Threads : u # t => pc'[u] = pc[u]
  <2>1. "answer" \in PCs
    BY DEF PCs, Working, Leading
  <2> QED BY <1>1, <2>1, Move
<1>4. /\ call' \in [Threads -> Calls] /\ call'[t].ok = FALSE
      /\ \A u \in Threads : u # t => call'[u] = call[u]
      /\ \A u \in Threads : /\ call'[u].id = call[u].id /\ call'[u].size = call[u].size
                            /\ call'[u].sync = call[u].sync /\ call'[u].done = call[u].done
  BY <1>1, StatusTypes
<1>5. group' \in Seq(Threads) /\ Len(group') = 1 /\ group'[1] = t
  BY <1>1
<1>6. TypeInv'
  <2>1. ThreadTypes'
    <3>1. mutex' \in Threads \cup {None} /\ asleep' \subseteq Threads
      BY <1>1, Woken
    <3> QED BY <1>1, <1>3, <1>4, <1>5, <3>1 DEF ThreadTypes, TypeInv
  <2>2. StoreTypes' /\ HistTypes'
    BY <1>1 DEF StoreTypes, HistTypes, TypeInv, store, hist
  <2>3. BackTypes'
    BY <1>1, BackTypesSame DEF store
  <2> QED BY <2>1, <2>2, <2>3 DEF TypeInv
<1>7. Queue' /\ Tickets' /\ Accepted'
  <2>1. pc[t] \in Working /\ pc'[t] \in Working
    BY <1>3 DEF Working, Leading
  <2> QED BY <1>1, <1>3, <1>4, <2>1, WorkerGoesOn DEF back, hist
<1>8. Group'
  <2>1. Len(group') <= Len(writers') /\ group' # <<>> /\ \A i \in 1 .. Len(group') : group'[i] = writers'[i]
    BY <1>1, <1>2, <1>5
  <2>2. \A u \in Threads : pc'[u] \in Leading => u = t
    BY <1>2, <1>3 DEF Working
  <2> QED BY <1>3, <1>4, <2>1, <2>2 DEF Group
<1>9. Inserting' /\ Flushed' /\ Logged' /\ (\A b : Safe(b)' <=> Safe(b))
  <2>1. \A u \in Threads : pc[u] \notin Storing /\ pc'[u] \notin Storing
    BY <1>2, <1>3 DEF Storing, Working, Leading
  <2> QED BY <1>1, <2>1, StoreKeeps DEF store
<1>10. Durable'
  <2>1. \A u \in Threads : pc'[u] = "answer" => u = t
    BY <1>2, <1>3 DEF Working, Leading
  <2> QED BY <1>1, <1>4, <1>9, <2>1 DEF Durable, hist
<1>11. Background'
  <2>1. pc[t] # "idle" /\ pc[t] \notin Closing \cup {"manual"} /\ pc'[t] \notin Closing
    BY <1>3 DEF Closing
  <2> QED BY <1>1, <1>3, <2>1, BackSame DEF back
<1> QED BY <1>6, <1>7, <1>8, <1>9, <1>10, <1>11

\* The group is the front of the queue, and its first syncs if another wants to.
LEMMA GroupBuilt ==
    ASSUME IInv, Len(writers) > 0
    PROVE  \E n \in 1 .. Len(writers) :
              /\ BuildBatchGroup = SubSeq(writers, 1, n)
              /\ \A i \in 2 .. n : call[writers[i]].sync => call[Head(writers)].sync
<1> DEFINE first == call[Head(writers)]
           limit == IF first.size <= SmallBatch THEN first.size + SmallBatch ELSE GroupMax
           bytes(n) == Entries([i \in 1 .. n |-> call[writers[i]]])
           fit(i) == /\ call[writers[i]].sync => first.sync
                     /\ call[writers[i]].id # NullBatch => bytes(i) <= limit
           fits(n) == \A i \in 2 .. n : fit(i)
           N == Len(writers)
           stops(n) == n = N \/ ~fits(n + 1)
           S == {n \in 1 .. N : stops(n)}
<1>1. N \in Nat /\ N > 0 /\ DOMAIN writers = 1 .. N
  BY DEF IInv, TypeInv, ThreadTypes
<1>2. BuildBatchGroup = SubSeq(writers, 1, CHOOSE n \in 1 .. N : fits(n) /\ stops(n))
  BY <1>1 DEF BuildBatchGroup
<1>3. \A i : fit(i) => (call[writers[i]].sync => first.sync)
  OBVIOUS
<1> HIDE DEF fit, N
<1>4. \E n \in 1 .. N : fits(n) /\ stops(n)
  <2>1. N \in S /\ S \in SUBSET Nat /\ S \in SUBSET (1 .. N)
    BY <1>1
  <2>2. IsFiniteSet(S)
    <3>1. IsFiniteSet(1 .. N)
      BY <1>1, FS_Interval
    <3> HIDE DEF S
    <3> QED BY <2>1, <3>1, FS_Subset
  <2>3. PICK n \in S : \A j \in S : n <= j
    <3> HIDE DEF S
    <3> QED BY <2>1, <2>2, Least
  <2>4. CASE n = 1
    BY <2>3, <2>4
  <2>5. CASE n # 1
    <3>1. n \in 1 .. N /\ n - 1 \in 1 .. N /\ n - 1 # N
      BY <1>1, <2>1, <2>3, <2>5
    <3>2. n - 1 \notin S
      <4> HIDE DEF S
      <4> QED BY <2>3, <3>1
    <3>4. fits((n - 1) + 1)
      BY <3>1, <3>2
    <3>3. (n - 1) + 1 = n
      BY <1>1
    <3> QED BY <2>3, <3>3, <3>4
  <2> QED BY <2>4, <2>5
<1> DEFINE n == CHOOSE n \in 1 .. N : fits(n) /\ stops(n)
<1>5. n \in 1 .. N /\ fits(n)
  <2> HIDE DEF fits, stops
  <2> QED BY <1>4
<1>6. BuildBatchGroup = SubSeq(writers, 1, n)
  BY <1>2
<1> HIDE DEF n
<1> QED BY <1>3, <1>5, <1>6 DEF N

\* A leader has room: it builds and numbers its group.
LEMMA FoundStep ==
    ASSUME IInv, NEW t \in Threads, RoomFound(t)
    PROVE  IInv'
<1> USE WriteQueueAssumption DEF IInv
<1>1. /\ pc[t] = "room" /\ ~bgError
      /\ UNCHANGED <<writers, call, force, delay, store, back, shuttingDown, hist>>
  BY DEF RoomFound
<1>2. /\ writers \in Seq(Threads) /\ Len(writers) \in Nat /\ Len(writers) > 0 /\ writers[1] = t
      /\ Head(writers) = t
      /\ \A u \in Threads : u # t => pc[u] \notin Working
  BY <1>1, Alone DEF Working
<1>3. PICK p \in {"answer", "append"}, n \in 1 .. Len(writers) :
         /\ Goto(t, p)
         /\ Keep(t) \/ Unlock
         /\ group' = SubSeq(writers, 1, n)
         /\ IsRange(t) => p = "answer" /\ n = 1
         /\ ~IsRange(t) => p = "append"
         /\ \A i \in 2 .. n : call[writers[i]].sync => call[t].sync
  <2>1. CASE IsRange(t)
    <3>1. Keep(t) /\ Goto(t, "answer") /\ group' = <<t>>
      BY <2>1 DEF RoomFound
    <3>2. <<t>> = SubSeq(writers, 1, 1) /\ 1 \in 1 .. Len(writers) /\ 2 .. 1 = {}
      BY <1>2
    <3> QED BY <2>1, <3>1, <3>2
  <2>2. CASE ~IsRange(t)
    <3>1. Unlock /\ Goto(t, "append") /\ group' = BuildBatchGroup
      BY <2>2 DEF RoomFound
    <3>2. PICK n \in 1 .. Len(writers) :
              /\ BuildBatchGroup = SubSeq(writers, 1, n)
              /\ \A i \in 2 .. n : call[writers[i]].sync => call[t].sync
      BY <1>2, GroupBuilt
    <3> QED BY <2>2, <3>1, <3>2
  <2> QED BY <2>1, <2>2
<1>4. p \in PCs /\ p \in Leading
  BY DEF PCs, Working, Leading
<1>5. pc' \in [Threads -> PCs] /\ pc'[t] = p /\ \A u \in Threads : u # t => pc'[u] = pc[u]
  BY <1>3, <1>4, Move
<1>6. group' \in Seq(Threads) /\ Len(group') = n /\ \A i \in 1 .. n : group'[i] = writers[i]
  <2>1. 1 \in 1 .. Len(writers) + 1 /\ n \in 1 - 1 .. Len(writers) /\ n - 1 + 1 = n
    BY <1>2
  <2>2. /\ SubSeq(writers, 1, n) \in Seq(Threads)
        /\ Len(SubSeq(writers, 1, n)) = n - 1 + 1
        /\ \A i \in 1 .. n - 1 + 1 : SubSeq(writers, 1, n)[i] = writers[1 + i - 1]
    BY <1>2, <2>1, Part
  <2>3. \A i \in 1 .. n : 1 + i - 1 = i
    OBVIOUS
  <2> QED BY <1>3, <2>1, <2>2, <2>3
<1>7. TypeInv'
  <2>1. ThreadTypes'
    <3>1. mutex' \in Threads \cup {None} /\ asleep' \subseteq Threads
      BY <1>3, Woken
    <3> QED BY <1>1, <1>5, <1>6, <3>1 DEF ThreadTypes, TypeInv
  <2>2. StoreTypes' /\ HistTypes'
    BY <1>1 DEF StoreTypes, HistTypes, TypeInv, store, hist
  <2>3. BackTypes'
    BY <1>1, BackTypesSame DEF store
  <2> QED BY <2>1, <2>2, <2>3 DEF TypeInv
<1>8. Queue' /\ Tickets' /\ Accepted'
  <2>1. pc[t] \in Working /\ pc'[t] \in Working
    BY <1>1, <1>4, <1>5 DEF Working
  <2> QED BY <1>1, <1>5, <2>1, WorkerGoesOn DEF back, hist
<1>9. \A u \in Threads : pc'[u] \in Leading => u = t
  BY <1>2, <1>5 DEF Working
<1>10. Group'
  <2>1. Len(group') <= Len(writers') /\ \A i \in 1 .. Len(group') : group'[i] = writers'[i]
    BY <1>1, <1>2, <1>6
  <2>2. group' # <<>>
    BY <1>6
  <2>3. pc'[t] # "answer" => call'[t].id # NullBatch
    BY <1>1, <1>3, <1>5 DEF IsRange
  <2>4. \A i \in 1 .. Len(group') :
           (call'[group'[i]].sync => call'[t].sync) /\ call'[group'[i]].id \notin late'
    <3>1. late' = {}
      BY <1>1 DEF Tickets, hist
    <3>2. \A i \in 1 .. n : i = 1 \/ i \in 2 .. n
      OBVIOUS
    <3> QED BY <1>1, <1>2, <1>3, <1>6, <3>1, <3>2
  <2> QED BY <1>9, <2>1, <2>2, <2>3, <2>4 DEF Group, IsRange
<1>11. Inserting' /\ Flushed' /\ Logged' /\ (\A b : Safe(b)' <=> Safe(b))
  <2>1. \A u \in Threads : pc[u] \notin Storing /\ pc'[u] \notin Storing
    BY <1>1, <1>2, <1>5 DEF Storing, Working, Leading
  <2> QED BY <1>1, <2>1, StoreKeeps DEF store
<1>12. Durable'
  <2>1. \A u \in Threads : pc'[u] = "answer" => u = t
    BY <1>9 DEF Leading
  <2>2. pc'[t] = "answer" => \A i \in 1 .. Len(group') : ~call'[group'[i]].sync
    <3>1. SUFFICES ASSUME p = "answer"
                   PROVE  \A i \in 1 .. Len(group') : ~call'[group'[i]].sync
      BY <1>5
    <3>2. IsRange(t) /\ n = 1
      BY <1>3, <3>1
    <3>3. ~call[t].sync
      BY <3>2 DEF Tickets
    <3> QED BY <1>1, <1>2, <1>6, <3>2, <3>3
  <2> QED BY <1>1, <1>11, <2>1, <2>2 DEF Durable, hist
<1>13. Background'
  <2>1. pc[t] # "idle" /\ pc[t] \notin Closing \cup {"manual"} /\ pc'[t] \notin Closing
    BY <1>1, <1>5 DEF Closing
  <2> QED BY <1>1, <1>5, <2>1, BackSame DEF back
<1> QED BY <1>7, <1>8, <1>10, <1>11, <1>12, <1>13

-----------------------------------------------------------------------------
(* Steps that write to the log, the memtables and the tables. *)

\* The batches a group is about to store: at least its leader's, in order, with
\* numbers not used before.
LEMMA GroupNumbers ==
    ASSUME IInv, NEW t \in Threads, pc[t] \in Leading, pc[t] # "answer"
    PROVE  /\ group[1] = t /\ Len(group) \in Nat /\ Len(group) > 0
           /\ Numbered \in Seq(Batch) /\ Len(Numbered) \in Nat /\ Len(Numbered) > 0
           /\ Entries(Updates) \in Nat
           /\ \A k \in 1 .. Len(Numbered) :
                 /\ Numbered[k].seq > lastSequence
                 /\ Numbered[k].seq + Numbered[k].size <= lastSequence + 1 + Entries(Updates)
           /\ Ordered(Numbered)
           /\ \A i \in 1 .. Len(group) : call[group[i]].id # NullBatch =>
                 \E k \in 1 .. Len(Numbered) : Numbered[k].id = call[group[i]].id
           /\ \A k \in 1 .. Len(Numbered) :
                 \E i \in 1 .. Len(group) : Numbered[k].id = call[group[i]].id
           /\ \A k, l \in 1 .. Len(Numbered) : Numbered[k].id = Numbered[l].id => k = l
<1> USE DEF IInv
<1>1. group \in Seq(Threads) /\ call \in [Threads -> Calls] /\ lastSequence \in Nat
  BY DEF TypeInv, ThreadTypes, StoreTypes
<1>2. Len(group) \in Nat /\ Len(group) > 0 /\ DOMAIN group = 1 .. Len(group)
      /\ \A i \in 1 .. Len(group) : group[i] \in Threads
  BY <1>1 DEF Group
<1>3. group[1] = t
  <2>1. group[1] = writers[1]
    BY <1>2 DEF Group
  <2> QED BY <2>1, Alone DEF Working
<1>4. Updates \in Seq(Calls) /\ Len(Updates) = Len(group)
      /\ \A i \in 1 .. Len(group) : Updates[i] = call[group[i]]
  <2>1. Updates = [i \in 1 .. Len(group) |-> call[group[i]]]
    BY <1>2 DEF Updates
  <2>2. \A i \in 1 .. Len(group) : call[group[i]] \in Calls
    BY <1>1, <1>2
  <2> QED BY <1>2, <2>1, <2>2
<1>5. \A i \in 1 .. Len(Updates) : Updates[i].id # NullBatch => Updates[i].size > 0
  BY <1>2, <1>4 DEF Tickets, IsRange
<1> DEFINE m == Updates
           n == lastSequence
           f == NumberedFrom(m, n)
<1>6. /\ f \in Seq(Batch)
      /\ Entries(m) \in Nat
      /\ \A k \in DOMAIN f : f[k].seq > n /\ f[k].seq + f[k].size <= n + 1 + Entries(m)
      /\ Ordered(f)
      /\ \E at \in [DOMAIN f -> {i \in 1 .. Len(m) : m[i].id # NullBatch}] :
            /\ \A k \in DOMAIN at : f[k].id = m[at[k]].id
            /\ \A k, l \in DOMAIN at : k < l => at[k] < at[l]
            /\ \A i \in 1 .. Len(m) : m[i].id # NullBatch => \E k \in DOMAIN at : at[k] = i
  <2>1. m \in Seq(Calls) /\ n \in Nat /\ \A i \in 1 .. Len(m) : m[i].id # NullBatch => m[i].size > 0
    BY <1>1, <1>4, <1>5
  <2> HIDE DEF m, n
  <2> QED BY <2>1, NumberedIs
<1>7. DOMAIN f = 1 .. Len(f) /\ Len(f) \in Nat
  BY <1>6
<1> HIDE DEF f
<1>8. \A i \in 1 .. Len(group) : call[group[i]].id # NullBatch =>
         \E k \in 1 .. Len(f) : f[k].id = call[group[i]].id
  <2>1. PICK at \in [DOMAIN f -> {i \in 1 .. Len(m) : m[i].id # NullBatch}] :
            /\ \A k \in DOMAIN at : f[k].id = m[at[k]].id
            /\ \A i \in 1 .. Len(m) : m[i].id # NullBatch => \E k \in DOMAIN at : at[k] = i
    BY <1>6
  <2>2. \A i \in 1 .. Len(group) : m[i] = call[group[i]] /\ i \in 1 .. Len(m)
    BY <1>4
  <2>3. DOMAIN at = 1 .. Len(f)
    BY <1>7, <2>1
  <2> HIDE DEF m
  <2> QED BY <2>1, <2>2, <2>3
<1>9. /\ \A k \in 1 .. Len(f) : \E i \in 1 .. Len(group) : f[k].id = call[group[i]].id
      /\ \A k, l \in 1 .. Len(f) : f[k].id = f[l].id => k = l
  <2>1. PICK at \in [DOMAIN f -> {i \in 1 .. Len(m) : m[i].id # NullBatch}] :
            /\ \A k \in DOMAIN at : f[k].id = m[at[k]].id
            /\ \A k, l \in DOMAIN at : k < l => at[k] < at[l]
    BY <1>6
  <2>2. \A i \in 1 .. Len(m) : m[i] = call[group[i]] /\ i \in 1 .. Len(group)
    BY <1>4
  <2>3. DOMAIN at = 1 .. Len(f)
    BY <1>7, <2>1
  <2>4. \A k \in 1 .. Len(f) : at[k] \in 1 .. Len(m) /\ m[at[k]].id # NullBatch
    BY <2>1, <2>3
  <2>5. \A i, j \in 1 .. Len(m) : m[i].id # NullBatch /\ m[i].id = m[j].id => i = j
    <3>1. SUFFICES ASSUME NEW i \in 1 .. Len(m), NEW j \in 1 .. Len(m),
                          m[i].id # NullBatch, m[i].id = m[j].id
                   PROVE  i = j
      OBVIOUS
    <3>2. /\ i \in 1 .. Len(group) /\ j \in 1 .. Len(group)
          /\ call[group[i]].id # NullBatch /\ call[group[i]].id = call[group[j]].id
      BY <2>2, <3>1
    <3>3. i \in DOMAIN writers /\ j \in DOMAIN writers /\ group[i] = writers[i] /\ group[j] = writers[j]
      BY <1>2, <3>2 DEF Group, TypeInv, ThreadTypes
    <3>4. writers[i] \in ToSet(writers) /\ writers[j] \in ToSet(writers)
      BY <3>3 DEF ToSet
    <3>5. writers[i] = writers[j]
      BY <3>2, <3>3, <3>4 DEF Tickets, IsRange
    <3> QED BY <3>3, <3>5 DEF Queue
  <2>6. ASSUME NEW k \in 1 .. Len(f), NEW l \in 1 .. Len(f), f[k].id = f[l].id
        PROVE  k = l
    <3>1. at[k] = at[l]
      BY <2>1, <2>3, <2>4, <2>5, <2>6
    <3>2. ~(k < l) /\ ~(l < k)
      BY <2>1, <2>3, <2>4, <3>1
    <3> QED BY <3>2
  <2> HIDE DEF m
  <2>7. ASSUME NEW k \in 1 .. Len(f)
        PROVE  \E i \in 1 .. Len(group) : f[k].id = call[group[i]].id
    <3>1. f[k].id = m[at[k]].id /\ at[k] \in 1 .. Len(m)
      BY <2>1, <2>3, <2>4
    <3> QED BY <2>2, <3>1
  <2> QED BY <2>6, <2>7
<1>10. Len(f) > 0
  <2>1. call[group[1]].id # NullBatch /\ 1 \in 1 .. Len(group)
    BY <1>2, <1>3 DEF Group, IsRange
  <2>2. \E k \in 1 .. Len(f) : TRUE
    BY <1>8, <2>1
  <2> QED BY <1>7, <2>2
<1>11. f = Numbered
  BY DEF f, Numbered
<1> HIDE DEF m, n
<1>12. \A k \in 1 .. Len(f) : f[k].seq > n /\ f[k].seq + f[k].size <= n + 1 + Entries(m)
  BY <1>6, <1>7
<1> QED BY <1>2, <1>3, <1>6, <1>7, <1>8, <1>10, <1>11, <1>12, <1>9 DEF m, n

\* A memtable is switched.
LEMMA SwitchStep ==
    ASSUME IInv, NEW t \in Threads, RoomSwitch(t)
    PROVE  IInv'
<1> USE WriteQueueAssumption DEF IInv
<1>1. /\ pc[t] = "room" /\ ~hasImm /\ Keep(t) /\ pc' = pc
      /\ logs' = Append(logs, EmptyLog) /\ imm' = mem /\ hasImm' = TRUE /\ mem' = <<>> /\ force' = FALSE
      /\ MaybeSchedule(TRUE, manual)
      /\ UNCHANGED <<writers, call, group, delay, lastSequence, tables, level0,
                     manual, shuttingDown, hist>>
  BY DEF RoomSwitch, MustSwitch, Stay
<1>2. /\ logs \in Seq(Log) /\ Len(logs) \in Nat /\ Len(logs) > 0
      /\ mem \in Seq(Batch) /\ tables \in Seq(Batch) /\ imm = <<>>
  BY <1>1 DEF TypeInv, StoreTypes, Flushed
<1>3. \A u \in Threads : pc[u] \notin Leading
  BY <1>1, Alone DEF Working, Leading
<1>4. /\ logs' \in Seq(Log) /\ Len(logs') = Len(logs) + 1
      /\ \A i \in 1 .. Len(logs) : logs'[i] = logs[i]
      /\ logs'[Len(logs) + 1] = EmptyLog
  <2>1. EmptyLog \in Log
    BY DEF EmptyLog, Log
  <2> HIDE DEF EmptyLog
  <2> QED BY <1>1, <1>2, <2>1
<1>5. DOMAIN logs = 1 .. Len(logs) /\ DOMAIN logs' = 1 .. Len(logs) + 1
  BY <1>2, <1>4
<1>6. /\ scheduled' \in BOOLEAN /\ bgPc' \in BgPCs
      /\ scheduled' <=> bgPc' # "idle"
      /\ bgPc' \in Manuals => bgPc' = bgPc
      /\ shuttingDown => (scheduled' <=> scheduled)
      /\ UNCHANGED <<bgError, editLog, pieces>>
  BY <1>1, Scheduling
<1>7. TypeInv'
  <2>1. ThreadTypes'
    <3>1. mutex' \in Threads \cup {None} /\ asleep' \subseteq Threads
      BY <1>1, Woken
    <3> QED BY <1>1, <3>1 DEF ThreadTypes, TypeInv
  <2>2. StoreTypes'
    <3>1. mem' \in Seq(Batch) /\ logs' # <<>>
      BY <1>1, <1>4, <1>5
    <3> QED BY <1>1, <1>2, <1>4, <3>1 DEF StoreTypes, TypeInv
  <2>3. BackTypes'
    <3>1. editLog' \in 1 .. Len(logs')
      BY <1>2, <1>4, <1>6 DEF TypeInv, BackTypes
    <3> QED BY <1>1, <1>6, <3>1 DEF BackTypes, TypeInv
  <2>4. HistTypes'
    BY <1>1 DEF HistTypes, TypeInv, hist
  <2> QED BY <2>1, <2>2, <2>3, <2>4 DEF TypeInv
<1>8. Queue' /\ Tickets' /\ Accepted'
  <2>1. pc[t] \in Working /\ pc'[t] \in Working
    BY <1>1 DEF Working
  <2> QED BY <1>1, <1>6, <2>1, WorkerGoesOn DEF hist
<1>9. Group'
  BY <1>1, <1>3 DEF Group
<1>10. ToSet(mem') = {}
  BY <1>1 DEF ToSet
<1>11. Inserting'
  <2>1. Ends(0)'
    BY <1>1 DEF Ends
  <2> QED BY <1>1, <1>3, <2>1 DEF Inserting, Leading
<1>12. Flushed'
  <2>1. Ends(0)
    BY <1>3 DEF Inserting, Leading
  <2>2. \A e \in ToSet(mem) : Whole(e)
    BY <1>2, <2>1, Elements DEF Ends
  <2>3. Stored' = Stored
    <3>1. tables \o mem \o <<>> = tables \o <<>> \o mem
      BY <1>2
    <3> QED BY <1>1, <1>2, <3>1 DEF Stored
  <2>4. \A e \in ToSet(imm') \cup ToSet(tables') : Whole(e)'
    BY <1>1, <2>2 DEF Flushed, Whole
  <2> QED BY <1>1, <2>3, <2>4 DEF Flushed
<1>13. Logged'
  <2>1. \A i \in DOMAIN logs' : logs'[i].synced <= Len(logs'[i].recs)
    <3>1. EmptyLog.synced <= Len(EmptyLog.recs)
      BY DEF EmptyLog
    <3>2. \A i \in 1 .. Len(logs) : logs[i].synced <= Len(logs[i].recs)
      BY <1>5 DEF Logged
    <3>3. \A i \in 1 .. Len(logs) + 1 : i \in 1 .. Len(logs) \/ i = Len(logs) + 1
      BY <1>2
    <3> HIDE DEF EmptyLog
    <3> QED BY <1>4, <1>5, <3>1, <3>2, <3>3
  <2>2. \A e \in ToSet(imm') : InLogs(e)'
    <3>1. SUFFICES ASSUME NEW e \in ToSet(mem)
                   PROVE  InLogs(e)'
      BY <1>1
    <3>2. \E k \in DOMAIN LastLog.recs : e \in ToSet(LastLog.recs[k])
      BY DEF Logged
    <3>3. logs'[Len(logs)] = LastLog /\ Len(logs) \in DOMAIN logs'
      BY <1>2, <1>4, <1>5 DEF LastLog
    <3> QED BY <3>2, <3>3 DEF InLogs
  <2> QED BY <1>1, <1>3, <1>10, <2>1, <2>2 DEF Logged, Leading
<1>14. Durable'
  <2>1. ASSUME NEW b, Safe(b)
        PROVE  Safe(b)'
    <3>1. ~In(b, imm)
      BY <1>2 DEF In, ToSet
    <3>2. In(b, mem) /\ OnDisk(b, Len(logs)) => In(b, imm)' /\ \E i \in DOMAIN logs' : OnDisk(b, i)'
      <4>1. Len(logs) \in DOMAIN logs' /\ logs'[Len(logs)] = logs[Len(logs)]
        BY <1>2, <1>4, <1>5
      <4> QED BY <1>1, <4>1 DEF In, OnDisk
    <3>3. In(b, tables) => In(b, tables)'
      BY <1>1 DEF In
    <3> QED BY <2>1, <3>1, <3>2, <3>3 DEF Safe
  <2> QED BY <1>1, <1>3, <2>1 DEF Durable, Leading, hist
<1>15. Background'
  <2>1. ~shuttingDown
    BY <1>1, InCall DEF Closing
  <2> QED BY <1>1, <1>6, <2>1 DEF Background, Closing
<1> QED BY <1>7, <1>8, <1>9, <1>11, <1>12, <1>13, <1>14, <1>15

Committing == Leading \ {"answer"}

\* Who leads goes on from one phase without the lock to the next.
LEMMA LeaderGoesOn ==
    ASSUME IInv, NEW t \in Threads, NEW p \in Committing, pc[t] \in Committing, Goto(t, p),
           UNCHANGED <<mutex, asleep, writers, call, locals, lastSequence, imm, hasImm, tables,
                       level0, back, shuttingDown, hist>>,
           logs' \in Seq(Log), Len(logs') = Len(logs), mem' \in Seq(Batch),
           \A b : Safe(b) => Safe(b)',
           Inserting', Flushed', Logged'
    PROVE  IInv'
<1> USE DEF IInv
<1>1. p \in PCs
  BY DEF PCs, Working, Committing
<1>2. pc' \in [Threads -> PCs] /\ pc'[t] = p /\ \A u \in Threads : u # t => pc'[u] = pc[u]
  BY <1>1, Move
<1>3. pc[t] \in Working /\ pc'[t] \in Working /\ pc[t] \in Leading /\ pc[t] # "answer" /\ pc'[t] # "answer"
  BY <1>2 DEF Committing, Working
<1>4. TypeInv'
  <2>1. ThreadTypes'
    BY <1>2 DEF ThreadTypes, TypeInv, locals
  <2>2. StoreTypes'
    <3>1. Len(logs) \in Nat /\ Len(logs) > 0
      BY DEF StoreTypes, TypeInv
    <3>2. logs' # <<>>
      BY <3>1
    <3> QED BY <3>2 DEF StoreTypes, TypeInv
  <2>3. BackTypes'
    BY DEF BackTypes, TypeInv, back
  <2>4. HistTypes'
    BY DEF HistTypes, TypeInv, hist
  <2> QED BY <2>1, <2>2, <2>3, <2>4 DEF TypeInv
<1>5. Queue' /\ Tickets' /\ Accepted'
  BY <1>2, <1>3, WorkerGoesOn DEF back, hist
<1>6. Group'
  <2>1. \A u \in Threads : pc'[u] \in Leading => u = t
    BY <1>2, <1>3, Alone DEF Working
  <2> QED BY <1>3, <2>1 DEF Group, IsRange, locals, hist
<1>7. Durable'
  <2>1. \A u \in Threads : pc'[u] # "answer"
    BY <1>2, <1>3, Alone DEF Working, Leading
  <2> QED BY <2>1 DEF Durable, hist
<1>8. Background'
  <2>1. pc[t] # "idle" /\ pc[t] \notin Closing \cup {"manual"} /\ pc'[t] \notin Closing
    BY <1>2, <1>3 DEF Closing, Leading, Committing
  <2> QED BY <1>2, <2>1, BackSame DEF back
<1> QED BY <1>4, <1>5, <1>6, <1>7, <1>8

\* The last log gets more records, or more of them on the disk.
LEMMA LogGrows ==
    ASSUME IInv, NEW new \in Log, logs' = [logs EXCEPT ![Len(logs)] = new],
           UNCHANGED <<mem, imm, tables>>,
           Len(LastLog.recs) <= Len(new.recs),
           \A k \in 1 .. Len(LastLog.recs) : new.recs[k] = LastLog.recs[k],
           LastLog.synced <= new.synced, new.synced <= Len(new.recs)
    PROVE  /\ logs' \in Seq(Log) /\ Len(logs') = Len(logs) /\ LastLog' = new
           /\ \A i \in DOMAIN logs' : logs'[i].synced <= Len(logs'[i].recs)
           /\ \A e \in ToSet(mem) : \E k \in DOMAIN new.recs : e \in ToSet(new.recs[k])
           /\ \A e \in ToSet(imm) : InLogs(e)'
           /\ \A b : Safe(b) => Safe(b)'
<1> USE DEF IInv
<1>1. logs \in Seq(Log) /\ Len(logs) \in Nat /\ Len(logs) > 0 /\ DOMAIN logs = 1 .. Len(logs)
  BY DEF TypeInv, StoreTypes
<1>2. /\ logs' \in Seq(Log) /\ Len(logs') = Len(logs) /\ DOMAIN logs' = 1 .. Len(logs)
      /\ logs'[Len(logs)] = new
      /\ \A i \in 1 .. Len(logs) : i # Len(logs) => logs'[i] = logs[i]
  <2> DEFINE n == Len(logs)
  <2>1. n \in 1 .. n /\ n \in Nat /\ logs \in [1 .. n -> Log]
    BY <1>1
  <2>2. logs' = [logs EXCEPT ![n] = new]
    OBVIOUS
  <2> HIDE DEF n
  <2>3. /\ logs' \in [1 .. n -> Log] /\ logs'[n] = new
        /\ \A i \in 1 .. n : i # n => logs'[i] = logs[i]
    BY <2>1, <2>2
  <2>4. logs' \in Seq(Log) /\ Len(logs') = n /\ DOMAIN logs' = 1 .. n
    BY <2>1, <2>3
  <2> QED BY <2>3, <2>4 DEF n
<1>3. LastLog' = new /\ LastLog = logs[Len(logs)] /\ LastLog \in Log
  <2>1. LastLog' = logs'[Len(logs')] /\ LastLog = logs[Len(logs)]
    BY DEF LastLog
  <2>2. logs[Len(logs)] \in Log
    BY <1>1
  <2>3. logs'[Len(logs')] = new
    <3> DEFINE n == Len(logs)
    <3>1. logs'[n] = new /\ Len(logs') = n
      BY <1>2
    <3> HIDE DEF n
    <3> QED BY <3>1
  <2> QED BY <2>1, <2>2, <2>3
<1>4. /\ new.recs \in Seq(Seq(Batch)) /\ LastLog.recs \in Seq(Seq(Batch))
      /\ new.synced \in Nat /\ LastLog.synced \in Nat
  BY <1>3 DEF Log
<1>5. /\ DOMAIN new.recs = 1 .. Len(new.recs) /\ DOMAIN LastLog.recs = 1 .. Len(LastLog.recs)
      /\ Len(new.recs) \in Nat /\ Len(LastLog.recs) \in Nat
  BY <1>4
<1>6. \A i \in DOMAIN logs' : logs'[i].synced <= Len(logs'[i].recs)
  BY <1>1, <1>2 DEF Logged
<1>7. \A k \in DOMAIN LastLog.recs : k \in DOMAIN new.recs /\ new.recs[k] = LastLog.recs[k]
  BY <1>5
<1>8. \A e \in ToSet(mem) : \E k \in DOMAIN new.recs : e \in ToSet(new.recs[k])
  BY <1>7 DEF Logged
<1>9. \A e \in ToSet(imm) : InLogs(e)'
  <2>1. SUFFICES ASSUME NEW e \in ToSet(imm)
                 PROVE  InLogs(e)'
    OBVIOUS
  <2>2. PICK i \in DOMAIN logs : \E k \in DOMAIN logs[i].recs : e \in ToSet(logs[i].recs[k])
    BY DEF Logged, InLogs
  <2>3. \E k \in DOMAIN logs'[i].recs : e \in ToSet(logs'[i].recs[k])
    BY <1>1, <1>2, <1>3, <1>7, <2>2
  <2> QED BY <1>1, <1>2, <2>3 DEF InLogs
<1>10. ASSUME NEW b, NEW i \in 1 .. Len(logs), OnDisk(b, i)
       PROVE  OnDisk(b, i)'
  <2>1. CASE i # Len(logs)
    BY <1>2, <1>10, <2>1 DEF OnDisk
  <2>2. CASE i = Len(logs)
    <3>1. PICK k \in 1 .. LastLog.synced : \E e \in ToSet(LastLog.recs[k]) : e.id = b
      BY <1>3, <1>10, <2>2 DEF OnDisk
    <3>2. LastLog.synced <= Len(LastLog.recs)
      BY <1>1, <1>3 DEF Logged
    <3>3. k \in 1 .. Len(LastLog.recs) /\ k \in 1 .. new.synced
      BY <1>4, <1>5, <3>2
    <3>4. new.recs[k] = LastLog.recs[k]
      BY <3>3
    <3>5. \E e \in ToSet(new.recs[k]) : e.id = b
      BY <3>1, <3>4
    <3>6. logs'[i] = new
      BY <1>2, <2>2
    <3> QED BY <3>3, <3>5, <3>6 DEF OnDisk
  <2> QED BY <2>1, <2>2
<1>11. \A b : Safe(b) => Safe(b)'
  <2>1. SUFFICES ASSUME NEW b, Safe(b)
                 PROVE  Safe(b)'
    OBVIOUS
  <2>2. Len(logs) \in 1 .. Len(logs)
    BY <1>1
  <2>3. In(b, tables)' = In(b, tables) /\ In(b, imm)' = In(b, imm) /\ In(b, mem)' = In(b, mem)
    BY DEF In
  <2>4. (\E i \in DOMAIN logs : OnDisk(b, i)) => \E i \in DOMAIN logs' : OnDisk(b, i)'
    BY <1>1, <1>2, <1>10
  <2>5. OnDisk(b, Len(logs)) => OnDisk(b, Len(logs))'
    <3>1. OnDisk(b, Len(logs))' <=> \E k \in 1 .. logs'[Len(logs')].synced : \E e \in ToSet(logs'[Len(logs')].recs[k]) : e.id = b
      BY DEF OnDisk
    <3>2. OnDisk(b, Len(logs)) => \E k \in 1 .. logs'[Len(logs)].synced : \E e \in ToSet(logs'[Len(logs)].recs[k]) : e.id = b
      BY <1>10, <2>2 DEF OnDisk
    <3> QED BY <1>2, <3>1, <3>2
  <2> QED BY <2>1, <2>3, <2>4, <2>5 DEF Safe
<1> QED BY <1>2, <1>3, <1>6, <1>8, <1>9, <1>11

\* The leader appends the group to the log without the mutex.
LEMMA AddStep ==
    ASSUME IInv, NEW t \in Threads, AddRecord(t)
    PROVE  IInv'
<1> USE DEF IInv
<1>1. /\ pc[t] = "append"
      /\ UNCHANGED <<mutex, asleep, writers, call, locals, lastSequence, mem, imm,
                     hasImm, tables, level0, back, shuttingDown, hist>>
  BY DEF AddRecord
<1>2. pc[t] \in Leading /\ pc[t] \in Committing /\ pc[t] \in Working /\ pc[t] \notin Storing
  BY <1>1 DEF Leading, Committing, Working, Storing
<1>3. \A u \in Threads : u # t => pc[u] \notin Working
  BY <1>2, Alone
<1>4. Ends(0)
  BY <1>1, <1>3 DEF Inserting, Working, Leading
<1>5. /\ Numbered \in Seq(Batch) /\ Len(Numbered) \in Nat /\ Len(Numbered) > 0
  BY <1>2, GroupNumbers DEF Committing
<1>6. Numbered' = Numbered
  BY <1>1, SameNumbers DEF locals
<1>7. logs \in Seq(Log) /\ Len(logs) \in Nat /\ Len(logs) > 0 /\ mem' \in Seq(Batch)
  BY <1>1 DEF TypeInv, StoreTypes
<1>8. CASE logs' = [logs EXCEPT ![Len(logs)].recs = Append(@, Numbered)]
           /\ Goto(t, IF call[t].sync THEN "sync" ELSE "insert")
  <2> DEFINE recs == Append(LastLog.recs, Numbered)
             new == [recs |-> recs, synced |-> LastLog.synced]
             p == IF call[t].sync THEN "sync" ELSE "insert"
  <2>1. p \in Committing /\ p \in PCs
    BY DEF Committing, Leading, PCs, Working
  <2>2. pc' \in [Threads -> PCs] /\ pc'[t] = p /\ \A u \in Threads : u # t => pc'[u] = pc[u]
    <3> HIDE DEF p
    <3>1. Goto(t, p)
      BY <1>8 DEF p
    <3> QED BY <2>1, <3>1, Move
  <2>3. LastLog \in Log /\ LastLog = logs[Len(logs)]
    BY <1>7 DEF LastLog
  <2>4. LastLog.recs \in Seq(Seq(Batch)) /\ LastLog.synced \in Nat /\ LastLog.synced <= Len(LastLog.recs)
        /\ Len(LastLog.recs) \in Nat
    BY <1>7, <2>3 DEF Log, Logged
  <2>5. /\ recs \in Seq(Seq(Batch)) /\ Len(recs) = Len(LastLog.recs) + 1
        /\ \A k \in 1 .. Len(LastLog.recs) : recs[k] = LastLog.recs[k]
        /\ recs[Len(LastLog.recs) + 1] = Numbered
        /\ recs # <<>>
    <3> HIDE DEF LastLog
    <3> QED BY <1>5, <2>4
  <2>6. logs' = [logs EXCEPT ![Len(logs)] = new]
    <3>1. logs' = [logs EXCEPT ![Len(logs)] = [logs[Len(logs)] EXCEPT !.recs = Append(logs[Len(logs)].recs, Numbered)]]
      BY <1>8
    <3>2. [LastLog EXCEPT !.recs = Append(LastLog.recs, Numbered)] = new
      <4>1. ASSUME NEW l \in Log, NEW r
            PROVE  [l EXCEPT !.recs = r] = [recs |-> r, synced |-> l.synced]
        BY DEF Log
      <4> QED BY <2>3, <4>1
    <3> QED BY <2>3, <3>1, <3>2
  <2>7. new \in Log /\ new.recs = recs /\ new.synced = LastLog.synced
    BY <2>4, <2>5 DEF Log
  <2> HIDE DEF new, recs
  <2>8. /\ logs' \in Seq(Log) /\ Len(logs') = Len(logs) /\ LastLog' = new
        /\ \A i \in DOMAIN logs' : logs'[i].synced <= Len(logs'[i].recs)
        /\ \A e \in ToSet(mem) : \E k \in DOMAIN new.recs : e \in ToSet(new.recs[k])
        /\ \A e \in ToSet(imm) : InLogs(e)'
        /\ \A b : Safe(b) => Safe(b)'
    <3>1. Len(LastLog.recs) <= Len(new.recs) /\ \A k \in 1 .. Len(LastLog.recs) : new.recs[k] = LastLog.recs[k]
      BY <2>4, <2>5, <2>7
    <3>2. LastLog.synced <= new.synced /\ new.synced <= Len(new.recs)
      BY <2>4, <2>5, <2>7
    <3> QED BY <1>1, <2>6, <2>7, <3>1, <3>2, LogGrows
  <2>9. Inserting'
    <3>1. Ends(0)'
      BY <1>1, <1>4 DEF Ends, Whole
    <3>2. 0 \in 0 .. Len(Numbered) - 1
      BY <1>5
    <3>3. \A u \in Threads : pc'[u] # "written"
      BY <1>3, <2>2 DEF Working, Leading
    <3> QED BY <1>6, <3>1, <3>2, <3>3 DEF Inserting
  <2>10. Flushed'
    BY <1>1 DEF Flushed, Stored, Whole
  <2>11. Logged'
    <3>1. \A u \in Threads : pc'[u] \in Storing => u = t
      BY <1>3, <2>2 DEF Working, Leading, Storing
    <3>2. pc'[t] \in {"insert", "written"} => ~call'[t].sync
      BY <1>1, <2>2
    <3>3. new.recs # <<>> /\ new.recs[Len(new.recs)] = Numbered
      BY <2>4, <2>5, <2>7
    <3> QED BY <1>1, <1>6, <2>8, <3>1, <3>2, <3>3 DEF Logged, Storing
  <2> HIDE DEF p
  <2>12. Goto(t, p)
    BY <1>8 DEF p
  <2> QED BY <1>1, <1>2, <1>7, <2>1, <2>8, <2>9, <2>10, <2>11, <2>12, LeaderGoesOn
<1>9. CASE UNCHANGED logs /\ Goto(t, "failed")
  <2>1. "failed" \in Committing /\ "failed" \in PCs
    BY DEF Committing, Leading, PCs, Working
  <2>2. pc'[t] = "failed" /\ \A u \in Threads : u # t => pc'[u] = pc[u]
    BY <1>9, <2>1, Move
  <2>3. \A u \in Threads : pc[u] \notin Storing /\ pc'[u] \notin Storing
    BY <1>2, <1>3, <2>2 DEF Storing, Working, Leading
  <2>4. Inserting' /\ Flushed' /\ Logged' /\ (\A b : Safe(b)' <=> Safe(b))
    BY <1>1, <1>9, <2>3, StoreKeeps
  <2> QED BY <1>1, <1>2, <1>7, <1>9, <2>1, <2>4, LeaderGoesOn
<1> QED BY <1>8, <1>9 DEF AddRecord

\* The leader syncs the log, or fails to.
LEMMA SyncStep ==
    ASSUME IInv, NEW t \in Threads, SyncLog(t)
    PROVE  IInv'
<1> USE DEF IInv
<1>1. /\ pc[t] = "sync"
      /\ UNCHANGED <<mutex, asleep, writers, call, locals, lastSequence, mem, imm,
                     hasImm, tables, level0, back, shuttingDown, hist>>
  BY DEF SyncLog
<1>2. pc[t] \in Leading /\ pc[t] \in Committing /\ pc[t] \in Working
  BY <1>1 DEF Leading, Committing, Working
<1>3. \A u \in Threads : u # t => pc[u] \notin Working
  BY <1>2, Alone
<1>4. Ends(0)
  BY <1>1, <1>3 DEF Inserting, Working, Leading
<1>5. Numbered \in Seq(Batch) /\ Len(Numbered) \in Nat /\ Len(Numbered) > 0
  BY <1>2, GroupNumbers DEF Committing
<1>6. Numbered' = Numbered
  BY <1>1, SameNumbers DEF locals
<1>7. logs \in Seq(Log) /\ Len(logs) \in Nat /\ Len(logs) > 0 /\ mem' \in Seq(Batch)
  BY <1>1 DEF TypeInv, StoreTypes
<1>8. LastLog \in Log /\ LastLog = logs[Len(logs)]
  BY <1>7 DEF LastLog
<1>9. LastLog.recs \in Seq(Seq(Batch)) /\ LastLog.synced \in Nat /\ LastLog.synced <= Len(LastLog.recs)
      /\ Len(LastLog.recs) \in Nat
  BY <1>7, <1>8 DEF Log, Logged
<1>10. LastLog.recs # <<>> /\ LastLog.recs[Len(LastLog.recs)] = Numbered
  BY <1>1 DEF Logged
<1>11. \/ logs' = logs /\ Goto(t, "syncfailed")
       \/ logs' = [logs EXCEPT ![Len(logs)] = [recs |-> LastLog.recs, synced |-> Len(LastLog.recs)]]
          /\ Goto(t, "insert")
  BY <1>7, <1>8 DEF SyncLog, Log
<1>12. CASE logs' = logs /\ Goto(t, "syncfailed")
  <2>1. "syncfailed" \in Committing /\ "syncfailed" \in PCs
    BY DEF Committing, Leading, PCs, Working
  <2>2. pc'[t] = "syncfailed" /\ \A u \in Threads : u # t => pc'[u] = pc[u]
    BY <1>12, <2>1, Move
  <2>3. Inserting'
    <3>1. Ends(0)'
      BY <1>1, <1>4 DEF Ends, Whole
    <3>2. \A u \in Threads : pc'[u] \notin {"insert", "written"}
      BY <1>3, <2>2 DEF Working, Leading
    <3> QED BY <3>1, <3>2 DEF Inserting
  <2>4. Flushed'
    BY <1>1 DEF Flushed, Stored, Whole
  <2>5. Logged'
    <3>1. \A u \in Threads : pc'[u] \notin Storing
      BY <1>3, <2>2 DEF Working, Leading, Storing
    <3>2. LastLog' = LastLog /\ \A e : InLogs(e)' <=> InLogs(e)
      BY <1>12 DEF LastLog, InLogs
    <3> QED BY <1>1, <1>12, <3>1, <3>2 DEF Logged, Storing
  <2>6. \A b : Safe(b)' <=> Safe(b)
    BY <1>1, <1>12 DEF Safe, In, OnDisk
  <2> QED BY <1>1, <1>2, <1>7, <1>12, <2>1, <2>3, <2>4, <2>5, <2>6, LeaderGoesOn
<1>13. CASE logs' = [logs EXCEPT ![Len(logs)] = [recs |-> LastLog.recs, synced |-> Len(LastLog.recs)]]
            /\ Goto(t, "insert")
  <2> DEFINE disk == [recs |-> LastLog.recs, synced |-> Len(LastLog.recs)]
  <2>1. "insert" \in Committing /\ "insert" \in PCs
    BY DEF Committing, Leading, PCs, Working
  <2>2. pc'[t] = "insert" /\ \A u \in Threads : u # t => pc'[u] = pc[u]
    BY <1>13, <2>1, Move
  <2>3. disk \in Log /\ disk.recs = LastLog.recs /\ disk.synced = Len(LastLog.recs)
    BY <1>9 DEF Log
  <2>4. logs' = [logs EXCEPT ![Len(logs)] = disk]
    BY <1>13
  <2> HIDE DEF disk
  <2>5. /\ logs' \in Seq(Log) /\ Len(logs') = Len(logs) /\ LastLog' = disk
        /\ \A i \in DOMAIN logs' : logs'[i].synced <= Len(logs'[i].recs)
        /\ \A e \in ToSet(mem) : \E k \in DOMAIN disk.recs : e \in ToSet(disk.recs[k])
        /\ \A e \in ToSet(imm) : InLogs(e)'
        /\ \A b : Safe(b) => Safe(b)'
    <3>1. Len(LastLog.recs) <= Len(disk.recs) /\ \A k \in 1 .. Len(LastLog.recs) : disk.recs[k] = LastLog.recs[k]
      BY <1>9, <2>3
    <3>2. LastLog.synced <= disk.synced /\ disk.synced <= Len(disk.recs)
      BY <1>9, <2>3
    <3> QED BY <1>1, <2>3, <2>4, <3>1, <3>2, LogGrows
  <2>6. Inserting'
    <3>1. Ends(0)'
      BY <1>1, <1>4 DEF Ends, Whole
    <3>2. 0 \in 0 .. Len(Numbered) - 1
      BY <1>5
    <3>3. \A u \in Threads : pc'[u] # "written"
      BY <1>3, <2>2 DEF Working, Leading
    <3> QED BY <1>6, <3>1, <3>2, <3>3 DEF Inserting
  <2>7. Flushed'
    BY <1>1 DEF Flushed, Stored, Whole
  <2>8. Logged'
    <3>1. \A u \in Threads : pc'[u] \in Storing => u = t
      BY <1>3, <2>2 DEF Working, Leading, Storing
    <3>2. disk.recs # <<>> /\ disk.recs[Len(disk.recs)] = Numbered /\ disk.synced = Len(disk.recs)
      BY <1>10, <2>3
    <3> QED BY <1>1, <1>6, <2>5, <3>1, <3>2 DEF Logged, Storing
  <2> QED BY <1>1, <1>2, <1>7, <1>13, <2>1, <2>5, <2>6, <2>7, <2>8, LeaderGoesOn
<1> QED BY <1>11, <1>12, <1>13

\* What is stored is in a table, in imm_ or in the memtable.
LEMMA StoredIs ==
    ASSUME IInv
    PROVE  /\ Stored \in Seq(Batch) /\ DOMAIN Stored = 1 .. Len(Stored) /\ Len(Stored) \in Nat
           /\ \A i \in 1 .. Len(Stored) : Stored[i] \in ToSet(tables) \cup ToSet(imm) \cup ToSet(mem)
<1>1. tables \in Seq(Batch) /\ imm \in Seq(Batch) /\ mem \in Seq(Batch)
  BY DEF IInv, TypeInv, StoreTypes
<1>2. ASSUME NEW s \in Seq(Batch), NEW m \in Seq(Batch)
      PROVE  /\ s \o m \in Seq(Batch) /\ Len(s \o m) = Len(s) + Len(m)
             /\ Len(s) \in Nat /\ Len(m) \in Nat
             /\ \A i \in 1 .. Len(s \o m) : (s \o m)[i] \in ToSet(s) \cup ToSet(m)
  <2> DEFINE all == s \o m
  <2>1. all \in Seq(Batch) /\ Len(all) = Len(s) + Len(m) /\ Len(s) \in Nat /\ Len(m) \in Nat
    OBVIOUS
  <2>2. ASSUME NEW i \in 1 .. Len(all)
        PROVE  all[i] \in ToSet(s) \cup ToSet(m)
    <3>1. CASE i <= Len(s)
      <4>1. i \in 1 .. Len(s) /\ all[i] = s[i]
        BY <2>1, <3>1
      <4> QED BY <4>1, Elements
    <3>2. CASE ~(i <= Len(s))
      <4>1. i - Len(s) \in 1 .. Len(m) /\ all[i] = m[i - Len(s)]
        BY <2>1, <3>2
      <4> HIDE DEF all
      <4> QED BY <4>1, Elements
    <3> QED BY <3>1, <3>2
  <2> QED BY <2>1, <2>2
<1> DEFINE old == tables \o imm
           all == old \o mem
<1>3. old \in Seq(Batch) /\ \A i \in 1 .. Len(old) : old[i] \in ToSet(tables) \cup ToSet(imm)
  BY <1>1, <1>2
<1>4. \A e \in ToSet(old) : e \in ToSet(tables) \cup ToSet(imm)
  <2> HIDE DEF old
  <2> QED BY <1>3, Elements
<1>5. all \in Seq(Batch) /\ \A i \in 1 .. Len(all) : all[i] \in ToSet(old) \cup ToSet(mem)
  <2> HIDE DEF old
  <2> QED BY <1>1, <1>2, <1>3
<1>6. Stored = all
  BY DEF Stored
<1> HIDE DEF all, old
<1>7. DOMAIN all = 1 .. Len(all) /\ Len(all) \in Nat
  BY <1>5
<1> QED BY <1>4, <1>5, <1>6, <1>7

\* The batches not yet visible are counted by those of the group that are in.
LEMMA InsertedIs ==
    ASSUME IInv, NEW t \in Threads, pc[t] = "insert", NEW k \in 0 .. Len(Numbered) - 1, Ends(k)
    PROVE  Inserted = k
<1> USE DEF IInv
<1>1. mem \in Seq(Batch) /\ lastSequence \in Nat
  BY DEF TypeInv, StoreTypes
<1> DEFINE L == Len(mem)
<1>2. L \in Nat /\ DOMAIN mem = 1 .. L /\ k \in 0 .. L /\ \A i \in 1 .. L : mem[i] \in Batch
  BY <1>1 DEF Ends
<1>3. \A j \in 1 .. Len(Numbered) : Numbered[j].seq > lastSequence
  BY GroupNumbers DEF Leading
<1>4. Len(Numbered) \in Nat
  BY GroupNumbers DEF Leading
<1>5. \A i \in 1 .. L - k : Whole(mem[i])
  BY DEF Ends
<1>6. \A j \in 1 .. k : mem[L - k + j] = Numbered[j]
  BY DEF Ends
<1> HIDE DEF L
<1>7. \A i \in 1 .. L - k : ~(mem[i].seq > lastSequence)
  <2>1. SUFFICES ASSUME NEW i \in 1 .. L - k
                 PROVE  ~(mem[i].seq > lastSequence)
    OBVIOUS
  <2>2. mem[i] \in Batch
    BY <1>2
  <2>3. mem[i].seq \in Nat /\ mem[i].size \in Nat \ {0}
    BY <2>2 DEF Batch
  <2> QED BY <1>1, <1>5, <2>1, <2>3 DEF Whole
<1>8. \A i \in L - k + 1 .. L : mem[i].seq > lastSequence
  <2>1. SUFFICES ASSUME NEW i \in L - k + 1 .. L
                 PROVE  mem[i].seq > lastSequence
    OBVIOUS
  <2>2. i - (L - k) \in 1 .. k /\ L - k + (i - (L - k)) = i
    BY <1>2
  <2>3. mem[i] = Numbered[i - (L - k)]
    BY <1>6, <2>2
  <2>4. i - (L - k) \in 1 .. Len(Numbered)
    BY <1>4, <2>2
  <2> QED BY <1>3, <2>3, <2>4
<1>9. {i \in DOMAIN mem : mem[i].seq > lastSequence} = L - k + 1 .. L
  <2>1. \A i \in 1 .. L : i \in 1 .. L - k \/ i \in L - k + 1 .. L
    BY <1>2
  <2>2. \A i \in L - k + 1 .. L : i \in 1 .. L
    BY <1>2
  <2> QED BY <1>2, <1>7, <1>8, <2>1, <2>2
<1>10. Cardinality(L - k + 1 .. L) = k
  <2> DEFINE a == L - k + 1
  <2>1. a \in Int /\ L \in Int /\ L - a + 1 = k /\ (k = 0 => a > L) /\ (k > 0 => a <= L)
    BY <1>2
  <2> HIDE DEF a
  <2>2. Cardinality(a .. L) = IF a > L THEN 0 ELSE L - a + 1
    BY <2>1, FS_Interval
  <2>3. Cardinality(a .. L) = k
    BY <1>2, <2>1, <2>2
  <2> QED BY <2>3 DEF a
<1> QED BY <1>9, <1>10 DEF Inserted

\* The leader inserts the group into the memtable.
LEMMA InsertStep ==
    ASSUME IInv, NEW t \in Threads, InsertInto(t)
    PROVE  IInv'
<1> USE DEF IInv
<1>1. /\ pc[t] = "insert"
      /\ UNCHANGED <<mutex, asleep, writers, call, locals, lastSequence, logs, imm,
                     hasImm, tables, level0, back, shuttingDown, hist>>
      /\ mem' = Append(mem, Numbered[Inserted + 1])
      /\ Goto(t, IF Inserted + 1 = Len(Numbered) THEN "written" ELSE "insert")
  BY DEF InsertInto
<1>2. pc[t] \in Leading /\ pc[t] \in Committing /\ pc[t] \in Working
  BY <1>1 DEF Leading, Committing, Working
<1>3. \A u \in Threads : u # t => pc[u] \notin Working
  BY <1>2, Alone
<1>4. /\ Numbered \in Seq(Batch) /\ Len(Numbered) \in Nat /\ Len(Numbered) > 0
      /\ \A j \in 1 .. Len(Numbered) : Numbered[j].seq > lastSequence
      /\ Ordered(Numbered)
  BY <1>2, GroupNumbers DEF Committing
<1>5. PICK k \in 0 .. Len(Numbered) - 1 : Ends(k)
  BY <1>1 DEF Inserting
<1>6. Inserted = k
  BY <1>1, <1>5, InsertedIs
<1> DEFINE x == Numbered[k + 1]
           L == Len(mem)
<1>7. x \in Batch /\ x.seq > lastSequence /\ x.seq \in Nat /\ k + 1 \in 1 .. Len(Numbered)
  <2>1. k + 1 \in 1 .. Len(Numbered)
    BY <1>4
  <2>2. x \in Batch
    BY <1>4, <2>1
  <2> QED BY <1>4, <2>1, <2>2 DEF Batch
<1>8. mem \in Seq(Batch) /\ L \in Nat /\ DOMAIN mem = 1 .. L /\ k \in 0 .. L
      /\ tables \in Seq(Batch) /\ imm \in Seq(Batch) /\ lastSequence \in Nat
  BY <1>5 DEF TypeInv, StoreTypes, Ends
<1>9. mem' = Append(mem, x)
  BY <1>1, <1>6
<1>10. Numbered' = Numbered
  BY <1>1, SameNumbers DEF locals
<1>11. Numbered[k + 1] = x
  OBVIOUS
<1> HIDE DEF x, L
<1>12. /\ mem' \in Seq(Batch) /\ Len(mem') = L + 1 /\ mem'[L + 1] = x
       /\ \A i \in 1 .. L : mem'[i] = mem[i]
  BY <1>7, <1>8, <1>9 DEF L
<1>13. ToSet(mem') = ToSet(mem) \cup {x}
  <2>1. \A e : e \in ToSet(mem) <=> \E i \in 1 .. L : mem[i] = e
    BY <1>8, Elements DEF L
  <2>2. \A e : e \in ToSet(mem') <=> \E i \in 1 .. L + 1 : mem'[i] = e
    BY <1>12, Elements
  <2>3. \A i \in 1 .. L + 1 : i \in 1 .. L \/ i = L + 1
    BY <1>8
  <2>4. \A i \in 1 .. L : i \in 1 .. L + 1
    BY <1>8
  <2>5. L + 1 \in 1 .. L + 1
    BY <1>8
  <2> QED BY <1>12, <2>1, <2>2, <2>3, <2>4, <2>5
<1>14. Ends(k + 1)'
  <2>1. k + 1 \in 0 .. L + 1 /\ L + 1 - (k + 1) = L - k
    BY <1>8
  <2>2. \A i \in 1 .. L - k : Whole(mem[i]) /\ i \in 1 .. L
    BY <1>5, <1>8 DEF Ends, L
  <2>3. \A i \in 1 .. L - k : mem'[i].seq + mem'[i].size - 1 <= lastSequence
    BY <1>12, <2>2 DEF Whole
  <2>4. \A j \in 1 .. k : mem[L - k + j] = Numbered[j] /\ L - k + j \in 1 .. L
    BY <1>5, <1>8 DEF Ends, L
  <2>5. \A j \in 1 .. k + 1 : mem'[L - k + j] = Numbered[j]
    <3>1. SUFFICES ASSUME NEW j \in 1 .. k + 1
                   PROVE  mem'[L - k + j] = Numbered[j]
      OBVIOUS
    <3>2. CASE j = k + 1
      <4>1. L - k + j = L + 1
        BY <1>8, <3>2
      <4> QED BY <1>11, <1>12, <3>2, <4>1
    <3>3. CASE j # k + 1
      <4>1. j \in 1 .. k
        BY <3>3
      <4> QED BY <1>12, <2>4, <4>1
    <3> QED BY <3>2, <3>3
  <2>6. lastSequence' = lastSequence
    BY <1>1
  <2> DEFINE n == k + 1
  <2>7. n \in 0 .. Len(mem') /\ Len(mem') - n = L - k
    BY <1>8, <1>12, <2>1
  <2>8. \A i \in 1 .. Len(mem') - n : mem'[i].seq + mem'[i].size - 1 <= lastSequence'
    BY <2>3, <2>6, <2>7
  <2>9. \A j \in 1 .. n : mem'[Len(mem') - n + j] = Numbered'[j]
    BY <1>10, <2>5, <2>7
  <2> HIDE DEF n
  <2>10. Ends(n)'
    BY <2>7, <2>8, <2>9 DEF Ends, Whole
  <2> QED BY <2>10 DEF n
<1> DEFINE p == IF k + 1 = Len(Numbered) THEN "written" ELSE "insert"
<1>15. p \in Committing /\ p \in PCs
  BY DEF Committing, Leading, PCs, Working
<1>16. Goto(t, p)
  BY <1>1, <1>6
<1>17. pc'[t] = p /\ \A u \in Threads : u # t => pc'[u] = pc[u]
  <2> HIDE DEF p
  <2> QED BY <1>15, <1>16, Move
<1>18. Inserting'
  <2>1. \A u \in Threads : pc'[u] \in {"insert", "written"} => u = t
    BY <1>3, <1>17 DEF Working, Leading
  <2>2. pc'[t] = "insert" => k + 1 \in 0 .. Len(Numbered) - 1
    BY <1>4, <1>17
  <2>3. pc'[t] = "written" => k + 1 = Len(Numbered)
    BY <1>17
  <2>4. pc'[t] \in {"insert", "written"}
    BY <1>17
  <2> HIDE DEF p
  <2> QED BY <1>10, <1>14, <2>1, <2>2, <2>3, <2>4 DEF Inserting
<1>19. Stored' = Append(Stored, x)
  <2> DEFINE old == tables \o imm
  <2>1. old \in Seq(Batch)
    BY <1>8
  <2>2. Stored = old \o mem /\ Stored' = old \o Append(mem, x)
    BY <1>1, <1>9 DEF Stored
  <2> HIDE DEF old
  <2>3. old \o Append(mem, x) = Append(old \o mem, x)
    BY <1>7, <1>8, <2>1
  <2> QED BY <2>2, <2>3
<1>20. \A i \in 1 .. Len(Stored) : Stored[i].seq + Stored[i].size <= x.seq
  <2>1. \A e \in ToSet(imm) \cup ToSet(tables) \cup ToSet(mem) : e \in Batch
    BY <1>8, Elements
  <2>2. ASSUME NEW e \in Batch, Whole(e)
        PROVE  e.seq + e.size <= x.seq
    <3>1. e.seq \in Nat /\ e.size \in Nat /\ e.seq + e.size - 1 <= lastSequence
      BY <2>2 DEF Batch, Whole
    <3> QED BY <1>7, <1>8, <3>1
  <2>3. ASSUME NEW e \in ToSet(mem)
        PROVE  e.seq + e.size <= x.seq
    <3>1. PICK i \in 1 .. L : mem[i] = e
      BY <1>8 DEF ToSet
    <3>2. CASE i \in 1 .. L - k
      BY <1>5, <2>1, <2>2, <3>1, <3>2 DEF Ends, L
    <3>3. CASE i \notin 1 .. L - k
      <4>1. i - (L - k) \in 1 .. k /\ L - k + (i - (L - k)) = i
        BY <1>8, <3>3
      <4>2. mem[i] = Numbered[i - (L - k)]
        BY <1>5, <4>1 DEF Ends, L
      <4>3. i - (L - k) \in DOMAIN Numbered /\ k + 1 \in DOMAIN Numbered /\ i - (L - k) < k + 1
        BY <1>4, <1>7, <4>1
      <4> QED BY <1>4, <1>11, <3>1, <4>2, <4>3 DEF Ordered
    <3> QED BY <3>2, <3>3
  <2>4. \A e \in ToSet(imm) \cup ToSet(tables) : e.seq + e.size <= x.seq
    BY <2>1, <2>2 DEF Flushed
  <2> QED BY <2>3, <2>4, StoredIs
<1>21. Flushed'
  <2>1. Ordered(Stored')
    <3> DEFINE s == Stored
               r == Append(s, x)
    <3>1. s \in Seq(Batch) /\ Len(s) \in Nat /\ DOMAIN s = 1 .. Len(s) /\ Ordered(s)
      BY StoredIs DEF Flushed
    <3>2. \A i \in 1 .. Len(s) : s[i].seq + s[i].size <= x.seq
      BY <1>20
    <3> HIDE DEF s
    <3>3. DOMAIN r = 1 .. Len(s) + 1 /\ r[Len(s) + 1] = x /\ \A i \in 1 .. Len(s) : r[i] = s[i]
      BY <1>7, <3>1
    <3>4. ASSUME NEW i \in DOMAIN r, NEW j \in DOMAIN r, i < j
          PROVE  r[i].seq + r[i].size <= r[j].seq
      <4>1. i \in 1 .. Len(s) /\ (j \in 1 .. Len(s) \/ j = Len(s) + 1)
        BY <3>1, <3>3, <3>4
      <4> QED BY <3>1, <3>2, <3>3, <3>4, <4>1 DEF Ordered
    <3>5. Ordered(r)
      BY <3>4 DEF Ordered
    <3> QED BY <1>19, <3>5 DEF s
  <2> QED BY <1>1, <2>1 DEF Flushed, Whole
<1>22. Logged'
  <2>1. \A u \in Threads : pc'[u] \in Storing => u = t
    BY <1>3, <1>17 DEF Working, Leading, Storing
  <2>2. LastLog' = LastLog /\ \A e : InLogs(e)' <=> InLogs(e)
    BY <1>1 DEF LastLog, InLogs
  <2>3. LastLog.recs # <<>> /\ LastLog.recs[Len(LastLog.recs)] = Numbered
        /\ (call[t].sync => LastLog.synced = Len(LastLog.recs))
    BY <1>1 DEF Logged
  <2>4. \E n \in DOMAIN LastLog.recs : x \in ToSet(LastLog.recs[n])
    <3>1. LastLog \in Log
      BY DEF LastLog, TypeInv, StoreTypes
    <3>2. LastLog.recs \in Seq(Seq(Batch))
      BY <3>1 DEF Log
    <3>3. Len(LastLog.recs) \in DOMAIN LastLog.recs
      BY <2>3, <3>2
    <3>4. x \in ToSet(Numbered)
      BY <1>4, <1>7, <1>11, Elements
    <3> QED BY <2>3, <3>3, <3>4
  <2> QED BY <1>1, <1>10, <1>13, <2>1, <2>2, <2>3, <2>4 DEF Logged, Storing
<1>23. \A b : Safe(b) => Safe(b)'
  BY <1>1, <1>13 DEF Safe, In, OnDisk
<1>24. logs' \in Seq(Log) /\ Len(logs') = Len(logs)
  BY <1>1 DEF TypeInv, StoreTypes
<1> HIDE DEF p
<1> QED BY <1>1, <1>2, <1>12, <1>15, <1>16, <1>18, <1>21, <1>22, <1>23, <1>24, LeaderGoesOn

\* The group's batches become visible together.
LEMMA RelockStep ==
    ASSUME IInv, NEW t \in Threads, Relock(t)
    PROVE  IInv'
<1> USE DEF IInv
<1> DEFINE ok == (pc[t] = "written")
<1>1. /\ pc[t] \in {"written", "failed", "syncfailed"} /\ mutex' = t
      /\ bgError' = (bgError \/ pc[t] = "syncfailed")
      /\ asleep' = IF bgError' # bgError THEN SignalAll ELSE asleep
      /\ lastSequence' = lastSequence + Entries(Updates)
      /\ call' = [call EXCEPT ![t].ok = ok]
      /\ Goto(t, "answer")
      /\ UNCHANGED <<writers, locals, logs, mem, imm, hasImm, tables, level0,
                     scheduled, bgPc, editLog, manual, pieces, shuttingDown, hist>>
  BY DEF Relock
<1>2. pc[t] \in Leading /\ pc[t] # "answer" /\ pc[t] \in Working
  BY <1>1 DEF Leading, Working
<1>3. \A u \in Threads : u # t => pc[u] \notin Working
  BY <1>2, Alone
<1>4. /\ Numbered \in Seq(Batch) /\ Len(Numbered) \in Nat /\ Entries(Updates) \in Nat
      /\ \A j \in 1 .. Len(Numbered) : Numbered[j].seq + Numbered[j].size <= lastSequence + 1 + Entries(Updates)
      /\ \A i \in 1 .. Len(group) : call[group[i]].id # NullBatch =>
            \E k \in 1 .. Len(Numbered) : Numbered[k].id = call[group[i]].id
  BY <1>2, GroupNumbers
<1> DEFINE N == Len(Numbered)
           L == Len(mem)
<1>5. /\ mem \in Seq(Batch) /\ L \in Nat /\ DOMAIN mem = 1 .. L /\ N \in Nat
      /\ tables \in Seq(Batch) /\ imm \in Seq(Batch) /\ lastSequence \in Nat
      /\ group \in Seq(Threads) /\ DOMAIN group = 1 .. Len(group)
      /\ \A i \in 1 .. L : mem[i] \in Batch
  BY <1>4 DEF TypeInv, ThreadTypes, StoreTypes
<1>6. /\ call' \in [Threads -> Calls] /\ call'[t].ok = ok
      /\ \A u \in Threads : u # t => call'[u] = call[u]
      /\ \A u \in Threads : /\ call'[u].id = call[u].id /\ call'[u].size = call[u].size
                            /\ call'[u].sync = call[u].sync /\ call'[u].done = call[u].done
  <2>1. ok \in BOOLEAN
    OBVIOUS
  <2> HIDE DEF ok
  <2> QED BY <1>1, <2>1, StatusTypes
<1>7. pc' \in [Threads -> PCs] /\ pc'[t] = "answer" /\ \A u \in Threads : u # t => pc'[u] = pc[u]
  <2>1. "answer" \in PCs
    BY DEF PCs, Working, Leading
  <2> QED BY <1>1, <2>1, Move
<1>8. lastSequence' \in Nat /\ lastSequence <= lastSequence'
  <2> DEFINE n == Entries(Updates)
  <2>1. n \in Nat /\ lastSequence' = lastSequence + n
    BY <1>1, <1>4
  <2> HIDE DEF n
  <2> QED BY <1>5, <2>1
<1>9. pc[t] = "written" => Ends(N)
  BY DEF Inserting
<1>10. pc[t] # "written" => Ends(0)
  BY <1>1, <1>3 DEF Inserting, Working, Leading
<1>11. TypeInv'
  <2>1. ThreadTypes'
    <3>1. mutex' \in Threads \cup {None} /\ asleep' \subseteq Threads
      BY <1>1, Awake DEF TypeInv, ThreadTypes
    <3> QED BY <1>1, <1>6, <1>7, <3>1 DEF ThreadTypes, TypeInv, locals
  <2>2. StoreTypes'
    BY <1>1, <1>8 DEF StoreTypes, TypeInv
  <2>3. BackTypes'
    BY <1>1 DEF BackTypes, TypeInv
  <2>4. HistTypes'
    BY <1>1 DEF HistTypes, TypeInv, hist
  <2> QED BY <2>1, <2>2, <2>3, <2>4 DEF TypeInv
<1>12. Queue' /\ Tickets' /\ Accepted'
  <2>1. pc'[t] \in Working
    BY <1>7 DEF Working, Leading
  <2> QED BY <1>1, <1>2, <1>6, <1>7, <2>1, WorkerGoesOn DEF hist
<1>13. Group'
  <2>1. \A u \in Threads : pc'[u] \in Leading => u = t
    BY <1>3, <1>7 DEF Working
  <2>2. group' = group /\ writers' = writers /\ late' = late
    BY <1>1 DEF locals, hist
  <2>3. \A i \in 1 .. Len(group) : group[i] \in Threads
    BY <1>5
  <2>4. \A i \in 1 .. Len(group) :
           (call'[group[i]].sync => call'[t].sync) /\ call'[group[i]].id \notin late
    BY <1>2, <1>6, <2>3 DEF Group
  <2> QED BY <1>2, <1>7, <2>1, <2>2, <2>4 DEF Group
<1> HIDE DEF N, L, ok
<1>14. \A i \in 1 .. L : mem[i].seq + mem[i].size - 1 <= lastSequence'
  <2>1. SUFFICES ASSUME NEW i \in 1 .. L
                 PROVE  mem[i].seq + mem[i].size - 1 <= lastSequence'
    OBVIOUS
  <2>2. mem[i].seq \in Nat /\ mem[i].size \in Nat
    <3>1. mem[i] \in Batch
      BY <1>5
    <3> QED BY <3>1 DEF Batch
  <2>3. CASE Whole(mem[i])
    BY <1>5, <1>8, <2>2, <2>3 DEF Whole
  <2>4. CASE ~Whole(mem[i])
    <3>1. pc[t] = "written" /\ i \notin 1 .. L - N
      <4>1. L - 0 = L
        BY <1>5
      <4> QED BY <1>9, <1>10, <2>4, <4>1 DEF Ends, L
    <3>2. i - (L - N) \in 1 .. N /\ L - N + (i - (L - N)) = i
      BY <1>5, <3>1
    <3>3. mem[i] = Numbered[i - (L - N)]
      BY <1>9, <3>1, <3>2 DEF Ends, L
    <3>4. mem[i].seq + mem[i].size <= lastSequence + 1 + Entries(Updates)
      BY <1>4, <3>2, <3>3 DEF N
    <3> DEFINE n == Entries(Updates)
    <3>5. n \in Nat /\ lastSequence' = lastSequence + n /\ mem[i].seq + mem[i].size <= lastSequence + 1 + n
      BY <1>1, <1>4, <3>4
    <3> HIDE DEF n
    <3> QED BY <1>5, <2>2, <3>5
  <2> QED BY <2>3, <2>4
<1>15. Inserting'
  <2>1. Ends(0)'
    <3>1. mem' = mem
      BY <1>1
    <3>2. 0 \in 0 .. L /\ L - 0 = L
      BY <1>5
    <3> QED BY <1>14, <3>1, <3>2 DEF Ends, Whole, L
  <2>2. \A u \in Threads : pc'[u] \notin {"insert", "written"}
    BY <1>3, <1>7 DEF Working, Leading
  <2> QED BY <2>1, <2>2 DEF Inserting
<1>16. Flushed'
  <2>1. ASSUME NEW e \in ToSet(imm) \cup ToSet(tables)
        PROVE  e.seq + e.size - 1 <= lastSequence'
    <3>1. e \in Batch
      BY <1>5, Elements
    <3>2. e.seq \in Nat /\ e.size \in Nat /\ e.seq + e.size - 1 <= lastSequence
      BY <3>1 DEF Batch, Flushed, Whole
    <3> QED BY <1>5, <1>8, <3>2
  <2> QED BY <1>1, <2>1 DEF Flushed, Stored, Whole
<1>17. Logged'
  <2>1. \A u \in Threads : pc'[u] \notin Storing
    BY <1>3, <1>7 DEF Working, Leading, Storing
  <2>2. LastLog' = LastLog /\ \A e : InLogs(e)' <=> InLogs(e)
    BY <1>1 DEF LastLog, InLogs
  <2> QED BY <1>1, <2>1, <2>2 DEF Logged, Storing
<1>18. Durable'
  <2>1. \A b : Safe(b)' <=> Safe(b)
    BY <1>1 DEF Safe, In, OnDisk
  <2>2. \A u \in Threads : pc'[u] = "answer" => u = t
    BY <1>3, <1>7 DEF Working, Leading
  <2>3. ASSUME pc[t] = "written", NEW i \in 1 .. Len(group), call[group[i]].sync
        PROVE  Safe(call[group[i]].id)
    <3> DEFINE b == call[group[i]].id
    <3>1. group[i] \in Threads
      BY <1>5
    <3>2. call[t].sync /\ b # NullBatch
      BY <1>2, <2>3, <3>1 DEF Group, Tickets, IsRange
    <3>3. PICK k \in 1 .. N : Numbered[k].id = b
      BY <1>4, <3>2 DEF N
    <3>4. Numbered[k] \in ToSet(Numbered)
      BY <1>4, <3>3, Elements DEF N
    <3> HIDE DEF b
    <3>5. In(b, mem)
      <4>1. N \in 0 .. L /\ mem[L - N + k] = Numbered[k]
        BY <1>9, <2>3 DEF Ends, L
      <4>2. L - N + k \in 1 .. L
        BY <1>5, <4>1
      <4>3. mem[L - N + k] \in ToSet(mem)
        BY <1>5, <4>2 DEF ToSet
      <4> QED BY <3>3, <4>1, <4>3 DEF In
    <3>6. OnDisk(b, Len(logs))
      <4>1. LastLog.recs # <<>> /\ LastLog.recs[Len(LastLog.recs)] = Numbered
            /\ LastLog.synced = Len(LastLog.recs)
        BY <2>3, <3>2 DEF Logged
      <4>2. LastLog \in Log
        BY DEF LastLog, TypeInv, StoreTypes
      <4>3. LastLog.recs \in Seq(Seq(Batch))
        BY <4>2 DEF Log
      <4>4. Len(LastLog.recs) \in 1 .. LastLog.synced
        BY <4>1, <4>3
      <4> QED BY <3>3, <3>4, <4>1, <4>4 DEF OnDisk, LastLog
    <3> QED BY <3>5, <3>6 DEF Safe, b
  <2>4. group' = group /\ syncs' = syncs /\ outcome' = outcome
    BY <1>1 DEF locals, hist
  <2>5. \A i \in 1 .. Len(group) : call'[group[i]].sync = call[group[i]].sync /\ call'[group[i]].id = call[group[i]].id
    BY <1>5, <1>6
  <2>6. call'[t].ok => pc[t] = "written"
    BY <1>6 DEF ok
  <2> QED BY <2>1, <2>2, <2>3, <2>4, <2>5, <2>6 DEF Durable
<1>19. Background'
  <2>1. pc[t] # "idle" /\ pc[t] \notin Closing \cup {"manual"} /\ pc'[t] \notin Closing
    BY <1>1, <1>7 DEF Closing
  <2> QED BY <1>1, <1>7, <2>1, BackSame
<1> QED BY <1>11, <1>12, <1>13, <1>15, <1>16, <1>17, <1>18, <1>19

\* A flush is installed: imm_ is in a table, and only logs before the last go.
LEMMA InstalledStep ==
    ASSUME IInv, FlushInstalled
    PROVE  IInv'
<1> USE DEF IInv
<1>1. /\ bgPc \in Applying /\ tables' = tables \o imm /\ imm' = <<>> /\ hasImm' = FALSE
      /\ logs' = SubSeq(logs, editLog, Len(logs)) /\ editLog' = 1
      /\ level0' \in IF imm = <<>> THEN {level0} ELSE {level0, level0 + 1}
      /\ AfterFlush(bgError, FALSE, level0')
      /\ UNCHANGED <<mutex, writers, pc, call, locals, lastSequence, mem, bgError,
                     manual, pieces, shuttingDown, hist>>
  BY DEF FlushInstalled
<1>2. /\ logs \in Seq(Log) /\ Len(logs) \in Nat /\ Len(logs) > 0 /\ editLog \in 1 .. Len(logs)
      /\ mem \in Seq(Batch) /\ tables \in Seq(Batch) /\ imm \in Seq(Batch) /\ level0 \in Nat
      /\ bgError \in BOOLEAN
  BY DEF TypeInv, StoreTypes, BackTypes
<1> DEFINE a == editLog - 1
           n == Len(logs) - a
<1>3. /\ a \in Nat /\ n \in Nat /\ n > 0 /\ a + n = Len(logs) /\ \A i \in 1 .. n : a + i \in 1 .. Len(logs)
  BY <1>2
<1>4. logs' \in Seq(Log) /\ Len(logs') = n /\ DOMAIN logs' = 1 .. n /\ \A i \in 1 .. n : logs'[i] = logs[a + i]
  <2>1. editLog \in 1 .. Len(logs) + 1 /\ Len(logs) \in editLog - 1 .. Len(logs) /\ Len(logs) - editLog + 1 = n
    BY <1>2
  <2>2. /\ logs' \in Seq(Log) /\ Len(logs') = Len(logs) - editLog + 1
        /\ \A i \in 1 .. Len(logs) - editLog + 1 : logs'[i] = logs[editLog + i - 1]
    BY <1>1, <1>2, <2>1, Part
  <2>3. \A i \in 1 .. n : editLog + i - 1 = a + i
    BY <1>2
  <2> QED BY <2>1, <2>2, <2>3
<1> HIDE DEF a, n
<1>5. LastLog' = LastLog
  <2>1. logs'[n] = logs[Len(logs)]
    BY <1>3, <1>4
  <2> QED BY <1>4, <2>1 DEF LastLog
<1>6. /\ scheduled' \in BOOLEAN /\ bgPc' \in BgPCs
      /\ scheduled' <=> bgPc' # "idle"
      /\ bgPc' \in Manuals => bgPc \in Manuals
      /\ scheduled' => scheduled
      /\ asleep' \subseteq Threads
  BY <1>1, <1>2, Flushing
<1>7. ToSet(tables') = ToSet(tables) \cup ToSet(imm) /\ tables' \in Seq(Batch)
  <2> DEFINE all == tables \o imm
             s == tables
             m == imm
  <2>1. all \in Seq(Batch) /\ Len(all) = Len(s) + Len(m) /\ Len(s) \in Nat /\ Len(m) \in Nat
    BY <1>2
  <2>2. \A i \in 1 .. Len(s) : all[i] = s[i] /\ i \in 1 .. Len(all)
    BY <1>2, <2>1
  <2>3. \A i \in 1 .. Len(m) : all[Len(s) + i] = m[i] /\ Len(s) + i \in 1 .. Len(all)
    BY <1>2, <2>1
  <2>4. \A i \in 1 .. Len(all) : i \in 1 .. Len(s) \/ (i - Len(s) \in 1 .. Len(m) /\ Len(s) + (i - Len(s)) = i)
    BY <2>1
  <2>5. s \in Seq(Batch) /\ m \in Seq(Batch) /\ tables' = all
    BY <1>1, <1>2
  <2> HIDE DEF all
  <2>6. \A e : e \in ToSet(all) <=> \E i \in 1 .. Len(all) : all[i] = e
    BY <2>1, Elements
  <2>7. \A e : e \in ToSet(s) <=> \E i \in 1 .. Len(s) : s[i] = e
    BY <2>5, Elements
  <2>8. \A e : e \in ToSet(m) <=> \E i \in 1 .. Len(m) : m[i] = e
    BY <2>5, Elements
  <2> HIDE DEF s, m
  <2>9. ToSet(all) = ToSet(s) \cup ToSet(m)
    <3>1. ASSUME NEW e, e \in ToSet(all)
          PROVE  e \in ToSet(s) \cup ToSet(m)
      <4>1. PICK i \in 1 .. Len(all) : all[i] = e
        BY <2>6, <3>1
      <4>2. CASE i \in 1 .. Len(s)
        BY <2>2, <2>7, <4>1, <4>2
      <4>3. CASE i \notin 1 .. Len(s)
        <5>1. i - Len(s) \in 1 .. Len(m) /\ Len(s) + (i - Len(s)) = i
          BY <2>4, <4>3
        <5>2. m[i - Len(s)] = e
          BY <2>3, <4>1, <5>1
        <5> QED BY <2>8, <5>1, <5>2
      <4> QED BY <4>2, <4>3
    <3>2. ASSUME NEW e, e \in ToSet(s) \cup ToSet(m)
          PROVE  e \in ToSet(all)
      BY <2>2, <2>3, <2>6, <2>7, <2>8, <3>2
    <3> QED BY <3>1, <3>2
  <2> QED BY <2>1, <2>5, <2>9 DEF s, m
<1>8. ToSet(imm') = {}
  BY <1>1 DEF ToSet
<1>9. TypeInv'
  <2>1. ThreadTypes'
    BY <1>1, <1>6 DEF ThreadTypes, TypeInv, locals
  <2>2. StoreTypes'
    <3>1. level0' \in Nat
      BY <1>1, <1>2
    <3>2. imm' \in Seq(Batch)
      BY <1>1
    <3>3. logs' # <<>>
      BY <1>3, <1>4
    <3> QED BY <1>1, <1>4, <1>7, <3>1, <3>2, <3>3 DEF StoreTypes, TypeInv
  <2>3. BackTypes'
    <3>1. editLog' \in 1 .. Len(logs')
      BY <1>1, <1>3, <1>4
    <3> QED BY <1>1, <1>6, <3>1 DEF BackTypes, TypeInv
  <2>4. HistTypes'
    BY <1>1 DEF HistTypes, TypeInv, hist
  <2> QED BY <2>1, <2>2, <2>3, <2>4 DEF TypeInv
<1>10. Queue' /\ Tickets' /\ Group' /\ Accepted'
  BY <1>1 DEF Queue, Tickets, Group, Accepted, IsRange, locals, hist
<1>11. Numbered' = Numbered
  BY <1>1, SameNumbers DEF locals
<1>12. Inserting'
  <2>1. \A k : Ends(k)' <=> Ends(k)
    BY <1>1, <1>11 DEF Ends, Whole
  <2> QED BY <1>1, <1>11, <2>1 DEF Inserting
<1>13. Flushed'
  <2>1. Stored' = Stored
    <3>1. tables \o imm \o <<>> \o mem = tables \o imm \o mem
      BY <1>2
    <3> QED BY <1>1, <3>1 DEF Stored
  <2>2. \A e \in ToSet(imm') \cup ToSet(tables') : Whole(e)'
    BY <1>1, <1>7, <1>8 DEF Flushed, Whole
  <2> QED BY <1>1, <2>1, <2>2 DEF Flushed
<1>14. Logged'
  <2>1. \A i \in DOMAIN logs' : logs'[i].synced <= Len(logs'[i].recs)
    <3>1. \A i \in 1 .. Len(logs) : logs[i].synced <= Len(logs[i].recs)
      BY <1>2 DEF Logged
    <3> QED BY <1>3, <1>4, <3>1
  <2> QED BY <1>1, <1>5, <1>8, <1>11, <2>1 DEF Logged
<1>15. ASSUME NEW b, Safe(b)
       PROVE  Safe(b)'
  <2>1. In(b, tables) \/ In(b, imm) => In(b, tables)'
    BY <1>7 DEF In
  <2>2. In(b, mem) => In(b, mem)'
    BY <1>1 DEF In
  <2>3. OnDisk(b, Len(logs)) => OnDisk(b, Len(logs))'
    <3>1. OnDisk(b, Len(logs)) <=> \E k \in 1 .. LastLog.synced : \E e \in ToSet(LastLog.recs[k]) : e.id = b
      BY DEF OnDisk, LastLog
    <3>2. OnDisk(b, Len(logs))' <=> \E k \in 1 .. LastLog'.synced : \E e \in ToSet(LastLog'.recs[k]) : e.id = b
      BY DEF OnDisk, LastLog
    <3> QED BY <1>5, <3>1, <3>2
  <2> QED BY <1>15, <2>1, <2>2, <2>3 DEF Safe
<1>16. Durable'
  BY <1>1, <1>15 DEF Durable, locals, hist
<1>17. Background'
  BY <1>1, <1>6 DEF Background
<1> QED BY <1>9, <1>10, <1>12, <1>13, <1>14, <1>16, <1>17

\* The group is served and leaves the queue.
LEMMA AnswerStep ==
    ASSUME IInv, NEW t \in Threads, Answer(t)
    PROVE  IInv'
<1> USE WriteQueueAssumption DEF IInv
<1> DEFINE served == ToSet(group)
           rest == SubSeq(writers, Len(group) + 1, Len(writers))
           ids == {call[u].id : u \in served}
           n == Len(group)
           W == Len(writers)
           p == AfterWrite(t, call[t].ok)
<1>1. /\ pc[t] = "answer" /\ writers' = rest /\ asleep' \subseteq asleep
      /\ call' = [u \in Threads |->
                    IF u \in served THEN [call[u] EXCEPT !.done = TRUE, !.ok = call[t].ok] ELSE call[u]]
      /\ outcome' = [b \in DOMAIN outcome |->
                       IF b \in ids THEN IF call[t].ok THEN "ok" ELSE "error" ELSE outcome[b]]
      /\ mutex' = None /\ Goto(t, p) /\ group' = <<>> /\ force' = FALSE /\ delay' = FALSE
      /\ UNCHANGED <<store, back, shuttingDown, ops, ranges, syncs, late>>
  BY DEF Answer
<1>2. pc[t] \in Leading /\ pc[t] \in Working
  BY <1>1 DEF Leading, Working
<1>3. \A u \in Threads : u # t => pc[u] \notin Working
  BY <1>2, Alone
<1>4. /\ writers \in Seq(Threads) /\ group \in Seq(Threads) /\ call \in [Threads -> Calls]
      /\ W \in Nat /\ n \in Nat /\ n > 0 /\ n <= W /\ writers[1] = t /\ group[1] = t
      /\ \A i \in 1 .. n : group[i] = writers[i]
  <2>1. writers \in Seq(Threads) /\ group \in Seq(Threads) /\ call \in [Threads -> Calls]
    BY DEF TypeInv, ThreadTypes
  <2>2. W \in Nat /\ n \in Nat /\ n > 0
    BY <1>2, <2>1 DEF Group
  <2>3. n <= W /\ \A i \in 1 .. n : group[i] = writers[i]
    BY DEF Group
  <2>4. writers[1] = t
    BY <1>2, Alone
  <2> QED BY <2>1, <2>2, <2>3, <2>4
<1>5. p \in {"idle", "memwait", "start"} /\ p \in PCs
  BY DEF AfterWrite, PCs
<1>6. pc' \in [Threads -> PCs] /\ pc'[t] = p /\ \A u \in Threads : u # t => pc'[u] = pc[u]
  <2> HIDE DEF p
  <2> QED BY <1>1, <1>5, Move
<1>7. \A u \in Threads : pc'[u] \notin Working
  BY <1>3, <1>5, <1>6 DEF Working, Leading
<1> HIDE DEF p
<1>8. /\ writers' \in Seq(Threads) /\ Len(writers') = W - n
      /\ \A i \in 1 .. W - n : writers'[i] = writers[n + i]
  <2>1. n + 1 \in 1 .. W + 1 /\ W \in n + 1 - 1 .. W /\ W - (n + 1) + 1 = W - n
    BY <1>4
  <2> DEFINE m == n + 1
  <2>2. \A i \in 1 .. W - n : m + i - 1 = n + i
    BY <1>4
  <2>3. writers' = SubSeq(writers, m, W)
    BY <1>1
  <2> HIDE DEF n, W, rest
  <2>4. m \in 1 .. Len(writers) + 1 /\ W \in m - 1 .. Len(writers) /\ W - m + 1 = W - n
    BY <2>1 DEF W
  <2> HIDE DEF m
  <2>5. /\ SubSeq(writers, m, W) \in Seq(Threads)
        /\ Len(SubSeq(writers, m, W)) = W - m + 1
        /\ \A i \in 1 .. W - m + 1 : SubSeq(writers, m, W)[i] = writers[m + i - 1]
    BY <1>4, <2>4, Part
  <2> QED BY <2>2, <2>3, <2>4, <2>5
<1>9. \A u : u \in served <=> \E i \in 1 .. n : writers[i] = u
  BY <1>4, Elements
<1>10. \A u : u \in ToSet(writers') <=> \E i \in 1 .. W - n : writers[n + i] = u
  <2> DEFINE s == writers'
  <2>1. s \in Seq(Threads) /\ Len(s) = W - n /\ \A i \in 1 .. W - n : s[i] = writers[n + i]
    BY <1>8
  <2> HIDE DEF s
  <2>2. \A u : u \in ToSet(s) <=> \E i \in 1 .. Len(s) : s[i] = u
    BY <2>1, Elements
  <2>3. \A u : u \in ToSet(s) <=> \E i \in 1 .. W - n : writers[n + i] = u
    <3> HIDE DEF W, n
    <3> QED BY <2>1, <2>2
  <2> QED BY <2>3 DEF s
<1>11. \A u : u \in ToSet(writers) <=> \E i \in 1 .. W : writers[i] = u
  BY <1>4, Elements
<1>12. DOMAIN writers = 1 .. W /\ DOMAIN writers' = 1 .. W - n
  BY <1>4, <1>8
<1> HIDE DEF served, rest, n, W
<1>13. \A i \in 1 .. W - n : n + i \in 1 .. W /\ n + i \notin 1 .. n
  BY <1>4
<1>14. \A i \in 1 .. n : i \in 1 .. W
  BY <1>4
<1>15. ASSUME NEW u, u \in ToSet(writers')
       PROVE  u \in ToSet(writers) /\ u \notin served
  <2>1. PICK i \in 1 .. W - n : writers[n + i] = u
    BY <1>10, <1>15
  <2>2. u \in ToSet(writers)
    BY <1>11, <1>13, <2>1
  <2>3. ASSUME u \in served
        PROVE  FALSE
    <3>1. PICK j \in 1 .. n : writers[j] = u
      BY <1>9, <2>3
    <3>2. n + i = j
      BY <1>12, <1>13, <1>14, <2>1, <3>1 DEF Queue
    <3> QED BY <1>13, <3>1, <3>2
  <2> QED BY <2>2, <2>3
<1>16. ASSUME NEW u, u \in ToSet(writers), u \notin served
       PROVE  u \in ToSet(writers')
  <2>1. PICK i \in 1 .. W : writers[i] = u
    BY <1>11, <1>16
  <2>2. i \notin 1 .. n
    BY <1>9, <1>16, <2>1
  <2>3. i - n \in 1 .. W - n /\ n + (i - n) = i
    BY <1>4, <2>2
  <2> QED BY <1>10, <2>1, <2>3
<1>17. served \subseteq ToSet(writers) /\ served \subseteq Threads /\ ToSet(writers) \subseteq Threads /\ t \in served
  <2>1. 1 \in 1 .. n
    BY <1>4
  <2> QED BY <1>4, <1>9, <1>11, <1>14, <2>1, Elements
<1>18. /\ call' \in [Threads -> Calls]
       /\ \A u \in Threads : call'[u].id = call[u].id /\ call'[u].size = call[u].size /\ call'[u].sync = call[u].sync
       /\ \A u \in served : call'[u].done = TRUE
       /\ \A u \in Threads : u \notin served => call'[u] = call[u]
  <2> DEFINE ok == call[t].ok
  <2>1. ok \in BOOLEAN
    BY <1>4 DEF Calls
  <2> HIDE DEF ok
  <2>2. ASSUME NEW c \in Calls
        PROVE  /\ [c EXCEPT !.done = TRUE, !.ok = ok] \in Calls
               /\ [c EXCEPT !.done = TRUE, !.ok = ok].id = c.id
               /\ [c EXCEPT !.done = TRUE, !.ok = ok].size = c.size
               /\ [c EXCEPT !.done = TRUE, !.ok = ok].sync = c.sync
               /\ [c EXCEPT !.done = TRUE, !.ok = ok].done = TRUE
    BY <2>1 DEF Calls
  <2>3. call' = [u \in Threads |-> IF u \in served THEN [call[u] EXCEPT !.done = TRUE, !.ok = ok] ELSE call[u]]
    BY <1>1 DEF ok
  <2>4. \A u \in Threads : call[u] \in Calls
    BY <1>4
  <2>5. ASSUME NEW u \in Threads
        PROVE  /\ call'[u] \in Calls
               /\ call'[u].id = call[u].id /\ call'[u].size = call[u].size /\ call'[u].sync = call[u].sync
               /\ u \in served => call'[u].done = TRUE
               /\ u \notin served => call'[u] = call[u]
    <3> DEFINE c == call[u]
    <3>1. c \in Calls /\ call'[u] = IF u \in served THEN [c EXCEPT !.done = TRUE, !.ok = ok] ELSE c
      BY <2>3, <2>4
    <3> HIDE DEF c
    <3>2. /\ call'[u] \in Calls
          /\ call'[u].id = c.id /\ call'[u].size = c.size /\ call'[u].sync = c.sync
          /\ u \in served => call'[u].done = TRUE
          /\ u \notin served => call'[u] = c
      BY <2>2, <3>1
    <3> QED BY <3>2 DEF c
  <2>6. call' \in [Threads -> Calls]
    <3>1. call' = [u \in Threads |-> call'[u]]
      BY <2>3
    <3> QED BY <2>5, <3>1
  <2> QED BY <1>17, <2>5, <2>6
<1>19. /\ outcome \in [1 .. MaxOps -> {"none", "ok", "error"}]
       /\ outcome' \in [1 .. MaxOps -> {"none", "ok", "error"}]
       /\ \A b \in 1 .. MaxOps : b \notin ids => outcome'[b] = outcome[b]
       /\ \A b \in 1 .. MaxOps : b \in ids /\ outcome'[b] = "ok" => call[t].ok
  <2>1. outcome \in [1 .. MaxOps -> {"none", "ok", "error"}]
    BY DEF TypeInv, HistTypes
  <2> HIDE DEF ids
  <2> QED BY <1>1, <2>1
<1>20. TypeInv'
  <2>1. ThreadTypes'
    <3>1. asleep' \subseteq Threads
      BY <1>1 DEF TypeInv, ThreadTypes
    <3>2. group' \in Seq(Threads)
      <4>1. group' = <<>>
        BY <1>1
      <4>2. <<>> \in Seq(Threads)
        OBVIOUS
      <4> QED BY <4>1, <4>2
    <3> QED BY <1>1, <1>6, <1>8, <1>18, <3>1, <3>2 DEF ThreadTypes
  <2>2. StoreTypes'
    BY <1>1 DEF StoreTypes, TypeInv, store
  <2>3. BackTypes'
    BY <1>1, BackTypesSame DEF store
  <2>4. HistTypes'
    BY <1>1, <1>19 DEF HistTypes, TypeInv
  <2> QED BY <2>1, <2>2, <2>3, <2>4 DEF TypeInv
<1>21. Queue'
  <2>1. \A i, j \in DOMAIN writers' : writers'[i] = writers'[j] => i = j
    <3>1. SUFFICES ASSUME NEW i \in 1 .. W - n, NEW j \in 1 .. W - n, writers'[i] = writers'[j]
                   PROVE  i = j
      BY <1>12
    <3>2. n + i = n + j
      BY <1>8, <1>12, <1>13, <3>1 DEF Queue
    <3> QED BY <1>4, <3>2
  <2>2. ASSUME NEW u \in Threads
        PROVE  u \in ToSet(writers') <=> pc'[u] = "check" /\ ~call'[u].done
    <3>1. CASE u \in served
      BY <1>15, <1>18, <3>1
    <3>2. CASE u \notin served
      <4>1. u # t /\ pc'[u] = pc[u] /\ call'[u] = call[u] /\ pc[u] \notin Working
        BY <1>3, <1>6, <1>17, <1>18, <3>2
      <4>2. u \in ToSet(writers) <=> pc[u] = "check" /\ ~call[u].done
        BY <4>1 DEF Queue
      <4>3. u \in ToSet(writers') <=> u \in ToSet(writers)
        BY <1>15, <1>16, <3>2
      <4> QED BY <4>1, <4>2, <4>3
    <3> QED BY <3>1, <3>2
  <2> QED BY <1>7, <2>1, <2>2 DEF Queue
<1>22. ops' = ops /\ syncs' = syncs /\ late' = late
  BY <1>1
<1>23. Tickets'
  <2>1. \A u \in Threads :
          /\ call'[u].id <= ops'
          /\ IF call'[u].id = NullBatch THEN call'[u].size = 0 /\ ~call'[u].sync
             ELSE call'[u].size > 0 /\ (call'[u].sync <=> call'[u].id \in syncs')
    BY <1>18, <1>22 DEF Tickets, IsRange
  <2>2. \A u \in ToSet(writers') : u \in Threads /\ u \in ToSet(writers) /\ call'[u].id = call[u].id /\ u \notin served
    BY <1>15, <1>17, <1>18
  <2>3. \A u, v \in ToSet(writers') : call'[u].id # NullBatch /\ call'[u].id = call'[v].id => u = v
    BY <2>2 DEF Tickets, IsRange
  <2>4. ASSUME NEW u \in ToSet(writers'), call'[u].id # NullBatch
        PROVE  outcome'[call'[u].id] = "none"
    <3> DEFINE b == call[u].id
    <3>1. b \in 1 .. MaxOps /\ outcome[b] = "none"
      <4>1. call[u] \in Calls /\ u \in ToSet(writers) /\ b # NullBatch
        BY <1>4, <2>2, <2>4
      <4>2. b \in 0 .. MaxOps
        BY <4>1 DEF Calls
      <4>3. b \in 1 .. MaxOps
        BY <4>1, <4>2 DEF NullBatch
      <4> QED BY <4>1, <4>3 DEF Tickets, IsRange
    <3>2. b \notin ids
      BY <1>17, <2>2, <2>4 DEF Tickets, IsRange
    <3> HIDE DEF ids
    <3> QED BY <1>19, <2>2, <3>1, <3>2
  <2>5. ASSUME NEW b \in 1 .. MaxOps, b > ops
        PROVE  outcome'[b] = "none"
    <3>1. b \notin ids
      <4>1. \A u \in served : call[u].id <= ops /\ call[u].id \in Int
        BY <1>4, <1>17 DEF Tickets, Calls
      <4>2. ops \in Int
        BY DEF TypeInv, HistTypes
      <4> QED BY <2>5, <4>1, <4>2
    <3> HIDE DEF ids
    <3> QED BY <1>19, <2>5, <3>1 DEF Tickets
  <2>6. late' # {} => bgError'
    BY <1>1 DEF Tickets, back
  <2> QED BY <1>22, <2>1, <2>3, <2>4, <2>5, <2>6 DEF Tickets, IsRange
<1>24. Group'
  <2>1. \A u \in Threads : pc'[u] \notin Leading
    BY <1>7 DEF Working
  <2>2. Len(writers') \in Nat /\ Len(group') = 0
    <3>1. W - n \in Nat
      BY <1>4
    <3>2. group' = <<>>
      BY <1>1
    <3>3. Len(<<>>) = 0
      OBVIOUS
    <3> QED BY <1>8, <3>1, <3>2, <3>3
  <2> QED BY <2>1, <2>2 DEF Group
<1>25. Inserting' /\ Flushed' /\ Logged' /\ (\A b : Safe(b)' <=> Safe(b))
  <2>1. \A u \in Threads : pc[u] \notin Storing /\ pc'[u] \notin Storing
    BY <1>1, <1>3, <1>7 DEF Storing, Working, Leading
  <2> QED BY <1>1, <2>1, StoreKeeps DEF store
<1>26. \A b \in ids : \E i \in 1 .. Len(group) : call[group[i]].id = b
  <2>1. \A u \in served : \E i \in 1 .. Len(group) : group[i] = u
    BY <1>4, Elements DEF served
  <2> QED BY <2>1
<1>27. Durable'
  <2>1. ASSUME NEW b \in syncs, outcome'[b] = "ok"
        PROVE  Safe(b)
    <3>1. b \in 1 .. MaxOps /\ b # NullBatch
      BY DEF TypeInv, HistTypes, NullBatch
    <3>2. CASE b \in ids
      <4>1. PICK i \in 1 .. Len(group) : call[group[i]].id = b
        BY <1>26, <3>2
      <4>2. group[i] \in Threads
        BY <1>4
      <4>3. call[group[i]].sync
        BY <3>1, <4>1, <4>2 DEF Tickets, IsRange
      <4>4. call[t].ok
        BY <1>19, <2>1, <3>1, <3>2
      <4> QED BY <1>1, <4>1, <4>3, <4>4 DEF Durable
    <3>3. CASE b \notin ids
      <4> HIDE DEF ids
      <4> QED BY <1>19, <2>1, <3>1, <3>3 DEF Durable
    <3> QED BY <3>2, <3>3
  <2>2. \A u \in Threads : pc'[u] # "answer"
    BY <1>7 DEF Working, Leading
  <2> QED BY <1>22, <1>25, <2>1, <2>2 DEF Durable
<1>28. Accepted'
  <2>1. ASSUME NEW b \in late, outcome'[b] = "ok"
        PROVE  FALSE
    <3>1. b \in 1 .. MaxOps
      BY DEF TypeInv, HistTypes
    <3>2. CASE b \in ids
      <4>1. PICK i \in 1 .. Len(group) : call[group[i]].id = b
        BY <1>26, <3>2
      <4>2. call[t].ok
        BY <1>19, <2>1, <3>1, <3>2
      <4> QED BY <1>2, <4>1, <4>2 DEF Group
    <3>3. CASE b \notin ids
      <4> HIDE DEF ids
      <4> QED BY <1>19, <2>1, <3>1, <3>3 DEF Accepted
    <3> QED BY <3>2, <3>3
  <2> QED BY <1>22, <2>1 DEF Accepted
<1>29. Background'
  <2>1. pc[t] # "idle" /\ pc[t] \notin Closing \cup {"manual"} /\ pc'[t] \notin Closing
    BY <1>1, <1>5, <1>6 DEF Closing
  <2> QED BY <1>1, <1>6, <2>1, BackSame DEF back
<1> QED BY <1>20, <1>21, <1>23, <1>24, <1>25, <1>27, <1>28, <1>29

-----------------------------------------------------------------------------
(* The invariant and what it says. *)

\* The calls of WriteBegin and CompactRangeBegin are such as the queue expects.
LEMMA BeginsStep ==
    ASSUME IInv, NEW t \in Threads, WriteBegin(t) \/ CompactRangeBegin(t)
    PROVE  IInv'
<1> USE WriteQueueAssumption
<1>1. CASE WriteBegin(t)
  <2>1. PICK size \in Sizes, sync \in BOOLEAN :
           Enqueue(t, ops', size, sync) /\ syncs' = IF sync THEN syncs \cup {ops'} ELSE syncs
    BY <1>1 DEF WriteBegin
  <2>2. size \in Nat /\ size > 0
    OBVIOUS
  <2>3. /\ ops' = ops + 1 /\ ops < MaxOps
        /\ late' = IF bgError THEN late \cup {ops'} ELSE late
    BY <1>1 DEF WriteBegin
  <2> DEFINE id == ops'
  <2>4. Enqueue(t, id, size, sync)
    BY <2>1
  <2>5. /\ id = ops + 1 /\ ops' = ops + 1 /\ ops < MaxOps /\ size > 0
        /\ syncs' = IF sync THEN syncs \cup {id} ELSE syncs
        /\ late' = IF bgError THEN late \cup {id} ELSE late
    BY <2>1, <2>2, <2>3
  <2> HIDE DEF id
  <2> QED BY <2>2, <2>4, <2>5, JoinStep
<1>2. CASE CompactRangeBegin(t)
  <2> DEFINE id == NullBatch
             size == 0
             sync == FALSE
  <2>1. Enqueue(t, id, size, sync) /\ UNCHANGED <<ops, syncs, late>>
    BY <1>2 DEF CompactRangeBegin
  <2>2. id = NullBatch /\ size = 0 /\ sync = FALSE /\ size \in Nat /\ sync \in BOOLEAN
    OBVIOUS
  <2> HIDE DEF id, size, sync
  <2> QED BY <2>1, <2>2, JoinStep
<1> QED BY <1>1, <1>2

\* Every step keeps the invariant.
LEMMA NextKeeps == IInv /\ [Next]_vars => IInv'
<1> SUFFICES ASSUME IInv, [Next]_vars PROVE IInv'
  OBVIOUS
<1>1. CASE UNCHANGED vars
  <2>1. UNCHANGED <<mutex, asleep, writers, pc, call, group, force, delay, lastSequence, logs, mem, imm,
                    hasImm, tables, level0, bgError, scheduled, bgPc, editLog, manual, pieces, shuttingDown,
                    ops, ranges, outcome, syncs, late>>
    BY <1>1 DEF vars
  <2>2. Calm /\ BackTypes' /\ Background'
    BY <2>1 DEF Calm, IInv, TypeInv, BackTypes, Background
  <2>3. TypeInv'
    <3>1. /\ mutex' \in Threads \cup {None} /\ asleep' \subseteq Threads /\ pc' \in [Threads -> PCs]
          /\ force' \in BOOLEAN /\ delay' \in BOOLEAN /\ level0' \in Nat
      BY <2>1 DEF IInv, TypeInv, ThreadTypes, StoreTypes
    <3> QED BY <2>2, <3>1, CalmTypes
  <2> QED BY <2>1, <2>2, <2>3, QuietStep
<1>2. ASSUME NEW t \in Threads, WriteBegin(t) \/ CompactRangeBegin(t) \/ CloseBegin(t)
      PROVE  IInv'
  BY <1>2, BeginsStep, CloseBeginStep
<1>3. ASSUME NEW t \in Threads, WriteStep(t)
      PROVE  IInv'
  <2>1. RoomError(t) \/ RoomNoFile(t) => pc[t] = "room" /\ RoomFails(t)
    BY DEF RoomError, RoomNoFile, MustSwitch
  <2> QED BY <1>3, <2>1, CheckStep, RefusedStep, DelayStep, FoundStep, WaitStep, SwitchStep, AddStep, SyncStep,
             InsertStep, RelockStep, AnswerStep DEF WriteStep
<1>4. ASSUME NEW t \in Threads, RangeStep(t) \/ CloseWait(t)
      PROVE  IInv'
  BY <1>4, MemTableWaitStep, RangeStartStep, RangeLoopStep, RangeReturnStep, CloseWaitStep DEF RangeStep
<1>5. CASE BackgroundStep
  <2>1. Compaction => \E ok \in BOOLEAN : CompactionEnds(ok)
    BY DEF Compaction, CompactionSucceeds, CompactionFails
  <2> QED BY <1>5, <2>1, NothingStep, BeginStep, FinishedStep, PhaseStep, InstalledStep, FlushFailsStep,
             CompactionStep DEF BackgroundStep
<1> QED BY <1>1, <1>2, <1>3, <1>4, <1>5 DEF Next, ThreadStep, BgStep

\* The invariant holds always.
LEMMA Invariant == Spec => []IInv
<1>1. Init => IInv
  BY InitInv
<1>2. IInv /\ [Next]_vars => IInv'
  BY NextKeeps
<1> QED BY <1>1, <1>2, PTL DEF Spec

\* The types the code declares, for any number of threads and any bounds.
THEOREM TypesHold == Spec => []TypeOK
<1>1. IInv => TypeOK
  <2> SUFFICES ASSUME IInv PROVE TypeOK
    OBVIOUS
  <2> USE DEF IInv, TypeInv
  <2>1. ToSet(writers) \subseteq Threads /\ ToSet(group) \subseteq Threads
    BY Elements DEF ThreadTypes
  <2>2. \A t \in Threads : call[t].id \in 0 .. MaxOps /\ call[t].size \in Nat
    BY DEF ThreadTypes, Calls
  <2>3. {force, delay, hasImm, bgError, scheduled, shuttingDown} \subseteq BOOLEAN
    BY DEF ThreadTypes, StoreTypes, BackTypes
  <2>4. \A t \in Threads : pieces[t].left \in 0 .. MaxPieces
    BY DEF BackTypes
  <2> QED BY <2>1, <2>2, <2>3, <2>4 DEF TypeOK, ThreadTypes, StoreTypes, BackTypes, HistTypes
<1> QED BY <1>1, Invariant, PTL

\* WritesSafe: one thread at a time uses log_ and mem_; batches are seen whole
\* and numbered in their order; what is only in memory is in a log that is
\* there; what was answered OK with sync is on the disk; nothing submitted after
\* a background error is accepted; the destructor leaves no work behind.
THEOREM WritesSafeHolds == Spec => []WritesSafe
<1>1. ASSUME IInv
      PROVE  OneLogger
  <2>1. \A t \in AtWork : t \in Threads /\ pc[t] \in Working
    BY DEF AtWork, Working, Leading
  <2>2. \A t \in Threads : pc[t] \in Working => writers # <<>> /\ t = Head(writers)
    BY <1>1, Alone DEF IInv, Queue
  <2> QED BY <2>1, <2>2 DEF OneLogger
<1>2. ASSUME IInv
      PROVE  BatchesWhole
  <2> USE <1>1 DEF IInv
  <2>1. ASSUME NEW e \in ToSet(mem)
        PROVE  Whole(e) \/ e.seq > lastSequence
    <3>1. mem \in Seq(Batch)
      BY <1>2 DEF TypeInv, StoreTypes
    <3> DEFINE L == Len(mem)
    <3>2. L \in Nat /\ DOMAIN mem = 1 .. L
      BY <3>1
    <3>3. PICK i \in 1 .. L : mem[i] = e
      BY <3>2 DEF ToSet
    <3>4. CASE \A t \in Threads : pc[t] \notin {"insert", "written"}
      <4>1. Ends(0)
        BY <1>2, <3>4 DEF Inserting
      <4>2. L - 0 = L
        BY <3>2
      <4> QED BY <3>3, <4>1, <4>2 DEF Ends
    <3>5. CASE \E t \in Threads : pc[t] \in {"insert", "written"}
      <4>1. PICK t \in Threads : pc[t] \in {"insert", "written"}
        BY <3>5
      <4>2. /\ Len(Numbered) \in Nat /\ \A k \in 1 .. Len(Numbered) : Numbered[k].seq > lastSequence
        BY <1>2, <4>1, GroupNumbers DEF Leading
      <4>3. PICK k \in 0 .. Len(Numbered) : Ends(k)
        BY <1>2, <4>1, <4>2 DEF Inserting
      <4>4. CASE i \in 1 .. L - k
        BY <3>3, <4>3, <4>4 DEF Ends
      <4>5. CASE i \notin 1 .. L - k
        <5>0. k \in 0 .. L
          BY <4>3 DEF Ends
        <5>1. i - (L - k) \in 1 .. k /\ L - k + (i - (L - k)) = i
          BY <3>2, <4>5, <5>0
        <5>2. mem[i] = Numbered[i - (L - k)]
          BY <4>3, <5>1 DEF Ends
        <5> QED BY <3>3, <4>2, <5>1, <5>2
      <4> QED BY <4>4, <4>5
    <3> QED BY <3>4, <3>5
  <2>2. \A i \in DOMAIN Stored : Whole(Stored[i]) \/ Stored[i].seq > lastSequence
    BY <1>2, <2>1, StoredIs DEF Flushed
  <2> QED BY <1>2, <2>2 DEF BatchesWhole, Whole, Flushed, Ordered
<1>3. ASSUME IInv
      PROVE  Recoverable
  <2>1. ASSUME NEW e \in ToSet(mem)
        PROVE  InLogs(e)
    <3>1. Len(logs) \in DOMAIN logs
      BY <1>3 DEF IInv, TypeInv, StoreTypes
    <3> QED BY <1>3, <3>1 DEF IInv, Logged, LastLog, InLogs
  <2> QED BY <1>3, <2>1 DEF IInv, Logged, Recoverable
<1>4. ASSUME IInv
      PROVE  SyncDurable
  <2>1. ASSUME NEW b, Safe(b)
        PROVE  Synced(b)
    <3>1. Len(logs) \in DOMAIN logs
      BY <1>4 DEF IInv, TypeInv, StoreTypes
    <3> QED BY <2>1, <3>1 DEF Safe, In, OnDisk, Synced
  <2> QED BY <1>4, <2>1 DEF IInv, Durable, SyncDurable
<1>5. IInv => ErrorSticks /\ QuietWhenDeleted
  BY DEF IInv, Accepted, ErrorSticks, Background, QuietWhenDeleted
<1>6. IInv => WritesSafe
  BY <1>1, <1>2, <1>3, <1>4, <1>5 DEF WritesSafe
<1> QED BY <1>6, Invariant, PTL

-----------------------------------------------------------------------------
(* The refinement of Journal: what readers see. *)

\* Some entry of batch b is stored and visible.
Seen(b) == \E i \in DOMAIN Stored : Stored[i].id = b /\ Stored[i].seq <= lastSequence

\* The leader has taken the lock back, and its group is about to be told OK.
Accepting(t) == pc[t] = "answer" /\ call[t].ok

\* The batch of a writer in the queue is seen by readers only, and always, while
\* its group is about to be told OK; what is stored was submitted.
Journaled ==
    /\ \A i \in DOMAIN Stored : Stored[i].id <= ops
    /\ \A t \in ToSet(writers) : ~IsRange(t) /\ Seen(call[t].id) =>
          t \in ToSet(group) /\ \E u \in Threads : Accepting(u)
    /\ \A u \in Threads : Accepting(u) =>
          \A i \in 1 .. Len(group) : ~IsRange(group[i]) => Seen(call[group[i]].id)

\* In a sequence ordered by number the visible batches are the first ones.
LEMMA VisibleIs ==
    ASSUME NEW s \in Seq(Batch), NEW n \in Nat, NEW m \in 0 .. Len(s),
           \A i \in 1 .. Len(s) : i <= m <=> s[i].seq <= n
    PROVE  VisibleUpTo(s, n) = [k \in 1 .. m |-> s[k].id]
<1>1. Len(s) \in Nat /\ DOMAIN s = 1 .. Len(s) /\ m \in Nat /\ m <= Len(s)
  OBVIOUS
<1>2. {i \in DOMAIN s : s[i].seq <= n} = 1 .. m
  BY <1>1
<1>3. Cardinality(1 .. m) = m
  BY <1>1, FS_Interval
<1>4. ASSUME NEW k \in 1 .. m
      PROVE  Nth(1 .. m, k) = k
  <2>1. ASSUME NEW i \in 1 .. m
        PROVE  Cardinality({j \in 1 .. m : j <= i}) = i
    <3>1. {j \in 1 .. m : j <= i} = 1 .. i /\ i \in Nat
      BY <1>1
    <3>2. Cardinality(1 .. i) = i
      BY <3>1, FS_Interval
    <3> QED BY <3>1, <3>2
  <2>2. \A i \in 1 .. m : Cardinality({j \in 1 .. m : j <= i}) = k <=> i = k
    BY <2>1
  <2> DEFINE Is(i) == Cardinality({j \in 1 .. m : j <= i}) = k
  <2>3. Nth(1 .. m, k) = CHOOSE i \in 1 .. m : Is(i)
    BY DEF Nth
  <2>4. \A i \in 1 .. m : Is(i) <=> i = k
    BY <2>2
  <2> HIDE DEF Is
  <2> QED BY <2>3, <2>4
<1>5. VisibleUpTo(s, n) = [k \in 1 .. Cardinality(1 .. m) |-> s[Nth(1 .. m, k)].id]
  BY <1>2 DEF VisibleUpTo
<1> QED BY <1>3, <1>4, <1>5

\* What is stored ends in the batches of the group that are in.
LEMMA StoredEnds ==
    ASSUME IInv, NEW k \in Nat, Ends(k)
    PROVE  /\ k <= Len(Stored)
           /\ \A i \in 1 .. Len(Stored) - k : Whole(Stored[i])
           /\ \A j \in 1 .. k : Stored[Len(Stored) - k + j] = Numbered[j]
<1> DEFINE old == tables \o imm
           M == Len(old)
           L == Len(mem)
           all == old \o mem
<1>1. tables \in Seq(Batch) /\ imm \in Seq(Batch) /\ mem \in Seq(Batch)
  BY DEF IInv, TypeInv, StoreTypes
<1>2. old \in Seq(Batch) /\ M \in Nat /\ L \in Nat
  BY <1>1
<1>3. Stored = all
  BY DEF Stored
<1>4. \A i \in 1 .. M : old[i] \in ToSet(tables) \cup ToSet(imm)
  <2>1. \A i \in 1 .. Len(tables) : tables[i] \in ToSet(tables)
    BY <1>1, Elements
  <2>2. \A i \in 1 .. Len(imm) : imm[i] \in ToSet(imm)
    BY <1>1, Elements
  <2>3. M = Len(tables) + Len(imm)
    BY <1>1
  <2>4. ASSUME NEW i \in 1 .. M
        PROVE  old[i] \in ToSet(tables) \cup ToSet(imm)
    <3>1. CASE i <= Len(tables)
      <4>1. i \in 1 .. Len(tables) /\ old[i] = tables[i]
        BY <1>1, <2>3, <3>1
      <4> QED BY <2>1, <4>1
    <3>2. CASE ~(i <= Len(tables))
      <4>1. i - Len(tables) \in 1 .. Len(imm) /\ old[i] = imm[i - Len(tables)]
        BY <1>1, <2>3, <3>2
      <4> HIDE DEF old
      <4> QED BY <2>2, <4>1
    <3> QED BY <3>1, <3>2
  <2> QED BY <2>4
<1>5. \A i \in 1 .. M : Whole(old[i])
  BY <1>4 DEF IInv, Flushed
<1> HIDE DEF old
<1>6. /\ Len(all) = M + L
      /\ \A i \in 1 .. M : all[i] = old[i]
      /\ \A i \in 1 .. L : all[M + i] = mem[i]
  BY <1>1, <1>2
<1>7. k <= L /\ (\A i \in 1 .. L - k : Whole(mem[i])) /\ \A j \in 1 .. k : mem[L - k + j] = Numbered[j]
  BY DEF Ends
<1> HIDE DEF all, M, L
<1>8. \A i \in 1 .. M + L - k : Whole(all[i])
  <2>1. SUFFICES ASSUME NEW i \in 1 .. M + L - k
                 PROVE  Whole(all[i])
    OBVIOUS
  <2>2. CASE i \in 1 .. M
    BY <1>5, <1>6, <2>2
  <2>3. CASE i \notin 1 .. M
    <3>1. i - M \in 1 .. L - k /\ M + (i - M) = i /\ i - M \in 1 .. L
      BY <1>2, <1>7, <2>3
    <3> QED BY <1>6, <1>7, <3>1
  <2> QED BY <2>2, <2>3
<1>9. \A j \in 1 .. k : all[M + L - k + j] = Numbered[j]
  <2>1. SUFFICES ASSUME NEW j \in 1 .. k
                 PROVE  all[M + L - k + j] = Numbered[j]
    OBVIOUS
  <2>2. L - k + j \in 1 .. L /\ M + L - k + j = M + (L - k + j)
    BY <1>2, <1>7
  <2> QED BY <1>6, <1>7, <2>2
<1> QED BY <1>2, <1>3, <1>6, <1>7, <1>8, <1>9

Journal == VisibleUpTo(Stored, lastSequence)

\* The journal of a store in which the last k batches are not visible.
LEMMA JournalIs ==
    ASSUME IInv, NEW k \in Nat, Ends(k), \A j \in 1 .. k : Numbered[j].seq > lastSequence
    PROVE  /\ Len(Stored) - k \in 0 .. Len(Stored)
           /\ \A i \in 1 .. Len(Stored) : i <= Len(Stored) - k <=> Stored[i].seq <= lastSequence
           /\ \A j \in 1 .. k : Stored[Len(Stored) - k + j] = Numbered[j]
           /\ Journal = [i \in 1 .. Len(Stored) - k |-> Stored[i].id]
           /\ \A b : Seen(b) <=> \E i \in 1 .. Len(Stored) - k : Stored[i].id = b
<1> DEFINE s == Stored
           m == Len(s) - k
           n == lastSequence
<1>1. s \in Seq(Batch) /\ DOMAIN s = 1 .. Len(s) /\ Len(s) \in Nat /\ n \in Nat
  BY StoredIs DEF IInv, TypeInv, StoreTypes
<1>2. k <= Len(s) /\ (\A i \in 1 .. m : Whole(s[i])) /\ \A j \in 1 .. k : s[m + j] = Numbered[j]
  BY StoredEnds
<1>3. \A i \in 1 .. Len(s) : s[i].seq \in Nat /\ s[i].size \in Nat \ {0}
  <2> HIDE DEF s
  <2>1. \A i \in 1 .. Len(s) : s[i] \in Batch
    BY <1>1
  <2> QED BY <2>1 DEF Batch
<1> HIDE DEF s
<1>4. m \in 0 .. Len(s) /\ m \in Nat
  BY <1>1, <1>2
<1>5. ASSUME NEW i \in 1 .. Len(s)
      PROVE  i <= m <=> s[i].seq <= n
  <2>1. CASE i <= m
    <3>1. Whole(s[i])
      BY <1>2, <1>4, <2>1
    <3>2. s[i].seq + s[i].size - 1 <= n
      BY <3>1 DEF Whole
    <3> QED BY <1>1, <1>3, <2>1, <3>2
  <2>2. CASE ~(i <= m)
    <3>1. i - m \in 1 .. k /\ m + (i - m) = i
      BY <1>1, <1>4, <2>2
    <3>2. s[i].seq > n
      BY <1>2, <3>1
    <3> QED BY <1>1, <1>3, <2>2, <3>2
  <2> QED BY <2>1, <2>2
<1> HIDE DEF m, n
<1>6. VisibleUpTo(s, n) = [i \in 1 .. m |-> s[i].id]
  BY <1>1, <1>4, <1>5, VisibleIs
<1>7. \A b : Seen(b) <=> \E i \in 1 .. m : s[i].id = b
  <2>1. \A b : Seen(b) <=> \E i \in DOMAIN s : s[i].id = b /\ s[i].seq <= n
    BY DEF Seen, s, n
  <2>2. \A i \in 1 .. m : i \in 1 .. Len(s) /\ i <= m
    BY <1>1, <1>4
  <2>3. \A i \in 1 .. Len(s) : i <= m => i \in 1 .. m
    BY <1>1, <1>4
  <2> QED BY <1>1, <1>5, <2>1, <2>2, <2>3
<1> QED BY <1>2, <1>4, <1>5, <1>6, <1>7 DEF Journal, m, s, n

-----------------------------------------------------------------------------
(* The refinement of Journal: steps that leave it alone. *)

\* A step that leaves what is stored, the numbers, the queue, the group and the
\* answers alone.
JournalStill ==
    /\ Stored' = Stored
    /\ UNCHANGED <<lastSequence, ops, outcome, writers, group>>
    /\ \A t \in Threads : call'[t].id = call[t].id /\ (Accepting(t)' <=> Accepting(t))

\* Such a step is none of the journal's.
LEMMA StillKeeps ==
    ASSUME IInv, Journaled, JournalStill
    PROVE  Journaled' /\ UNCHANGED JournalOfCalls!jvars
<1> USE DEF JournalStill
<1>1. \A b : Seen(b)' <=> Seen(b)
  BY DEF Seen
<1>2. ToSet(writers) \subseteq Threads /\ \A i \in 1 .. Len(group) : group[i] \in Threads
  BY Elements DEF IInv, TypeInv, ThreadTypes
<1>3. Journaled'
  <2>1. \A u \in Threads : (~IsRange(u) /\ Seen(call[u].id))' <=> ~IsRange(u) /\ Seen(call[u].id)
    BY <1>1 DEF IsRange
  <2>2. \A i \in DOMAIN Stored' : Stored'[i].id <= ops'
    BY DEF Journaled
  <2>3. \A u \in Threads : IsRange(u)' <=> IsRange(u)
    BY DEF IsRange
  <2>4. \A u \in Threads : (Seen(call[u].id))' <=> Seen(call[u].id)
    BY <1>1
  <2>5. \A u \in ToSet(writers') : (~IsRange(u) /\ Seen(call[u].id))' =>
           u \in ToSet(group') /\ \E v \in Threads : Accepting(v)'
    BY <1>2, <2>1 DEF Journaled
  <2>6. \A u \in Threads : Accepting(u)' =>
          \A i \in 1 .. Len(group') : ~IsRange(group[i])' => Seen(call[group[i]].id)'
    <3>1. SUFFICES ASSUME NEW u \in Threads, Accepting(u)', NEW i \in 1 .. Len(group'), ~IsRange(group[i])'
                   PROVE  Seen(call[group[i]].id)'
      OBVIOUS
    <3>2. group'[i] = group[i] /\ group[i] \in Threads /\ Accepting(u)
      BY <1>2, <3>1
    <3>3. ~IsRange(group[i])
      BY <3>1, <3>2 DEF IsRange
    <3>4. Seen(call[group[i]].id)
      BY <3>1, <3>2, <3>3 DEF Journaled
    <3>5. call'[group'[i]].id = call[group[i]].id
      BY <3>2
    <3> QED BY <1>1, <3>4, <3>5
  <2> QED BY <2>2, <2>5, <2>6 DEF Journaled
<1>4. Journal' = Journal
  BY DEF Journal
<1> QED BY <1>3, <1>4 DEF JournalOfCalls!jvars, Journal

\* The leader takes its group, which is not told OK or has no batch.
LEMMA GroupTaken ==
    ASSUME IInv, Journaled, NEW t \in Threads, pc[t] = "room",
           Stored' = Stored, UNCHANGED <<lastSequence, ops, outcome, writers>>,
           \A u \in Threads : call'[u].id = call[u].id,
           \A u \in Threads : u # t => pc'[u] = pc[u],
           Accepting(t)' => IsRange(t) /\ group' = <<t>>
    PROVE  Journaled' /\ UNCHANGED JournalOfCalls!jvars
<1>1. \A b : Seen(b)' <=> Seen(b)
  BY DEF Seen
<1>2. ToSet(writers) \subseteq Threads
  BY Elements DEF IInv, TypeInv, ThreadTypes
<1>3. \A u \in Threads : ~Accepting(u) /\ (u # t => ~Accepting(u)')
  BY Alone DEF Accepting, Working, Leading
<1>4. \A i \in DOMAIN Stored' : Stored'[i].id <= ops'
  BY DEF Journaled
<1>5. ASSUME NEW u \in ToSet(writers)
      PROVE  ~((~IsRange(u) /\ Seen(call[u].id))')
  <2>1. ~(~IsRange(u) /\ Seen(call[u].id)) /\ call'[u].id = call[u].id
    BY <1>2, <1>3 DEF Journaled
  <2> QED BY <1>1, <2>1 DEF IsRange
<1>6. ASSUME Accepting(t)', NEW i \in 1 .. Len(group')
      PROVE  IsRange(group[i])'
  <2>1. IsRange(t) /\ group' = <<t>>
    BY <1>6
  <2>2. group'[i] = t
    BY <2>1
  <2> QED BY <2>1, <2>2 DEF IsRange
<1>7. Journaled'
  BY <1>3, <1>4, <1>5, <1>6 DEF Journaled
<1>8. Journal' = Journal
  BY DEF Journal
<1> QED BY <1>7, <1>8 DEF JournalOfCalls!jvars, Journal

\* Nothing is submitted, stored or answered at first.
LEMMA JournalInit == Init => Journaled /\ JournalOfCalls!Init
<1> SUFFICES ASSUME Init PROVE Journaled /\ JournalOfCalls!Init
  OBVIOUS
<1> USE DEF Init
<1>1. Stored = <<>>
  BY DEF Stored
<1>2. DOMAIN Stored = {} /\ ToSet(writers) = {}
  BY <1>1 DEF ToSet
<1>3. Journaled
  BY <1>2 DEF Journaled, Accepting
<1>4. 1 .. ops = {}
  OBVIOUS
<1>5. Journal = <<>>
  <2> DEFINE s == Stored
             n == lastSequence
  <2>1. s \in Seq(Batch) /\ Len(s) = 0 /\ n \in Nat /\ 0 \in 0 .. Len(s)
    BY <1>1
  <2>2. \A i \in 1 .. Len(s) : i <= 0 <=> s[i].seq <= n
    BY <2>1
  <2> HIDE DEF s, n
  <2>3. VisibleUpTo(s, n) = [k \in 1 .. 0 |-> s[k].id]
    BY <2>1, <2>2, VisibleIs
  <2>4. [k \in 1 .. 0 |-> s[k].id] = <<>>
    OBVIOUS
  <2> QED BY <2>3, <2>4 DEF Journal, s, n
<1> QED BY <1>3, <1>4, <1>5 DEF JournalOfCalls!Init, Journal

\* A step of a thread that answers nobody and leaves the queue alone.
LEMMA Elsewhere ==
    ASSUME IInv, NEW t \in Threads, UNCHANGED <<writers, call, group, lastSequence, ops, outcome>>,
           Stored' = Stored, pc[t] # "answer",
           Stay \/ \E p \in PCs \ {"answer"} : Goto(t, p)
    PROVE  JournalStill
<1>1. \A u \in Threads : pc'[u] = "answer" <=> pc[u] = "answer"
  <2>1. CASE Stay
    BY <2>1 DEF Stay
  <2>2. ASSUME NEW p \in PCs \ {"answer"}, Goto(t, p)
        PROVE  \A u \in Threads : pc'[u] = "answer" <=> pc[u] = "answer"
    BY <2>2, Move
  <2> QED BY <2>1, <2>2
<1> QED BY <1>1 DEF JournalStill, Accepting

\* A switch of memtables moves what is stored, and reorders nothing.
LEMMA SwitchStores == ASSUME IInv, NEW t \in Threads, RoomSwitch(t) PROVE Stored' = Stored
<1>1. mem \in Seq(Batch) /\ tables \in Seq(Batch) /\ imm = <<>>
  BY DEF IInv, TypeInv, StoreTypes, Flushed, RoomSwitch, MustSwitch
<1>2. tables' = tables /\ imm' = mem /\ mem' = <<>>
  BY DEF RoomSwitch
<1>3. tables \o mem \o <<>> = tables \o <<>> \o mem
  BY <1>1
<1> QED BY <1>1, <1>2, <1>3 DEF Stored

\* What the threads do besides joining the queue, taking a group, inserting it
\* and answering it.
LEMMA StillSteps ==
    ASSUME IInv, NEW t \in Threads,
           \/ CloseBegin(t) \/ WriteCheck(t) \/ RoomDelay(t) \/ RoomWait(t) \/ RoomSwitch(t)
           \/ AddRecord(t) \/ SyncLog(t) \/ RangeStep(t) \/ CloseWait(t)
    PROVE  JournalStill
<1>1. {"close", "deleted", "idle", "memwait", "start", "manual", "room", "delayed", "sync", "insert",
       "failed", "syncfailed"} \subseteq PCs \ {"answer"}
  BY DEF PCs, Working, Leading, Closing
<1>2. CASE CloseBegin(t)
  <2>1. UNCHANGED <<writers, call, group, lastSequence, ops, outcome>> /\ Stored' = Stored
    BY <1>2 DEF CloseBegin, locals, store, hist, Stored
  <2>2. pc[t] # "answer" /\ \E p \in PCs \ {"answer"} : Goto(t, p)
    BY <1>1, <1>2 DEF CloseBegin
  <2> QED BY <2>1, <2>2, Elsewhere
<1>3. CASE WriteCheck(t)
  <2>1. UNCHANGED <<writers, call, group, lastSequence, ops, outcome>> /\ Stored' = Stored
    BY <1>3 DEF WriteCheck, store, hist, Stored
  <2>2. AfterWrite(t, call[t].ok) \in PCs \ {"answer"}
    BY <1>1 DEF AfterWrite
  <2>3. pc[t] # "answer" /\ (Stay \/ \E p \in PCs \ {"answer"} : Goto(t, p))
    BY <1>1, <1>3, <2>2 DEF WriteCheck
  <2> QED BY <2>1, <2>3, Elsewhere
<1>4. CASE RoomDelay(t)
  <2>1. UNCHANGED <<writers, call, group, lastSequence, ops, outcome>> /\ Stored' = Stored
    BY <1>4 DEF RoomDelay, store, hist, Stored
  <2>2. pc[t] # "answer" /\ \E p \in PCs \ {"answer"} : Goto(t, p)
    BY <1>1, <1>4 DEF RoomDelay
  <2> QED BY <2>1, <2>2, Elsewhere
<1>5. CASE RoomWait(t)
  <2>1. UNCHANGED <<writers, call, group, lastSequence, ops, outcome>> /\ Stored' = Stored
    BY <1>5 DEF RoomWait, world, locals, store, hist, Stored
  <2> QED BY <1>5, <2>1, Elsewhere DEF RoomWait
<1>6. CASE RoomSwitch(t)
  <2>1. UNCHANGED <<writers, call, group, lastSequence, ops, outcome>> /\ pc[t] # "answer" /\ Stay
    BY <1>6 DEF RoomSwitch, MustSwitch, hist
  <2> QED BY <1>6, <2>1, SwitchStores, Elsewhere
<1>7. CASE AddRecord(t)
  <2>1. UNCHANGED <<writers, call, group, lastSequence, ops, outcome>> /\ Stored' = Stored
    BY <1>7 DEF AddRecord, locals, hist, Stored
  <2>2. pc[t] # "answer" /\ \E p \in PCs \ {"answer"} : Goto(t, p)
    BY <1>1, <1>7 DEF AddRecord
  <2> QED BY <2>1, <2>2, Elsewhere
<1>8. CASE SyncLog(t)
  <2>1. UNCHANGED <<writers, call, group, lastSequence, ops, outcome>> /\ Stored' = Stored
    BY <1>8 DEF SyncLog, locals, hist, Stored
  <2>2. pc[t] # "answer" /\ \E p \in PCs \ {"answer"} : Goto(t, p)
    BY <1>1, <1>8 DEF SyncLog
  <2> QED BY <2>1, <2>2, Elsewhere
<1>9. CASE RangeStep(t)
  <2>1. UNCHANGED <<writers, call, group, lastSequence, ops, outcome>> /\ Stored' = Stored
    BY <1>9 DEF RangeStep, MemTableWait, RangeStart, RangeLoop, RangeReturn, world, locals, store, hist, Stored
  <2>2. pc[t] # "answer" /\ (Stay \/ \E p \in PCs \ {"answer"} : Goto(t, p))
    BY <1>1, <1>9 DEF RangeStep, MemTableWait, RangeStart, RangeLoop, RangeReturn
  <2> QED BY <2>1, <2>2, Elsewhere
<1>10. CASE CloseWait(t)
  <2>1. UNCHANGED <<writers, call, group, lastSequence, ops, outcome>> /\ Stored' = Stored
    BY <1>10 DEF CloseWait, world, locals, store, hist, Stored
  <2>2. pc[t] # "answer" /\ (Stay \/ \E p \in PCs \ {"answer"} : Goto(t, p))
    BY <1>1, <1>10 DEF CloseWait
  <2> QED BY <2>1, <2>2, Elsewhere
<1> QED BY <1>2, <1>3, <1>4, <1>5, <1>6, <1>7, <1>8, <1>9, <1>10

\* The background thread moves what is stored, and reorders nothing.
LEMMA BackgroundStill == ASSUME IInv, BackgroundStep PROVE JournalStill
<1>1. UNCHANGED <<writers, pc, call, group, lastSequence, ops, outcome>>
  BY DEF BackgroundStep, BackgroundNothing, BackgroundBegin, ManualFinished, FlushStep, FlushInstalled,
         FlushFails, Compaction, CompactionSucceeds, CompactionFails, CompactionEnds, locals, store, hist
<1>2. Stored' = Stored
  <2>1. CASE FlushInstalled
    <3>1. mem \in Seq(Batch) /\ tables \in Seq(Batch) /\ imm \in Seq(Batch)
      BY DEF IInv, TypeInv, StoreTypes
    <3>2. tables \o imm \o <<>> \o mem = tables \o imm \o mem
      BY <3>1
    <3> QED BY <2>1, <3>2 DEF FlushInstalled, Stored
  <2>2. CASE ~FlushInstalled
    BY <2>2 DEF BackgroundStep, BackgroundNothing, BackgroundBegin, ManualFinished, FlushStep,
         FlushFails, Compaction, CompactionSucceeds, CompactionFails, CompactionEnds, store, Stored
  <2> QED BY <2>1, <2>2
<1> QED BY <1>1, <1>2 DEF JournalStill, Accepting

\* A call joins the queue, with the next batch or none.
LEMMA JoinJournals ==
    ASSUME IInv, Journaled, NEW t \in Threads, WriteBegin(t) \/ CompactRangeBegin(t)
    PROVE  Journaled' /\ [JournalOfCalls!Next]_(JournalOfCalls!jvars)
<1>1. PICK id, size, sync :
         /\ id \in {NullBatch, ops + 1} /\ Enqueue(t, id, size, sync)
         /\ \/ id = NullBatch /\ ops' = ops
            \/ id = ops + 1 /\ ops' = ops + 1 /\ ops < MaxOps
  BY DEF WriteBegin, CompactRangeBegin
<1>2. /\ pc[t] = "idle" /\ writers' = Append(writers, t) /\ call'[t].id = id
      /\ \A u \in Threads : u # t => call'[u] = call[u]
      /\ pc'[t] = "check" /\ \A u \in Threads : u # t => pc'[u] = pc[u]
      /\ UNCHANGED <<group, lastSequence, tables, imm, mem, outcome>>
  BY <1>1 DEF Enqueue, Goto, locals, store, IInv, TypeInv, ThreadTypes
<1>3. /\ writers \in Seq(Threads) /\ Len(writers) \in Nat
      /\ Len(group) \in Nat /\ Len(group) <= Len(writers)
      /\ \A i \in 1 .. Len(group) : group[i] = writers[i]
      /\ ops \in Nat /\ MaxOps \in Nat
  BY WriteQueueAssumption DEF IInv, TypeInv, ThreadTypes, HistTypes, Group
<1>4. t \notin ToSet(writers) /\ ToSet(writers) \subseteq Threads
  BY <1>2, <1>3, Elements DEF IInv, Queue, Working, Leading
<1>5. \A i \in 1 .. Len(group) : group[i] \in ToSet(writers)
  BY <1>3 DEF ToSet
<1>6. \A u : u \in ToSet(writers') => u = t \/ u \in ToSet(writers)
  <2>1. writers' \in Seq(Threads) /\ Len(writers') = Len(writers) + 1
        /\ writers'[Len(writers) + 1] = t /\ \A i \in 1 .. Len(writers) : writers'[i] = writers[i]
    BY <1>2, <1>3
  <2>2. \A u : u \in ToSet(writers') => \E i \in 1 .. Len(writers) + 1 : writers'[i] = u
    BY <2>1, Elements
  <2>3. \A i \in 1 .. Len(writers) + 1 : i \in 1 .. Len(writers) \/ i = Len(writers) + 1
    BY <1>3
  <2>4. \A i \in 1 .. Len(writers) : writers[i] \in ToSet(writers)
    BY <1>3, Elements
  <2> QED BY <2>1, <2>2, <2>3, <2>4
<1>7. Stored' = Stored /\ Journal' = Journal /\ \A b : Seen(b)' <=> Seen(b)
  BY <1>2 DEF Stored, Journal, Seen
<1>8. \A i \in DOMAIN Stored : Stored[i].id \in Nat /\ Stored[i].id <= ops /\ Stored[i].id > 0
  <2>1. \A i \in DOMAIN Stored : Stored[i] \in Batch
    BY StoredIs
  <2> QED BY <2>1, <1>3 DEF Batch, Journaled
<1>9. ~Seen(id) \/ id = NullBatch
  <2>1. id = NullBatch \/ id = ops + 1
    BY <1>1
  <2> QED BY <1>3, <1>8, <2>1 DEF Seen
<1>10. \A u \in Threads : Accepting(u)' <=> Accepting(u)
  <2>1. ~Accepting(t)' /\ ~Accepting(t)
    BY <1>2 DEF Accepting
  <2> QED BY <1>2, <2>1 DEF Accepting
<1>11. \A i \in DOMAIN Stored' : Stored'[i].id <= ops'
  <2>1. \A i \in DOMAIN Stored : Stored[i].id <= ops'
    BY <1>1, <1>3, <1>8
  <2> QED BY <1>7, <2>1
<1>12. ASSUME NEW u \in ToSet(writers'), ~IsRange(u)', Seen(call[u].id)'
       PROVE  u \in ToSet(group') /\ \E v \in Threads : Accepting(v)'
  <2>1. u # t
    <3>1. ASSUME u = t
          PROVE  FALSE
      <4>1. call'[u].id = id
        BY <1>2, <3>1
      <4>2. id # NullBatch /\ Seen(id)
        BY <1>7, <1>12, <4>1 DEF IsRange
      <4> QED BY <1>9, <4>2
    <3> QED BY <3>1
  <2>2. u \in ToSet(writers) /\ u \in Threads /\ call'[u] = call[u]
    BY <1>2, <1>4, <1>6, <2>1
  <2>3. ~IsRange(u) /\ Seen(call[u].id)
    BY <1>7, <1>12, <2>2 DEF IsRange
  <2> QED BY <1>2, <1>10, <2>2, <2>3 DEF Journaled
<1>13. ASSUME NEW u \in Threads, Accepting(u)', NEW i \in 1 .. Len(group'), ~IsRange(group[i])'
       PROVE  Seen(call[group[i]].id)'
  <2>1. group' = group /\ group[i] \in Threads /\ group[i] # t /\ Accepting(u)
    BY <1>2, <1>4, <1>5, <1>10, <1>13
  <2>2. call'[group'[i]] = call[group[i]]
    BY <1>2, <2>1
  <2>3. ~IsRange(group[i])
    BY <1>13, <2>2 DEF IsRange
  <2>4. Seen(call[group[i]].id)
    BY <1>2, <1>13, <2>1, <2>3 DEF Journaled
  <2> QED BY <1>7, <2>2, <2>4
<1>14. Journaled'
  BY <1>11, <1>12, <1>13 DEF Journaled
<1>15. CASE ops' = ops
  BY <1>2, <1>7, <1>14, <1>15 DEF JournalOfCalls!jvars, Journal
<1>16. CASE ops' = ops + 1 /\ ops < MaxOps
  <2>1. ops + 1 \in 1 .. MaxOps /\ ops + 1 \notin 1 .. ops /\ 1 .. ops' = (1 .. ops) \cup {ops + 1}
    BY <1>3, <1>16
  <2>2. JournalOfCalls!Submit(ops + 1)
    BY <1>2, <1>7, <2>1 DEF JournalOfCalls!Submit, Journal
  <2> QED BY <1>14, <2>1, <2>2 DEF JournalOfCalls!Next
<1> QED BY <1>1, <1>14, <1>15, <1>16

\* The front of the queue takes its group, or is refused.
LEMMA RoomJournals ==
    ASSUME IInv, Journaled, NEW t \in Threads, RoomError(t) \/ RoomNoFile(t) \/ RoomFound(t)
    PROVE  Journaled' /\ UNCHANGED JournalOfCalls!jvars
<1>1. pc[t] = "room"
  BY DEF RoomError, RoomNoFile, RoomFound, MustSwitch
<1>2. CASE RoomFails(t)
  <2>1. /\ UNCHANGED <<lastSequence, ops, outcome, writers>> /\ Stored' = Stored
        /\ Goto(t, "answer") /\ call' = [call EXCEPT ![t].ok = FALSE]
    BY <1>2 DEF RoomFails, store, hist, Stored
  <2>2. call'[t].ok = FALSE /\ \A u \in Threads : call'[u].id = call[u].id
    BY <2>1, StatusTypes
  <2>3. \A u \in Threads : u # t => pc'[u] = pc[u]
    BY <2>1, Move DEF PCs, Working, Leading
  <2>4. ~Accepting(t)'
    BY <2>2 DEF Accepting
  <2> QED BY <1>1, <2>1, <2>2, <2>3, <2>4, GroupTaken
<1>3. CASE RoomFound(t)
  <2>1. UNCHANGED <<lastSequence, ops, outcome, writers, call>> /\ Stored' = Stored
    BY <1>3 DEF RoomFound, store, hist, Stored
  <2>2. PICK p \in {"answer", "append"} : Goto(t, p) /\ (p = "answer" => IsRange(t) /\ group' = <<t>>)
    BY <1>3 DEF RoomFound
  <2>3. pc'[t] = p /\ \A u \in Threads : u # t => pc'[u] = pc[u]
    BY <2>2, Move DEF PCs, Working, Leading
  <2>4. Accepting(t)' => IsRange(t) /\ group' = <<t>>
    BY <2>2, <2>3 DEF Accepting
  <2> QED BY <1>1, <2>1, <2>3, <2>4, GroupTaken
<1> QED BY <1>2, <1>3 DEF RoomError, RoomNoFile

\* While somebody works and answers nobody, no batch of the queue is seen.
LEMMA Unseen ==
    ASSUME IInv, Journaled, NEW t \in Threads, pc[t] \in Working, pc[t] # "answer"
    PROVE  /\ \A u \in Threads : ~Accepting(u)
           /\ \A u \in ToSet(writers) : u \in Threads /\ ~(~IsRange(u) /\ Seen(call[u].id))
<1>1. \A u \in Threads : ~Accepting(u)
  BY Alone DEF Accepting, Working, Leading
<1>2. ToSet(writers) \subseteq Threads
  BY Elements DEF IInv, TypeInv, ThreadTypes
<1> QED BY <1>1, <1>2 DEF Journaled

\* A batch that goes into the memtable is not seen yet.
LEMMA InsertJournals ==
    ASSUME IInv, Journaled, NEW t \in Threads, InsertInto(t)
    PROVE  Journaled' /\ UNCHANGED JournalOfCalls!jvars
<1>1. /\ pc[t] = "insert"
      /\ UNCHANGED <<writers, call, group, lastSequence, imm, tables, ops, outcome>>
      /\ mem' = Append(mem, Numbered[Inserted + 1])
      /\ \E p \in {"written", "insert"} : Goto(t, p)
  BY DEF InsertInto, locals, hist
<1>2. pc[t] \in Leading /\ pc[t] \in Working /\ pc[t] # "answer"
  BY <1>1 DEF Leading, Working
<1>3. /\ Len(Numbered) \in Nat /\ Numbered \in Seq(Batch)
      /\ \A j \in 1 .. Len(Numbered) : Numbered[j].seq > lastSequence
      /\ \A j \in 1 .. Len(Numbered) : \E i \in 1 .. Len(group) : Numbered[j].id = call[group[i]].id
  BY <1>2, GroupNumbers
<1>4. PICK k \in 0 .. Len(Numbered) - 1 : Ends(k)
  BY <1>1 DEF IInv, Inserting
<1>5. Inserted = k
  BY <1>1, <1>4, InsertedIs
<1> DEFINE s == Stored
           m == Len(s) - k
           n == lastSequence
           x == Numbered[k + 1]
<1>6. k \in Nat /\ k + 1 \in 1 .. Len(Numbered) /\ \A j \in 1 .. k : Numbered[j].seq > n
  BY <1>3, <1>4
<1>7. /\ m \in 0 .. Len(s)
      /\ \A i \in 1 .. Len(s) : i <= m <=> s[i].seq <= n
      /\ Journal = [i \in 1 .. m |-> s[i].id]
  BY <1>4, <1>6, JournalIs
<1>8. x \in Batch /\ x.seq > n /\ x.id <= ops /\ x.seq \in Nat
  <2>1. x \in Batch /\ x.seq > n
    BY <1>3, <1>6
  <2>2. PICK i \in 1 .. Len(group) : x.id = call[group[i]].id
    BY <1>3, <1>6
  <2>3. group[i] \in Threads
    BY DEF IInv, TypeInv, ThreadTypes
  <2> QED BY <2>1, <2>2, <2>3 DEF Batch, IInv, Tickets
<1>9. s \in Seq(Batch) /\ Len(s) \in Nat /\ DOMAIN s = 1 .. Len(s) /\ n \in Nat
  BY StoredIs DEF IInv, TypeInv, StoreTypes
<1>10. s' = Append(s, x)
  <2> DEFINE old == tables \o imm
  <2>1. old \in Seq(Batch) /\ mem \in Seq(Batch)
    BY DEF IInv, TypeInv, StoreTypes
  <2>2. s = old \o mem /\ s' = old \o Append(mem, x)
    BY <1>1, <1>5 DEF Stored
  <2> HIDE DEF old, x
  <2>3. old \o Append(mem, x) = Append(old \o mem, x)
    BY <1>8, <2>1
  <2> QED BY <2>2, <2>3
<1> DEFINE r == Append(s, x)
<1>11. Stored' = r /\ lastSequence' = n
  BY <1>1, <1>10
<1> HIDE DEF s, x, n
<1>12. /\ r \in Seq(Batch) /\ Len(r) = Len(s) + 1 /\ DOMAIN r = 1 .. Len(s) + 1
       /\ r[Len(s) + 1] = x /\ \A i \in 1 .. Len(s) : r[i] = s[i]
  BY <1>8, <1>9
<1> HIDE DEF r
<1>13. \A i \in 1 .. Len(r) : i \in 1 .. Len(s) \/ (i = Len(s) + 1 /\ r[i] = x)
  BY <1>9, <1>12
<1>14. m \in 0 .. Len(r) /\ \A i \in 1 .. Len(r) : i <= m <=> r[i].seq <= n
  <2>1. m \in 0 .. Len(r) /\ ~(Len(s) + 1 <= m)
    BY <1>7, <1>9, <1>12
  <2>2. ~(x.seq <= n)
    BY <1>8, <1>9
  <2> QED BY <1>7, <1>12, <1>13, <2>1, <2>2
<1>15. Journal' = Journal
  <2> HIDE DEF m
  <2>1. VisibleUpTo(r, n) = [i \in 1 .. m |-> r[i].id]
    BY <1>9, <1>12, <1>14, VisibleIs
  <2>2. \A i \in 1 .. m : r[i] = s[i]
    BY <1>7, <1>9, <1>12
  <2>3. [i \in 1 .. m |-> r[i].id] = [i \in 1 .. m |-> s[i].id]
    BY <2>2
  <2> QED BY <1>7, <1>11, <2>1, <2>3 DEF Journal
<1>16. \A b : Seen(b)' => Seen(b)
  <2>1. SUFFICES ASSUME NEW b, Seen(b)'
                 PROVE  Seen(b)
    OBVIOUS
  <2>2. PICK i \in DOMAIN r : r[i].id = b /\ r[i].seq <= n
    BY <1>11, <2>1 DEF Seen
  <2>3. i \in 1 .. Len(s)
    BY <1>8, <1>9, <1>12, <1>13, <2>2
  <2> QED BY <1>9, <1>12, <2>2, <2>3 DEF Seen, s, n
<1>17. \A u \in Threads : ~Accepting(u)'
  <2>1. "written" \in PCs /\ "insert" \in PCs
    BY DEF PCs, Working, Leading
  <2>2. pc'[t] # "answer" /\ \A u \in Threads : u # t => pc'[u] = pc[u]
    BY <1>1, <2>1, Move
  <2> QED BY <1>1, <1>2, <2>2, Unseen DEF Accepting
<1>18. \A i \in DOMAIN Stored' : Stored'[i].id <= ops'
  <2>1. \A i \in DOMAIN s : s[i].id <= ops
    BY DEF Journaled, s
  <2>2. \A i \in DOMAIN r : r[i].id <= ops
    BY <1>8, <1>9, <1>12, <1>13, <2>1
  <2> QED BY <1>1, <1>11, <2>2
<1>19. \A u \in ToSet(writers') : ~(~IsRange(u) /\ Seen(call[u].id))'
  <2>1. ASSUME NEW u \in ToSet(writers)
        PROVE  ~(~IsRange(u) /\ Seen(call[u].id))'
    <3>1. ~(~IsRange(u) /\ Seen(call[u].id)) /\ call'[u] = call[u]
      BY <1>1, <1>2, Unseen
    <3> QED BY <1>16, <3>1 DEF IsRange
  <2> QED BY <1>1, <2>1
<1>20. Journaled'
  BY <1>17, <1>18, <1>19 DEF Journaled
<1> QED BY <1>1, <1>15, <1>20 DEF JournalOfCalls!jvars, Journal

-----------------------------------------------------------------------------
(* The refinement of Journal: commits. *)

\* What follows what in two sequences put together.
LEMMA Together ==
    ASSUME NEW T, NEW a \in Seq(T), NEW b \in Seq(T)
    PROVE  a \o b = [i \in 1 .. Len(a) + Len(b) |-> IF i <= Len(a) THEN a[i] ELSE b[i - Len(a)]]
<1> DEFINE all == a \o b
<1>1. all \in Seq(T) /\ Len(all) = Len(a) + Len(b) /\ Len(a) \in Nat /\ Len(b) \in Nat
  OBVIOUS
<1>2. ASSUME NEW i \in 1 .. Len(a) + Len(b)
      PROVE  all[i] = IF i <= Len(a) THEN a[i] ELSE b[i - Len(a)]
  OBVIOUS
<1> HIDE DEF all
<1>3. all = [i \in 1 .. Len(a) + Len(b) |-> all[i]]
  BY <1>1
<1> QED BY <1>2, <1>3 DEF all

\* A function of the first n numbers is a sequence.
LEMMA IsSequence ==
    ASSUME NEW T, NEW n \in Nat, NEW f \in [1 .. n -> T]
    PROVE  f \in Seq(T) /\ Len(f) = n /\ DOMAIN f = 1 .. n
OBVIOUS

\* How many batches become visible when the leader has the lock back.
Committed(t) == IF pc[t] = "written" THEN Len(Numbered) ELSE 0

\* They are appended to the journal, whose batches are those seen.
LEMMA Relocked ==
    ASSUME IInv, NEW t \in Threads, Relock(t)
    PROVE  /\ Stored' = Stored
           /\ Journal \in Seq(1 .. MaxOps)
           /\ \A b : b \in ToSet(Journal) <=> Seen(b)
           /\ Journal' = Journal \o [j \in 1 .. Committed(t) |-> Numbered[j].id]
           /\ \A b : Seen(b)' <=> Seen(b) \/ \E j \in 1 .. Committed(t) : Numbered[j].id = b
<1>1. /\ pc[t] \in {"written", "failed", "syncfailed"}
      /\ lastSequence' = lastSequence + Entries(Updates)
      /\ UNCHANGED <<mem, imm, tables>>
  BY DEF Relock
<1>2. pc[t] \in Leading /\ pc[t] # "answer" /\ pc[t] \in Working
  BY <1>1 DEF Leading, Working
<1>3. /\ Len(Numbered) \in Nat /\ Entries(Updates) \in Nat /\ Numbered \in Seq(Batch)
      /\ \A j \in 1 .. Len(Numbered) : Numbered[j].seq > lastSequence
      /\ \A j \in 1 .. Len(Numbered) :
            Numbered[j].seq + Numbered[j].size <= lastSequence + 1 + Entries(Updates)
  BY <1>2, GroupNumbers
<1>4. Ends(Committed(t))
  <2>1. pc[t] # "written" => \A u \in Threads : pc[u] \notin {"insert", "written"}
    BY <1>1, <1>2, Alone DEF Working, Leading
  <2> QED BY <2>1 DEF IInv, Inserting, Committed
<1> DEFINE s == Stored
           k == Committed(t)
           m == Len(s) - k
           n == lastSequence
           e == Entries(Updates)
           ids == [j \in 1 .. k |-> Numbered[j].id]
<1>5. k \in Nat /\ k <= Len(Numbered)
  BY <1>3 DEF Committed
<1>6. s \in Seq(Batch) /\ Len(s) \in Nat /\ DOMAIN s = 1 .. Len(s) /\ n \in Nat /\ e \in Nat
  BY <1>3, StoredIs DEF IInv, TypeInv, StoreTypes
<1>7. \A j \in 1 .. k : Numbered[j] \in Batch /\ Numbered[j].seq > n /\ Numbered[j].seq + Numbered[j].size <= n + 1 + e
  BY <1>3, <1>5
<1>8. /\ m \in 0 .. Len(s)
      /\ \A i \in 1 .. Len(s) : i <= m <=> s[i].seq <= n
      /\ \A j \in 1 .. k : s[m + j] = Numbered[j]
      /\ Journal = [i \in 1 .. m |-> s[i].id]
      /\ \A b : Seen(b) <=> \E i \in 1 .. m : s[i].id = b
  <2>1. \A j \in 1 .. k : Numbered[j].seq > lastSequence
    BY <1>7
  <2> QED BY <1>4, <1>5, <2>1, JournalIs
<1>9. Stored' = s /\ lastSequence' = n + e
  BY <1>1 DEF Stored
<1> HIDE DEF s, n, e, k
<1>10. \A i \in 1 .. Len(s) : s[i] \in Batch /\ s[i].seq \in Nat /\ s[i].id \in 1 .. MaxOps
  <2>1. \A i \in 1 .. Len(s) : s[i] \in Batch
    BY <1>6
  <2> QED BY <2>1 DEF Batch
<1>11. \A i \in 1 .. Len(s) : i \in 1 .. m \/ (i - m \in 1 .. k /\ m + (i - m) = i)
  BY <1>5, <1>6, <1>8
<1>12. \A i \in 1 .. Len(s) : s[i].seq <= n + e
  <2>1. ASSUME NEW j \in 1 .. k
        PROVE  Numbered[j].seq <= n + e
    <3>1. Numbered[j].seq \in Nat /\ Numbered[j].size \in Nat \ {0}
      BY <1>7 DEF Batch
    <3> QED BY <1>6, <1>7, <3>1
  <2>2. SUFFICES ASSUME NEW i \in 1 .. Len(s)
                 PROVE  s[i].seq <= n + e
    OBVIOUS
  <2>3. CASE i \in 1 .. m
    <3>1. s[i].seq <= n /\ s[i].seq \in Nat
      BY <1>8, <1>10, <2>3
    <3> QED BY <1>6, <3>1
  <2>4. CASE i \notin 1 .. m
    <3>1. i - m \in 1 .. k /\ s[i] = Numbered[i - m]
      BY <1>8, <1>11, <2>4
    <3> QED BY <2>1, <3>1
  <2> QED BY <2>3, <2>4
<1>13. Journal' = [i \in 1 .. Len(s) |-> s[i].id]
  <2> DEFINE last == n + e
             all == Len(s)
  <2>1. last \in Nat /\ all \in 0 .. Len(s) /\ \A i \in 1 .. Len(s) : i <= all <=> s[i].seq <= last
    BY <1>6, <1>12
  <2> HIDE DEF last, all
  <2>2. VisibleUpTo(s, last) = [i \in 1 .. all |-> s[i].id]
    BY <1>6, <2>1, VisibleIs
  <2> QED BY <1>9, <2>2 DEF Journal, last, all
<1>14. \A b : Seen(b)' <=> \E i \in 1 .. Len(s) : s[i].id = b
  <2>1. \A b : Seen(b)' <=> \E i \in DOMAIN s : s[i].id = b /\ s[i].seq <= n + e
    BY <1>9 DEF Seen
  <2> QED BY <1>6, <1>12, <2>1
<1>15. Len(s) = m + k /\ m \in Nat /\ k \in Nat
  BY <1>5, <1>6, <1>8
<1> HIDE DEF m
<1>16. /\ \A i \in 1 .. m : i \in 1 .. Len(s)
       /\ \A j \in 1 .. k : m + j \in 1 .. Len(s)
  BY <1>15
<1>17. Journal \in Seq(1 .. MaxOps) /\ Len(Journal) = m /\ DOMAIN Journal = 1 .. m
  <2>1. \A i \in 1 .. m : s[i].id \in 1 .. MaxOps
    BY <1>10, <1>16
  <2>2. Journal \in [1 .. m -> 1 .. MaxOps]
    BY <1>8, <2>1
  <2> QED BY <1>15, <2>2, IsSequence
<1>18. \A b : b \in ToSet(Journal) <=> Seen(b)
  <2>1. \A i \in 1 .. m : Journal[i] = s[i].id
    BY <1>8
  <2> QED BY <1>8, <1>17, <2>1 DEF ToSet
<1>19. Journal' = Journal \o ids
  <2>1. ids \in Seq(1 .. MaxOps) /\ Len(ids) = k /\ \A j \in 1 .. k : ids[j] = Numbered[j].id
    <3>1. \A j \in 1 .. k : Numbered[j].id \in 1 .. MaxOps
      BY <1>7 DEF Batch
    <3>2. ids \in [1 .. k -> 1 .. MaxOps]
      BY <3>1
    <3> QED BY <1>15, <3>2, IsSequence
  <2>2. \A i \in 1 .. m : Journal[i] = s[i].id
    BY <1>8
  <2>3. Journal \o ids = [i \in 1 .. m + k |-> IF i <= m THEN Journal[i] ELSE ids[i - m]]
    <3> DEFINE J == Journal
               T == 1 .. MaxOps
    <3>1. J \in Seq(T) /\ Len(J) = m /\ ids \in Seq(T) /\ Len(ids) = k
      BY <1>17, <2>1
    <3> HIDE DEF ids, J, T
    <3>2. J \o ids = [i \in 1 .. Len(J) + Len(ids) |-> IF i <= Len(J) THEN J[i] ELSE ids[i - Len(J)]]
      BY <3>1, Together
    <3>3. J \o ids = [i \in 1 .. m + k |-> IF i <= m THEN J[i] ELSE ids[i - m]]
      BY <3>1, <3>2
    <3> QED BY <3>3 DEF J
  <2>4. ASSUME NEW i \in 1 .. m + k
        PROVE  (IF i <= m THEN Journal[i] ELSE ids[i - m]) = s[i].id
    <3>1. CASE i <= m
      <4>1. i \in 1 .. m
        BY <1>15, <3>1
      <4> QED BY <2>2, <3>1, <4>1
    <3>2. CASE ~(i <= m)
      <4>1. i - m \in 1 .. k /\ m + (i - m) = i
        BY <1>15, <3>2
      <4>2. s[m + (i - m)] = Numbered[i - m]
        BY <1>8, <4>1
      <4> QED BY <2>1, <3>2, <4>1, <4>2
    <3> QED BY <3>1, <3>2
  <2>5. Journal \o ids = [i \in 1 .. m + k |-> s[i].id]
    <3> HIDE DEF ids
    <3> QED BY <2>3, <2>4
  <2> QED BY <1>13, <1>15, <2>5
<1>20. \A b : Seen(b)' <=> Seen(b) \/ \E j \in 1 .. k : Numbered[j].id = b
  <2>1. ASSUME NEW b, Seen(b)'
        PROVE  Seen(b) \/ \E j \in 1 .. k : Numbered[j].id = b
    <3>1. PICK i \in 1 .. Len(s) : s[i].id = b
      BY <1>14, <2>1
    <3> QED BY <1>8, <1>11, <3>1
  <2>2. ASSUME NEW b, Seen(b) \/ \E j \in 1 .. k : Numbered[j].id = b
        PROVE  Seen(b)'
    <3>1. CASE Seen(b)
      BY <1>8, <1>14, <1>16, <3>1
    <3>2. ASSUME NEW j \in 1 .. k, Numbered[j].id = b
          PROVE  Seen(b)'
      BY <1>8, <1>14, <1>16, <3>2
    <3> QED BY <2>2, <3>1, <3>2
  <2> QED BY <2>1, <2>2
<1> QED BY <1>9, <1>17, <1>18, <1>19, <1>20 DEF s, k

\* The batches of a group, when they have all been inserted, become visible in
\* one step; a group that failed leaves no trace.
LEMMA RelockJournals ==
    ASSUME IInv, Journaled, NEW t \in Threads, Relock(t)
    PROVE  Journaled' /\ [JournalOfCalls!Next]_(JournalOfCalls!jvars)
<1>1. /\ pc[t] \in {"written", "failed", "syncfailed"}
      /\ call' = [call EXCEPT ![t].ok = (pc[t] = "written")]
      /\ Goto(t, "answer")
      /\ UNCHANGED <<writers, group, ops, outcome>>
  BY DEF Relock, locals, hist
<1>2. pc[t] \in Leading /\ pc[t] # "answer" /\ pc[t] \in Working
  BY <1>1 DEF Leading, Working
<1>3. /\ Len(Numbered) \in Nat /\ Len(Numbered) > 0
      /\ Len(group) \in Nat
      /\ \A i \in 1 .. Len(group) : call[group[i]].id # NullBatch =>
            \E j \in 1 .. Len(Numbered) : Numbered[j].id = call[group[i]].id
      /\ \A j \in 1 .. Len(Numbered) : \E i \in 1 .. Len(group) : Numbered[j].id = call[group[i]].id
      /\ \A j, l \in 1 .. Len(Numbered) : Numbered[j].id = Numbered[l].id => j = l
      /\ \A j \in 1 .. Len(Numbered) : Numbered[j].id \in 1 .. MaxOps
  <2>1. Numbered \in Seq(Batch)
    BY <1>2, GroupNumbers
  <2>2. \A j \in 1 .. Len(Numbered) : Numbered[j] \in Batch
    BY <2>1
  <2>3. \A j \in 1 .. Len(Numbered) : Numbered[j].id \in 1 .. MaxOps
    BY <2>2 DEF Batch
  <2> QED BY <1>2, <2>3, GroupNumbers
<1> DEFINE k == Committed(t)
           ids == [j \in 1 .. k |-> Numbered[j].id]
<1>4. /\ Stored' = Stored
      /\ Journal \in Seq(1 .. MaxOps)
      /\ \A b : b \in ToSet(Journal) <=> Seen(b)
      /\ Journal' = Journal \o ids
      /\ \A b : Seen(b)' <=> Seen(b) \/ \E j \in 1 .. k : Numbered[j].id = b
  BY Relocked
<1>5. k \in Nat /\ k <= Len(Numbered) /\ (pc[t] = "written" => k = Len(Numbered)) /\ (pc[t] # "written" => k = 0)
  BY <1>3 DEF Committed
<1> HIDE DEF k
<1>6. /\ call'[t].ok = (pc[t] = "written") /\ \A u \in Threads : call'[u].id = call[u].id
      /\ pc'[t] = "answer" /\ \A u \in Threads : u # t => pc'[u] = pc[u]
  <2> DEFINE ok == (pc[t] = "written")
  <2>1. ok \in BOOLEAN /\ call' = [call EXCEPT ![t].ok = ok]
    BY <1>1
  <2>2. call'[t].ok = ok /\ \A u \in Threads : call'[u].id = call[u].id
    <3> HIDE DEF ok
    <3> QED BY <2>1, StatusTypes
  <2>3. pc'[t] = "answer" /\ \A u \in Threads : u # t => pc'[u] = pc[u]
    BY <1>1, Move DEF PCs, Working, Leading
  <2> QED BY <2>2, <2>3
<1>7. /\ \A u \in Threads : Accepting(u)' => u = t
      /\ Accepting(t)' <=> pc[t] = "written"
  <2>1. \A u \in Threads : u # t => pc[u] # "answer"
    BY <1>2, Alone DEF Working, Leading
  <2> QED BY <1>6, <2>1 DEF Accepting
<1>8. /\ \A u \in ToSet(writers) : u \in Threads /\ ~(~IsRange(u) /\ Seen(call[u].id))
      /\ \A i \in 1 .. Len(group) : group[i] \in Threads /\ group[i] \in ToSet(writers) /\ group[i] \in ToSet(group)
  <2>1. \A i \in 1 .. Len(group) : group[i] \in Threads /\ group[i] \in ToSet(group)
    BY Elements DEF IInv, TypeInv, ThreadTypes
  <2>2. \A i \in 1 .. Len(group) : group[i] \in ToSet(writers)
    BY DEF IInv, TypeInv, ThreadTypes, Group, ToSet
  <2> QED BY <1>2, <2>1, <2>2, Unseen
<1>9. \A i \in DOMAIN Stored' : Stored'[i].id <= ops'
  BY <1>1, <1>4 DEF Journaled
<1>10. ASSUME NEW u \in ToSet(writers), ~IsRange(u), NEW j \in 1 .. k, Numbered[j].id = call[u].id
       PROVE  u \in ToSet(group) /\ pc[t] = "written"
  <2>1. j \in 1 .. Len(Numbered) /\ pc[t] = "written"
    BY <1>3, <1>5
  <2>2. PICK i \in 1 .. Len(group) : call[group[i]].id = call[u].id
    BY <1>3, <1>10, <2>1
  <2>3. group[i] = u
    BY <1>8, <1>10, <2>2 DEF IInv, Tickets
  <2> QED BY <1>8, <2>1, <2>3
<1>11. ASSUME NEW u \in ToSet(writers), (~IsRange(u) /\ Seen(call[u].id))'
       PROVE  u \in ToSet(group) /\ Accepting(t)'
  <2>1. u \in Threads /\ call'[u].id = call[u].id
    BY <1>6, <1>8
  <2>2. ~IsRange(u) /\ Seen(call[u].id)'
    BY <1>11, <2>1 DEF IsRange
  <2>3. Seen(call[u].id) \/ \E j \in 1 .. k : Numbered[j].id = call[u].id
    <3>1. PICK b : b = call[u].id
      OBVIOUS
    <3>2. call'[u].id = b /\ Seen(b)'
      BY <1>11, <2>1, <3>1
    <3> QED BY <1>4, <3>1, <3>2
  <2>4. PICK j \in 1 .. k : Numbered[j].id = call[u].id
    BY <1>8, <2>2, <2>3
  <2> QED BY <1>7, <1>10, <2>2, <2>4
<1>12. ASSUME NEW u \in Threads, Accepting(u)', NEW i \in 1 .. Len(group), ~IsRange(group[i])'
       PROVE  Seen(call[group[i]].id)'
  <2>1. pc[t] = "written" /\ k = Len(Numbered)
    BY <1>5, <1>7, <1>12
  <2>2. group' = group /\ call'[group[i]].id = call[group[i]].id
    BY <1>1, <1>6, <1>8
  <2>3. call[group[i]].id # NullBatch
    BY <1>12, <2>2 DEF IsRange
  <2>4. PICK j \in 1 .. k : Numbered[j].id = call[group[i]].id
    BY <1>3, <2>1, <2>3
  <2>5. PICK b : call'[group'[i]].id = b /\ Numbered[j].id = b
    BY <2>2, <2>4
  <2>6. Seen(b)'
    BY <1>4, <2>5
  <2> QED BY <2>5, <2>6
<1>13. Journaled'
  BY <1>1, <1>9, <1>11, <1>12 DEF Journaled
<1>14. CASE pc[t] # "written"
  <2>1. k = 0
    BY <1>5, <1>14
  <2>2. ids = <<>>
    BY <2>1
  <2>3. Journal \o <<>> = Journal
    <3> DEFINE J == Journal
               T == 1 .. MaxOps
    <3>1. J \in Seq(T)
      BY <1>4
    <3> HIDE DEF J, T
    <3>2. J \o <<>> = J
      BY <3>1
    <3> QED BY <3>2 DEF J
  <2>4. Journal' = Journal
    BY <1>4, <2>2, <2>3
  <2> QED BY <1>1, <1>13, <2>4 DEF JournalOfCalls!jvars, Journal
<1>15. CASE pc[t] = "written"
  <2>1. k = Len(Numbered) /\ k \in Nat /\ k > 0
    BY <1>3, <1>5, <1>15
  <2>2. ops \in Nat /\ ops <= MaxOps
    BY WriteQueueAssumption DEF IInv, TypeInv, HistTypes
  <2>3. ASSUME NEW j \in 1 .. k
        PROVE  Numbered[j].id \in 1 .. ops /\ outcome[Numbered[j].id] = "none" /\ ~Seen(Numbered[j].id)
    <3>1. PICK i \in 1 .. Len(group) : Numbered[j].id = call[group[i]].id
      BY <1>3, <2>1
    <3>2. Numbered[j].id \in 1 .. MaxOps
      BY <1>3, <2>1
    <3>3. ~IsRange(group[i])
      BY <3>1, <3>2 DEF IsRange, NullBatch
    <3>4. call[group[i]].id <= ops /\ outcome[call[group[i]].id] = "none"
      BY <1>8, <3>3 DEF IInv, Tickets
    <3>5. ~Seen(call[group[i]].id)
      BY <1>8, <3>3
    <3> QED BY <2>2, <3>1, <3>2, <3>4, <3>5
  <2> DEFINE subs == 1 .. ops
  <2>4. ids \in [1 .. k -> subs] /\ ids \in [1 .. k -> 1 .. ops]
    BY <2>3
  <2>5. ToSet(ids) \subseteq {b \in subs : outcome[b] = "none"} /\ ToSet(ids) \cap ToSet(Journal) = {}
    BY <1>4, <2>3 DEF ToSet
  <2>6. IsInjective(ids)
    BY <1>3, <2>1 DEF IsInjective
  <2>7. k \in 1 .. Cardinality(subs)
    <3>1. IsFiniteSet(subs) /\ Cardinality(subs) = ops
      BY <2>2, FS_Interval
    <3>2. IsFiniteSet(1 .. k) /\ Cardinality(1 .. k) = k
      <4>1. k \in Nat
        BY <2>1
      <4> QED BY <4>1, FS_Interval
    <3>3. ids \in Injection(1 .. k, subs)
      BY <2>4, <2>6 DEF Injection
    <3>4. Cardinality(1 .. k) <= Cardinality(subs)
      <4> HIDE DEF subs, ids
      <4> QED BY <3>1, <3>3, FS_Injection
    <3> QED BY <2>1, <2>2, <3>1, <3>2, <3>4
  <2> HIDE DEF ids
  <2>8. ids \in JournalOfCalls!Groups
    <3> HIDE DEF subs
    <3>1. ids \in UNION {[1 .. n -> subs] : n \in 1 .. Cardinality(subs)}
      BY <2>4, <2>7
    <3> QED BY <3>1 DEF JournalOfCalls!Groups, JournalOfCalls!Cardinality, Cardinality, subs
  <2>9. JournalOfCalls!Commit(ids)
    BY <1>1, <1>4, <2>5, <2>6 DEF JournalOfCalls!Commit, JournalOfCalls!ToSet, JournalOfCalls!IsInjective, ToSet, IsInjective, Journal
  <2> QED BY <1>13, <2>8, <2>9 DEF JournalOfCalls!Next
<1> QED BY <1>14, <1>15

-----------------------------------------------------------------------------
(* The refinement of Journal: answers, and all steps. *)

\* Between groups the journal has the batches seen.
LEMMA JournalSeen ==
    ASSUME IInv, \A t \in Threads : pc[t] \notin {"insert", "written"}
    PROVE  \A b : b \in ToSet(Journal) <=> Seen(b)
<1> DEFINE s == Stored
           z == 0
           m == Len(s) - z
<1>1. z \in Nat /\ Ends(z) /\ \A j \in 1 .. z : Numbered[j].seq > lastSequence
  BY DEF IInv, Inserting
<1>2. Len(s) \in Nat
  BY StoredIs
<1>3. Journal = [i \in 1 .. m |-> s[i].id] /\ \A b : Seen(b) <=> \E i \in 1 .. m : s[i].id = b
  <2> HIDE DEF z
  <2> QED BY <1>1, JournalIs
<1> HIDE DEF m, s
<1> QED BY <1>3 DEF ToSet

\* The callers of a group are told OK exactly when its batches are in the
\* journal.
LEMMA AnswerJournals ==
    ASSUME IInv, Journaled, NEW t \in Threads, Answer(t)
    PROVE  Journaled' /\ [JournalOfCalls!Next]_(JournalOfCalls!jvars)
<1> DEFINE served == ToSet(group)
           ids == {call[u].id : u \in served}
           S == ids \cap (1 .. MaxOps)
           ok == call[t].ok
<1>1. /\ pc[t] = "answer"
      /\ call' = [u \in Threads |->
                    IF u \in served THEN [call[u] EXCEPT !.done = TRUE, !.ok = call[t].ok] ELSE call[u]]
      /\ outcome' = [b \in DOMAIN outcome |->
                       IF b \in ids THEN IF ok THEN "ok" ELSE "error" ELSE outcome[b]]
      /\ Goto(t, AfterWrite(t, ok)) /\ group' = <<>>
      /\ UNCHANGED <<lastSequence, tables, imm, mem, ops>>
  BY DEF Answer, store
<1>2. pc[t] \in Working /\ \A u \in Threads : u # t => pc[u] \notin Working
  BY <1>1, Alone DEF Working, Leading
<1>3. /\ writers \in Seq(Threads) /\ group \in Seq(Threads) /\ call \in [Threads -> Calls]
      /\ outcome \in [1 .. MaxOps -> {"none", "ok", "error"}] /\ ops \in Nat
  BY DEF IInv, TypeInv, ThreadTypes, HistTypes
<1>4. AfterWrite(t, ok) \in {"idle", "memwait", "start"}
  BY DEF AfterWrite
<1>5. pc'[t] \in {"idle", "memwait", "start"} /\ \A u \in Threads : u # t => pc'[u] = pc[u]
  BY <1>1, <1>3, <1>4 DEF Goto, IInv, TypeInv, ThreadTypes
<1>6. /\ served \subseteq ToSet(writers) /\ served \subseteq Threads
      /\ \A i \in 1 .. Len(group) : group[i] \in served
      /\ \A u \in served : \E i \in 1 .. Len(group) : group[i] = u
  <2>1. served \subseteq Threads /\ \A u : u \in served <=> \E i \in 1 .. Len(group) : group[i] = u
    BY <1>3, Elements
  <2>2. \A i \in 1 .. Len(group) : group[i] \in ToSet(writers)
    BY <1>3 DEF IInv, Group, ToSet
  <2> QED BY <2>1, <2>2
<1> HIDE DEF served
<1>7. /\ \A u \in Threads : u \notin served => call'[u] = call[u]
      /\ \A u \in Threads : call'[u].id = call[u].id
      /\ \A u \in served : call'[u].done = TRUE
  <2>1. ASSUME NEW u \in Threads
        PROVE  /\ u \notin served => call'[u] = call[u]
               /\ call'[u].id = call[u].id
               /\ u \in served => call'[u].done = TRUE
    <3>1. call[u] \in Calls
      BY <1>3
    <3> QED BY <1>1, <3>1 DEF Calls
  <2> QED BY <1>6, <2>1
<1>8. ToSet(writers') \subseteq ToSet(writers) \ served
  <2>1. IInv'
    BY AnswerStep
  <2>2. ToSet(writers') \subseteq Threads
    <3>1. writers' \in Seq(Threads)
      BY <2>1 DEF IInv, TypeInv, ThreadTypes
    <3> DEFINE w == writers'
    <3>2. w \in Seq(Threads)
      BY <3>1
    <3> HIDE DEF w
    <3>3. ToSet(w) \subseteq Threads
      BY <3>2, Elements
    <3> QED BY <3>3 DEF w
  <2>3. ASSUME NEW u \in ToSet(writers')
        PROVE  u \in ToSet(writers) /\ u \notin served
    <3>1. u \in Threads
      BY <2>2
    <3>2. pc'[u] \in Working \/ (pc'[u] = "check" /\ ~call'[u].done)
      BY <2>1, <3>1 DEF IInv, Queue
    <3>3. u # t /\ pc'[u] = "check" /\ ~call'[u].done /\ pc[u] = "check"
      BY <1>2, <1>5, <3>1, <3>2 DEF Working, Leading
    <3>4. u \notin served
      BY <1>7, <3>3
    <3>5. ~call[u].done
      BY <1>7, <3>1, <3>3, <3>4
    <3> QED BY <3>1, <3>3, <3>4, <3>5 DEF IInv, Queue
  <2> QED BY <2>3
<1>9. Stored' = Stored /\ Journal' = Journal /\ \A b : Seen(b)' <=> Seen(b)
  BY <1>1 DEF Stored, Journal, Seen
<1>10. \A u \in Threads : ~Accepting(u)'
  BY <1>2, <1>5 DEF Accepting, Working, Leading
<1>11. \A u \in Threads : u # t => ~Accepting(u)
  BY <1>2 DEF Accepting, Working, Leading
<1>12. Accepting(t) <=> ok
  BY <1>1 DEF Accepting
<1>13. Journaled'
  <2>1. \A i \in DOMAIN Stored' : Stored'[i].id <= ops'
    BY <1>1, <1>9 DEF Journaled
  <2>2. ASSUME NEW u \in ToSet(writers'), (~IsRange(u) /\ Seen(call[u].id))'
        PROVE  FALSE
    <3>1. u \in ToSet(writers) /\ u \notin served /\ u \in Threads
      BY <1>3, <1>8, Elements
    <3>2. call'[u].id = call[u].id
      BY <1>7, <3>1
    <3>3. ~IsRange(u) /\ Seen(call[u].id)
      BY <1>9, <2>2, <3>2 DEF IsRange
    <3> QED BY <3>1, <3>3 DEF Journaled, served
  <2> QED BY <1>10, <2>1, <2>2 DEF Journaled
<1>14. ASSUME NEW b \in S
       PROVE  b \in 1 .. ops /\ outcome[b] = "none" /\ (Seen(b) <=> ok)
  <2>1. PICK i \in 1 .. Len(group) : call[group[i]].id = b
    <3>1. PICK u \in served : call[u].id = b
      OBVIOUS
    <3> QED BY <1>6, <3>1
  <2>2. group[i] \in Threads /\ group[i] \in ToSet(writers) /\ b \in 1 .. MaxOps
    BY <1>6
  <2>3. ~IsRange(group[i])
    BY <2>1, <2>2 DEF IsRange, NullBatch
  <2>4. b <= ops /\ outcome[b] = "none"
    BY <2>1, <2>2, <2>3 DEF IInv, Tickets
  <2>5. ok => Seen(b)
    BY <1>12, <2>1, <2>3 DEF Journaled
  <2>6. Seen(b) => ok
    BY <1>11, <1>12, <2>1, <2>2, <2>3 DEF Journaled
  <2> QED BY <1>3, <2>2, <2>4, <2>5, <2>6
<1>15. \A b : b \in ToSet(Journal) <=> Seen(b)
  <2>1. \A u \in Threads : pc[u] \notin {"insert", "written"}
    BY <1>1, <1>2 DEF Working, Leading
  <2> QED BY <2>1, JournalSeen
<1>16. outcome' = [b \in 1 .. MaxOps |-> IF b \in S THEN IF ok THEN "ok" ELSE "error" ELSE outcome[b]]
  BY <1>1, <1>3
<1>17. S \in SUBSET (1 .. MaxOps)
  OBVIOUS
<1> HIDE DEF S, ids, ok
<1>18. CASE ok
  <2>1. JournalOfCalls!Accept(S)
    BY <1>1, <1>9, <1>14, <1>15, <1>16, <1>18 DEF JournalOfCalls!Accept, JournalOfCalls!ToSet, ToSet, Journal
  <2> QED BY <1>13, <1>17, <2>1 DEF JournalOfCalls!Next
<1>19. CASE ~ok
  <2>1. JournalOfCalls!Reject(S)
    BY <1>1, <1>9, <1>14, <1>15, <1>16, <1>19 DEF JournalOfCalls!Reject, JournalOfCalls!ToSet, ToSet, Journal
  <2> QED BY <1>13, <1>17, <2>1 DEF JournalOfCalls!Next
<1> QED BY <1>18, <1>19

\* Every step is a step of Journal, or none.
LEMMA JournalStep ==
    IInv /\ Journaled /\ [Next]_vars => Journaled' /\ [JournalOfCalls!Next]_(JournalOfCalls!jvars)
<1> SUFFICES ASSUME IInv, Journaled, [Next]_vars
             PROVE  Journaled' /\ [JournalOfCalls!Next]_(JournalOfCalls!jvars)
  OBVIOUS
<1>1. CASE JournalStill
  BY <1>1, StillKeeps
<1>2. CASE UNCHANGED vars
  <2>1. JournalStill
    BY <1>2 DEF vars, JournalStill, Stored, Accepting
  <2> QED BY <1>1, <2>1
<1>3. ASSUME NEW t \in Threads, WriteBegin(t) \/ CompactRangeBegin(t)
      PROVE  Journaled' /\ [JournalOfCalls!Next]_(JournalOfCalls!jvars)
  BY <1>3, JoinJournals
<1>4. ASSUME NEW t \in Threads, RoomError(t) \/ RoomNoFile(t) \/ RoomFound(t) \/ InsertInto(t)
      PROVE  Journaled' /\ [JournalOfCalls!Next]_(JournalOfCalls!jvars)
  BY <1>4, RoomJournals, InsertJournals
<1>5. ASSUME NEW t \in Threads, Relock(t) \/ Answer(t)
      PROVE  Journaled' /\ [JournalOfCalls!Next]_(JournalOfCalls!jvars)
  BY <1>5, RelockJournals, AnswerJournals
<1>6. ASSUME NEW t \in Threads,
             \/ CloseBegin(t) \/ WriteCheck(t) \/ RoomDelay(t) \/ RoomWait(t) \/ RoomSwitch(t)
             \/ AddRecord(t) \/ SyncLog(t) \/ RangeStep(t) \/ CloseWait(t)
      PROVE  JournalStill
  BY <1>6, StillSteps
<1>7. BackgroundStep => JournalStill
  BY BackgroundStill
<1> QED BY <1>1, <1>2, <1>3, <1>4, <1>5, <1>6, <1>7 DEF Next, ThreadStep, WriteStep, BgStep

\* What DBImpl::Write does refines Journal: a batch becomes visible once and
\* whole, and its caller is told OK exactly if it did.
THEOREM JournalImplemented == Spec => ImplementsJournal
<1>1. Init => Journaled /\ JournalOfCalls!Init
  BY JournalInit
<1>2. IInv /\ Journaled /\ [Next]_vars => Journaled' /\ [JournalOfCalls!Next]_(JournalOfCalls!jvars)
  BY JournalStep
<1> QED BY <1>1, <1>2, Invariant, PTL DEF Spec, ImplementsJournal, JournalOfCalls!Spec
=============================================================================
