---------------------------- MODULE LevelsProofs ----------------------------
(* What a flush, a move and a compaction keep of the levelled store, for any *)
(* number of keys, levels, writes and snapshots; at the end, what RepairDB   *)
(* keeps of the files it finds.                                              *)
EXTENDS Levels, FiniteSetTheorems, TLAPS

\* What is assumed of the constants.
LEMMA Constants ==
    /\ Keys \subseteq Nat /\ Keys # {}
    /\ NumLevels \in Nat /\ NumLevels >= 2
    /\ MaxMemLevel \in Nat /\ MaxMemLevel < NumLevels
    /\ MaxWrites \in Nat
    /\ CutWithinKey \in BOOLEAN /\ Manual \in BOOLEAN /\ InlineFlush \in BOOLEAN
  BY LevelsAssumption DEF LevelsConstants

-----------------------------------------------------------------------------
(* Numbers. *)

Rank(S, i) == Cardinality({j \in S : j <= i})

\* Of two numbers the smaller has the smaller rank, and every rank is one's.
LEMMA Ranks ==
    ASSUME NEW S \in SUBSET Int, IsFiniteSet(S)
    PROVE  /\ \A i, j \in S : i < j => Rank(S, i) < Rank(S, j)
           /\ \A k \in 1 .. Cardinality(S) : \E i \in S : Rank(S, i) = k
           /\ \A i \in S : Rank(S, i) \in 1 .. Cardinality(S)
<1> DEFINE n == Cardinality(S)
           upTo(i) == {j \in S : j <= i}
           rank == [i \in S |-> Rank(S, i)]
<1>1. ASSUME NEW i \in S
      PROVE  Rank(S, i) \in 1 .. n
  <2>1. upTo(i) \in SUBSET S /\ i \in upTo(i)
    OBVIOUS
  <2>2. IsFiniteSet(upTo(i)) /\ Cardinality(upTo(i)) <= n
    BY <2>1, FS_Subset
  <2>3. Cardinality(upTo(i)) \in Nat \ {0} /\ n \in Nat
    <3>1. upTo(i) # {}
      BY <2>1
    <3> HIDE DEF upTo
    <3> QED BY <2>2, <3>1, FS_CardinalityType, FS_EmptySet
  <2> QED BY <2>2, <2>3 DEF Rank
<1>2. ASSUME NEW i \in S, NEW j \in S, i < j
      PROVE  Rank(S, i) < Rank(S, j)
  <2>1. upTo(i) \in SUBSET upTo(j) /\ upTo(j) \in SUBSET S /\ j \in upTo(j) /\ j \notin upTo(i)
    <3>1. \A x \in S : x \in Int /\ (x <= i => x <= j)
      BY <1>2
    <3>2. j <= j /\ ~(j <= i)
      BY <1>2
    <3> QED BY <3>1, <3>2
  <2>2. IsFiniteSet(upTo(j))
    BY <2>1, FS_Subset
  <2>3. Cardinality(upTo(i)) <= Cardinality(upTo(j)) /\ Cardinality(upTo(i)) # Cardinality(upTo(j))
    <3> HIDE DEF upTo
    <3> QED BY <2>1, <2>2, FS_Subset
  <2>4. Rank(S, i) = Cardinality(upTo(i)) /\ Rank(S, j) = Cardinality(upTo(j))
    BY DEF Rank
  <2>5. Rank(S, i) \in Int /\ Rank(S, j) \in Int
    BY <1>1
  <2> HIDE DEF upTo
  <2> QED BY <2>3, <2>4, <2>5
<1>3. rank \in Injection(S, 1 .. n)
  <2>1. rank \in [S -> 1 .. n]
    BY <1>1
  <2>2. ASSUME NEW i \in S, NEW j \in S, rank[i] = rank[j]
        PROVE  i = j
    <3>1. Rank(S, i) = Rank(S, j) /\ Rank(S, i) \in Int
      BY <1>1, <2>2
    <3>2. i < j \/ j < i \/ i = j
      OBVIOUS
    <3> QED BY <1>2, <3>1, <3>2
  <2> QED BY <2>1, <2>2 DEF Injection, IsInjective
<1>4. rank \in Surjection(S, 1 .. n)
  <2>1. n \in Nat /\ IsFiniteSet(1 .. n) /\ Cardinality(1 .. n) = n
    BY FS_CardinalityType, FS_Interval
  <2> HIDE DEF rank
  <2> QED BY <1>3, <2>1, FS_Injection
<1>5. \A k \in 1 .. n : \E i \in S : Rank(S, i) = k
  BY <1>4 DEF Surjection
<1> QED BY <1>1, <1>2, <1>5

\* A finite set of numbers has a least and a greatest one.
LEMMA MinMax ==
    ASSUME NEW S \in SUBSET Int, IsFiniteSet(S), S # {}
    PROVE  /\ Min(S) \in S /\ \A x \in S : Min(S) <= x
           /\ Max(S) \in S /\ \A x \in S : x <= Max(S)
<1>1. Cardinality(S) \in Nat \ {0}
  BY FS_CardinalityType, FS_EmptySet
<1>2. \E x \in S : \A y \in S : x <= y
  <2>1. PICK x \in S : Rank(S, x) = 1
    BY <1>1, Ranks
  <2>2. ASSUME NEW y \in S, ~(x <= y)
        PROVE  FALSE
    <3>1. y < x
      BY <2>2
    <3> QED BY <1>1, <2>1, <3>1, Ranks
  <2> QED BY <2>2
<1>3. \E x \in S : \A y \in S : x >= y
  <2>1. PICK x \in S : Rank(S, x) = Cardinality(S)
    BY <1>1, Ranks
  <2>2. ASSUME NEW y \in S, ~(x >= y)
        PROVE  FALSE
    <3>1. x < y
      BY <2>2
    <3>2. Rank(S, x) < Rank(S, y) /\ Rank(S, y) \in 1 .. Cardinality(S)
      BY <3>1, Ranks
    <3> QED BY <1>1, <2>1, <3>2
  <2> QED BY <2>2
<1>4. \A y \in S : Min(S) <= y /\ Min(S) \in S
  BY <1>2 DEF Min
<1>5. \A y \in S : Max(S) >= y /\ Max(S) \in S
  BY <1>3 DEF Max
<1> QED BY <1>4, <1>5

\* A least element is the one Min picks.
LEMMA MinOf ==
    ASSUME NEW S \in SUBSET Int, IsFiniteSet(S), NEW a \in S, \A x \in S : a <= x
    PROVE  Min(S) = a
<1> DEFINE m == Min(S)
<1>1. m \in S /\ m <= a
  BY MinMax
<1> HIDE DEF m
<1>2. m = a
  BY <1>1
<1> QED BY <1>2 DEF m

\* A greatest element is the one Max picks.
LEMMA MaxOf ==
    ASSUME NEW S \in SUBSET Int, IsFiniteSet(S), NEW a \in S, \A x \in S : x <= a
    PROVE  Max(S) = a
<1> DEFINE m == Max(S)
<1>1. m \in S /\ a <= m
  BY MinMax
<1> HIDE DEF m
<1>2. m = a
  BY <1>1
<1> QED BY <1>2 DEF m

-----------------------------------------------------------------------------
(* Internal keys: by user key, and the newer of two entries of a key first.  *)

KeyOf(w, s) == w[s].key
At(w, s) == IKey(w[s].key, s)
Written(w) == w \in Seq([key : Keys, del : BOOLEAN]) /\ Len(w) <= MaxWrites

\* Multiples of a number are at least that number apart.
LEMMA Multiples ==
    ASSUME NEW N \in Nat, NEW k \in Nat, NEW j \in Nat, k < j
    PROVE  k * N \in Nat /\ j * N \in Nat /\ k * N + N <= j * N
<1>1. PICK d \in Nat : j = k + 1 + d
  <2>1. j - k - 1 \in Nat /\ j = k + 1 + (j - k - 1)
    OBVIOUS
  <2> QED BY <2>1
<1>2. j * N = k * N + N + d * N
  BY <1>1
<1>3. k * N \in Nat /\ d * N \in Nat
  OBVIOUS
<1> QED BY <1>2, <1>3

\* A user key is read back from its internal key by a division that rounds up.
LEMMA Quotient ==
    ASSUME NEW M \in Nat, NEW k \in Nat, NEW s \in 0 .. M
    PROVE  /\ k * (M + 1) - s \in Int
           /\ (k * (M + 1) - s + M) \div (M + 1) = k
<1> DEFINE r == M - s
           N == M + 1
<1>1. r \in 0 .. (N - 1) /\ N \in Nat /\ N > 0
  OBVIOUS
<1>2. k * (M + 1) - s + M = k * N + r
  OBVIOUS
<1> HIDE DEF r, N
<1>3. (k * N + r) \div N = k
  BY <1>1
<1>4. k * (M + 1) - s \in Int
  OBVIOUS
<1> QED BY <1>2, <1>3, <1>4 DEF N

\* Internal keys ascend with the user key and descend with the sequence number.
LEMMA IKeys ==
    ASSUME NEW k \in Nat, NEW j \in Nat, NEW s \in 0 .. MaxWrites, NEW t \in 0 .. MaxWrites
    PROVE  /\ IKey(k, s) \in Int
           /\ UserKey(IKey(k, s)) = k
           /\ k < j => IKey(k, s) < IKey(j, t)
           /\ IKey(k, s) < IKey(k, t) <=> t < s
<1> DEFINE N == MaxWrites + 1
<1>1. MaxWrites \in Nat /\ N \in Nat /\ s < N /\ t < N /\ s \in Nat /\ t \in Nat
  BY Constants
<1>2. k * N \in Nat /\ j * N \in Nat
  BY <1>1
<1>3. ASSUME k < j
      PROVE  IKey(k, s) < IKey(j, t)
  <2>1. k * N + N <= j * N
    BY <1>1, <1>3, Multiples
  <2> QED BY <1>1, <1>2, <2>1 DEF IKey
<1>4. IKey(k, s) < IKey(k, t) <=> t < s
  <2> DEFINE m == k * N
  <2>1. m \in Nat /\ IKey(k, s) = m - s /\ IKey(k, t) = m - t
    BY <1>2 DEF IKey
  <2> HIDE DEF m
  <2> QED BY <1>1, <2>1
<1>5. IKey(k, s) \in Int /\ UserKey(IKey(k, s)) = k
  BY <1>1, Quotient DEF IKey, UserKey
<1> QED BY <1>3, <1>4, <1>5

\* A sequence has elements of its type.
LEMMA ElementOf ==
    ASSUME NEW E, NEW w \in Seq(E), NEW s \in 1 .. Len(w)
    PROVE  w[s] \in E
  OBVIOUS

\* What is known of a written entry, and of the order of two.
LEMMA Entries ==
    ASSUME NEW w, Written(w)
    PROVE  /\ Len(w) \in Nat
           /\ \A s \in 1 .. Len(w) :
                /\ w[s] \in [key : Keys, del : BOOLEAN]
                /\ KeyOf(w, s) \in Keys /\ KeyOf(w, s) \in Nat
                /\ s \in 0 .. MaxWrites
                /\ At(w, s) \in Int
                /\ UserKey(At(w, s)) = KeyOf(w, s)
           /\ \A s, t \in 1 .. Len(w) :
                /\ KeyOf(w, s) < KeyOf(w, t) => At(w, s) < At(w, t)
                /\ KeyOf(w, s) = KeyOf(w, t) => (At(w, s) < At(w, t) <=> t < s)
                /\ At(w, s) = At(w, t) => s = t
<1>1. Len(w) \in Nat
  BY DEF Written
<1>2. ASSUME NEW s \in 1 .. Len(w)
      PROVE  /\ w[s] \in [key : Keys, del : BOOLEAN]
             /\ KeyOf(w, s) \in Keys /\ KeyOf(w, s) \in Nat
             /\ s \in 0 .. MaxWrites
  <2>1. w[s] \in [key : Keys, del : BOOLEAN]
    BY <1>1, ElementOf DEF Written
  <2>2. Len(w) <= MaxWrites /\ MaxWrites \in Nat /\ Keys \subseteq Nat
    BY Constants DEF Written
  <2>3. s \in 0 .. MaxWrites
    BY <1>1, <2>2
  <2> QED BY <2>1, <2>2, <2>3 DEF KeyOf
<1>3. ASSUME NEW s \in 1 .. Len(w)
      PROVE  At(w, s) \in Int /\ UserKey(At(w, s)) = KeyOf(w, s)
  BY <1>2, IKeys DEF At, KeyOf
<1>4. ASSUME NEW s \in 1 .. Len(w), NEW t \in 1 .. Len(w)
      PROVE  /\ KeyOf(w, s) < KeyOf(w, t) => At(w, s) < At(w, t)
             /\ KeyOf(w, s) = KeyOf(w, t) => (At(w, s) < At(w, t) <=> t < s)
  BY <1>2, IKeys DEF At, KeyOf
<1>5. ASSUME NEW s \in 1 .. Len(w), NEW t \in 1 .. Len(w), At(w, s) = At(w, t)
      PROVE  s = t
  <2>1. KeyOf(w, s) = KeyOf(w, t)
    BY <1>3, <1>5
  <2>2. ~(s < t) /\ ~(t < s)
    BY <1>3, <1>4, <1>5, <2>1
  <2> QED BY <2>2
<1> QED BY <1>1, <1>2, <1>3, <1>4, <1>5

-----------------------------------------------------------------------------
(* Tables. *)

FileSet == [entries : SUBSET Nat, smallest : Int, largest : Int]

\* f is the table of its entries, which are entries of w.
Table(w, f) ==
    /\ f \in FileSet
    /\ f.entries \in SUBSET (1 .. Len(w)) /\ f.entries # {}
    /\ \E s \in f.entries : f.smallest = At(w, s)
    /\ \E s \in f.entries : f.largest = At(w, s)
    /\ \A s \in f.entries : f.smallest <= At(w, s) /\ At(w, s) <= f.largest

LowKey(f) == UserKey(f.smallest)
HighKey(f) == UserKey(f.largest)

\* What the least and the greatest internal key say of the user keys.
LEMMA TableKeys ==
    ASSUME NEW w, Written(w), NEW f, Table(w, f)
    PROVE  /\ f.smallest \in Int /\ f.largest \in Int
           /\ LowKey(f) \in Nat /\ HighKey(f) \in Nat /\ LowKey(f) <= HighKey(f)
           /\ LowKey(f) \in Keys /\ HighKey(f) \in Keys
           /\ \E s \in f.entries : LowKey(f) = KeyOf(w, s) /\ f.smallest = At(w, s)
           /\ \E s \in f.entries : HighKey(f) = KeyOf(w, s) /\ f.largest = At(w, s)
           /\ \A s \in f.entries : /\ s \in 1 .. Len(w)
                                   /\ InSpan(KeyOf(w, s), f)
                                   /\ LowKey(f) <= KeyOf(w, s) /\ KeyOf(w, s) <= HighKey(f)
<1>1. f.smallest \in Int /\ f.largest \in Int /\ f.entries \in SUBSET (1 .. Len(w))
  BY DEF Table, FileSet
<1>2. PICK a \in f.entries : f.smallest = At(w, a)
  BY DEF Table
<1>3. PICK b \in f.entries : f.largest = At(w, b)
  BY DEF Table
<1>4. /\ a \in 1 .. Len(w) /\ KeyOf(w, a) \in Keys /\ KeyOf(w, a) \in Nat /\ LowKey(f) = KeyOf(w, a)
      /\ b \in 1 .. Len(w) /\ KeyOf(w, b) \in Keys /\ KeyOf(w, b) \in Nat /\ HighKey(f) = KeyOf(w, b)
  BY <1>1, <1>2, <1>3, Entries DEF LowKey, HighKey
<1>5. ASSUME NEW s \in f.entries
      PROVE  s \in 1 .. Len(w) /\ KeyOf(w, a) <= KeyOf(w, s) /\ KeyOf(w, s) <= KeyOf(w, b)
  <2>1. s \in 1 .. Len(w) /\ KeyOf(w, s) \in Nat
    BY <1>1, Entries
  <2>2. At(w, a) <= At(w, s) /\ At(w, s) <= At(w, b)
    BY <1>2, <1>3 DEF Table
  <2>3. At(w, a) \in Int /\ At(w, s) \in Int /\ At(w, b) \in Int
    BY <1>4, <2>1, Entries
  <2>4. ~(KeyOf(w, s) < KeyOf(w, a)) /\ ~(KeyOf(w, b) < KeyOf(w, s))
    BY <1>4, <2>1, <2>2, <2>3, Entries
  <2> QED BY <1>4, <2>1, <2>4
<1>6. \A s \in f.entries : InSpan(KeyOf(w, s), f)
  BY <1>4, <1>5 DEF InSpan, LowKey, HighKey
<1>7. KeyOf(w, a) <= KeyOf(w, b)
  BY <1>5
<1> QED BY <1>1, <1>2, <1>3, <1>4, <1>5, <1>6, <1>7

\* Two tables that lie apart by their internal keys.
LEMMA Apart ==
    ASSUME NEW w, Written(w), NEW f, Table(w, f), NEW g, Table(w, g)
    PROVE  /\ f.largest < g.smallest => HighKey(f) <= LowKey(g)
           /\ HighKey(f) < LowKey(g) => f.largest < g.smallest
<1>1. PICK s \in f.entries : HighKey(f) = KeyOf(w, s) /\ f.largest = At(w, s)
  BY TableKeys
<1>2. PICK t \in g.entries : LowKey(g) = KeyOf(w, t) /\ g.smallest = At(w, t)
  BY TableKeys
<1>3. s \in 1 .. Len(w) /\ t \in 1 .. Len(w)
  BY TableKeys
<1>4. KeyOf(w, s) \in Nat /\ KeyOf(w, t) \in Nat /\ At(w, s) \in Int /\ At(w, t) \in Int
  BY <1>3, Entries
<1>5. KeyOf(w, s) < KeyOf(w, t) => At(w, s) < At(w, t)
  BY <1>3, Entries
<1>6. KeyOf(w, t) < KeyOf(w, s) => At(w, t) < At(w, s)
  BY <1>3, Entries
<1> QED BY <1>1, <1>2, <1>4, <1>5, <1>6

\* A table that meets a range, or does not.
LEMMA Meeting ==
    ASSUME NEW w, Written(w), NEW f, Table(w, f), NEW a \in Nat, NEW b \in Nat, a <= b
    PROVE  Overlaps(f, a .. b) <=> (LowKey(f) <= b /\ a <= HighKey(f))
<1>1. LowKey(f) \in Nat /\ HighKey(f) \in Nat /\ LowKey(f) <= HighKey(f)
  BY TableKeys
<1>2. Overlaps(f, a .. b) <=> \E k \in a .. b : LowKey(f) <= k /\ k <= HighKey(f)
  BY DEF Overlaps, InSpan, LowKey, HighKey
<1>3. ASSUME LowKey(f) <= b /\ a <= HighKey(f)
      PROVE  \E k \in a .. b : LowKey(f) <= k /\ k <= HighKey(f)
  <2>1. CASE LowKey(f) <= a
    BY <1>1, <1>3, <2>1
  <2>2. CASE a <= LowKey(f)
    BY <1>1, <1>3, <2>2
  <2> QED BY <1>1, <2>1, <2>2
<1>4. ASSUME NEW k \in a .. b, LowKey(f) <= k /\ k <= HighKey(f)
      PROVE  LowKey(f) <= b /\ a <= HighKey(f)
  BY <1>1, <1>4
<1> QED BY <1>2, <1>3, <1>4

\* The span of a finite set of tables reaches from the least of their keys to
\* the greatest.
LEMMA Spans ==
    ASSUME NEW w, Written(w), NEW S, IsFiniteSet(S), S # {}, \A f \in S : Table(w, f)
    PROVE  \E a, b \in Nat :
               /\ Span(S) = a .. b /\ a <= b
               /\ \E f \in S : a = LowKey(f)
               /\ \E f \in S : b = HighKey(f)
               /\ \A f \in S : a <= LowKey(f) /\ HighKey(f) <= b
<1> DEFINE low == {LowKey(f) : f \in S}
           high == {HighKey(f) : f \in S}
           U == low \cup high
<1>1. \A f \in S : LowKey(f) \in Nat /\ HighKey(f) \in Nat /\ LowKey(f) <= HighKey(f)
  BY TableKeys
<1>2. IsFiniteSet(low) /\ IsFiniteSet(high)
  <2> DEFINE lowOf == [f \in S |-> LowKey(f)]
             highOf == [f \in S |-> HighKey(f)]
  <2>1. lowOf \in Surjection(S, low)
    BY DEF Surjection
  <2>2. highOf \in Surjection(S, high)
    BY DEF Surjection
  <2> HIDE DEF lowOf, highOf, low, high
  <2> QED BY <2>1, <2>2, FS_Surjection
<1>3. IsFiniteSet(U)
  <2> HIDE DEF low, high
  <2> QED BY <1>2, FS_Union
<1>4. U \in SUBSET Nat /\ U # {}
  BY <1>1
<1>5. UserKeys(S) = U
  BY DEF UserKeys, LowKey, HighKey
<1> DEFINE a == Min(U)
           b == Max(U)
<1>6. a \in U /\ b \in U /\ \A x \in U : a <= x /\ x <= b
  <2> HIDE DEF U
  <2> QED BY <1>3, <1>4, MinMax
<1>7. Span(S) = a .. b
  BY <1>5 DEF Span
<1> HIDE DEF a, b
<1>8. \A f \in S : a <= LowKey(f) /\ HighKey(f) <= b /\ a <= HighKey(f) /\ LowKey(f) <= b
  BY <1>6
<1>9. a \in Nat /\ b \in Nat
  BY <1>4, <1>6
<1>10. \E f \in S : a = LowKey(f)
  <2>1. PICK f \in S : a = LowKey(f) \/ a = HighKey(f)
    BY <1>6
  <2>2. LowKey(f) \in Nat /\ HighKey(f) \in Nat /\ LowKey(f) <= HighKey(f) /\ a <= LowKey(f)
    BY <1>1, <1>8
  <2> QED BY <1>9, <2>1, <2>2
<1>11. \E f \in S : b = HighKey(f)
  <2>1. PICK f \in S : b = LowKey(f) \/ b = HighKey(f)
    BY <1>6
  <2>2. LowKey(f) \in Nat /\ HighKey(f) \in Nat /\ LowKey(f) <= HighKey(f) /\ HighKey(f) <= b
    BY <1>1, <1>8
  <2> QED BY <1>9, <2>1, <2>2
<1>12. a <= b
  BY <1>6, <1>9
<1> QED BY <1>7, <1>8, <1>9, <1>10, <1>11, <1>12

\* The range of one table runs from its least user key to its greatest.
LEMMA SpanOfOne ==
    ASSUME NEW w, Written(w), NEW f, Table(w, f)
    PROVE  Span({f}) = LowKey(f) .. HighKey(f)
<1>1. IsFiniteSet({f})
  BY FS_Singleton
<1>2. PICK a \in Nat, b \in Nat : Span({f}) = a .. b /\ a = LowKey(f) /\ b = HighKey(f)
  BY <1>1, Spans
<1> QED BY <1>2

\* Two tables with the same entries are the same.
LEMMA SameEntries ==
    ASSUME NEW w, Written(w), NEW f, Table(w, f), NEW g, Table(w, g), f.entries = g.entries
    PROVE  f = g
<1>1. f.smallest \in Int /\ g.smallest \in Int /\ f.largest \in Int /\ g.largest \in Int
  BY TableKeys
<1>2. f.smallest = g.smallest
  <2>1. PICK s \in f.entries : f.smallest = At(w, s)
    BY DEF Table
  <2>2. PICK t \in g.entries : g.smallest = At(w, t)
    BY DEF Table
  <2>3. g.smallest <= At(w, s) /\ f.smallest <= At(w, t)
    BY DEF Table
  <2> QED BY <1>1, <2>1, <2>2, <2>3
<1>3. f.largest = g.largest
  <2>1. PICK s \in f.entries : f.largest = At(w, s)
    BY DEF Table
  <2>2. PICK t \in g.entries : g.largest = At(w, t)
    BY DEF Table
  <2>3. At(w, s) <= g.largest /\ At(w, t) <= f.largest
    BY DEF Table
  <2> QED BY <1>1, <2>1, <2>2, <2>3
<1>4. f \in FileSet /\ g \in FileSet
  BY DEF Table
<1> QED BY <1>2, <1>3, <1>4 DEF FileSet

\* There are only finitely many tables of the entries written.
LEMMA FiniteTables ==
    ASSUME NEW w, Written(w), NEW S, \A f \in S : Table(w, f)
    PROVE  IsFiniteSet(S)
<1> DEFINE E == {f.entries : f \in S}
           of == [e \in E |-> CHOOSE f \in S : f.entries = e]
<1>1. IsFiniteSet(E)
  <2>1. Len(w) \in Nat
    BY Entries
  <2>2. IsFiniteSet(1 .. Len(w))
    BY <2>1, FS_Interval
  <2>3. E \in SUBSET (SUBSET (1 .. Len(w)))
    BY DEF Table
  <2> HIDE DEF E
  <2> QED BY <2>2, <2>3, FS_SUBSET, FS_Subset
<1>2. ASSUME NEW f \in S
      PROVE  of[f.entries] = f
  <2>1. of[f.entries] \in S /\ of[f.entries].entries = f.entries
    OBVIOUS
  <2> HIDE DEF of
  <2> QED BY <2>1, SameEntries
<1>3. of \in [E -> S]
  OBVIOUS
<1>4. of \in Surjection(E, S)
  <2>1. \A f \in S : f.entries \in E
    OBVIOUS
  <2> HIDE DEF of, E
  <2> QED BY <1>2, <1>3, <2>1 DEF Surjection
<1> HIDE DEF of, E
<1> QED BY <1>1, <1>4, FS_Surjection

\* File makes the table of the entries it is given, and a table is what File
\* makes of its entries.
LEMMA Files ==
    ASSUME Written(writes), NEW e \in SUBSET (1 .. Len(writes)), e # {}
    PROVE  File(e).entries = e /\ Table(writes, File(e))
<1> DEFINE ikeys == {IKey(Key(s), s) : s \in e}
           low == Min(ikeys)
           high == Max(ikeys)
<1>1. ikeys = {At(writes, s) : s \in e}
  BY DEF At, Key
<1>2. ikeys \in SUBSET Int /\ ikeys # {}
  <2>1. \A s \in e : At(writes, s) \in Int
    BY Entries
  <2> QED BY <1>1, <2>1
<1>3. IsFiniteSet(ikeys)
  <2> DEFINE at == [s \in e |-> IKey(Key(s), s)]
  <2>1. at \in Surjection(e, ikeys)
    BY DEF Surjection
  <2>2. Len(writes) \in Nat
    BY Entries
  <2>3. IsFiniteSet(1 .. Len(writes))
    BY <2>2, FS_Interval
  <2>4. IsFiniteSet(e)
    BY <2>3, FS_Subset
  <2> HIDE DEF at, ikeys
  <2> QED BY <2>1, <2>4, FS_Surjection
<1>4. low \in ikeys /\ high \in ikeys /\ \A x \in ikeys : low <= x /\ x <= high
  <2> HIDE DEF ikeys
  <2> QED BY <1>2, <1>3, MinMax
<1>5. File(e) = [entries |-> e, smallest |-> low, largest |-> high]
  BY DEF File
<1> HIDE DEF low, high
<1>6. \E s \in e : low = At(writes, s)
  BY <1>1, <1>4
<1>7. \E s \in e : high = At(writes, s)
  BY <1>1, <1>4
<1>8. \A s \in e : low <= At(writes, s) /\ At(writes, s) <= high
  BY <1>1, <1>4
<1>9. e \in SUBSET Nat /\ low \in Int /\ high \in Int
  <2>1. Len(writes) \in Nat
    BY Entries
  <2> QED BY <1>2, <1>4, <2>1
<1>10. File(e) \in FileSet
  BY <1>5, <1>9 DEF FileSet
<1>11. File(e).entries = e /\ File(e).smallest = low /\ File(e).largest = high
  BY <1>5
<1> HIDE DEF ikeys
<1> QED BY <1>6, <1>7, <1>8, <1>10, <1>11 DEF Table

\* A table is the file that its entries make.
LEMMA TableIsFile ==
    ASSUME Written(writes), NEW f, Table(writes, f)
    PROVE  f = File(f.entries)
<1>1. f.entries \in SUBSET (1 .. Len(writes)) /\ f.entries # {}
  BY DEF Table
<1> QED BY <1>1, Files, SameEntries

-----------------------------------------------------------------------------
(* The files that meet a range. *)

Stocked(w, fs) ==
    /\ fs \in [Levels -> SUBSET FileSet]
    /\ \A l \in Levels : \A f \in fs[l] : Table(w, f)

\* No user key lies within both.
Disjoint(f, g) == HighKey(f) < LowKey(g) \/ HighKey(g) < LowKey(f)

\* The levels are numbers; the input and output level of a compaction are two.
LEMMA LevelsAre ==
    /\ 0 \in Levels /\ Levels \subseteq Nat
    /\ \A l \in 0 .. (NumLevels - 2) : l \in Levels /\ l + 1 \in Levels /\ l + 1 # 0 /\ l \in Nat
    /\ \A l \in 0 .. MaxMemLevel : l \in Levels
    /\ \A l \in Levels : l \in Nat /\ l < NumLevels
    /\ NumLevels \in Nat
  BY Constants DEF Levels

\* GetOverlappingInputs takes every file that meets the range; of level 0 it takes
\* more, until what is left out meets nothing that is taken.
LEMMA Inputs ==
    ASSUME Written(writes), Stocked(writes, files), NEW l \in Levels,
           NEW a \in Nat, NEW b \in Nat, a <= b
    PROVE  LET G == GetOverlappingInputs(l, a .. b) IN
           /\ G \subseteq files[l]
           /\ \A f \in files[l] : (LowKey(f) <= b /\ a <= HighKey(f)) => f \in G
           /\ \A f \in files[l] \ G : HighKey(f) < a \/ b < LowKey(f)
           /\ l > 0 => \A f \in G : LowKey(f) <= b /\ a <= HighKey(f)
           /\ l = 0 => \A f \in files[l] \ G, g \in G : Disjoint(f, g)
<1> DEFINE G == GetOverlappingInputs(l, a .. b)
           r == a .. b
           ov(q) == {f \in files[l] : Overlaps(f, q)}
           wider == {q \in {x .. y : x, y \in r \cup UserKeys(files[0])} :
                      r \subseteq q /\ \A f \in ov(q) : Span({f}) \subseteq q}
<1>1. /\ \A f \in files[l] : Table(writes, f)
      /\ \A f \in files[l] : LowKey(f) \in Nat /\ HighKey(f) \in Nat /\ LowKey(f) <= HighKey(f)
  BY TableKeys DEF Stocked
<1>2. \A f \in files[l] : Overlaps(f, r) <=> (LowKey(f) <= b /\ a <= HighKey(f))
  BY <1>1, Meeting
<1>3. l > 0 => G = ov(r)
  BY DEF GetOverlappingInputs
<1>4. l = 0 => G = {f \in files[l] : \A q \in wider : Overlaps(f, q)}
  BY DEF GetOverlappingInputs
<1>5. G \subseteq files[l]
  BY <1>3, <1>4, LevelsAre
<1>11. l = 0 => \A q \in wider : \A f \in files[l] : Overlaps(f, q) => Span({f}) \subseteq q
  OBVIOUS
<1>6. ASSUME NEW f \in files[l], LowKey(f) <= b /\ a <= HighKey(f)
      PROVE  f \in G
  <2>1. Overlaps(f, r)
    BY <1>2, <1>6
  <2>2. \A q : r \subseteq q => Overlaps(f, q)
    BY <2>1 DEF Overlaps
  <2> QED BY <1>3, <1>4, <2>1, <2>2, LevelsAre
<1>7. ASSUME l > 0, NEW f \in G
      PROVE  LowKey(f) <= b /\ a <= HighKey(f)
  BY <1>2, <1>3, <1>7
<1> HIDE DEF G, wider
<1>10. l = 0 => \A f : f \in G <=> (f \in files[l] /\ \A q \in wider : Overlaps(f, q))
  BY <1>4
<1>8. ASSUME l = 0, NEW f \in files[l] \ G, NEW g \in G
      PROVE  Disjoint(f, g)
  <2>1. PICK q \in wider : ~Overlaps(f, q)
    BY <1>8, <1>10
  <2>2. Overlaps(g, q) /\ g \in files[l]
    BY <1>8, <1>10
  <2>3. LowKey(g) .. HighKey(g) \subseteq q
    BY <1>1, <1>8, <1>11, <2>2, SpanOfOne
  <2>4. \A k \in q : ~InSpan(k, f)
    BY <2>1 DEF Overlaps
  <2>5. \A k \in LowKey(g) .. HighKey(g) : ~(LowKey(f) <= k /\ k <= HighKey(f))
    BY <2>3, <2>4 DEF InSpan, LowKey, HighKey
  <2>6. LowKey(g) \in LowKey(g) .. HighKey(g)
    BY <1>1, <2>2
  <2>7. LowKey(f) \in LowKey(g) .. HighKey(g) => FALSE
    BY <1>1, <2>5
  <2> QED BY <1>1, <2>2, <2>5, <2>6, <2>7 DEF Disjoint
<1>9. \A f \in files[l] \ G : HighKey(f) < a \/ b < LowKey(f)
  BY <1>1, <1>6
<1> QED BY <1>5, <1>6, <1>7, <1>8, <1>9 DEF G

\* The keys from which a search of level 0 for a..b spreads, once it found T.
Ends(a, b, T) == {a, b} \cup {LowKey(f) : f \in T} \cup {HighKey(f) : f \in T}

\* Level 0: what lies between two keys the search came to is found, and the
\* search came no further than it was led.
LEMMA LevelZero ==
    ASSUME Written(writes), Stocked(writes, files), NEW a \in Nat, NEW b \in Nat, a <= b
    PROVE  LET G == GetOverlappingInputs(0, a .. b) IN
           /\ \A f \in files[0] : \A x, y \in Ends(a, b, G) : \A z \in Nat :
                 x <= z /\ z <= y /\ InSpan(z, f) => f \in G
           /\ \A T \in SUBSET G :
                 (\A f \in G : \A x, y \in Ends(a, b, T) : \A z \in Nat :
                     x <= z /\ z <= y /\ InSpan(z, f) => f \in T)
                 => \A g \in G : \E x, y \in Ends(a, b, T) : x <= LowKey(g) /\ HighKey(g) <= y
<1> DEFINE G == GetOverlappingInputs(0, a .. b)
           r == a .. b
           ov(q) == {f \in files[0] : Overlaps(f, q)}
           wider == {q \in {x .. y : x, y \in r \cup UserKeys(files[0])} :
                      r \subseteq q /\ \A f \in ov(q) : Span({f}) \subseteq q}
<1>1. /\ \A f \in files[0] : Table(writes, f)
      /\ \A f \in files[0] : LowKey(f) \in Nat /\ HighKey(f) \in Nat /\ LowKey(f) <= HighKey(f)
  BY TableKeys, LevelsAre DEF Stocked
<1>2. G = {f \in files[0] : \A q \in wider : Overlaps(f, q)}
  BY DEF GetOverlappingInputs
<1>3. \A q \in wider : \E x, y : q = x .. y /\ x \in r \cup UserKeys(files[0]) /\ y \in r \cup UserKeys(files[0])
  OBVIOUS
<1>4. \A q \in wider : r \subseteq q /\ \A f \in files[0] : Overlaps(f, q) => Span({f}) \subseteq q
  OBVIOUS
<1>5. \A x, y \in r \cup UserKeys(files[0]) :
        (r \subseteq x .. y /\ \A f \in files[0] : Overlaps(f, x .. y) => Span({f}) \subseteq x .. y)
        => x .. y \in wider
  OBVIOUS
<1> HIDE DEF G, wider
<1>6. UserKeys(files[0]) \subseteq Nat
  BY <1>1 DEF UserKeys, LowKey, HighKey
<1>7. \A f \in files[0] : Span({f}) = LowKey(f) .. HighKey(f)
  BY <1>1, SpanOfOne
<1>8. ASSUME NEW f \in files[0], NEW x \in Ends(a, b, G), NEW y \in Ends(a, b, G), NEW z \in Nat,
             x <= z, z <= y, InSpan(z, f)
      PROVE  f \in G
  <2>1. ASSUME NEW q \in wider
        PROVE  Overlaps(f, q)
    <3>1. PICK c, d : q = c .. d /\ c \in Nat /\ d \in Nat
      BY <1>3, <1>6
    <3>2. a \in q /\ b \in q
      BY <1>4
    <3>3. \A g \in G : LowKey(g) \in q /\ HighKey(g) \in q
      <4>1. \A g \in G : g \in files[0] /\ Overlaps(g, q)
        BY <1>2
      <4>2. \A g \in G : LowKey(g) .. HighKey(g) \subseteq q
        BY <1>4, <1>7, <4>1
      <4> QED BY <1>1, <4>1, <4>2
    <3>4. x \in q /\ y \in q
      BY <3>2, <3>3 DEF Ends
    <3>5. z \in q
      BY <1>8, <3>1, <3>4
    <3> QED BY <1>8, <3>5 DEF Overlaps
  <2> QED BY <1>2, <2>1
<1>9. ASSUME NEW T \in SUBSET G,
             \A f \in G : \A x, y \in Ends(a, b, T) : \A z \in Nat :
                 x <= z /\ z <= y /\ InSpan(z, f) => f \in T,
             NEW g \in G
      PROVE  \E x, y \in Ends(a, b, T) : x <= LowKey(g) /\ HighKey(g) <= y
  <2> DEFINE A == Ends(a, b, T)
             x == Min(A)
             y == Max(A)
             low == {LowKey(f) : f \in T}
             high == {HighKey(f) : f \in T}
  <2>1. T \subseteq files[0]
    BY <1>2
  <2>2. A \subseteq r \cup UserKeys(files[0]) /\ A \subseteq Nat /\ A # {}
    BY <1>1, <2>1 DEF Ends, UserKeys, LowKey, HighKey
  <2>3. IsFiniteSet(A)
    <3>1. IsFiniteSet(T)
      BY <1>1, <2>1, FiniteTables
    <3> DEFINE lowOf == [f \in T |-> LowKey(f)]
               highOf == [f \in T |-> HighKey(f)]
    <3>2. lowOf \in Surjection(T, low) /\ highOf \in Surjection(T, high)
      BY DEF Surjection
    <3>3. IsFiniteSet(low) /\ IsFiniteSet(high)
      <4> HIDE DEF lowOf, highOf, low, high
      <4> QED BY <3>1, <3>2, FS_Surjection
    <3>4. IsFiniteSet({a, b})
      <4>1. IsFiniteSet({a})
        BY FS_Singleton
      <4>2. IsFiniteSet({a} \cup {b})
        BY <4>1, FS_AddElement
      <4>3. {a, b} = {a} \cup {b}
        OBVIOUS
      <4> QED BY <4>2, <4>3
    <3>5. A = ({a, b} \cup low) \cup high
      BY DEF Ends
    <3> HIDE DEF A, low, high
    <3>6. IsFiniteSet({a, b} \cup low)
      BY <3>3, <3>4, FS_Union
    <3> QED BY <3>3, <3>5, <3>6, FS_Union
  <2>4. x \in A /\ y \in A /\ \A k \in A : x <= k /\ k <= y
    <3>1. A \in SUBSET Int
      BY <2>2
    <3> HIDE DEF A
    <3> QED BY <2>2, <2>3, <3>1, MinMax
  <2> HIDE DEF x, y
  <2>5. x \in Nat /\ y \in Nat /\ x <= a /\ b <= y
    <3>1. a \in A /\ b \in A
      BY DEF Ends
    <3> QED BY <2>2, <2>4, <3>1
  <2>6. ASSUME NEW f \in files[0], Overlaps(f, x .. y)
        PROVE  x <= LowKey(f) /\ HighKey(f) <= y
    <3>1. PICK z \in x .. y : InSpan(z, f)
      BY <2>6 DEF Overlaps
    <3>2. z \in Nat /\ x <= z /\ z <= y
      BY <2>5, <3>1
    <3>3. x \in Ends(a, b, G) /\ y \in Ends(a, b, G)
      BY <2>4 DEF Ends
    <3>4. f \in G
      BY <1>8, <3>1, <3>2, <3>3
    <3>5. f \in T
      BY <1>9, <2>4, <3>1, <3>2, <3>4
    <3> QED BY <2>4, <3>5 DEF Ends
  <2>7. x .. y \in wider
    <3>1. r \subseteq x .. y
      BY <2>5
    <3>2. \A f \in files[0] : Overlaps(f, x .. y) => Span({f}) \subseteq x .. y
      BY <1>1, <1>7, <2>5, <2>6
    <3> QED BY <1>5, <2>2, <2>4, <3>1, <3>2
  <2>8. g \in files[0] /\ Overlaps(g, x .. y)
    BY <1>2, <2>7
  <2> QED BY <2>4, <2>6, <2>8
<1> QED BY <1>8, <1>9 DEF G

\* The files found reach from the range to the farthest of them without a gap.
LEMMA Reach ==
    ASSUME Written(writes), Stocked(writes, files), NEW l \in Levels,
           NEW a \in Nat, NEW b \in Nat, a <= b,
           NEW g \in GetOverlappingInputs(l, a .. b), NEW k \in Nat,
           \/ b < k /\ k <= HighKey(g)
           \/ LowKey(g) <= k /\ k < a
    PROVE  \E f \in GetOverlappingInputs(l, a .. b) : InSpan(k, f)
<1> DEFINE G == GetOverlappingInputs(l, a .. b)
<1>1. G \subseteq files[l] /\ (l > 0 => LowKey(g) <= b /\ a <= HighKey(g))
  BY Inputs
<1>2. \A f \in G : LowKey(f) \in Nat /\ HighKey(f) \in Nat /\ LowKey(f) <= HighKey(f)
  BY <1>1, TableKeys DEF Stocked
<1>3. CASE l > 0
  <2>1. InSpan(k, g)
    BY <1>1, <1>2, <1>3 DEF InSpan, LowKey, HighKey
  <2> QED BY <2>1
<1>4. CASE l = 0
  <2> SUFFICES ASSUME \A f \in G : ~InSpan(k, f)
               PROVE  FALSE
    OBVIOUS
  <2>1. \A f \in G : k < LowKey(f) \/ HighKey(f) < k
    BY <1>2 DEF InSpan, LowKey, HighKey
  <2>2. \A T \in SUBSET G :
           (\A f \in G : \A x, y \in Ends(a, b, T) : \A z \in Nat :
               x <= z /\ z <= y /\ InSpan(z, f) => f \in T)
           => \E x, y \in Ends(a, b, T) : x <= LowKey(g) /\ HighKey(g) <= y
    BY <1>4, LevelZero
  <2>3. CASE b < k /\ k <= HighKey(g)
    <3> DEFINE T == {f \in G : HighKey(f) < k}
    <3>1. \A y \in Ends(a, b, T) : y \in Nat /\ y < k
      BY <1>2, <2>3 DEF Ends
    <3>2. ASSUME NEW f \in G, NEW y \in Ends(a, b, T), NEW z \in Nat, z <= y, InSpan(z, f)
          PROVE  f \in T
      <4>1. LowKey(f) <= z
        BY <3>2 DEF InSpan, LowKey
      <4>2. LowKey(f) < k
        BY <1>2, <3>1, <3>2, <4>1
      <4> QED BY <1>2, <2>1, <4>2
    <3>3. PICK x, y \in Ends(a, b, T) : HighKey(g) <= y
      BY <2>2, <3>2
    <3> QED BY <1>2, <2>3, <3>1, <3>3
  <2>4. CASE LowKey(g) <= k /\ k < a
    <3> DEFINE T == {f \in G : k < LowKey(f)}
    <3>1. \A x \in Ends(a, b, T) : x \in Nat /\ k < x
      BY <1>2, <2>4 DEF Ends
    <3>2. ASSUME NEW f \in G, NEW x \in Ends(a, b, T), NEW z \in Nat, x <= z, InSpan(z, f)
          PROVE  f \in T
      <4>1. z <= HighKey(f)
        BY <3>2 DEF InSpan, HighKey
      <4>2. k < HighKey(f)
        BY <1>2, <3>1, <3>2, <4>1
      <4> QED BY <1>2, <2>1, <4>2
    <3>3. PICK x, y \in Ends(a, b, T) : x <= LowKey(g)
      BY <2>2, <3>2
    <3> QED BY <1>2, <2>4, <3>1, <3>3
  <2> QED BY <2>3, <2>4
<1> QED BY <1>3, <1>4, LevelsAre

-----------------------------------------------------------------------------
(* The inputs of a compaction. *)

\* S covers every user key between the least and the greatest of its own.
Joined(S) ==
    \A f, g \in S : \A k \in Nat : LowKey(f) <= k /\ k <= HighKey(g) => \E h \in S : InSpan(k, h)

\* No file of level 0 outside S meets one of S.
Closed(l, S) == l = 0 => \A f \in files[0] \ S, g \in S : Disjoint(f, g)

\* The files of a level that meet the range of joined ones leave no gap with them.
LEMMA Join ==
    ASSUME Written(writes), Stocked(writes, files), NEW l \in Levels, NEW S, S # {}, Joined(S),
           \A f \in S : Table(writes, f)
    PROVE  Joined(S \cup GetOverlappingInputs(l, Span(S)))
<1> DEFINE G == GetOverlappingInputs(l, Span(S))
<1>1. PICK a \in Nat, b \in Nat :
         /\ Span(S) = a .. b /\ a <= b
         /\ \E f \in S : a = LowKey(f)
         /\ \E f \in S : b = HighKey(f)
         /\ \A f \in S : a <= LowKey(f) /\ HighKey(f) <= b
  BY FiniteTables, Spans
<1>2. ASSUME NEW f \in S \cup G, NEW g \in S \cup G, NEW k \in Nat, LowKey(f) <= k, k <= HighKey(g)
      PROVE  \E h \in S \cup G : InSpan(k, h)
  <2>1. CASE a <= k /\ k <= b
    BY <1>1, <2>1 DEF Joined
  <2>2. \A h \in S : LowKey(h) \in Nat /\ HighKey(h) \in Nat
    BY TableKeys
  <2>3. CASE b < k
    <3>1. g \in GetOverlappingInputs(l, a .. b)
      BY <1>1, <1>2, <2>2, <2>3
    <3> QED BY <1>1, <1>2, <2>3, <3>1, Reach
  <2>4. CASE k < a
    <3>1. f \in GetOverlappingInputs(l, a .. b)
      BY <1>1, <1>2, <2>2, <2>4
    <3> QED BY <1>1, <1>2, <2>4, <3>1, Reach
  <2> QED BY <1>1, <2>1, <2>3, <2>4
<1> QED BY <1>2 DEF Joined

\* The inputs of level l + 1 are the files that meet those of level l.
Chosen(l, c0, c1) ==
    /\ c0 \subseteq files[l] /\ c0 # {} /\ c1 \subseteq files[l + 1]
    /\ Closed(l, c0)
    /\ \A f \in files[l + 1] \ c1 : \/ \A g \in c0 : HighKey(f) < LowKey(g)
                                    \/ \A g \in c0 : HighKey(g) < LowKey(f)
    /\ \A f \in c1 : \E g, h \in c0 : LowKey(f) <= HighKey(g) /\ LowKey(h) <= HighKey(f)

\* With the files of the next level that meet them, the inputs are well chosen.
LEMMA OthersChosen ==
    ASSUME Written(writes), Stocked(writes, files), NEW l \in 0 .. (NumLevels - 2),
           NEW c0 \in SUBSET files[l], c0 # {}, Closed(l, c0)
    PROVE  Chosen(l, c0, GetOverlappingInputs(l + 1, Span(c0)))
<1> DEFINE c1 == GetOverlappingInputs(l + 1, Span(c0))
<1>1. l \in Levels /\ l + 1 \in Levels /\ l + 1 > 0 /\ l \in Nat
  BY LevelsAre
<1>2. \A f \in files[l] \cup files[l + 1] :
         Table(writes, f) /\ LowKey(f) \in Nat /\ HighKey(f) \in Nat /\ LowKey(f) <= HighKey(f)
  BY <1>1, TableKeys DEF Stocked
<1>3. PICK a \in Nat, b \in Nat :
         /\ Span(c0) = a .. b /\ a <= b
         /\ \E f \in c0 : a = LowKey(f)
         /\ \E f \in c0 : b = HighKey(f)
         /\ \A f \in c0 : a <= LowKey(f) /\ HighKey(f) <= b
  BY <1>2, FiniteTables, Spans
<1>4. /\ c1 \subseteq files[l + 1]
      /\ \A f \in files[l + 1] \ c1 : HighKey(f) < a \/ b < LowKey(f)
      /\ \A f \in c1 : LowKey(f) <= b /\ a <= HighKey(f)
  BY <1>1, <1>3, Inputs
<1> HIDE DEF c1
<1>5. ASSUME NEW f \in files[l + 1] \ c1
      PROVE  \/ \A g \in c0 : HighKey(f) < LowKey(g)
             \/ \A g \in c0 : HighKey(g) < LowKey(f)
  <2>1. \A g \in c0 : /\ LowKey(g) \in Nat /\ HighKey(g) \in Nat
                      /\ a <= LowKey(g) /\ HighKey(g) <= b
    BY <1>2, <1>3
  <2> QED BY <1>2, <1>4, <2>1
<1>6. \A f \in c1 : \E g, h \in c0 : LowKey(f) <= HighKey(g) /\ LowKey(h) <= HighKey(f)
  BY <1>3, <1>4
<1>7. Chosen(l, c0, c1)
  BY <1>4, <1>5, <1>6 DEF Chosen
<1> QED BY <1>7 DEF c1

\* More of level l that meets no more of level l + 1.
LEMMA MoreInputs ==
    ASSUME Written(writes), Stocked(writes, files), NEW l \in Levels,
           NEW S, S # {}, \A f \in S : Table(writes, f)
    PROVE  LET G == GetOverlappingInputs(l, Span(S)) IN
           /\ G \subseteq files[l] /\ Closed(l, G)
           /\ S \cap files[l] \subseteq G
<1>1. PICK a \in Nat, b \in Nat :
         /\ Span(S) = a .. b /\ a <= b
         /\ \A f \in S : a <= LowKey(f) /\ HighKey(f) <= b
  BY FiniteTables, Spans
<1>2. \A f \in S : LowKey(f) \in Nat /\ HighKey(f) \in Nat /\ LowKey(f) <= HighKey(f)
  BY TableKeys
<1>3. \A f \in S : LowKey(f) <= b /\ a <= HighKey(f)
  BY <1>1, <1>2
<1> DEFINE G == GetOverlappingInputs(l, a .. b)
<1>4. /\ G \subseteq files[l]
      /\ \A f \in files[l] : (LowKey(f) <= b /\ a <= HighKey(f)) => f \in G
      /\ l = 0 => \A f \in files[l] \ G, g \in G : Disjoint(f, g)
  BY <1>1, Inputs
<1>5. Closed(l, G)
  BY <1>4 DEF Closed
<1> HIDE DEF G
<1>6. G \subseteq files[l] /\ Closed(l, G) /\ S \cap files[l] \subseteq G
  BY <1>3, <1>4, <1>5
<1> QED BY <1>1, <1>6 DEF G

\* SetupOtherInputs chooses well, whether or not it grows the inputs.
LEMMA Setup ==
    ASSUME Written(writes), Stocked(writes, files), NEW l \in 0 .. (NumLevels - 2),
           NEW in0 \in SUBSET files[l], in0 # {}, Closed(l, in0),
           NEW in \in SetupOtherInputs(l, in0)
    PROVE  /\ Chosen(l, in[1], in[2])
           /\ Joined(in0) => Joined(in[1] \cup in[2])
           /\ in[2] = {} => in[1] = in0
<1> DEFINE in1 == GetOverlappingInputs(l + 1, Span(in0))
           both == in0 \cup in1
           expanded0 == GetOverlappingInputs(l, Span(both))
           expanded1 == GetOverlappingInputs(l + 1, Span(expanded0))
<1>1. l \in Levels /\ l + 1 \in Levels /\ l + 1 # 0 /\ l \in Nat
  BY LevelsAre
<1>2. \A f \in files[l] \cup files[l + 1] :
         Table(writes, f) /\ LowKey(f) \in Nat /\ HighKey(f) \in Nat /\ LowKey(f) <= HighKey(f)
  BY <1>1, TableKeys DEF Stocked
<1>3. Chosen(l, in0, in1)
  BY OthersChosen
<1>4. Joined(in0) => Joined(both)
  BY <1>1, <1>2, Join
<1>5. in = <<in0, in1>> \/ (/\ in = <<expanded0, expanded1>>
                            /\ in1 # {}
                            /\ Cardinality(expanded1) = Cardinality(in1))
  BY DEF SetupOtherInputs
<1>6. in1 \subseteq files[l + 1] /\ both # {} /\ \A f \in both : Table(writes, f)
  BY <1>2, <1>3 DEF Chosen
<1>7. expanded0 \subseteq files[l] /\ Closed(l, expanded0) /\ both \cap files[l] \subseteq expanded0
  <2> HIDE DEF in1, both
  <2> QED BY <1>1, <1>6, MoreInputs
<1>8. in0 \subseteq expanded0
  BY <1>7
<1>9. Chosen(l, expanded0, expanded1)
  <2> HIDE DEF expanded0, in1, both
  <2> QED BY <1>7, <1>8, OthersChosen
<1>10. Joined(both) => Joined(both \cup expanded0)
  <2> HIDE DEF both
  <2> QED BY <1>1, <1>6, Join
<1> HIDE DEF in1, expanded0, expanded1
<1>11. in1 \subseteq expanded1
  <2> SUFFICES ASSUME NEW f \in in1, f \notin expanded1
               PROVE  FALSE
    OBVIOUS
  <2>1. PICK g \in in0, h \in in0 : LowKey(f) <= HighKey(g) /\ LowKey(h) <= HighKey(f)
    BY <1>3 DEF Chosen
  <2>2. HighKey(f) < LowKey(h) \/ HighKey(g) < LowKey(f)
    BY <1>6, <1>8, <1>9 DEF Chosen
  <2> QED BY <1>2, <1>6, <2>1, <2>2
<1>12. CASE in = <<in0, in1>>
  BY <1>3, <1>4, <1>12
<1>13. CASE in = <<expanded0, expanded1>> /\ in1 # {} /\ Cardinality(expanded1) = Cardinality(in1)
  <2>1. expanded1 \subseteq files[l + 1]
    BY <1>9 DEF Chosen
  <2>2. IsFiniteSet(expanded1)
    BY <1>2, <2>1, FiniteTables
  <2>3. in1 = expanded1
    BY <1>11, <1>13, <2>2, FS_Subset
  <2>4. both \cup expanded0 = expanded0 \cup expanded1
    BY <1>8, <2>3
  <2> QED BY <1>4, <1>9, <1>10, <1>13, <2>3, <2>4
<1> QED BY <1>5, <1>12, <1>13

\* What PickCompaction starts from.
LEMMA Picked ==
    ASSUME Written(writes), Stocked(writes, files), NEW l \in 0 .. (NumLevels - 2),
           NEW in0 \in PickCompaction(l)
    PROVE  in0 \in SUBSET files[l] /\ in0 # {} /\ Closed(l, in0) /\ Joined(in0)
<1>1. l \in Levels /\ l \in Nat
  BY LevelsAre
<1>2. PICK f \in files[l] : in0 = IF l = 0 THEN GetOverlappingInputs(0, Span({f})) ELSE {f}
  BY DEF PickCompaction
<1>3. Table(writes, f)
  BY <1>1 DEF Stocked
<1>4. Joined({f})
  BY DEF Joined, InSpan, LowKey, HighKey
<1>5. CASE l = 0
  <2>1. in0 = GetOverlappingInputs(l, Span({f}))
    BY <1>2, <1>5
  <2>2. in0 \subseteq files[l] /\ Closed(l, in0) /\ {f} \cap files[l] \subseteq in0
    BY <1>1, <1>3, <2>1, MoreInputs
  <2>3. Joined({f} \cup in0)
    BY <1>1, <1>3, <1>4, <2>1, Join
  <2>4. {f} \cup in0 = in0
    BY <2>2
  <2> QED BY <2>2, <2>3, <2>4
<1>6. CASE l # 0
  BY <1>2, <1>4, <1>6 DEF Closed
<1> QED BY <1>5, <1>6

\* What CompactRange starts from: it may leave gaps.
LEMMA Ranged ==
    ASSUME Written(writes), Stocked(writes, files), NEW l \in 0 .. (NumLevels - 2),
           NEW r \in {a .. b : a, b \in Keys}, r # {}, NEW in0 \in CompactRange(l, r)
    PROVE  in0 \in SUBSET files[l] /\ in0 # {} /\ Closed(l, in0)
<1>1. l \in Levels /\ l \in Nat
  BY LevelsAre
<1>2. PICK a \in Nat, b \in Nat : r = a .. b /\ a <= b
  <2>1. PICK a \in Keys, b \in Keys : r = a .. b
    OBVIOUS
  <2>2. a \in Nat /\ b \in Nat
    BY Constants
  <2> QED BY <2>1, <2>2
<1> DEFINE G == GetOverlappingInputs(l, r)
<1>3. G \subseteq files[l] /\ (l = 0 => \A f \in files[l] \ G, g \in G : Disjoint(f, g))
  BY <1>1, <1>2, Inputs
<1>4. in0 \in (IF l = 0 THEN {G} \ {{}}
               ELSE {{f \in G : f.largest <= last.largest} : last \in G})
  BY DEF CompactRange
<1> HIDE DEF G
<1>5. CASE l = 0
  BY <1>3, <1>4, <1>5 DEF Closed
<1>6. CASE l # 0
  <2>1. PICK last \in G : in0 = {f \in G : f.largest <= last.largest}
    BY <1>4, <1>6
  <2>2. last.largest \in Int
    BY <1>1, <1>3, TableKeys DEF Stocked
  <2>3. last \in in0
    BY <2>1, <2>2
  <2> QED BY <1>3, <1>6, <2>1, <2>3 DEF Closed
<1> QED BY <1>5, <1>6

-----------------------------------------------------------------------------
(* What every state has: the first invariant. *)

MergeTyped(w, fs, m) ==
    m # Idle => /\ m.level \in 0 .. (NumLevels - 2)
                /\ m.in0 \subseteq fs[m.level] /\ m.in0 # {}
                /\ m.in1 \subseteq fs[m.level + 1]
                /\ m.snap \in 0 .. Len(w)
                /\ Handles = {} => \A f \in m.in0 \cup m.in1 : \A s \in f.entries : s <= m.snap

Basic ==
    /\ Written(writes)
    /\ mem \subseteq 1 .. Len(writes)
    /\ imm \subseteq 1 .. Len(writes)
    /\ Stocked(writes, files)
    /\ held \in [Handles -> (0 .. Len(writes)) \cup {NoNumber}]
    /\ MergeTyped(writes, files, merge)

\* One entry more changes none of those before it.
LEMMA OneMore ==
    ASSUME NEW w, Written(w), Len(w) < MaxWrites, NEW k \in Keys, NEW d \in BOOLEAN
    PROVE  LET v == Append(w, [key |-> k, del |-> d]) IN
           /\ Written(v) /\ Len(v) = Len(w) + 1 /\ Len(w) \in Nat
           /\ \A s \in 1 .. Len(w) : v[s] = w[s] /\ s \in 1 .. Len(v)
           /\ v[Len(w) + 1] = [key |-> k, del |-> d]
           /\ \A f : Table(w, f) => Table(v, f)
           /\ \A fs : Stocked(w, fs) => Stocked(v, fs)
<1> DEFINE e == [key |-> k, del |-> d]
           v == Append(w, e)
<1>1. w \in Seq([key : Keys, del : BOOLEAN]) /\ e \in [key : Keys, del : BOOLEAN]
  BY DEF Written
<1>2. /\ v \in Seq([key : Keys, del : BOOLEAN]) /\ Len(v) = Len(w) + 1
      /\ \A s \in 1 .. Len(w) : v[s] = w[s]
      /\ v[Len(w) + 1] = e
  <2> DEFINE E == [key : Keys, del : BOOLEAN]
  <2>1. w \in Seq(E) /\ e \in E
    BY <1>1
  <2> HIDE DEF E, e
  <2>2. v \in Seq(E) /\ Len(v) = Len(w) + 1 /\ v[Len(w) + 1] = e /\ \A s \in 1 .. Len(w) : v[s] = w[s]
    BY <2>1
  <2> QED BY <2>2 DEF E
<1> HIDE DEF v
<1>3. Len(w) \in Nat
  BY Entries
<1>4. Written(v)
  BY <1>2, <1>3, Constants DEF Written
<1>5. \A s \in 1 .. Len(w) : s \in 1 .. Len(v) /\ At(v, s) = At(w, s)
  BY <1>2, <1>3 DEF At
<1>6. ASSUME NEW f, Table(w, f)
      PROVE  Table(v, f)
  <2>1. f.entries \in SUBSET (1 .. Len(w))
    BY <1>6 DEF Table
  <2>2. f.entries \in SUBSET (1 .. Len(v)) /\ \A s \in f.entries : At(v, s) = At(w, s)
    BY <1>5, <2>1
  <2> QED BY <1>6, <2>2 DEF Table
<1>7. \A fs : Stocked(w, fs) => Stocked(v, fs)
  BY <1>6 DEF Stocked
<1> QED BY <1>2, <1>3, <1>4, <1>5, <1>6, <1>7 DEF v, e

\* Files with those of a compaction replaced.
Replaced(fs, l, in0, in1, outs) == [fs EXCEPT ![l] = @ \ in0, ![l + 1] = (@ \ in1) \cup outs]

\* The levels after a compaction or a move.
LEMMA Replacing ==
    ASSUME NEW w, NEW fs, Stocked(w, fs), NEW l \in 0 .. (NumLevels - 2),
           NEW in0, NEW in1, NEW outs, \A f \in outs : Table(w, f)
    PROVE  LET gs == Replaced(fs, l, in0, in1, outs) IN
           /\ Stocked(w, gs)
           /\ gs[l] = fs[l] \ in0
           /\ gs[l + 1] = (fs[l + 1] \ in1) \cup outs
           /\ \A m \in Levels \ {l, l + 1} : gs[m] = fs[m]
<1> DEFINE gs == Replaced(fs, l, in0, in1, outs)
<1>1. l \in Levels /\ l + 1 \in Levels /\ l # l + 1
  BY LevelsAre
<1>2. fs \in [Levels -> SUBSET FileSet] /\ outs \subseteq FileSet
  BY DEF Stocked, Table
<1>3. gs[l] = fs[l] \ in0 /\ gs[l + 1] = (fs[l + 1] \ in1) \cup outs
  BY <1>1, <1>2 DEF Replaced
<1>4. \A m \in Levels \ {l, l + 1} : gs[m] = fs[m]
  BY <1>1, <1>2 DEF Replaced
<1>5. gs \in [Levels -> SUBSET FileSet]
  BY <1>1, <1>2 DEF Replaced
<1> HIDE DEF gs
<1>6. \A m \in Levels : \A f \in gs[m] : Table(w, f)
  BY <1>1, <1>3, <1>4 DEF Stocked
<1>7. Stocked(w, gs)
  BY <1>5, <1>6 DEF Stocked
<1> QED BY <1>3, <1>4, <1>7 DEF gs

\* Files with new ones in a level.
Flushed(fs, l, new) == [fs EXCEPT ![l] = @ \cup new]

\* The levels after a flush or a recovery.
LEMMA Flushing ==
    ASSUME NEW w, NEW fs, Stocked(w, fs), NEW l \in Levels, NEW new, \A f \in new : Table(w, f)
    PROVE  LET gs == Flushed(fs, l, new) IN
           /\ Stocked(w, gs)
           /\ gs[l] = fs[l] \cup new
           /\ \A m \in Levels \ {l} : gs[m] = fs[m]
<1> DEFINE gs == Flushed(fs, l, new)
<1>1. fs \in [Levels -> SUBSET FileSet] /\ new \subseteq FileSet
  BY DEF Stocked, Table
<1>2. gs[l] = fs[l] \cup new /\ \A m \in Levels \ {l} : gs[m] = fs[m]
  BY <1>1 DEF Flushed
<1>3. gs \in [Levels -> SUBSET FileSet]
  BY <1>1 DEF Flushed
<1> HIDE DEF gs
<1>4. \A m \in Levels : \A f \in gs[m] : Table(w, f)
  BY <1>2 DEF Stocked
<1>5. Stocked(w, gs)
  BY <1>3, <1>4 DEF Stocked
<1> QED BY <1>2, <1>5 DEF gs

\* The level of a flush, which meets no file at it or above when it is not 0.
LEMMA FlushLevel ==
    ASSUME Written(writes), Stocked(writes, files), NEW f, Table(writes, f),
           NEW l \in PickLevelForMemTableOutput(Span({f}))
    PROVE  /\ l \in Levels
           /\ l > 0 => \A m \in 0 .. l : m \in Levels /\ \A g \in files[m] : Disjoint(f, g)
<1>1. LowKey(f) \in Nat /\ HighKey(f) \in Nat /\ LowKey(f) <= HighKey(f)
  BY TableKeys
<1>2. Span({f}) = LowKey(f) .. HighKey(f)
  BY SpanOfOne
<1>3. ASSUME NEW m \in Levels, ~OverlapInLevel(m, Span({f})), NEW g \in files[m]
      PROVE  Disjoint(f, g)
  <2>1. GetOverlappingInputs(m, LowKey(f) .. HighKey(f)) = {}
    BY <1>2, <1>3 DEF OverlapInLevel
  <2>2. g \in files[m] \ GetOverlappingInputs(m, LowKey(f) .. HighKey(f))
    BY <1>3, <2>1
  <2>3. HighKey(g) < LowKey(f) \/ HighKey(f) < LowKey(g)
    BY <1>1, <2>2, Inputs
  <2> QED BY <2>3 DEF Disjoint
<1>4. CASE OverlapInLevel(0, Span({f}))
  <2>1. l = 0
    BY <1>4 DEF PickLevelForMemTableOutput
  <2> QED BY <2>1, LevelsAre
<1>5. CASE ~OverlapInLevel(0, Span({f}))
  <2>1. l \in 0 .. MaxMemLevel /\ \A m \in 1 .. l : ~OverlapInLevel(m, Span({f}))
    BY <1>5 DEF PickLevelForMemTableOutput
  <2>2. l \in Levels /\ \A m \in 0 .. l : m \in Levels
    BY <2>1, LevelsAre, Constants DEF Levels
  <2>3. \A m \in 0 .. l : ~OverlapInLevel(m, Span({f}))
    <3>1. \A m \in 0 .. l : m = 0 \/ m \in 1 .. l
      BY <2>1
    <3> QED BY <1>5, <2>1, <3>1
  <2> QED BY <1>3, <2>2, <2>3
<1> QED BY <1>4, <1>5

-----------------------------------------------------------------------------
(* The outputs of a compaction. *)

\* What is merged was written, and is in the tables merged.
LEMMA MergedAre ==
    ASSUME Basic, merge # Idle
    PROVE  /\ merge.level \in 0 .. (NumLevels - 2)
           /\ \A f \in merge.in0 \cup merge.in1 : Table(writes, f)
           /\ Merged \subseteq 1 .. Len(writes)
           /\ \A s \in Merged : \E f \in merge.in0 \cup merge.in1 : s \in f.entries
           /\ \A f \in merge.in0 \cup merge.in1 : f.entries \subseteq Merged
           /\ Kept \subseteq Merged
<1>1. /\ merge.level \in 0 .. (NumLevels - 2)
      /\ merge.in0 \subseteq files[merge.level] /\ merge.in1 \subseteq files[merge.level + 1]
  BY DEF Basic, MergeTyped
<1>2. \A f \in merge.in0 \cup merge.in1 : Table(writes, f)
  BY <1>1, LevelsAre DEF Basic, Stocked
<1>3. \A f \in merge.in0 \cup merge.in1 : f.entries \subseteq 1 .. Len(writes)
  BY <1>2 DEF Table
<1> QED BY <1>1, <1>2, <1>3 DEF Merged, Kept

\* No output ends between two entries of a key.  The code does not see to that,
\* but where nobody holds a snapshot a compaction keeps one entry of each key.
KeysWhole == CutWithinKey => Handles = {}

\* Where no snapshot is ever held a compaction keeps one entry of each key.
LEMMA OneKept ==
    ASSUME Basic, merge # Idle, Handles = {}, NEW s \in Kept, NEW t \in Kept,
           KeyOf(writes, s) = KeyOf(writes, t)
    PROVE  ~(s < t)
<1> SUFFICES ASSUME s < t
             PROVE  Dropped(s)
  BY DEF Kept
<1>1. /\ Merged \subseteq 1 .. Len(writes) /\ s \in Merged /\ t \in Merged
      /\ Len(writes) \in Nat /\ merge.snap \in Int
  BY MergedAre, Entries DEF Basic, MergeTyped
<1>2. t \in NewerMerged(s)
  BY <1>1 DEF NewerMerged, Key, KeyOf
<1>3. t <= merge.snap
  BY <1>1, MergedAre DEF Basic, MergeTyped
<1>4. IsFiniteSet(NewerMerged(s)) /\ NewerMerged(s) \in SUBSET Int
  <2>1. NewerMerged(s) \in SUBSET (1 .. Len(writes))
    BY <1>1 DEF NewerMerged
  <2>2. IsFiniteSet(1 .. Len(writes)) /\ (1 .. Len(writes)) \subseteq Int
    BY <1>1, FS_Interval
  <2> QED BY <2>1, <2>2, FS_Subset
<1>5. Min(NewerMerged(s)) \in Int /\ Min(NewerMerged(s)) <= t
  BY <1>2, <1>4, MinMax
<1>6. Min(NewerMerged(s)) <= merge.snap
  BY <1>1, <1>3, <1>5
<1> QED BY <1>2, <1>6 DEF Dropped

\* Every entry kept is in one output; of two outputs one lies before the other,
\* and they share no key when outputs end between keys.
LEMMA OutputsAre ==
    ASSUME Basic, merge # Idle, NEW cuts \in SUBSET CutPoints
    PROVE  /\ \A o \in Outputs(cuts) : Table(writes, o) /\ o.entries \subseteq Kept
           /\ \A s \in Kept : \E o \in Outputs(cuts) : s \in o.entries
           /\ \A o, p \in Outputs(cuts) :
                 o # p => o.largest < p.smallest \/ p.largest < o.smallest
           /\ KeysWhole => \A o, p \in Outputs(cuts) : o # p =>
                 \A s \in o.entries, t \in p.entries : KeyOf(writes, s) # KeyOf(writes, t)
<1> DEFINE upTo(s) == {c \in cuts : IKey(Key(c), c) <= IKey(Key(s), s)}
           number(s) == Cardinality(upTo(s))
           group(s) == {t \in Kept : number(t) = number(s)}
<1>1. Written(writes) /\ Len(writes) \in Nat /\ Kept \subseteq 1 .. Len(writes)
  BY MergedAre, Entries DEF Basic
<1>2. cuts \subseteq Kept
  BY DEF CutPoints
<1>3. IsFiniteSet(cuts)
  <2>1. cuts \subseteq 1 .. Len(writes)
    BY <1>1, <1>2
  <2>2. IsFiniteSet(1 .. Len(writes))
    BY <1>1, FS_Interval
  <2> QED BY <2>1, <2>2, FS_Subset
<1>4. \A s : IKey(Key(s), s) = At(writes, s)
  BY DEF At, Key
<1>5. \A s \in Kept : At(writes, s) \in Int
  BY <1>1, Entries
<1>6. ASSUME NEW s \in Kept
      PROVE  IsFiniteSet(upTo(s)) /\ number(s) \in Nat
  <2>1. upTo(s) \in SUBSET cuts
    OBVIOUS
  <2> HIDE DEF upTo
  <2> QED BY <1>3, <2>1, FS_Subset, FS_CardinalityType
<1>7. ASSUME NEW s \in Kept, NEW t \in Kept, At(writes, s) <= At(writes, t)
      PROVE  number(s) <= number(t)
  <2>1. \A c \in cuts : At(writes, c) \in Int
    BY <1>2, <1>5
  <2>2. upTo(s) \in SUBSET upTo(t)
    BY <1>4, <1>5, <1>7, <2>1
  <2> HIDE DEF upTo
  <2> QED BY <1>6, <2>2, FS_Subset
<1>8. Outputs(cuts) = {File(group(s)) : s \in Kept}
  BY DEF Outputs
<1>9. ASSUME NEW s \in Kept
      PROVE  /\ s \in group(s) /\ group(s) \subseteq Kept
             /\ File(group(s)).entries = group(s) /\ Table(writes, File(group(s)))
  <2>1. s \in group(s) /\ group(s) \subseteq Kept
    OBVIOUS
  <2> HIDE DEF group
  <2>2. group(s) \in SUBSET (1 .. Len(writes)) /\ group(s) # {}
    BY <1>1, <2>1
  <2> QED BY <1>1, <2>1, <2>2, Files
<1>10. ASSUME NEW s \in Kept, NEW t \in Kept, number(s) < number(t)
       PROVE  File(group(s)).largest < File(group(t)).smallest
  <2>1. PICK x \in group(s) : File(group(s)).largest = At(writes, x)
    BY <1>9 DEF Table
  <2>2. PICK y \in group(t) : File(group(t)).smallest = At(writes, y)
    BY <1>9 DEF Table
  <2>3. x \in Kept /\ y \in Kept /\ number(x) = number(s) /\ number(y) = number(t)
    OBVIOUS
  <2> HIDE DEF number, group
  <2>4. ~(At(writes, y) <= At(writes, x))
    <3>1. number(x) \in Nat /\ number(y) \in Nat
      BY <1>6, <2>3
    <3> QED BY <1>7, <1>10, <2>3, <3>1
  <2> QED BY <1>5, <2>1, <2>2, <2>3, <2>4
<1>11. ASSUME NEW s \in Kept, NEW t \in Kept, File(group(s)) # File(group(t))
       PROVE  number(s) < number(t) \/ number(t) < number(s)
  <2>1. PICK x \in Nat, y \in Nat : x = number(s) /\ y = number(t)
    BY <1>6
  <2>2. x # y
    BY <1>11, <2>1
  <2>3. x < y \/ y < x
    BY <2>2
  <2> QED BY <2>1, <2>3
<1>12. ASSUME ~CutWithinKey, NEW s \in Kept, NEW t \in Kept, KeyOf(writes, s) = KeyOf(writes, t)
       PROVE  number(s) = number(t)
  <2>1. ASSUME NEW x \in Kept, NEW y \in Kept, KeyOf(writes, x) = KeyOf(writes, y), NEW c \in upTo(x)
        PROVE  c \in upTo(y)
    <3>1. c \in cuts /\ c \in Kept /\ At(writes, c) <= At(writes, x)
      BY <1>2, <1>4
    <3>2. \A u \in Kept : KeyOf(writes, u) = KeyOf(writes, c) => u <= c
      BY <1>12, <3>1 DEF CutPoints, Key, KeyOf
    <3>3. /\ c \in 1 .. Len(writes) /\ x \in 1 .. Len(writes) /\ y \in 1 .. Len(writes)
          /\ KeyOf(writes, c) \in Nat /\ KeyOf(writes, x) \in Nat /\ KeyOf(writes, y) \in Nat
          /\ At(writes, c) \in Int /\ At(writes, x) \in Int /\ At(writes, y) \in Int
      BY <1>1, <3>1, Entries
    <3>4. ~(KeyOf(writes, x) < KeyOf(writes, c))
      BY <1>1, <3>1, <3>3, Entries
    <3>5. CASE KeyOf(writes, c) < KeyOf(writes, x)
      <4>1. At(writes, c) < At(writes, y)
        BY <1>1, <2>1, <3>3, <3>5, Entries
      <4> QED BY <1>4, <3>1, <3>3, <4>1
    <3>6. CASE KeyOf(writes, c) = KeyOf(writes, x)
      <4>1. y <= c /\ KeyOf(writes, c) = KeyOf(writes, y)
        BY <2>1, <3>2, <3>6
      <4>2. ~(At(writes, y) < At(writes, c))
        BY <1>1, <3>3, <4>1, Entries
      <4> QED BY <1>4, <3>1, <3>3, <4>2
    <3> QED BY <3>3, <3>4, <3>5, <3>6
  <2>2. upTo(s) = upTo(t)
    <3>1. upTo(s) \subseteq upTo(t)
      BY <1>12, <2>1
    <3>2. upTo(t) \subseteq upTo(s)
      BY <1>12, <2>1
    <3> HIDE DEF upTo
    <3> QED BY <3>1, <3>2
  <2> QED BY <2>2
<1>18. ASSUME KeysWhole, NEW s \in Kept, NEW t \in Kept, KeyOf(writes, s) = KeyOf(writes, t)
       PROVE  number(s) = number(t)
  <2>1. CASE ~CutWithinKey
    BY <1>12, <1>18, <2>1
  <2>2. CASE Handles = {}
    <3>1. ~(s < t) /\ ~(t < s)
      BY <1>18, <2>2, OneKept
    <3>2. s = t
      BY <1>1, <3>1
    <3> QED BY <3>2
  <2> QED BY <1>18, <2>1, <2>2 DEF KeysWhole
<1>13. \A s \in Kept : \A t \in group(s) : t \in Kept /\ number(t) = number(s)
  OBVIOUS
<1> HIDE DEF group, number, upTo
<1>14. \A o \in Outputs(cuts) : Table(writes, o) /\ o.entries \subseteq Kept
  BY <1>8, <1>9
<1>15. \A s \in Kept : \E o \in Outputs(cuts) : s \in o.entries
  BY <1>8, <1>9
<1>16. ASSUME NEW o \in Outputs(cuts), NEW p \in Outputs(cuts), o # p
       PROVE  o.largest < p.smallest \/ p.largest < o.smallest
  <2>1. PICK s \in Kept : o = File(group(s))
    BY <1>8
  <2>2. PICK t \in Kept : p = File(group(t))
    BY <1>8
  <2> QED BY <1>10, <1>11, <1>16, <2>1, <2>2
<1>17. ASSUME KeysWhole, NEW o \in Outputs(cuts), NEW p \in Outputs(cuts), o # p,
              NEW x \in o.entries, NEW y \in p.entries, KeyOf(writes, x) = KeyOf(writes, y)
       PROVE  FALSE
  <2>1. PICK s \in Kept : o = File(group(s))
    BY <1>8
  <2>2. PICK t \in Kept : p = File(group(t))
    BY <1>8
  <2>3. x \in group(s) /\ y \in group(t)
    BY <1>9, <1>17, <2>1, <2>2
  <2>4. x \in Kept /\ y \in Kept /\ number(x) = number(s) /\ number(y) = number(t)
    BY <1>13, <2>3
  <2>5. number(x) = number(y)
    BY <1>17, <1>18, <2>4
  <2>6. number(s) < number(t) \/ number(t) < number(s)
    BY <1>11, <1>17, <2>1, <2>2
  <2> QED BY <1>6, <2>4, <2>5, <2>6
<1> QED BY <1>14, <1>15, <1>16, <1>17

\* The smallest snapshot is none above a held one.
LEMMA Snapshot ==
    ASSUME Basic
    PROVE  /\ SmallestSnapshot \in 0 .. Len(writes)
           /\ \A h \in Handles : held[h] # NoNumber => SmallestSnapshot <= held[h]
           /\ Handles = {} => SmallestSnapshot = Len(writes)
<1> DEFINE S == {LastSequence} \cup {held[h] : h \in {g \in Handles : held[g] # NoNumber}}
           m == Min(S)
<1>1. Len(writes) \in Nat /\ LastSequence = Len(writes)
  BY Entries DEF Basic, LastSequence
<1>2. S \subseteq 0 .. Len(writes)
  BY <1>1 DEF Basic
<1>3. IsFiniteSet(S) /\ S \in SUBSET Int /\ S # {}
  <2>1. IsFiniteSet(0 .. Len(writes))
    BY <1>1, FS_Interval
  <2>2. S # {}
    OBVIOUS
  <2> HIDE DEF S
  <2>3. IsFiniteSet(S)
    BY <1>2, <2>1, FS_Subset
  <2>4. \A x \in 0 .. Len(writes) : x \in Int
    BY <1>1
  <2> QED BY <1>2, <2>2, <2>3, <2>4
<1>4. m \in S /\ \A x \in S : m <= x
  <2> HIDE DEF S
  <2> QED BY <1>3, MinMax
<1>5. SmallestSnapshot = m
  BY DEF SmallestSnapshot
<1>6. Handles = {} => S = {LastSequence}
  OBVIOUS
<1> HIDE DEF m, S
<1>7. \A h \in Handles : held[h] # NoNumber => held[h] \in S
  BY DEF S
<1>8. m \in 0 .. Len(writes) /\ (Handles = {} => m = Len(writes))
  BY <1>1, <1>2, <1>4, <1>6
<1>9. \A h \in Handles : held[h] # NoNumber => m <= held[h]
  BY <1>4, <1>7
<1> QED BY <1>5, <1>8, <1>9

-----------------------------------------------------------------------------
(* What each step does to the files. *)

\* A flush puts a table of imm in a level where it meets nothing, or in level 0.
LEMMA FlushStep ==
    ASSUME Basic, CompactMemTable
    PROVE  /\ UNCHANGED <<writes, mem, held, merge>> /\ imm' = {}
           /\ \E l, f : /\ l \in Levels /\ Table(writes, f) /\ f.entries = imm
                        /\ files' = Flushed(files, l, {f})
                        /\ l > 0 => \A m \in 0 .. l : m \in Levels /\ \A g \in files[m] : Disjoint(f, g)
<1>1. Written(writes) /\ imm \in SUBSET (1 .. Len(writes)) /\ imm # {} /\ Stocked(writes, files)
  BY DEF Basic, CompactMemTable
<1>2. File(imm).entries = imm /\ Table(writes, File(imm))
  BY <1>1, Files
<1>3. PICK l \in PickLevelForMemTableOutput(Span({File(imm)})) :
         files' = [files EXCEPT ![l] = @ \cup {File(imm)}]
  BY DEF CompactMemTable
<1>4. /\ l \in Levels
      /\ l > 0 => \A m \in 0 .. l : m \in Levels /\ \A g \in files[m] : Disjoint(File(imm), g)
  BY <1>1, <1>2, FlushLevel
<1>5. files' = Flushed(files, l, {File(imm)})
  BY <1>3 DEF Flushed
<1>6. UNCHANGED <<writes, mem, held, merge>> /\ imm' = {}
  BY DEF CompactMemTable
<1> QED BY <1>2, <1>4, <1>5, <1>6

\* A reopening makes a level 0 table of each memtable that is not empty.
LEMMA ReopenStep ==
    ASSUME Basic, Reopen
    PROVE  /\ writes' = writes /\ mem' = {} /\ imm' = {} /\ merge' = Idle
           /\ held' = [h \in Handles |-> NoNumber]
           /\ \E new : /\ files' = Flushed(files, 0, new)
                       /\ \A f \in new : Table(writes, f) /\ f.entries \in {mem, imm} \ {{}}
                       /\ \A m \in {mem, imm} \ {{}} : \E f \in new : f.entries = m
<1>1. Written(writes) /\ mem \in SUBSET (1 .. Len(writes)) /\ imm \in SUBSET (1 .. Len(writes))
  BY DEF Basic
<1> DEFINE new == {File(m) : m \in {mem, imm} \ {{}}}
<1>2. \A m \in {mem, imm} \ {{}} : File(m).entries = m /\ Table(writes, File(m))
  BY <1>1, Files
<1>3. files' = Flushed(files, 0, new)
  BY DEF Reopen, Flushed
<1>4. /\ writes' = writes /\ mem' = {} /\ imm' = {} /\ merge' = Idle
      /\ held' = [h \in Handles |-> NoNumber]
  BY DEF Reopen
<1>5. \A f \in new : Table(writes, f) /\ f.entries \in {mem, imm} \ {{}}
  BY <1>2
<1>6. \A m \in {mem, imm} \ {{}} : \E f \in new : f.entries = m
  BY <1>2
<1> HIDE DEF new
<1> QED BY <1>3, <1>4, <1>5, <1>6

\* A trivial move takes one file a level down, past nothing that it meets.
LEMMA MoveStep ==
    ASSUME Basic, NEW l \in 0 .. (NumLevels - 2), MoveTrivially(l)
    PROVE  /\ UNCHANGED <<writes, mem, imm, held, merge>> /\ merge = Idle
           /\ \E f \in files[l] : /\ Table(writes, f) /\ Chosen(l, {f}, {})
                                  /\ files' = Replaced(files, l, {f}, {}, {f})
<1>1. UNCHANGED <<writes, mem, imm, held, merge>> /\ merge = Idle
  BY DEF MoveTrivially
<1>2. PICK in0 \in PickCompaction(l) : \E in \in SetupOtherInputs(l, in0) :
         IsTrivialMove(in) /\ files' = Applied(l, in[1], {}, in[1])
  BY DEF MoveTrivially
<1>3. PICK in \in SetupOtherInputs(l, in0) : IsTrivialMove(in) /\ files' = Applied(l, in[1], {}, in[1])
  BY <1>2
<1>4. Written(writes) /\ Stocked(writes, files)
  BY DEF Basic
<1>5. in0 \in SUBSET files[l] /\ in0 # {} /\ Closed(l, in0)
  BY <1>4, Picked
<1>6. Chosen(l, in[1], in[2])
  BY <1>4, <1>5, Setup
<1>7. in[2] = {} /\ Cardinality(in[1]) = 1
  BY <1>3 DEF IsTrivialMove
<1>8. in[1] \subseteq files[l] /\ \A f \in in[1] : Table(writes, f)
  BY <1>4, <1>6, LevelsAre DEF Chosen, Stocked
<1>9. PICK f : in[1] = {f}
  BY <1>4, <1>7, <1>8, FiniteTables, FS_Singleton
<1>10. files' = Replaced(files, l, {f}, {}, {f})
  BY <1>3, <1>9 DEF Applied, Replaced
<1> QED BY <1>1, <1>6, <1>7, <1>8, <1>9, <1>10

\* A compaction begins with well-chosen inputs; only CompactRange leaves gaps.
LEMMA BeginStep ==
    ASSUME Basic, NEW l \in 0 .. (NumLevels - 2), CompactionBegin(l)
    PROVE  /\ UNCHANGED <<writes, mem, imm, files, held>> /\ imm = {} /\ merge = Idle
           /\ merge' # Idle /\ merge'.level = l /\ merge'.base = Deeper(l)
           /\ merge'.snap = SmallestSnapshot
           /\ Chosen(l, merge'.in0, merge'.in1)
           /\ Manual \/ Joined(merge'.in0 \cup merge'.in1)
<1>1. UNCHANGED <<writes, mem, imm, files, held>> /\ imm = {} /\ merge = Idle
  BY DEF CompactionBegin
<1>2. PICK r \in {a .. b : a, b \in Keys} \ {{}}, byRange \in BOOLEAN :
         \E in0 \in (IF byRange THEN CompactRange(l, r) ELSE PickCompaction(l)) :
         \E in \in SetupOtherInputs(l, in0) :
             /\ byRange => Manual
             /\ merge' = [level |-> l, in0 |-> in[1], in1 |-> in[2],
                          base |-> Deeper(l), snap |-> SmallestSnapshot]
  BY DEF CompactionBegin
<1>3. PICK in0 \in (IF byRange THEN CompactRange(l, r) ELSE PickCompaction(l)) :
         \E in \in SetupOtherInputs(l, in0) :
             /\ byRange => Manual
             /\ merge' = [level |-> l, in0 |-> in[1], in1 |-> in[2],
                          base |-> Deeper(l), snap |-> SmallestSnapshot]
  BY <1>2
<1>4. PICK in \in SetupOtherInputs(l, in0) :
             /\ byRange => Manual
             /\ merge' = [level |-> l, in0 |-> in[1], in1 |-> in[2],
                          base |-> Deeper(l), snap |-> SmallestSnapshot]
  BY <1>3
<1>5. Written(writes) /\ Stocked(writes, files)
  BY DEF Basic
<1>6. in0 \in SUBSET files[l] /\ in0 # {} /\ Closed(l, in0) /\ (Manual \/ Joined(in0))
  <2>1. CASE byRange
    <3>1. in0 \in CompactRange(l, r) /\ Manual
      BY <1>3, <1>4, <2>1
    <3> QED BY <1>2, <1>5, <3>1, Ranged
  <2>2. CASE ~byRange
    <3>1. in0 \in PickCompaction(l)
      BY <1>3, <2>2
    <3> QED BY <1>5, <3>1, Picked
  <2> QED BY <2>1, <2>2
<1>7. Chosen(l, in[1], in[2]) /\ (Manual \/ Joined(in[1] \cup in[2]))
  <2>1. Chosen(l, in[1], in[2]) /\ (Joined(in0) => Joined(in[1] \cup in[2]))
    BY <1>5, <1>6, Setup
  <2> QED BY <1>6, <2>1
<1>8. /\ merge'.level = l /\ merge'.base = Deeper(l) /\ merge'.snap = SmallestSnapshot
      /\ merge'.in0 = in[1] /\ merge'.in1 = in[2]
  BY <1>4
<1>9. l \in Nat /\ Idle.level = -1
  BY LevelsAre DEF Idle, NoNumber
<1>10. merge' # Idle
  BY <1>8, <1>9
<1> QED BY <1>1, <1>7, <1>8, <1>10

\* A compaction replaces its inputs by its outputs.
LEMMA WorkStep ==
    ASSUME Basic, DoCompactionWork
    PROVE  /\ UNCHANGED <<writes, mem, imm, held>> /\ merge # Idle /\ merge' = Idle
           /\ \E cuts \in SUBSET CutPoints :
                 files' = Replaced(files, merge.level, merge.in0, merge.in1, Outputs(cuts))
  BY DEF DoCompactionWork, Applied, Replaced

-----------------------------------------------------------------------------
\* Every step keeps the first invariant.
LEMMA BasicKept == Basic /\ [Next]_vars => Basic'
<1> SUFFICES ASSUME Basic, [Next]_vars
             PROVE  Basic'
  OBVIOUS
<1>1. Written(writes) /\ Len(writes) \in Nat /\ Stocked(writes, files) /\ LastSequence = Len(writes)
  BY Entries DEF Basic, LastSequence
<1>2. CASE Write
  <2>1. PICK k \in Keys, d \in BOOLEAN : writes' = Append(writes, [key |-> k, del |-> d])
    BY <1>2 DEF Write
  <2>2. Len(writes) < MaxWrites
    BY <1>1, <1>2 DEF Write
  <2>3. /\ Written(writes') /\ Len(writes') = Len(writes) + 1
        /\ \A fs : Stocked(writes, fs) => Stocked(writes', fs)
    BY <1>1, <2>1, <2>2, OneMore
  <2>4. mem' = mem \cup {Len(writes) + 1} /\ UNCHANGED <<imm, files, held, merge>>
    BY <1>1, <1>2 DEF Write
  <2>5. mem' \subseteq 1 .. Len(writes') /\ imm' \subseteq 1 .. Len(writes')
    <3>1. /\ 1 .. Len(writes) \subseteq 1 .. Len(writes')
          /\ Len(writes) + 1 \in 1 .. Len(writes')
      BY <1>1, <2>3
    <3> QED BY <2>4, <3>1 DEF Basic
  <2>6. held' \in [Handles -> (0 .. Len(writes')) \cup {NoNumber}]
    <3>1. 0 .. Len(writes) \subseteq 0 .. Len(writes')
      BY <1>1, <2>3
    <3> QED BY <2>4, <3>1 DEF Basic
  <2>7. MergeTyped(writes', files', merge')
    BY <1>1, <2>3, <2>4 DEF Basic, MergeTyped
  <2> QED BY <1>1, <2>3, <2>4, <2>5, <2>6, <2>7 DEF Basic
<1>3. ASSUME NEW h \in Handles, GetOrReleaseSnapshot(h)
      PROVE  Basic'
  <2>1. held' \in [Handles -> (0 .. Len(writes)) \cup {NoNumber}]
    BY <1>1, <1>3 DEF GetOrReleaseSnapshot, Basic
  <2> QED BY <1>3, <2>1 DEF GetOrReleaseSnapshot, Basic
<1>4. CASE SwitchMemTable
  BY <1>4 DEF SwitchMemTable, Basic
<1>5. CASE CompactMemTable
  <2>1. UNCHANGED <<writes, mem, held, merge>> /\ imm' = {}
    BY <1>5, FlushStep
  <2>2. PICK l, f : l \in Levels /\ Table(writes, f) /\ files' = Flushed(files, l, {f})
    BY <1>5, FlushStep
  <2>3. Stocked(writes, files') /\ \A m \in Levels : files[m] \subseteq files'[m]
    BY <1>1, <2>2, Flushing
  <2>4. MergeTyped(writes, files', merge)
    BY <2>3, LevelsAre DEF MergeTyped, Basic
  <2> QED BY <2>1, <2>3, <2>4 DEF Basic
<1>6. CASE Reopen
  <2>1. /\ writes' = writes /\ mem' = {} /\ imm' = {} /\ merge' = Idle
        /\ held' = [h \in Handles |-> NoNumber]
    BY <1>6, ReopenStep
  <2>2. PICK new : files' = Flushed(files, 0, new) /\ \A f \in new : Table(writes, f)
    BY <1>6, ReopenStep
  <2>3. Stocked(writes, files')
    BY <1>1, <2>2, Flushing, LevelsAre
  <2> QED BY <1>1, <2>1, <2>3 DEF Basic, MergeTyped
<1>7. ASSUME NEW l \in 0 .. (NumLevels - 2), MoveTrivially(l)
      PROVE  Basic'
  <2>1. UNCHANGED <<writes, mem, imm, held, merge>> /\ merge = Idle
    BY <1>7, MoveStep
  <2>2. PICK f \in files[l] : Table(writes, f) /\ files' = Replaced(files, l, {f}, {}, {f})
    BY <1>7, MoveStep
  <2>3. Stocked(writes, files')
    BY <1>1, <2>2, Replacing
  <2> QED BY <2>1, <2>3 DEF Basic, MergeTyped
<1>8. ASSUME NEW l \in 0 .. (NumLevels - 2), CompactionBegin(l)
      PROVE  Basic'
  <2>1. /\ UNCHANGED <<writes, mem, imm, files, held>>
        /\ merge'.level = l /\ merge'.snap = SmallestSnapshot /\ Chosen(l, merge'.in0, merge'.in1)
    BY <1>8, BeginStep
  <2>2. SmallestSnapshot \in 0 .. Len(writes) /\ (Handles = {} => SmallestSnapshot = Len(writes))
    BY Snapshot
  <2>3. Len(writes) \in Nat /\ \A f \in merge'.in0 \cup merge'.in1 : f.entries \subseteq 1 .. Len(writes)
    <3>1. \A f \in merge'.in0 \cup merge'.in1 : \E m \in Levels : f \in files[m]
      BY <2>1, LevelsAre DEF Chosen
    <3> QED BY <1>1, <3>1, Entries DEF Basic, Stocked, Table
  <2>4. MergeTyped(writes, files, merge')
    BY <2>1, <2>2, <2>3 DEF MergeTyped, Chosen
  <2> QED BY <2>1, <2>4 DEF Basic
<1>9. CASE DoCompactionWork
  <2>1. UNCHANGED <<writes, mem, imm, held>> /\ merge # Idle /\ merge' = Idle
    BY <1>9, WorkStep
  <2>2. PICK cuts \in SUBSET CutPoints :
           files' = Replaced(files, merge.level, merge.in0, merge.in1, Outputs(cuts))
    BY <1>9, WorkStep
  <2>3. \A o \in Outputs(cuts) : Table(writes, o)
    BY <2>1, OutputsAre
  <2>4. Stocked(writes, files')
    BY <1>1, <2>1, <2>2, <2>3, MergedAre, Replacing
  <2> QED BY <2>1, <2>4 DEF Basic, MergeTyped
<1>10. CASE CompactionFails
  BY <1>10 DEF CompactionFails, Basic, MergeTyped
<1>11. CASE UNCHANGED vars
  BY <1>11 DEF vars, Basic
<1> QED BY <1>2, <1>3, <1>4, <1>5, <1>6, <1>7, <1>8, <1>9, <1>10, <1>11 DEF Next, Compaction

\* The first invariant holds at first.
LEMMA BasicAtFirst == Init => Basic
<1> SUFFICES ASSUME Init PROVE Basic
  OBVIOUS
<1>1. writes = <<>> /\ Len(writes) = 0 /\ Written(writes)
  BY Constants DEF Init, Written
<1>2. Stocked(writes, files)
  BY DEF Init, Stocked
<1> QED BY <1>1, <1>2 DEF Init, Basic, MergeTyped

\* Every table, memtable, snapshot and compaction in hand is made of entries
\* that were written, each table with its least and its greatest key.
THEOREM TypesHold == Spec => []TypeOK
<1>1. Basic => TypeOK
  <2> SUFFICES ASSUME Basic PROVE TypeOK
    OBVIOUS
  <2>1. Written(writes) /\ LastSequence = Len(writes)
    BY DEF Basic, LastSequence
  <2>2. \A l \in Levels : \A f \in files[l] :
           f.entries \in (SUBSET (1 .. LastSequence)) \ {{}} /\ f = File(f.entries)
    BY <2>1, TableIsFile DEF Basic, Stocked, Table
  <2>3. writes \in Seq([key : Keys, del : BOOLEAN])
    BY <2>1 DEF Written
  <2> QED BY <2>1, <2>2, <2>3 DEF Basic, TypeOK, MergeTyped
<1> QED BY <1>1, BasicAtFirst, BasicKept, PTL DEF Spec

-----------------------------------------------------------------------------
(* The files of a level above 0 lie one after the other.  The outputs of a   *)
(* compaction go where its inputs were: what is left of that level lies on   *)
(* one side of all of them (SidesKept), also what a flush puts there, since  *)
(* the inputs leave no gap it would fit into (GapsFilled).                   *)

Precedes(f, g) == f.largest < g.smallest

OnOneSide(f, S) == (\A g \in S : Precedes(g, f)) \/ (\A g \in S : Precedes(f, g))

SidesKept ==
    merge # Idle => \A f \in files[merge.level + 1] \ merge.in1 : OnOneSide(f, merge.in0 \cup merge.in1)

GapsFilled ==
    merge # Idle => IF InlineFlush THEN Joined(merge.in0 \cup merge.in1) ELSE imm = {}

InOrder == Basic /\ LevelsDisjoint /\ SidesKept /\ GapsFilled

\* A file left in the output level lies on one side of all the inputs.
LEMMA ChosenOnOneSide ==
    ASSUME Basic, LevelsDisjoint, NEW l \in 0 .. (NumLevels - 2), NEW c0, NEW c1, Chosen(l, c0, c1),
           NEW f \in files[l + 1] \ c1
    PROVE  OnOneSide(f, c0 \cup c1)
<1>1. Written(writes) /\ l \in Levels /\ l + 1 \in Levels \ {0}
  BY LevelsAre DEF Basic
<1>2. c0 \subseteq files[l] /\ c1 \subseteq files[l + 1]
  BY DEF Chosen
<1>3. \A g \in files[l] \cup files[l + 1] :
        Table(writes, g) /\ LowKey(g) \in Nat /\ HighKey(g) \in Nat /\ LowKey(g) <= HighKey(g)
  BY <1>1, TableKeys DEF Basic, Stocked
<1>4. \A g \in c1 : Precedes(f, g) \/ Precedes(g, f)
  BY <1>1, <1>2 DEF LevelsDisjoint, Precedes
<1>5. \A g \in c1 : \E u, v \in c0 : LowKey(g) <= HighKey(u) /\ LowKey(v) <= HighKey(g)
  BY DEF Chosen
<1>6. \A g \in c0 \cup c1 : /\ Precedes(f, g) => HighKey(f) <= LowKey(g)
                            /\ HighKey(f) < LowKey(g) => Precedes(f, g)
                            /\ Precedes(g, f) => HighKey(g) <= LowKey(f)
                            /\ HighKey(g) < LowKey(f) => Precedes(g, f)
  BY <1>1, <1>2, <1>3, Apart DEF Precedes
<1>7. CASE \A g \in c0 : HighKey(f) < LowKey(g)
  <2>1. ASSUME NEW g \in c1
        PROVE  Precedes(f, g)
    <3>1. PICK v \in c0 : LowKey(v) <= HighKey(g)
      BY <1>5
    <3>2. ~(HighKey(g) <= LowKey(f))
      BY <1>2, <1>3, <1>7, <3>1
    <3> QED BY <1>4, <1>6, <3>2
  <2> QED BY <1>6, <1>7, <2>1 DEF OnOneSide
<1>8. CASE \A g \in c0 : HighKey(g) < LowKey(f)
  <2>1. ASSUME NEW g \in c1
        PROVE  Precedes(g, f)
    <3>1. PICK u \in c0 : LowKey(g) <= HighKey(u)
      BY <1>5
    <3>2. ~(HighKey(f) <= LowKey(g))
      BY <1>2, <1>3, <1>8, <3>1
    <3> QED BY <1>4, <1>6, <3>2
  <2> QED BY <1>6, <1>8, <2>1 DEF OnOneSide
<1> QED BY <1>7, <1>8 DEF Chosen

\* A table that meets none of a set without gaps is on one side of it.
LEMMA NoGap ==
    ASSUME NEW w, Written(w), NEW f, Table(w, f), NEW S, \A g \in S : Table(w, g),
           Joined(S), \A g \in S : Disjoint(f, g)
    PROVE  OnOneSide(f, S)
<1>1. LowKey(f) \in Nat /\ HighKey(f) \in Nat /\ LowKey(f) <= HighKey(f)
  BY TableKeys
<1>2. \A g \in S : LowKey(g) \in Nat /\ HighKey(g) \in Nat /\ LowKey(g) <= HighKey(g)
  BY TableKeys
<1>3. ASSUME NEW g \in S, NEW h \in S, HighKey(g) < LowKey(f), HighKey(f) < LowKey(h)
      PROVE  FALSE
  <2>1. LowKey(g) <= LowKey(f) /\ LowKey(f) <= HighKey(h)
    BY <1>1, <1>2, <1>3
  <2>2. PICK u \in S : InSpan(LowKey(f), u)
    BY <1>1, <1>3, <2>1 DEF Joined
  <2>3. LowKey(u) <= LowKey(f) /\ LowKey(f) <= HighKey(u)
    BY <2>2 DEF InSpan, LowKey, HighKey
  <2>4. HighKey(f) < LowKey(u) \/ HighKey(u) < LowKey(f)
    BY DEF Disjoint
  <2> QED BY <1>1, <1>2, <2>3, <2>4
<1>4. \A g \in S : /\ HighKey(f) < LowKey(g) => Precedes(f, g)
                   /\ HighKey(g) < LowKey(f) => Precedes(g, f)
  BY Apart DEF Precedes
<1>5. \A g \in S : HighKey(f) < LowKey(g) \/ HighKey(g) < LowKey(f)
  BY DEF Disjoint
<1> QED BY <1>3, <1>4, <1>5 DEF OnOneSide

\* Of two tables with no user key within both one precedes the other.
LEMMA DisjointIsBefore ==
    ASSUME NEW w, Written(w), NEW f, Table(w, f), NEW g, Table(w, g), Disjoint(f, g)
    PROVE  Precedes(f, g) \/ Precedes(g, f)
  BY Apart DEF Disjoint, Precedes

\* A level with some files fewer, and with others that lie apart from the rest
\* and from each other.
LEMMA StillApart ==
    ASSUME NEW old, NEW rest \in SUBSET old, NEW new,
           \A f, g \in old : f # g => Precedes(f, g) \/ Precedes(g, f),
           \A f, g \in new : f # g => Precedes(f, g) \/ Precedes(g, f),
           \A f \in rest, g \in new : Precedes(f, g) \/ Precedes(g, f)
    PROVE  \A f, g \in rest \cup new : f # g => Precedes(f, g) \/ Precedes(g, f)
  OBVIOUS

\* An output lies on the side of a file where all the inputs lie.
LEMMA OutputsBeside ==
    ASSUME Basic, merge # Idle, NEW f, Table(writes, f), OnOneSide(f, merge.in0 \cup merge.in1),
           NEW o, Table(writes, o), o.entries \subseteq Merged
    PROVE  Precedes(f, o) \/ Precedes(o, f)
<1> DEFINE S == merge.in0 \cup merge.in1
<1>1. Written(writes) /\ \A g \in S : Table(writes, g)
  BY MergedAre DEF Basic
<1>2. \A s \in o.entries : \E g \in S : s \in g.entries
  BY MergedAre
<1>3. PICK x \in o.entries : o.smallest = At(writes, x)
  BY DEF Table
<1>4. PICK y \in o.entries : o.largest = At(writes, y)
  BY DEF Table
<1>5. PICK g \in S : x \in g.entries
  BY <1>2, <1>3
<1>6. PICK h \in S : y \in h.entries
  BY <1>2, <1>4
<1>7. g.smallest <= o.smallest /\ o.largest <= h.largest
  BY <1>1, <1>3, <1>4, <1>5, <1>6 DEF Table
<1>8. /\ g.smallest \in Int /\ h.largest \in Int /\ f.smallest \in Int /\ f.largest \in Int
      /\ o.smallest \in Int /\ o.largest \in Int
  BY <1>1, <1>5, <1>6, TableKeys
<1>9. CASE \A i \in S : Precedes(i, f)
  BY <1>6, <1>7, <1>8, <1>9 DEF Precedes
<1>10. CASE \A i \in S : Precedes(f, i)
  BY <1>5, <1>7, <1>8, <1>10 DEF Precedes
<1> QED BY <1>9, <1>10 DEF OnOneSide

\* Every step keeps the levels in order.
LEMMA OrderKept ==
    ASSUME ~(Manual /\ InlineFlush)
    PROVE  InOrder /\ [Next]_vars => InOrder'
<1> SUFFICES ASSUME InOrder, [Next]_vars
             PROVE  LevelsDisjoint' /\ SidesKept' /\ GapsFilled'
  BY BasicKept DEF InOrder
<1> DEFINE Apart2(S) == \A f, g \in S : f # g => Precedes(f, g) \/ Precedes(g, f)
<1>1. /\ Basic /\ Written(writes) /\ Stocked(writes, files)
      /\ LevelsDisjoint /\ SidesKept /\ GapsFilled
  BY DEF InOrder, Basic
<1>2. \A l \in Levels \ {0} : Apart2(files[l])
  BY <1>1 DEF LevelsDisjoint, Precedes
<1>3. (\A l \in Levels \ {0} : Apart2(files'[l])) => LevelsDisjoint'
  BY DEF LevelsDisjoint, Precedes
<1>4. UNCHANGED files => LevelsDisjoint'
  BY <1>1 DEF LevelsDisjoint
<1>5. merge' = Idle => SidesKept' /\ GapsFilled'
  BY DEF SidesKept, GapsFilled
<1>6. UNCHANGED <<files, merge>> => SidesKept'
  BY <1>1 DEF SidesKept
<1>7. UNCHANGED merge /\ imm' \in {imm, {}} => GapsFilled'
  BY <1>1 DEF GapsFilled
<1>8. CASE Write
  BY <1>4, <1>6, <1>7, <1>8 DEF Write
<1>9. ASSUME NEW h \in Handles, GetOrReleaseSnapshot(h)
      PROVE  LevelsDisjoint' /\ SidesKept' /\ GapsFilled'
  BY <1>4, <1>6, <1>7, <1>9 DEF GetOrReleaseSnapshot
<1>10. CASE SwitchMemTable
  <2>1. UNCHANGED <<files, merge>> /\ (merge = Idle \/ InlineFlush)
    BY <1>10 DEF SwitchMemTable
  <2>2. GapsFilled'
    BY <1>1, <2>1 DEF GapsFilled
  <2> QED BY <1>4, <1>6, <2>1, <2>2
<1>11. CASE CompactMemTable
  <2>1. UNCHANGED <<writes, mem, held, merge>> /\ imm' = {}
    BY <1>1, <1>11, FlushStep
  <2>2. PICK l, f :
           /\ l \in Levels /\ Table(writes, f)
           /\ files' = Flushed(files, l, {f})
           /\ l > 0 => \A m \in 0 .. l : m \in Levels /\ \A g \in files[m] : Disjoint(f, g)
    BY <1>1, <1>11, FlushStep
  <2>3. files'[l] = files[l] \cup {f} /\ \A m \in Levels \ {l} : files'[m] = files[m]
    BY <1>1, <2>2, Flushing
  <2>4. l # 0 => \A m \in 0 .. l : \A g \in files[m] : Disjoint(f, g)
    BY <2>2, LevelsAre
  <2>5. l # 0 => Apart2(files'[l])
    <3> SUFFICES ASSUME l # 0
                 PROVE  Apart2(files'[l])
      OBVIOUS
    <3>1. l \in 0 .. l
      BY <2>2, LevelsAre
    <3>2. \A g \in files[l] : Table(writes, g) /\ Disjoint(f, g)
      BY <1>1, <2>2, <2>4, <3>1 DEF Stocked
    <3>3. \A g \in files[l] : Precedes(f, g) \/ Precedes(g, f)
      BY <1>1, <2>2, <3>2, DisjointIsBefore
    <3> QED BY <1>2, <2>2, <2>3, <3>3
  <2>6. LevelsDisjoint'
    BY <1>2, <1>3, <2>3, <2>5
  <2>7. SidesKept'
    <3> SUFFICES ASSUME merge # Idle, NEW g \in files'[merge.level + 1] \ merge.in1
                 PROVE  OnOneSide(g, merge.in0 \cup merge.in1)
      BY <2>1 DEF SidesKept
    <3>1. merge.level + 1 \in Levels /\ merge.level \in Nat /\ merge.level + 1 # 0 /\ merge.level \in Levels
      BY <1>1, LevelsAre DEF Basic, MergeTyped
    <3>2. CASE g \in files[merge.level + 1]
      BY <1>1, <3>2 DEF SidesKept
    <3>3. CASE g \notin files[merge.level + 1]
      <4>1. l = merge.level + 1 /\ g = f
        BY <2>3, <3>1, <3>3
      <4>2. merge.level \in 0 .. l /\ l \in 0 .. l /\ l # 0
        BY <3>1, <4>1
      <4>3. \A h \in merge.in0 \cup merge.in1 : Table(writes, h)
        BY <1>1, MergedAre
      <4>4. \A h \in merge.in0 \cup merge.in1 : Disjoint(f, h)
        BY <1>1, <2>4, <4>1, <4>2 DEF Basic, MergeTyped
      <4>5. InlineFlush
        BY <1>1, <1>11 DEF GapsFilled, CompactMemTable
      <4>6. Joined(merge.in0 \cup merge.in1)
        BY <1>1, <4>5 DEF GapsFilled
      <4> QED BY <1>1, <2>2, <4>1, <4>3, <4>4, <4>6, NoGap
    <3> QED BY <3>2, <3>3
  <2> QED BY <1>7, <2>1, <2>6, <2>7
<1>12. CASE Reopen
  <2>1. merge' = Idle
    BY <1>12 DEF Reopen
  <2>2. PICK new : files' = Flushed(files, 0, new) /\ \A f \in new : Table(writes, f)
    BY <1>1, <1>12, ReopenStep
  <2>3. \A m \in Levels \ {0} : files'[m] = files[m]
    BY <1>1, <2>2, Flushing, LevelsAre
  <2> QED BY <1>2, <1>3, <1>5, <2>1, <2>3
<1>13. ASSUME NEW l \in 0 .. (NumLevels - 2), MoveTrivially(l)
       PROVE  LevelsDisjoint' /\ SidesKept' /\ GapsFilled'
  <2>1. UNCHANGED <<writes, mem, imm, held, merge>> /\ merge = Idle
    BY <1>1, <1>13, MoveStep
  <2>2. PICK f \in files[l] : /\ Table(writes, f) /\ Chosen(l, {f}, {})
                              /\ files' = Replaced(files, l, {f}, {}, {f})
    BY <1>1, <1>13, MoveStep
  <2>3. /\ files'[l] = files[l] \ {f} /\ files'[l + 1] = files[l + 1] \cup {f}
        /\ \A m \in Levels \ {l, l + 1} : files'[m] = files[m]
    BY <1>1, <2>2, Replacing
  <2>4. \A g \in files[l + 1] : Precedes(f, g) \/ Precedes(g, f)
    BY <1>1, <2>2, ChosenOnOneSide DEF OnOneSide
  <2>5. l + 1 \in Levels \ {0}
    BY LevelsAre
  <2>6. Apart2(files'[l + 1])
    BY <1>2, <2>3, <2>4, <2>5
  <2> QED BY <1>2, <1>3, <1>5, <2>1, <2>3, <2>6
<1>14. ASSUME NEW l \in 0 .. (NumLevels - 2), CompactionBegin(l)
       PROVE  LevelsDisjoint' /\ SidesKept' /\ GapsFilled'
  <2>1. /\ UNCHANGED files /\ imm' = {} /\ merge'.level = l
        /\ Chosen(l, merge'.in0, merge'.in1)
        /\ Manual \/ Joined(merge'.in0 \cup merge'.in1)
    BY <1>1, <1>14, BeginStep
  <2>2. \A f \in files[l + 1] \ merge'.in1 : OnOneSide(f, merge'.in0 \cup merge'.in1)
    BY <1>1, <2>1, ChosenOnOneSide
  <2>3. SidesKept'
    BY <2>1, <2>2 DEF SidesKept, OnOneSide, Precedes
  <2>4. GapsFilled'
    BY <2>1 DEF GapsFilled, Joined
  <2> QED BY <1>4, <2>1, <2>3, <2>4
<1>15. CASE DoCompactionWork
  <2>1. merge # Idle /\ merge' = Idle
    BY <1>1, <1>15, WorkStep
  <2>2. PICK cuts \in SUBSET CutPoints :
           files' = Replaced(files, merge.level, merge.in0, merge.in1, Outputs(cuts))
    BY <1>1, <1>15, WorkStep
  <2> DEFINE l == merge.level
             outs == Outputs(cuts)
             rest == files[l + 1] \ merge.in1
  <2>3. l \in 0 .. (NumLevels - 2) /\ l + 1 \in Levels \ {0} /\ l \in Levels
    BY <1>1, <2>1, MergedAre, LevelsAre
  <2>4. \A o \in outs : Table(writes, o) /\ o.entries \subseteq Merged
    BY <1>1, <2>1, OutputsAre, MergedAre
  <2>5. Apart2(outs)
    BY <1>1, <2>1, OutputsAre DEF Precedes
  <2>6. \A f \in rest, o \in outs : Precedes(f, o) \/ Precedes(o, f)
    <3>1. \A f \in rest : Table(writes, f) /\ OnOneSide(f, merge.in0 \cup merge.in1)
      BY <1>1, <2>1, <2>3 DEF SidesKept, Stocked
    <3> QED BY <1>1, <2>1, <2>4, <3>1, OutputsBeside
  <2>7. /\ files'[l] = files[l] \ merge.in0 /\ files'[l + 1] = rest \cup outs
        /\ \A m \in Levels \ {l, l + 1} : files'[m] = files[m]
    BY <1>1, <2>2, <2>3, <2>4, Replacing
  <2> HIDE DEF l, outs
  <2>8. Apart2(files'[l + 1])
    BY <1>2, <2>3, <2>5, <2>6, <2>7, StillApart
  <2> QED BY <1>2, <1>3, <1>5, <2>1, <2>7, <2>8
<1>16. CASE CompactionFails
  BY <1>4, <1>5, <1>16 DEF CompactionFails
<1>17. CASE UNCHANGED vars
  BY <1>4, <1>6, <1>7, <1>17 DEF vars
<1> QED BY <1>8, <1>9, <1>10, <1>11, <1>12, <1>13, <1>14, <1>15, <1>16, <1>17 DEF Next, Compaction

(* The files of every level above 0 lie one after the other, whatever is     *)
(* flushed between the choice of a compaction's inputs and its outputs.  It  *)
(* is not stated for a store whose program calls CompactRange and whose      *)
(* compactions flush imm_ while they merge: what CompactRange cuts off       *)
(* a level above 0 leaves gaps among the inputs, where a flush may settle.   *)
THEOREM LevelsStayDisjoint ==
    ASSUME ~(Manual /\ InlineFlush)
    PROVE  Spec => []LevelsDisjoint
<1>1. Init => InOrder
  <2>1. Init => Basic
    BY BasicAtFirst
  <2>2. Init => LevelsDisjoint
    BY DEF Init, LevelsDisjoint
  <2>3. Init => SidesKept /\ GapsFilled
    BY DEF Init, SidesKept, GapsFilled
  <2> QED BY <2>1, <2>2, <2>3 DEF InOrder
<1>2. InOrder /\ [Next]_vars => InOrder'
  BY OrderKept
<1>3. InOrder => LevelsDisjoint
  BY DEF InOrder
<1> QED BY <1>1, <1>2, <1>3, PTL DEF Spec

-----------------------------------------------------------------------------
(* Deeper places have older entries.  The invariant says it of the files and *)
(* the memtables, with what a compaction in hand needs: that no file left in *)
(* the output level shares a key with an input (SharesNothing), and that a   *)
(* file left in the input level is newer than every input it shares a key    *)
(* with.  Two files of a level above 0 share no key if outputs end between   *)
(* keys, or no snapshot makes a compaction keep two entries of one; without  *)
(* either it is false (the run levels_split).                                *)

NoShared(w, f, g) == \A s \in f.entries, t \in g.entries : KeyOf(w, s) # KeyOf(w, t)
Over(w, f, g) == \A s \in f.entries, t \in g.entries : KeyOf(w, s) = KeyOf(w, t) => s > t
After(d, e) == \A s \in d, t \in e : s > t

KeysApart(w, fs) ==
    \A l \in Levels \ {0} : \A f, g \in fs[l] : f # g => NoShared(w, f, g)
ZeroInTime(fs) ==
    \A f, g \in fs[0] : f # g => After(f.entries, g.entries) \/ After(g.entries, f.entries)
DeeperOlder(w, fs) ==
    \A l, m \in Levels : l < m => \A f \in fs[l], g \in fs[m] : Over(w, f, g)
Aged(w, fs) == KeysApart(w, fs) /\ ZeroInTime(fs) /\ DeeperOlder(w, fs)

MemNewest(fs, m, i) ==
    /\ After(m, i)
    /\ \A l \in Levels : \A f \in fs[l] : After(m, f.entries) /\ After(i, f.entries)

SharesNothing(w, fs, mg) ==
    mg # Idle =>
        /\ \A f \in fs[mg.level + 1] \ mg.in1, g \in mg.in0 \cup mg.in1 : NoShared(w, f, g)
        /\ \A f \in fs[mg.level] \ mg.in0, g \in mg.in0 : Over(w, f, g)

Aging ==
    /\ Basic
    /\ Aged(writes, files)
    /\ MemNewest(files, mem, imm)
    /\ SharesNothing(writes, files, merge)

\* Two tables with no user key within both share no key.
LEMMA ShareNothing ==
    ASSUME NEW w, Written(w), NEW f, Table(w, f), NEW g, Table(w, g), Disjoint(f, g)
    PROVE  NoShared(w, f, g) /\ NoShared(w, g, f) /\ Over(w, f, g) /\ Over(w, g, f)
<1>1. /\ LowKey(f) \in Nat /\ HighKey(f) \in Nat
      /\ \A s \in f.entries : LowKey(f) <= KeyOf(w, s) /\ KeyOf(w, s) <= HighKey(f)
      /\ \A s \in f.entries : KeyOf(w, s) \in Nat
  BY TableKeys, Entries
<1>2. /\ LowKey(g) \in Nat /\ HighKey(g) \in Nat
      /\ \A s \in g.entries : LowKey(g) <= KeyOf(w, s) /\ KeyOf(w, s) <= HighKey(g)
      /\ \A s \in g.entries : KeyOf(w, s) \in Nat
  BY TableKeys, Entries
<1>3. \A s \in f.entries, t \in g.entries : KeyOf(w, s) # KeyOf(w, t)
  BY <1>1, <1>2 DEF Disjoint
<1> QED BY <1>3 DEF NoShared, Over

\* Files that came later join a level: level 0, or one down to which they meet
\* nothing.
LEMMA Settling ==
    ASSUME NEW w, Written(w), NEW fs, Stocked(w, fs), Aged(w, fs), NEW l \in Levels, NEW new,
           \A f \in new : Table(w, f) /\ \A m \in Levels : \A g \in fs[m] : After(f.entries, g.entries),
           \A f, g \in new : f # g => After(f.entries, g.entries) \/ After(g.entries, f.entries),
           l # 0 => /\ \A f, g \in new : f = g
                    /\ \A m \in 0 .. l : \A f \in new, g \in fs[m] : Disjoint(f, g)
    PROVE  Aged(w, Flushed(fs, l, new))
<1> DEFINE gs == Flushed(fs, l, new)
<1>1. gs[l] = fs[l] \cup new /\ \A m \in Levels \ {l} : gs[m] = fs[m]
  BY Flushing
<1>2. l \in Nat /\ l \in 0 .. l
  BY LevelsAre
<1>3. \A m \in Levels : \A f \in fs[m] : Table(w, f)
  BY DEF Stocked
<1>4. ASSUME l # 0, NEW m \in 0 .. l, m \in Levels, NEW f \in new, NEW g \in fs[m]
      PROVE  NoShared(w, f, g) /\ NoShared(w, g, f) /\ Over(w, f, g) /\ Over(w, g, f)
  BY <1>3, <1>4, ShareNothing
<1>5. \A f \in new : \A m \in Levels : \A g \in fs[m] : Over(w, f, g)
  BY DEF After, Over
<1> HIDE DEF gs
<1>6. KeysApart(w, gs)
  <2> SUFFICES ASSUME NEW m \in Levels \ {0}, NEW f \in gs[m], NEW g \in gs[m], f # g
               PROVE  NoShared(w, f, g)
    BY DEF KeysApart
  <2>1. CASE f \in fs[m] /\ g \in fs[m]
    BY <2>1 DEF Aged, KeysApart
  <2>2. CASE ~(f \in fs[m] /\ g \in fs[m])
    <3>1. m = l /\ l # 0
      BY <1>1, <2>2
    <3> QED BY <1>1, <1>2, <1>4, <2>2, <3>1
  <2> QED BY <2>1, <2>2
<1>7. ZeroInTime(gs)
  BY <1>1, LevelsAre DEF Aged, ZeroInTime
<1>8. DeeperOlder(w, gs)
  <2> SUFFICES ASSUME NEW m \in Levels, NEW n \in Levels, m < n, NEW f \in gs[m], NEW g \in gs[n]
               PROVE  Over(w, f, g)
    BY DEF DeeperOlder
  <2>1. CASE f \in fs[m] /\ g \in fs[n]
    BY <2>1 DEF Aged, DeeperOlder
  <2>2. CASE f \notin fs[m]
    <3>1. m = l /\ f \in new
      BY <1>1, <2>2
    <3>2. n \in Levels \ {l}
      BY <1>2, <3>1, LevelsAre
    <3> QED BY <1>1, <1>5, <3>1, <3>2
  <2>3. CASE f \in fs[m] /\ g \notin fs[n]
    <3>1. n = l /\ g \in new
      BY <1>1, <2>3
    <3>2. l # 0 /\ m \in 0 .. l
      BY <3>1, LevelsAre
    <3> QED BY <1>4, <2>3, <3>1, <3>2
  <2> QED BY <2>1, <2>2, <2>3
<1> QED BY <1>6, <1>7, <1>8 DEF gs, Aged

\* The outputs take the place of the inputs whose entries they hold.
LEMMA Relocating ==
    ASSUME NEW w, NEW fs, Stocked(w, fs), Aged(w, fs), NEW l \in 0 .. (NumLevels - 2),
           NEW in0 \in SUBSET fs[l], NEW in1 \in SUBSET fs[l + 1], NEW outs,
           \A o \in outs : Table(w, o) /\ \A s \in o.entries : \E g \in in0 \cup in1 : s \in g.entries,
           \A o, p \in outs : o # p => NoShared(w, o, p),
           \A f \in fs[l + 1] \ in1, g \in in0 \cup in1 : NoShared(w, f, g),
           \A f \in fs[l] \ in0, g \in in0 : Over(w, f, g)
    PROVE  Aged(w, Replaced(fs, l, in0, in1, outs))
<1> DEFINE gs == Replaced(fs, l, in0, in1, outs)
<1>1. /\ gs[l] = fs[l] \ in0
      /\ gs[l + 1] = (fs[l + 1] \ in1) \cup outs
      /\ \A m \in Levels \ {l, l + 1} : gs[m] = fs[m]
  BY Replacing
<1>2. l \in Levels /\ l + 1 \in Levels /\ l \in Nat /\ l + 1 # 0
  BY LevelsAre
<1> HIDE DEF gs
<1>3. ASSUME NEW m \in Levels, NEW f \in gs[m]
      PROVE  \/ f \in fs[m]
             \/ m = l + 1 /\ f \in outs
  BY <1>1, <1>3
<1>4. ASSUME NEW f, NEW o \in outs, \A g \in in0 \cup in1 : NoShared(w, f, g)
      PROVE  NoShared(w, f, o) /\ NoShared(w, o, f)
  BY <1>4 DEF NoShared
<1>5. ASSUME NEW f, NEW o \in outs, \A g \in in0 \cup in1 : Over(w, f, g)
      PROVE  Over(w, f, o)
  BY <1>5 DEF Over
<1>6. ASSUME NEW f, NEW o \in outs, \A g \in in0 \cup in1 : Over(w, g, f)
      PROVE  Over(w, o, f)
  BY <1>6 DEF Over
<1>7. KeysApart(w, gs)
  <2> SUFFICES ASSUME NEW m \in Levels \ {0}, NEW f \in gs[m], NEW g \in gs[m], f # g
               PROVE  NoShared(w, f, g)
    BY DEF KeysApart
  <2>1. CASE f \in fs[m] /\ g \in fs[m]
    BY <2>1 DEF Aged, KeysApart
  <2>2. CASE m = l + 1
    <3>1. (f \in fs[l + 1] \ in1 \/ f \in outs) /\ (g \in fs[l + 1] \ in1 \/ g \in outs)
      BY <1>1, <2>2
    <3>2. CASE f \in fs[l + 1] \ in1 /\ g \in outs
      BY <1>4, <3>2
    <3>3. CASE g \in fs[l + 1] \ in1 /\ f \in outs
      BY <1>4, <3>3
    <3>4. CASE f \in outs /\ g \in outs
      BY <3>4
    <3> QED BY <2>1, <2>2, <3>1, <3>2, <3>3, <3>4
  <2> QED BY <1>3, <2>1, <2>2
<1>8. ZeroInTime(gs)
  <2>1. gs[0] \subseteq fs[0]
    <3>1. 0 \in Levels /\ 0 # l + 1
      BY LevelsAre
    <3> QED BY <1>3, <3>1
  <2> QED BY <2>1 DEF Aged, ZeroInTime
<1>9. DeeperOlder(w, gs)
  <2> SUFFICES ASSUME NEW m \in Levels, NEW n \in Levels, m < n, NEW f \in gs[m], NEW g \in gs[n]
               PROVE  Over(w, f, g)
    BY DEF DeeperOlder
  <2>1. \A i, j \in Levels : i < j => \A x \in fs[i], y \in fs[j] : Over(w, x, y)
    BY DEF Aged, DeeperOlder
  <2>2. CASE f \in fs[m] /\ g \in fs[n]
    BY <2>1, <2>2
  <2>3. CASE n = l + 1 /\ g \in outs /\ f \in fs[m]
    <3>1. m \in Nat /\ m <= l
      BY <1>2, <2>3, LevelsAre
    <3>2. m < l + 1
      BY <1>2, <3>1
    <3>3. \A h \in in1 : Over(w, f, h)
      BY <1>2, <2>1, <2>3, <3>2
    <3>4. \A h \in in0 : Over(w, f, h)
      <4>1. CASE m < l
        BY <1>2, <2>1, <2>3, <4>1
      <4>2. CASE m = l
        BY <1>1, <4>2
      <4> QED BY <1>2, <3>1, <4>1, <4>2
    <3> QED BY <1>5, <2>3, <3>3, <3>4
  <2>4. CASE m = l + 1 /\ f \in outs /\ g \in fs[n]
    <3>1. l < n /\ l + 1 < n
      BY <1>2, <2>4, LevelsAre
    <3>2. \A h \in in0 \cup in1 : Over(w, h, g)
      BY <1>2, <2>1, <2>4, <3>1
    <3> QED BY <1>6, <2>4, <3>2
  <2>5. m # n
    BY LevelsAre
  <2> QED BY <1>3, <2>2, <2>3, <2>4, <2>5
<1> QED BY <1>7, <1>8, <1>9 DEF gs, Aged

\* A new entry is newer than all.
LEMMA AgingWithWrite ==
    ASSUME Aging, Write
    PROVE  Aged(writes', files') /\ MemNewest(files', mem', imm') /\ SharesNothing(writes', files', merge')
<1>1. Written(writes) /\ Stocked(writes, files) /\ Len(writes) \in Nat
  BY Entries DEF Aging, Basic
<1>2. PICK k \in Keys, d \in BOOLEAN : writes' = Append(writes, [key |-> k, del |-> d])
  BY DEF Write
<1>3. Len(writes) < MaxWrites /\ mem' = mem \cup {Len(writes) + 1} /\ UNCHANGED <<imm, files, held, merge>>
  BY DEF Write, LastSequence
<1>4. \A s \in 1 .. Len(writes) : KeyOf(writes', s) = KeyOf(writes, s)
  <2>1. \A s \in 1 .. Len(writes) : writes'[s] = writes[s]
    BY <1>1, <1>2, <1>3, OneMore
  <2> QED BY <2>1 DEF KeyOf
<1>5. \A l \in Levels : \A f \in files[l] : f.entries \subseteq 1 .. Len(writes)
  BY <1>1 DEF Stocked, Table
<1>6. \A l, m \in Levels : \A f \in files[l], g \in files[m] :
         (NoShared(writes, f, g) => NoShared(writes', f, g)) /\ (Over(writes, f, g) => Over(writes', f, g))
  BY <1>4, <1>5 DEF NoShared, Over
<1>7. Aged(writes', files)
  BY <1>6, LevelsAre DEF Aging, Aged, KeysApart, ZeroInTime, DeeperOlder
<1>8. MemNewest(files, mem', imm)
  <2>1. \A s \in 1 .. Len(writes) : Len(writes) + 1 > s
    BY <1>1
  <2>2. imm \subseteq 1 .. Len(writes)
    BY DEF Aging, Basic
  <2>3. After({Len(writes) + 1}, imm) /\ \A l \in Levels : \A f \in files[l] : After({Len(writes) + 1}, f.entries)
    BY <1>5, <2>1, <2>2 DEF After
  <2> QED BY <1>3, <2>3 DEF MemNewest, After, Aging
<1>9. SharesNothing(writes', files, merge)
  <2> SUFFICES ASSUME merge # Idle
               PROVE  SharesNothing(writes', files, merge)
    BY DEF SharesNothing
  <2>1. /\ merge.level \in Levels /\ merge.level + 1 \in Levels
        /\ merge.in0 \subseteq files[merge.level] /\ merge.in1 \subseteq files[merge.level + 1]
    BY LevelsAre DEF Aging, Basic, MergeTyped
  <2> QED BY <1>6, <2>1 DEF Aging, SharesNothing
<1> QED BY <1>3, <1>7, <1>8, <1>9

\* A flushed table is newer than every file, and goes past none that it meets.
LEMMA AgingWithFlush ==
    ASSUME Aging, CompactMemTable
    PROVE  Aged(writes', files') /\ MemNewest(files', mem', imm') /\ SharesNothing(writes', files', merge')
<1>1. Basic /\ Written(writes) /\ Stocked(writes, files)
  BY DEF Aging, Basic
<1>2. UNCHANGED <<writes, mem, held, merge>> /\ imm' = {}
  BY <1>1, FlushStep
<1>3. PICK l, f :
         /\ l \in Levels /\ Table(writes, f) /\ f.entries = imm
         /\ files' = Flushed(files, l, {f})
         /\ l > 0 => \A m \in 0 .. l : m \in Levels /\ \A g \in files[m] : Disjoint(f, g)
  BY <1>1, FlushStep
<1>4. files'[l] = files[l] \cup {f} /\ \A m \in Levels \ {l} : files'[m] = files[m]
  BY <1>1, <1>3, Flushing
<1>5. l # 0 => \A m \in 0 .. l : \A g \in files[m] : Disjoint(f, g)
  BY <1>3, LevelsAre
<1>6. \A m \in Levels : \A g \in files[m] : After(f.entries, g.entries)
  BY <1>3 DEF Aging, MemNewest
<1>7. Aged(writes, files')
  <2>1. Aged(writes, files)
    BY DEF Aging
  <2>2. \A g \in {f} : Table(writes, g) /\ \A m \in Levels : \A h \in files[m] : After(g.entries, h.entries)
    BY <1>3, <1>6
  <2>3. \A g, h \in {f} : g = h
    OBVIOUS
  <2>4. l # 0 => \A m \in 0 .. l : \A g \in {f}, h \in files[m] : Disjoint(g, h)
    BY <1>5
  <2>5. Aged(writes, Flushed(files, l, {f}))
    BY <1>1, <1>3, <2>1, <2>2, <2>3, <2>4, Settling
  <2> QED BY <1>3, <2>5
<1>8. MemNewest(files', mem, {})
  <2>1. After(mem, f.entries)
    BY <1>3 DEF Aging, MemNewest
  <2>2. \A m \in Levels : \A g \in files'[m] : g \in files[m] \/ g = f
    BY <1>4
  <2> QED BY <2>1, <2>2 DEF Aging, MemNewest, After
<1>9. SharesNothing(writes, files', merge)
  <2> SUFFICES ASSUME merge # Idle
               PROVE  /\ \A g \in files'[merge.level + 1] \ merge.in1, h \in merge.in0 \cup merge.in1 :
                            NoShared(writes, g, h)
                      /\ \A g \in files'[merge.level] \ merge.in0, h \in merge.in0 : Over(writes, g, h)
    BY DEF SharesNothing
  <2>1. /\ merge.level \in Levels /\ merge.level + 1 \in Levels /\ merge.level \in Nat
        /\ merge.in0 \subseteq files[merge.level] /\ merge.in1 \subseteq files[merge.level + 1]
    BY <1>1, LevelsAre DEF Basic, MergeTyped
  <2>2. \A h \in merge.in0 \cup merge.in1 : Table(writes, h)
    BY <1>1, MergedAre
  <2>3. /\ \A g \in files[merge.level + 1] \ merge.in1, h \in merge.in0 \cup merge.in1 : NoShared(writes, g, h)
        /\ \A g \in files[merge.level] \ merge.in0, h \in merge.in0 : Over(writes, g, h)
    BY DEF Aging, SharesNothing
  <2>4. l = merge.level + 1 => \A h \in merge.in0 \cup merge.in1 : NoShared(writes, f, h)
    <3> SUFFICES ASSUME l = merge.level + 1, NEW h \in merge.in0 \cup merge.in1
                 PROVE  NoShared(writes, f, h)
      OBVIOUS
    <3>1. l # 0 /\ l \in 0 .. l /\ merge.level \in 0 .. l
      BY <2>1
    <3>2. Disjoint(f, h)
      BY <1>5, <2>1, <3>1
    <3> QED BY <1>1, <1>3, <2>2, <3>2, ShareNothing
  <2>5. \A h \in merge.in0 : Over(writes, f, h)
    BY <1>6, <2>1 DEF After, Over
  <2> QED BY <1>4, <2>1, <2>3, <2>4, <2>5
<1> QED BY <1>2, <1>7, <1>8, <1>9

\* The tables of a recovery are newer than every file.
LEMMA AgingWithReopen ==
    ASSUME Aging, Reopen
    PROVE  Aged(writes', files') /\ MemNewest(files', mem', imm') /\ SharesNothing(writes', files', merge')
<1>1. Basic /\ Written(writes) /\ Stocked(writes, files) /\ Aged(writes, files) /\ MemNewest(files, mem, imm)
  BY DEF Aging, Basic
<1>2. writes' = writes /\ mem' = {} /\ imm' = {} /\ merge' = Idle
  BY <1>1, ReopenStep
<1>3. PICK new : /\ files' = Flushed(files, 0, new)
                 /\ \A f \in new : Table(writes, f) /\ f.entries \in {mem, imm} \ {{}}
  BY <1>1, ReopenStep
<1>4. \A f \in new : \A m \in Levels : \A g \in files[m] : After(f.entries, g.entries)
  BY <1>1, <1>3 DEF MemNewest
<1>5. \A f, g \in new : f # g => After(f.entries, g.entries) \/ After(g.entries, f.entries)
  <2> SUFFICES ASSUME NEW f \in new, NEW g \in new, f # g
               PROVE  After(f.entries, g.entries) \/ After(g.entries, f.entries)
    OBVIOUS
  <2>1. f.entries # g.entries
    BY <1>1, <1>3, SameEntries
  <2> QED BY <1>1, <1>3, <2>1 DEF MemNewest
<1>6. Aged(writes, Flushed(files, 0, new))
  BY <1>1, <1>3, <1>4, <1>5, Settling, LevelsAre
<1>7. MemNewest(files', {}, {})
  BY DEF MemNewest, After
<1> QED BY <1>2, <1>3, <1>6, <1>7 DEF SharesNothing

\* The files, and so the tables' entries, when files are only left out.
LEMMA AgingWithMove ==
    ASSUME Aging, NEW l \in 0 .. (NumLevels - 2), MoveTrivially(l)
    PROVE  Aged(writes', files') /\ MemNewest(files', mem', imm') /\ SharesNothing(writes', files', merge')
<1>1. Basic /\ Written(writes) /\ Stocked(writes, files) /\ Aged(writes, files) /\ MemNewest(files, mem, imm)
  BY DEF Aging, Basic
<1>2. UNCHANGED <<writes, mem, imm, held, merge>> /\ merge = Idle
  BY <1>1, MoveStep
<1>3. PICK f \in files[l] : /\ Table(writes, f) /\ Chosen(l, {f}, {})
                            /\ files' = Replaced(files, l, {f}, {}, {f})
  BY <1>1, MoveStep
<1>4. l \in Levels /\ l + 1 \in Levels
  BY LevelsAre
<1>5. \A g \in files[l + 1] : NoShared(writes, g, f)
  <2>1. \A g \in files[l + 1] : Table(writes, g) /\ Disjoint(f, g)
    BY <1>1, <1>3, <1>4 DEF Chosen, Disjoint, Stocked
  <2> QED BY <1>1, <1>3, <2>1, ShareNothing
<1>6. \A g \in files[l] \ {f} : Over(writes, g, f)
  <2> SUFFICES ASSUME NEW g \in files[l] \ {f}
               PROVE  Over(writes, g, f)
    OBVIOUS
  <2>1. CASE l = 0
    <3>1. Disjoint(g, f) /\ Table(writes, g)
      BY <1>1, <1>3, <1>4, <2>1 DEF Chosen, Closed, Stocked
    <3> QED BY <1>1, <1>3, <3>1, ShareNothing
  <2>2. CASE l # 0
    <3>1. NoShared(writes, g, f)
      BY <1>1, <1>3, <1>4, <2>2 DEF Aged, KeysApart
    <3> QED BY <3>1 DEF NoShared, Over
  <2> QED BY <2>1, <2>2
<1>7. Aged(writes, files')
  <2>1. \A o \in {f} : Table(writes, o) /\ \A s \in o.entries : \E g \in {f} \cup {} : s \in g.entries
    BY <1>3
  <2>2. Aged(writes, Replaced(files, l, {f}, {}, {f}))
    BY <1>1, <1>5, <1>6, <2>1, Relocating
  <2> QED BY <1>3, <2>2
<1>8. MemNewest(files', mem, imm)
  <2>1. /\ files'[l] = files[l] \ {f} /\ files'[l + 1] = files[l + 1] \cup {f}
        /\ \A m \in Levels \ {l, l + 1} : files'[m] = files[m]
    BY <1>1, <1>3, Replacing
  <2>2. \A m \in Levels : \A g \in files'[m] : g \in files[m] \/ g \in files[l]
    BY <2>1
  <2> QED BY <1>1, <1>4, <2>2 DEF MemNewest
<1> QED BY <1>2, <1>7, <1>8 DEF SharesNothing

\* What the inputs of a compaction leave behind shares no key with them, or is newer.
LEMMA AgingWithBegin ==
    ASSUME Aging, NEW l \in 0 .. (NumLevels - 2), CompactionBegin(l)
    PROVE  SharesNothing(writes, files, merge')
<1>1. Basic /\ Written(writes) /\ Stocked(writes, files) /\ Aged(writes, files)
  BY DEF Aging, Basic
<1>2. merge'.level = l /\ Chosen(l, merge'.in0, merge'.in1)
  BY <1>1, BeginStep
<1> DEFINE in0 == merge'.in0
           in1 == merge'.in1
<1> HIDE DEF in0, in1
<1>3. Chosen(l, in0, in1)
  BY <1>2 DEF in0, in1
<1>4. l \in Levels /\ l + 1 \in Levels \ {0} /\ in0 \subseteq files[l] /\ in1 \subseteq files[l + 1]
  BY <1>3, LevelsAre DEF Chosen
<1>5. \A g \in files[l] \cup files[l + 1] : Table(writes, g)
  BY <1>1, <1>4 DEF Stocked
<1>6. ASSUME NEW f \in files[l + 1] \ in1, NEW g \in in0 \cup in1
      PROVE  NoShared(writes, f, g)
  <2>1. CASE g \in in0
    <3>1. Disjoint(f, g)
      BY <1>3, <2>1 DEF Chosen, Disjoint
    <3> QED BY <1>1, <1>4, <1>5, <2>1, <3>1, ShareNothing
  <2>2. CASE g \in in1
    BY <1>1, <1>4, <2>2 DEF Aged, KeysApart
  <2> QED BY <2>1, <2>2
<1>7. ASSUME NEW f \in files[l] \ in0, NEW g \in in0
      PROVE  Over(writes, f, g)
  <2>1. CASE l = 0
    <3>1. Disjoint(f, g)
      BY <1>3, <2>1 DEF Chosen, Closed
    <3> QED BY <1>1, <1>4, <1>5, <3>1, ShareNothing
  <2>2. CASE l # 0
    <3>1. NoShared(writes, f, g)
      BY <1>1, <1>4, <2>2 DEF Aged, KeysApart
    <3> QED BY <3>1 DEF NoShared, Over
  <2> QED BY <2>1, <2>2
<1> QED BY <1>2, <1>6, <1>7 DEF SharesNothing, in0, in1

\* Outputs share keys with nothing deeper that is newer.
LEMMA AgingWithWork ==
    ASSUME KeysWhole, Aging, DoCompactionWork
    PROVE  Aged(writes', files') /\ MemNewest(files', mem', imm') /\ SharesNothing(writes', files', merge')
<1>1. /\ Basic /\ Written(writes) /\ Stocked(writes, files) /\ Aged(writes, files)
      /\ MemNewest(files, mem, imm) /\ SharesNothing(writes, files, merge)
  BY DEF Aging, Basic
<1>2. UNCHANGED <<writes, mem, imm, held>> /\ merge # Idle /\ merge' = Idle
  BY <1>1, WorkStep
<1>3. PICK cuts \in SUBSET CutPoints :
         files' = Replaced(files, merge.level, merge.in0, merge.in1, Outputs(cuts))
  BY <1>1, WorkStep
<1> DEFINE l == merge.level
           in0 == merge.in0
           in1 == merge.in1
           outs == Outputs(cuts)
<1>4. /\ l \in 0 .. (NumLevels - 2) /\ l \in Levels /\ l + 1 \in Levels
      /\ in0 \in SUBSET files[l] /\ in1 \in SUBSET files[l + 1]
  BY <1>1, <1>2, LevelsAre DEF Basic, MergeTyped
<1>5. \A o \in outs : Table(writes, o) /\ \A s \in o.entries : \E g \in in0 \cup in1 : s \in g.entries
  <2>1. Kept \subseteq Merged /\ \A s \in Merged : \E g \in in0 \cup in1 : s \in g.entries
    BY <1>1, <1>2, MergedAre
  <2>2. \A o \in outs : Table(writes, o) /\ o.entries \subseteq Kept
    BY <1>1, <1>2, OutputsAre
  <2> QED BY <2>1, <2>2
<1>6. \A o, p \in outs : o # p => NoShared(writes, o, p)
  BY <1>1, <1>2, OutputsAre DEF NoShared
<1>7. /\ \A f \in files[l + 1] \ in1, g \in in0 \cup in1 : NoShared(writes, f, g)
      /\ \A f \in files[l] \ in0, g \in in0 : Over(writes, f, g)
  BY <1>1, <1>2 DEF SharesNothing
<1>8. files' = Replaced(files, l, in0, in1, outs)
  BY <1>3
<1> HIDE DEF l, in0, in1, outs
<1>9. Aged(writes, files')
  <2>1. Aged(writes, Replaced(files, l, in0, in1, outs))
    BY <1>1, <1>4, <1>5, <1>6, <1>7, Relocating
  <2> QED BY <1>8, <2>1
<1>10. MemNewest(files', mem, imm)
  <2>1. /\ files'[l] = files[l] \ in0 /\ files'[l + 1] = (files[l + 1] \ in1) \cup outs
        /\ \A m \in Levels \ {l, l + 1} : files'[m] = files[m]
    BY <1>1, <1>4, <1>5, <1>8, Replacing
  <2>2. \A m \in Levels : \A f \in files'[m] : f \in files[m] \/ f \in outs
    BY <2>1
  <2>3. \A o \in outs : After(mem, o.entries) /\ After(imm, o.entries)
    <3>1. \A g \in in0 \cup in1 : After(mem, g.entries) /\ After(imm, g.entries)
      BY <1>1, <1>4 DEF MemNewest
    <3> QED BY <1>5, <3>1 DEF After
  <2> QED BY <1>1, <2>2, <2>3 DEF MemNewest
<1> QED BY <1>2, <1>9, <1>10 DEF SharesNothing

\* Every step keeps the ages in order.
LEMMA AgingKept ==
    ASSUME KeysWhole
    PROVE  Aging /\ [Next]_vars => Aging'
<1> SUFFICES ASSUME Aging, [Next]_vars
             PROVE  Aged(writes', files') /\ MemNewest(files', mem', imm') /\ SharesNothing(writes', files', merge')
  BY BasicKept DEF Aging, Aged, KeysApart, ZeroInTime, DeeperOlder, MemNewest, SharesNothing,
                   NoShared, Over, After, KeyOf
<1>1. Aged(writes, files) /\ MemNewest(files, mem, imm) /\ SharesNothing(writes, files, merge)
  BY DEF Aging
<1>2. CASE Write
  BY <1>2, AgingWithWrite
<1>3. ASSUME NEW h \in Handles, GetOrReleaseSnapshot(h)
      PROVE  Aged(writes', files') /\ MemNewest(files', mem', imm') /\ SharesNothing(writes', files', merge')
  BY <1>1, <1>3 DEF GetOrReleaseSnapshot
<1>4. CASE SwitchMemTable
  <2>1. UNCHANGED <<writes, files, merge>> /\ mem' = {} /\ imm' = mem
    BY <1>4 DEF SwitchMemTable
  <2>2. MemNewest(files, {}, mem)
    BY <1>1 DEF MemNewest, After
  <2> QED BY <1>1, <2>1, <2>2
<1>5. CASE CompactMemTable
  BY <1>5, AgingWithFlush
<1>6. CASE Reopen
  BY <1>6, AgingWithReopen
<1>7. ASSUME NEW l \in 0 .. (NumLevels - 2), MoveTrivially(l)
      PROVE  Aged(writes', files') /\ MemNewest(files', mem', imm') /\ SharesNothing(writes', files', merge')
  BY <1>7, AgingWithMove
<1>8. ASSUME NEW l \in 0 .. (NumLevels - 2), CompactionBegin(l)
      PROVE  Aged(writes', files') /\ MemNewest(files', mem', imm') /\ SharesNothing(writes', files', merge')
  <2>1. SharesNothing(writes, files, merge')
    BY <1>8, AgingWithBegin
  <2>2. UNCHANGED <<writes, mem, imm, files>>
    BY <1>8 DEF CompactionBegin
  <2> QED BY <1>1, <2>1, <2>2
<1>9. CASE DoCompactionWork
  BY <1>9, AgingWithWork
<1>10. CASE CompactionFails
  <2>1. UNCHANGED <<writes, mem, imm, files>> /\ merge' = Idle
    BY <1>10 DEF CompactionFails
  <2> QED BY <1>1, <2>1 DEF SharesNothing
<1>11. CASE UNCHANGED vars
  BY <1>1, <1>11 DEF vars
<1> QED BY <1>2, <1>3, <1>4, <1>5, <1>6, <1>7, <1>8, <1>9, <1>10, <1>11 DEF Next, Compaction

(* Where outputs end between two user keys, or no snapshot is ever held,     *)
(* a place a lookup comes to later has only older entries of a key:          *)
(* memtables, level 0 files by their age, levels, through any flush, move,   *)
(* compaction and reopening; so Version::Get may stop at the first place     *)
(* that has one.                                                             *)
THEOREM EntriesStayInOrder ==
    ASSUME KeysWhole
    PROVE  Spec => []EntriesNeverHop
<1>1. Init => Aging
  <2>1. Init => Basic
    BY BasicAtFirst
  <2>2. ASSUME Init
        PROVE  Aged(writes, files) /\ MemNewest(files, mem, imm) /\ SharesNothing(writes, files, merge)
    <3>1. \A l \in Levels : files[l] = {}
      BY <2>2 DEF Init
    <3> QED BY <2>2, <3>1, LevelsAre
            DEF Init, Aged, KeysApart, ZeroInTime, DeeperOlder, MemNewest, SharesNothing, After
  <2> QED BY <2>1, <2>2 DEF Aging
<1>2. Aging /\ [Next]_vars => Aging'
  BY AgingKept
<1>3. Aging => EntriesNeverHop
  <2> SUFFICES ASSUME Aging, NEW p \in Places, NEW q \in Places, Before(p, q),
                      NEW s \in p[2], NEW t \in q[2], KeyOf(writes, s) = KeyOf(writes, t)
               PROVE  s > t
    BY DEF EntriesNeverHop, KeyOf, Key
  <2>1. /\ Written(writes) /\ Stocked(writes, files) /\ Aged(writes, files) /\ MemNewest(files, mem, imm)
        /\ Len(writes) \in Nat
    BY Entries DEF Aging, Basic
  <2> DEFINE InFile(r) == \E l \in Levels : \E f \in files[l] : r = <<l, f.entries>>
  <2>2. \A r \in Places : r = <<Mem, mem>> \/ r = <<Imm, imm>> \/ InFile(r)
    BY DEF Places
  <2>3. Mem = -2 /\ Imm = -1 /\ Levels \subseteq Nat
    BY LevelsAre DEF Mem, Imm
  <2>4. CASE p = <<Mem, mem>>
    <3>1. q = <<Imm, imm>> \/ InFile(q)
      BY <2>2, <2>3, <2>4 DEF Before
    <3> QED BY <2>1, <2>4, <3>1 DEF MemNewest, After
  <2>5. CASE p = <<Imm, imm>>
    <3>1. InFile(q)
      BY <2>2, <2>3, <2>5 DEF Before
    <3> QED BY <2>1, <2>5, <3>1 DEF MemNewest, After
  <2>6. CASE InFile(p)
    <3>1. PICK l, f : l \in Levels /\ f \in files[l] /\ p = <<l, f.entries>>
      BY <2>6
    <3>2. InFile(q)
      BY <2>2, <2>3, <3>1 DEF Before
    <3>3. PICK m, g : m \in Levels /\ g \in files[m] /\ q = <<m, g.entries>>
      BY <3>2
    <3>4. CASE l < m
      BY <2>1, <3>1, <3>3, <3>4 DEF Aged, DeeperOlder, Over
    <3>5. CASE l = 0 /\ m = 0 /\ Max(f.entries) > Max(g.entries)
      <4>1. \A e \in {f.entries, g.entries} : e \in SUBSET Int /\ IsFiniteSet(e) /\ e # {}
        <5>1. IsFiniteSet(1 .. Len(writes))
          BY <2>1, FS_Interval
        <5>2. Table(writes, f) /\ Table(writes, g)
          BY <2>1, <3>1, <3>3 DEF Stocked
        <5>3. \A e \in {f.entries, g.entries} : e \in SUBSET (1 .. Len(writes)) /\ e # {}
          BY <5>2 DEF Table
        <5> QED BY <5>1, <5>3, FS_Subset
      <4>2. PICK x \in f.entries, y \in g.entries : x = Max(f.entries) /\ y = Max(g.entries)
        BY <4>1, MinMax
      <4>3. x > y /\ x \in Int /\ y \in Int
        BY <3>5, <4>1, <4>2
      <4>4. f # g
        BY <4>2, <4>3
      <4>5. After(f.entries, g.entries) \/ After(g.entries, f.entries)
        BY <2>1, <3>1, <3>3, <3>5, <4>4 DEF Aged, ZeroInTime
      <4>6. ~After(g.entries, f.entries)
        BY <4>2, <4>3 DEF After
      <4> QED BY <3>1, <3>3, <4>5, <4>6 DEF After
    <3>6. l < m \/ (l = 0 /\ m = 0 /\ Max(f.entries) > Max(g.entries))
      BY <3>1, <3>3 DEF Before
    <3> QED BY <3>4, <3>5, <3>6
  <2> QED BY <2>2, <2>4, <2>5, <2>6
<1> QED BY <1>1, <1>2, <1>3, PTL DEF Spec

-----------------------------------------------------------------------------
(* Nothing is lost.  A compaction drops an entry that is no deletion only    *)
(* for a newer one of its key that every snapshot held sees as well: the one *)
(* it compares with was taken when the inputs were chosen, and snapshots     *)
(* taken since are newer (OldestKnown).                                      *)

Newest(w, k, n, s) ==
    /\ s \in 1 .. Len(w) /\ KeyOf(w, s) = k /\ s <= n
    /\ \A t \in 1 .. Len(w) : KeyOf(w, t) = k /\ t <= n => t <= s

InTables(fs, s) == \E l \in Levels : \E f \in fs[l] : s \in f.entries
Stays(fs, m, i, s) == s \in m \/ s \in i \/ InTables(fs, s)

\* Where a lookup may look from: the latest sequence number or a snapshot.
Viewed(w, hd, n) == n = Len(w) \/ \E h \in Handles : n = hd[h] /\ hd[h] # NoNumber

AllThere ==
    \A n : Viewed(writes, held, n) =>
        \A k, s : Newest(writes, k, n, s) => Stays(files, mem, imm, s) \/ writes[s].del

OldestKnown ==
    merge # Idle => merge.snap \in 0 .. Len(writes) /\ \A n : Viewed(writes, held, n) => merge.snap <= n

Whole == Basic /\ OldestKnown /\ AllThere

\* One more write changes no view but the latest, and that one for one key.
LEMMA NewestWithWrite ==
    ASSUME NEW w, Written(w), Len(w) < MaxWrites, NEW k \in Keys, NEW d \in BOOLEAN
    PROVE  LET v == Append(w, [key |-> k, del |-> d]) IN
           /\ \A j, s : \A n \in 0 .. Len(w) : Newest(v, j, n, s) <=> Newest(w, j, n, s)
           /\ \A j, s : j # k => (Newest(v, j, Len(v), s) <=> Newest(w, j, Len(w), s))
           /\ \A s : Newest(v, k, Len(v), s) <=> s = Len(v)
           /\ Len(v) = Len(w) + 1 /\ Len(w) \in Nat
           /\ \A s \in 1 .. Len(w) : v[s] = w[s]
           /\ v[Len(v)] = [key |-> k, del |-> d]
<1> DEFINE v == Append(w, [key |-> k, del |-> d])
<1>1. /\ Len(v) = Len(w) + 1 /\ Len(w) \in Nat
      /\ \A s \in 1 .. Len(w) : v[s] = w[s] /\ s \in 1 .. Len(v)
      /\ v[Len(w) + 1] = [key |-> k, del |-> d]
  BY OneMore
<1> HIDE DEF v
<1>2. \A s \in 1 .. Len(w) : KeyOf(v, s) = KeyOf(w, s)
  BY <1>1 DEF KeyOf
<1>3. KeyOf(v, Len(v)) = k
  BY <1>1 DEF KeyOf
<1>4. \A s \in 1 .. Len(v) : s \in 1 .. Len(w) \/ s = Len(v)
  BY <1>1
<1>5. ASSUME NEW j, NEW s, NEW n \in 0 .. Len(w)
      PROVE  Newest(v, j, n, s) <=> Newest(w, j, n, s)
  <2>1. ~(Len(v) <= n)
    BY <1>1
  <2> QED BY <1>1, <1>2, <1>4, <2>1 DEF Newest
<1>6. ASSUME NEW j, NEW s, j # k
      PROVE  Newest(v, j, Len(v), s) <=> Newest(w, j, Len(w), s)
  <2>1. \A t \in 1 .. Len(w) : t <= Len(v) /\ t <= Len(w)
    BY <1>1
  <2> QED BY <1>1, <1>2, <1>3, <1>4, <1>6, <2>1 DEF Newest
<1>7. ASSUME NEW s
      PROVE  Newest(v, k, Len(v), s) <=> s = Len(v)
  <2>1. Len(v) \in 1 .. Len(v) /\ Len(v) <= Len(v) /\ \A t \in 1 .. Len(v) : t <= Len(v)
    BY <1>1
  <2>2. Newest(v, k, Len(v), Len(v))
    BY <1>3, <2>1 DEF Newest
  <2>3. Newest(v, k, Len(v), s) => s = Len(v)
    <3>1. Newest(v, k, Len(v), s) => s \in 1 .. Len(v) /\ Len(v) <= s
      BY <1>3, <2>1 DEF Newest
    <3> QED BY <1>1, <3>1
  <2> QED BY <2>2, <2>3
<1> QED BY <1>1, <1>5, <1>6, <1>7 DEF v

\* Views are of entries written so far.
LEMMA Views ==
    ASSUME Basic
    PROVE  \A n : Viewed(writes, held, n) => n \in 0 .. Len(writes)
<1>1. Len(writes) \in Nat
  BY Entries DEF Basic
<1>2. \A h \in Handles : held[h] # NoNumber => held[h] \in 0 .. Len(writes)
  BY DEF Basic
<1> QED BY <1>1, <1>2 DEF Viewed

\* These steps bring entries from one place to another and lose none.
LEMMA SameStay ==
    ASSUME Basic,
           \/ SwitchMemTable \/ CompactMemTable \/ Reopen \/ CompactionFails
           \/ \E l \in 0 .. (NumLevels - 2) : MoveTrivially(l) \/ CompactionBegin(l)
    PROVE  \A s : Stays(files', mem', imm', s) <=> Stays(files, mem, imm, s)
<1>1. Written(writes) /\ Stocked(writes, files)
  BY DEF Basic
<1>2. CASE SwitchMemTable
  <2>1. UNCHANGED files /\ imm = {} /\ imm' = mem /\ mem' = {}
    BY <1>2 DEF SwitchMemTable
  <2> QED BY <2>1 DEF Stays
<1>3. CASE CompactMemTable
  <2>1. UNCHANGED mem /\ imm' = {}
    BY <1>3, FlushStep
  <2>2. PICK l, f : /\ l \in Levels /\ Table(writes, f) /\ f.entries = imm
                    /\ files' = Flushed(files, l, {f})
    BY <1>3, FlushStep
  <2>3. files'[l] = files[l] \cup {f} /\ \A m \in Levels \ {l} : files'[m] = files[m]
    BY <1>1, <2>2, Flushing
  <2>4. \A s : InTables(files', s) <=> InTables(files, s) \/ s \in imm
    BY <2>2, <2>3 DEF InTables
  <2> QED BY <2>1, <2>4 DEF Stays
<1>4. CASE Reopen
  <2>1. mem' = {} /\ imm' = {}
    BY <1>4, ReopenStep
  <2>2. PICK new : /\ files' = Flushed(files, 0, new)
                   /\ \A f \in new : Table(writes, f) /\ f.entries \in {mem, imm} \ {{}}
                   /\ \A m \in {mem, imm} \ {{}} : \E f \in new : f.entries = m
    BY <1>4, ReopenStep
  <2>3. files'[0] = files[0] \cup new /\ \A m \in Levels \ {0} : files'[m] = files[m]
    BY <1>1, <2>2, Flushing, LevelsAre
  <2>4. \A s : (\E f \in new : s \in f.entries) <=> s \in mem \/ s \in imm
    BY <2>2
  <2>5. \A s : InTables(files', s) <=> InTables(files, s) \/ \E f \in new : s \in f.entries
    BY <2>3, LevelsAre DEF InTables
  <2> QED BY <2>1, <2>4, <2>5 DEF Stays
<1>5. CASE CompactionFails
  BY <1>5 DEF CompactionFails, Stays
<1>6. ASSUME NEW l \in 0 .. (NumLevels - 2), MoveTrivially(l)
      PROVE  \A s : Stays(files', mem', imm', s) <=> Stays(files, mem, imm, s)
  <2>1. UNCHANGED <<mem, imm>>
    BY <1>6, MoveStep
  <2>2. PICK f \in files[l] : Table(writes, f) /\ files' = Replaced(files, l, {f}, {}, {f})
    BY <1>6, MoveStep
  <2>3. /\ files'[l] = files[l] \ {f} /\ files'[l + 1] = files[l + 1] \cup {f}
        /\ \A m \in Levels \ {l, l + 1} : files'[m] = files[m]
    BY <1>1, <2>2, Replacing
  <2>4. l \in Levels /\ l + 1 \in Levels
    BY LevelsAre
  <2>5. \A g : (\E m \in Levels : g \in files'[m]) <=> (\E m \in Levels : g \in files[m])
    BY <2>2, <2>3, <2>4
  <2>6. \A s : InTables(files', s) <=> InTables(files, s)
    BY <2>5 DEF InTables
  <2> QED BY <2>1, <2>6 DEF Stays
<1>7. ASSUME NEW l \in 0 .. (NumLevels - 2), CompactionBegin(l)
      PROVE  \A s : Stays(files', mem', imm', s) <=> Stays(files, mem, imm, s)
  BY <1>7 DEF CompactionBegin, Stays
<1> QED BY <1>2, <1>3, <1>4, <1>5, <1>6, <1>7

\* A compaction leaves the files that are no inputs, and what it kept.
LEMMA WorkedFiles ==
    ASSUME Basic, DoCompactionWork
    PROVE  LET l == merge.level IN
           /\ UNCHANGED <<writes, mem, imm, held>> /\ merge # Idle /\ merge' = Idle
           /\ \A m \in Levels : \A f \in files'[m] :
                 \/ /\ f \in files[m]
                    /\ m = l => f \notin merge.in0
                    /\ m = l + 1 => f \notin merge.in1
                 \/ f.entries \subseteq Kept
           /\ \A m \in Levels : \A f \in files[m] : f \in files'[m] \/ f.entries \subseteq Merged
           /\ \A s \in Kept : InTables(files', s) /\ InTables(files, s)
<1>1. UNCHANGED <<writes, mem, imm, held>> /\ merge # Idle /\ merge' = Idle
  BY WorkStep
<1>2. PICK cuts \in SUBSET CutPoints :
         files' = Replaced(files, merge.level, merge.in0, merge.in1, Outputs(cuts))
  BY WorkStep
<1> DEFINE l == merge.level
           outs == Outputs(cuts)
<1>3. /\ l \in 0 .. (NumLevels - 2) /\ l \in Levels /\ l + 1 \in Levels
      /\ \A f \in merge.in0 \cup merge.in1 : f.entries \subseteq Merged
      /\ \A s \in Merged : \E f \in merge.in0 \cup merge.in1 : s \in f.entries
      /\ Kept \subseteq Merged
      /\ merge.in0 \subseteq files[l] /\ merge.in1 \subseteq files[l + 1]
  BY <1>1, MergedAre, LevelsAre DEF Basic, MergeTyped
<1>4. /\ \A o \in outs : Table(writes, o) /\ o.entries \subseteq Kept
      /\ \A s \in Kept : \E o \in outs : s \in o.entries
  BY <1>1, OutputsAre
<1>5. Stocked(writes, files)
  BY DEF Basic
<1>6. /\ files'[l] = files[l] \ merge.in0 /\ files'[l + 1] = (files[l + 1] \ merge.in1) \cup outs
      /\ \A m \in Levels \ {l, l + 1} : files'[m] = files[m]
  BY <1>2, <1>3, <1>4, <1>5, Replacing
<1>7. l # l + 1
  BY <1>3
<1> HIDE DEF l, outs
<1>8. \A m \in Levels : \A f \in files'[m] :
         \/ /\ f \in files[m]
            /\ m = l => f \notin merge.in0
            /\ m = l + 1 => f \notin merge.in1
         \/ f.entries \subseteq Kept
  BY <1>3, <1>4, <1>6, <1>7
<1>9. \A m \in Levels : \A f \in files[m] : f \in files'[m] \/ f.entries \subseteq Merged
  BY <1>3, <1>6
<1>10. \A s \in Kept : InTables(files', s) /\ InTables(files, s)
  BY <1>3, <1>4, <1>6 DEF InTables
<1> QED BY <1>1, <1>8, <1>9, <1>10 DEF l

\* What a view shows newest is hidden by no newer entry a compaction may
\* drop it for.
LEMMA NotHidden ==
    ASSUME Basic, OldestKnown, merge # Idle, NEW n, Viewed(writes, held, n),
           NEW k, NEW s \in Merged, Newest(writes, k, n, s)
    PROVE  ~(NewerMerged(s) # {} /\ Min(NewerMerged(s)) <= merge.snap)
<1>1. Len(writes) \in Nat /\ n \in 0 .. Len(writes)
  BY Entries, Views DEF Basic
<1>2. merge.snap \in 0 .. Len(writes) /\ merge.snap <= n
  BY DEF OldestKnown
<1> DEFINE newer == NewerMerged(s)
<1>3. newer \in SUBSET (1 .. Len(writes)) /\ \A t \in newer : KeyOf(writes, t) = KeyOf(writes, s) /\ t > s
  BY MergedAre DEF NewerMerged, Key, KeyOf
<1> SUFFICES ASSUME newer # {}, Min(newer) <= merge.snap
             PROVE  FALSE
  OBVIOUS
<1> HIDE DEF newer
<1>4. newer \in SUBSET Int /\ IsFiniteSet(newer)
  <2>1. IsFiniteSet(1 .. Len(writes))
    BY <1>1, FS_Interval
  <2>2. IsFiniteSet(newer)
    BY <1>3, <2>1, FS_Subset
  <2>3. \A t \in 1 .. Len(writes) : t \in Int
    OBVIOUS
  <2> QED BY <1>3, <2>2, <2>3
<1>5. PICK t \in newer : t = Min(newer)
  BY <1>4, MinMax
<1>6. t \in 1 .. Len(writes) /\ KeyOf(writes, t) = k /\ t > s /\ t <= merge.snap
  BY <1>3, <1>5 DEF Newest
<1>7. t <= n /\ s \in Nat
  BY <1>1, <1>2, <1>6 DEF Newest
<1>8. t <= s
  BY <1>6, <1>7 DEF Newest
<1> QED BY <1>6, <1>7, <1>8

\* Every step keeps what a reader may ask for.
LEMMA WholeKept == Whole /\ [Next]_vars => Whole'
<1> SUFFICES ASSUME Whole, [Next]_vars
             PROVE  OldestKnown' /\ AllThere'
  BY BasicKept DEF Whole
<1>1. /\ Basic /\ OldestKnown /\ AllThere /\ Written(writes) /\ Stocked(writes, files)
      /\ Len(writes) \in Nat
  BY Entries DEF Whole, Basic
<1>2. \A n : Viewed(writes, held, n) => n \in 0 .. Len(writes)
  BY <1>1, Views
<1>3. ASSUME UNCHANGED <<writes, held>>, \A s : Stays(files, mem, imm, s) => Stays(files', mem', imm', s)
      PROVE  AllThere'
  BY <1>1, <1>3 DEF AllThere, Viewed, Newest, KeyOf
<1>4. ASSUME UNCHANGED <<writes, held>>, merge' = merge \/ merge' = Idle
      PROVE  OldestKnown'
  BY <1>1, <1>4 DEF OldestKnown, Viewed
<1>5. CASE Write
  <2>1. PICK k \in Keys, d \in BOOLEAN : writes' = Append(writes, [key |-> k, del |-> d])
    BY <1>5 DEF Write
  <2>2. Len(writes) < MaxWrites /\ mem' = mem \cup {Len(writes) + 1} /\ UNCHANGED <<imm, files, held, merge>>
    BY <1>5 DEF Write, LastSequence
  <2>3. /\ \A j, s : \A n \in 0 .. Len(writes) : Newest(writes', j, n, s) <=> Newest(writes, j, n, s)
        /\ \A j, s : j # k => (Newest(writes', j, Len(writes'), s) <=> Newest(writes, j, Len(writes), s))
        /\ \A s : Newest(writes', k, Len(writes'), s) <=> s = Len(writes')
        /\ Len(writes') = Len(writes) + 1
        /\ \A s \in 1 .. Len(writes) : writes'[s] = writes[s]
    BY <1>1, <2>1, <2>2, NewestWithWrite
  <2>4. \A n : Viewed(writes', held, n) => n = Len(writes') \/ Viewed(writes, held, n)
    BY DEF Viewed
  <2>5. Viewed(writes, held, Len(writes))
    BY DEF Viewed
  <2>6. OldestKnown'
    <3>1. merge # Idle => merge.snap \in 0 .. Len(writes')
      BY <1>1, <2>3 DEF OldestKnown
    <3>2. merge # Idle => \A n : Viewed(writes', held, n) => merge.snap <= n
      <4>1. merge # Idle => merge.snap <= Len(writes')
        BY <1>1, <2>3, <3>1
      <4> QED BY <1>1, <2>4, <4>1 DEF OldestKnown
    <3> QED BY <2>2, <3>1, <3>2 DEF OldestKnown
  <2>7. AllThere'
    <3> SUFFICES ASSUME NEW n, Viewed(writes', held, n), NEW j, NEW s, Newest(writes', j, n, s)
                 PROVE  Stays(files, mem', imm, s) \/ writes'[s].del
      BY <2>2 DEF AllThere
    <3>1. ASSUME NEW i, Viewed(writes, held, i), Newest(writes, j, i, s)
          PROVE  Stays(files, mem', imm, s) \/ writes'[s].del
      <4>1. Stays(files, mem, imm, s) \/ writes[s].del
        BY <1>1, <3>1 DEF AllThere
      <4>2. s \in 1 .. Len(writes)
        BY <3>1 DEF Newest
      <4> QED BY <2>2, <2>3, <4>1, <4>2 DEF Stays
    <3>2. CASE n = Len(writes') /\ j = k
      <4>1. s \in mem'
        BY <2>2, <2>3, <3>2
      <4> QED BY <4>1 DEF Stays
    <3>3. CASE n = Len(writes') /\ j # k
      BY <2>3, <2>5, <3>1, <3>3
    <3>4. CASE Viewed(writes, held, n)
      BY <1>2, <2>3, <3>1, <3>4
    <3> QED BY <2>4, <3>2, <3>3, <3>4
  <2> QED BY <2>6, <2>7
<1>6. ASSUME NEW h \in Handles, GetOrReleaseSnapshot(h)
      PROVE  OldestKnown' /\ AllThere'
  <2>1. UNCHANGED <<writes, mem, imm, files, merge>>
    BY <1>6 DEF GetOrReleaseSnapshot
  <2>2. \A n : Viewed(writes, held', n) => Viewed(writes, held, n)
    <3>1. \A g \in Handles : held'[g] \in {held[g], Len(writes), NoNumber}
      BY <1>1, <1>6 DEF GetOrReleaseSnapshot, LastSequence, Basic
    <3> QED BY <3>1 DEF Viewed
  <2> QED BY <1>1, <2>1, <2>2 DEF OldestKnown, AllThere
<1>7. CASE \/ SwitchMemTable \/ CompactMemTable \/ CompactionFails
           \/ \E l \in 0 .. (NumLevels - 2) : MoveTrivially(l)
  <2>1. UNCHANGED <<writes, held>> /\ merge' \in {merge, Idle}
    BY <1>7 DEF SwitchMemTable, CompactMemTable, CompactionFails, MoveTrivially
  <2>2. \A s : Stays(files, mem, imm, s) => Stays(files', mem', imm', s)
    BY <1>1, <1>7, SameStay
  <2> QED BY <1>3, <1>4, <2>1, <2>2
<1>8. CASE Reopen
  <2>1. writes' = writes /\ merge' = Idle /\ held' = [h \in Handles |-> NoNumber]
    BY <1>8 DEF Reopen
  <2>2. \A s : Stays(files, mem, imm, s) => Stays(files', mem', imm', s)
    BY <1>1, <1>8, SameStay
  <2>3. \A n : Viewed(writes, held', n) => Viewed(writes, held, n)
    BY <2>1 DEF Viewed
  <2> QED BY <1>1, <2>1, <2>2, <2>3 DEF OldestKnown, AllThere
<1>9. ASSUME NEW l \in 0 .. (NumLevels - 2), CompactionBegin(l)
      PROVE  OldestKnown' /\ AllThere'
  <2>1. UNCHANGED <<writes, mem, imm, files, held>> /\ merge'.snap = SmallestSnapshot
    BY <1>1, <1>9, BeginStep
  <2>2. PICK m \in 0 .. Len(writes) : /\ m = SmallestSnapshot
                                      /\ \A h \in Handles : held[h] # NoNumber => m <= held[h]
    BY <1>1, Snapshot
  <2>3. \A n : Viewed(writes, held, n) => m <= n
    BY <1>1, <2>2 DEF Viewed
  <2>4. OldestKnown'
    BY <2>1, <2>2, <2>3 DEF OldestKnown
  <2> QED BY <1>3, <2>1, <2>4
<1>10. CASE DoCompactionWork
  <2>1. /\ UNCHANGED <<writes, mem, imm, held>> /\ merge # Idle /\ merge' = Idle
        /\ \A m \in Levels : \A f \in files[m] : f \in files'[m] \/ f.entries \subseteq Merged
        /\ \A s \in Kept : InTables(files', s)
    BY <1>1, <1>10, WorkedFiles
  <2>2. \A s : Stays(files, mem, imm, s) => Stays(files', mem', imm', s) \/ s \in Merged
    BY <2>1 DEF Stays, InTables
  <2>3. ASSUME NEW n, Viewed(writes, held, n), NEW k, NEW s \in Merged, Newest(writes, k, n, s), ~writes[s].del
        PROVE  s \in Kept
    <3>1. ~(NewerMerged(s) # {} /\ Min(NewerMerged(s)) <= merge.snap)
      BY <1>1, <2>1, <2>3, NotHidden
    <3> QED BY <2>3, <3>1 DEF Kept, Dropped
  <2>4. AllThere'
    <3> SUFFICES ASSUME NEW n, Viewed(writes, held, n), NEW k, NEW s, Newest(writes, k, n, s), ~writes[s].del
                 PROVE  Stays(files', mem', imm', s)
      BY <2>1 DEF AllThere
    <3>1. Stays(files, mem, imm, s)
      BY <1>1 DEF AllThere
    <3> QED BY <2>1, <2>2, <2>3, <3>1 DEF Stays
  <2> QED BY <1>4, <2>1, <2>4
<1>11. CASE UNCHANGED vars
  BY <1>3, <1>4, <1>11 DEF vars
<1> QED BY <1>5, <1>6, <1>7, <1>8, <1>9, <1>10, <1>11 DEF Next, Compaction

(* The newest entry of a key that a held snapshot, or a reader of the latest *)
(* sequence number, can see is never dropped unless it is a deletion,        *)
(* whatever is compacted, with what smallest snapshot and however old, and   *)
(* wherever the outputs are cut.                                             *)
THEOREM NothingVisibleIsLost == Spec => []VisibleStays
<1>1. Init => Whole
  <2>1. Init => Basic
    BY BasicAtFirst
  <2>2. Init => OldestKnown
    BY DEF Init, OldestKnown
  <2>3. Init => AllThere
    <3> SUFFICES ASSUME Init, NEW n, NEW k, NEW s, Newest(writes, k, n, s)
                 PROVE  FALSE
      BY DEF AllThere
    <3>1. s \in 1 .. 0
      BY DEF Init, Newest
    <3> QED BY <3>1
  <2> QED BY <2>1, <2>2, <2>3 DEF Whole
<1>2. Whole /\ [Next]_vars => Whole'
  BY WholeKept
<1>3. Whole => VisibleStays
  <2> SUFFICES ASSUME Whole, NEW n \in {LastSequence} \cup {held[h] : h \in Handles}, NEW k \in Keys,
                      Visible(1 .. LastSequence, k, n) # {}
               PROVE  LET all == Visible(1 .. LastSequence, k, n)
                      IN  Max(all) \in Stored \/ writes[Max(all)].del
    BY DEF VisibleStays
  <2> DEFINE all == Visible(1 .. LastSequence, k, n)
  <2>1. Len(writes) \in Nat /\ LastSequence = Len(writes)
    BY Entries DEF Whole, Basic, LastSequence
  <2>2. \A s : s \in all <=> s \in 1 .. Len(writes) /\ KeyOf(writes, s) = k /\ s <= n
    BY <2>1 DEF Visible, Key, KeyOf
  <2> HIDE DEF all
  <2>3. all \in SUBSET Int /\ IsFiniteSet(all) /\ all # {}
    <3>1. IsFiniteSet(1 .. Len(writes)) /\ all \in SUBSET (1 .. Len(writes))
      BY <2>1, <2>2, FS_Interval
    <3>2. all # {}
      BY DEF all
    <3>3. IsFiniteSet(all)
      BY <3>1, FS_Subset
    <3>4. \A t \in 1 .. Len(writes) : t \in Int
      OBVIOUS
    <3> QED BY <3>1, <3>2, <3>3, <3>4
  <2>4. PICK s \in all : s = Max(all) /\ \A t \in all : t <= s
    BY <2>3, MinMax
  <2>5. Newest(writes, k, n, s)
    BY <2>2, <2>4 DEF Newest
  <2>6. n # NoNumber
    BY <2>2, <2>4 DEF NoNumber
  <2>7. Viewed(writes, held, n)
    BY <2>1, <2>6 DEF Viewed
  <2>8. Stays(files, mem, imm, s) \/ writes[s].del
    BY <2>5, <2>7 DEF Whole, AllThere
  <2>9. Stays(files, mem, imm, s) => s \in Stored
    BY DEF Stays, InTables, Stored
  <2>10. Max(all) \in Stored \/ writes[Max(all)].del
    BY <2>4, <2>8, <2>9
  <2> QED BY <2>10 DEF all
<1> QED BY <1>1, <1>2, <1>3, PTL DEF Spec

-----------------------------------------------------------------------------
(* A lookup finds the newest entry there is: it stops at the first place     *)
(* that has a visible one, and there it is.                                  *)

\* The greatest of the entries of k that n sees, of those that stay somewhere.
Latest(fs, m, i, w, k, n, x) ==
    /\ Stays(fs, m, i, x) /\ KeyOf(w, x) = k /\ x <= n
    /\ \A y : Stays(fs, m, i, y) /\ KeyOf(w, y) = k /\ y <= n => y <= x

Ordered == Basic /\ LevelsDisjoint /\ Aged(writes, files) /\ MemNewest(files, mem, imm)

\* Only written entries stay somewhere.
LEMMA StayingAreWritten ==
    ASSUME Basic
    PROVE  \A s : Stays(files, mem, imm, s) => s \in 1 .. Len(writes)
<1>1. \A l \in Levels : \A f \in files[l] : f.entries \subseteq 1 .. Len(writes)
  BY DEF Basic, Stocked, Table
<1> QED BY <1>1 DEF Basic, Stays, InTables

\* A lookup sees entries of its key that are somewhere, none beyond its number.
LEMMA SeenStays ==
    ASSUME Basic, NEW k, NEW n, NEW p \in Mem .. (NumLevels - 1), NEW s \in Seen(p, k, n)
    PROVE  Stays(files, mem, imm, s) /\ KeyOf(writes, s) = k /\ s <= n
<1>1. p = Mem \/ p = Imm \/ p \in Levels
  BY LevelsAre DEF Mem, Imm, Levels
<1>2. Mem = -2 /\ Imm = -1 /\ Mem \notin Levels /\ Imm \notin Levels
  BY LevelsAre DEF Mem, Imm
<1>3. CASE p = Mem
  <2>1. s \in Visible(mem, k, n)
    BY <1>2, <1>3 DEF Seen
  <2> QED BY <2>1 DEF Visible, Stays, KeyOf, Key
<1>4. CASE p = Imm
  <2>1. s \in Visible(imm, k, n)
    BY <1>2, <1>4 DEF Seen
  <2> QED BY <2>1 DEF Visible, Stays, KeyOf, Key
<1>5. CASE p \in Levels
  <2>1. \E f \in files[p] : s \in Visible(f.entries, k, n)
    <3>1. CASE p = 0
      <4>1. s \in UNION {Visible(f.entries, k, n) : f \in NewestHit(k, n)}
        BY <1>2, <1>5, <3>1 DEF Seen
      <4>2. NewestHit(k, n) \subseteq files[0]
        BY DEF NewestHit
      <4> QED BY <3>1, <4>1, <4>2
    <3>2. CASE p # 0
      <4>1. s \in UNION {Visible(f.entries, k, n) : f \in {g \in FindFile(p, IKey(k, n)) : InSpan(k, g)}}
        BY <1>2, <1>5, <3>2 DEF Seen
      <4>2. FindFile(p, IKey(k, n)) \subseteq files[p]
        BY DEF FindFile
      <4> QED BY <4>1, <4>2
    <3> QED BY <3>1, <3>2
  <2> QED BY <1>5, <2>1 DEF Visible, Stays, InTables, KeyOf, Key
<1> QED BY <1>1, <1>3, <1>4, <1>5

\* The place of an entry, as a lookup numbers them.
Place(p, s) ==
    \/ p = Mem /\ s \in mem
    \/ p = Imm /\ s \in imm
    \/ p \in Levels /\ \E f \in files[p] : s \in f.entries

\* The file of a sorted level in which the newest visible entry is looked for.
LEMMA FileFound ==
    ASSUME Ordered, NEW l \in Levels \ {0}, NEW k \in Keys, NEW n \in 0 .. Len(writes),
           NEW x, Latest(files, mem, imm, writes, k, n, x), NEW f \in files[l], x \in f.entries
    PROVE  f \in FindFile(l, IKey(k, n)) /\ InSpan(k, f)
<1>1. Written(writes) /\ Stocked(writes, files) /\ Len(writes) \in Nat /\ Len(writes) <= MaxWrites
  BY Entries DEF Ordered, Basic, Written
<1>2. k \in Nat /\ n \in 0 .. MaxWrites /\ MaxWrites \in Nat
  BY <1>1, Constants
<1>3. Table(writes, f)
  BY <1>1 DEF Stocked
<1>4. x \in 1 .. Len(writes) /\ KeyOf(writes, x) = k /\ x <= n /\ x \in 0 .. MaxWrites
  BY <1>1, <1>2, <1>3 DEF Table, Latest
<1>5. At(writes, x) = IKey(k, x)
  BY <1>4 DEF At, KeyOf
<1>6. IKey(k, n) \in Int /\ IKey(k, x) \in Int /\ IKey(k, n) <= IKey(k, x)
  BY <1>2, <1>4, IKeys
<1>7. InSpan(k, f)
  BY <1>1, <1>3, <1>4, TableKeys
<1>8. f.smallest <= At(writes, x) /\ At(writes, x) <= f.largest /\ f.largest \in Int /\ f.smallest \in Int
  BY <1>1, <1>3, TableKeys DEF Table
<1>9. f.largest >= IKey(k, n)
  BY <1>5, <1>6, <1>8
<1>10. ASSUME NEW g \in files[l], g.largest >= IKey(k, n), ~(f.largest <= g.largest)
       PROVE  FALSE
  <2>1. Table(writes, g) /\ g.smallest \in Int /\ g.largest \in Int
    BY <1>1, TableKeys DEF Stocked
  <2>2. PICK y \in g.entries : g.largest = At(writes, y) /\ y \in 1 .. Len(writes)
    BY <2>1 DEF Table
  <2>3. g.smallest <= g.largest
    BY <1>1, <2>1, <2>2, Entries DEF Table
  <2>4. g.largest < f.smallest
    BY <1>8, <1>10, <2>1, <2>3 DEF Ordered, LevelsDisjoint
  <2>5. At(writes, y) < At(writes, x)
    BY <1>1, <1>4, <1>8, <2>1, <2>2, <2>4, Entries
  <2>6. KeyOf(writes, y) \in Nat /\ y \in 0 .. MaxWrites /\ At(writes, y) = IKey(KeyOf(writes, y), y)
    BY <1>1, <2>2, Entries DEF At, KeyOf
  <2>7. ~(KeyOf(writes, y) < k)
    <3>1. KeyOf(writes, y) < k => IKey(KeyOf(writes, y), y) < IKey(k, n)
      BY <1>2, <2>6, IKeys
    <3> QED BY <1>6, <1>10, <2>1, <2>2, <2>6, <3>1
  <2>8. ~(k < KeyOf(writes, y))
    <3>1. k < KeyOf(writes, y) => IKey(k, x) < IKey(KeyOf(writes, y), y)
      BY <1>2, <1>4, <2>6, IKeys
    <3> QED BY <1>5, <1>6, <2>1, <2>2, <2>5, <2>6, <3>1
  <2>9. KeyOf(writes, y) = k
    BY <1>2, <2>6, <2>7, <2>8
  <2>10. IKey(k, n) <= IKey(k, y) /\ IKey(k, y) < IKey(k, x)
    BY <1>5, <1>10, <2>2, <2>5, <2>6, <2>9
  <2>11. y <= n /\ x < y
    BY <1>2, <1>4, <1>6, <2>1, <2>2, <2>6, <2>9, <2>10, IKeys
  <2>12. Stays(files, mem, imm, y)
    BY <2>2 DEF Stays, InTables
  <2>13. y <= x
    BY <2>9, <2>11, <2>12 DEF Latest
  <2> QED BY <1>4, <2>2, <2>11, <2>13
<1>11. \A g \in files[l] : g.largest >= IKey(k, n) => f.largest <= g.largest
  BY <1>10
<1> QED BY <1>7, <1>9, <1>11 DEF FindFile

\* The latest entry that is somewhere is seen where it is, and nothing of the key before.
LEMMA LatestIsSeen ==
    ASSUME Ordered, NEW k \in Keys, NEW n \in 0 .. Len(writes),
           NEW x, Latest(files, mem, imm, writes, k, n, x),
           NEW p \in Mem .. (NumLevels - 1), Place(p, x)
    PROVE  x \in Seen(p, k, n) /\ \A q \in Mem .. (p - 1) : Seen(q, k, n) = {}
<1>1. /\ Basic /\ Written(writes) /\ Stocked(writes, files) /\ Len(writes) \in Nat
      /\ Aged(writes, files) /\ MemNewest(files, mem, imm)
  BY Entries DEF Ordered, Basic
<1>2. Mem = -2 /\ Imm = -1 /\ Mem \notin Levels /\ Imm \notin Levels /\ Levels \subseteq Nat
  BY LevelsAre DEF Mem, Imm
<1>3. KeyOf(writes, x) = k /\ x <= n /\ x \in 1 .. Len(writes)
  BY <1>1, StayingAreWritten DEF Latest
<1>4. \A e : x \in e => x \in Visible(e, k, n)
  BY <1>3 DEF Visible, KeyOf, Key
<1>5. \A y : Stays(files, mem, imm, y) /\ KeyOf(writes, y) = k /\ y <= n => y <= x /\ y \in Nat /\ x \in Nat
  BY <1>1, StayingAreWritten DEF Latest
<1>6. x \in Seen(p, k, n)
  <2>1. CASE p = Mem
    BY <1>2, <1>4, <2>1 DEF Place, Seen
  <2>2. CASE p = Imm
    BY <1>2, <1>4, <2>2 DEF Place, Seen
  <2>3. CASE p = 0
    <3>1. PICK f \in files[0] : x \in f.entries
      BY <1>2, <2>3 DEF Place
    <3>2. Table(writes, f) /\ InSpan(k, f)
      BY <1>1, <1>3, <3>1, LevelsAre, TableKeys DEF Stocked
    <3>3. x \in Visible(f.entries, k, n)
      BY <1>4, <3>1
    <3>4. ASSUME NEW g \in files[0], Newer(g, f), NEW y \in Visible(g.entries, k, n)
          PROVE  FALSE
      <4>1. y \in g.entries /\ KeyOf(writes, y) = k /\ y <= n
        BY <3>4 DEF Visible, KeyOf, Key
      <4>2. y <= x /\ y \in Nat /\ x \in Nat
        BY <1>5, <4>1, LevelsAre DEF Stays, InTables
      <4>3. Table(writes, g)
        BY <1>1, LevelsAre DEF Stocked
      <4>4. IsFiniteSet(f.entries) /\ IsFiniteSet(g.entries)
        <5>1. IsFiniteSet(1 .. Len(writes))
          <6>1. Len(writes) \in Nat
            BY <1>1
          <6> QED BY <6>1, FS_Interval
        <5>2. f.entries \in SUBSET (1 .. Len(writes)) /\ g.entries \in SUBSET (1 .. Len(writes))
          BY <3>2, <4>3 DEF Table
        <5> QED BY <5>1, <5>2, FS_Subset
      <4>5. /\ f.entries \in SUBSET Int /\ f.entries # {}
            /\ g.entries \in SUBSET Int /\ g.entries # {}
        <5>1. \A t \in 1 .. Len(writes) : t \in Int
          OBVIOUS
        <5> QED BY <3>2, <4>3, <5>1 DEF Table
      <4>6. PICK u \in f.entries, v \in g.entries : u = Max(f.entries) /\ v = Max(g.entries)
        BY <4>4, <4>5, MinMax
      <4>7. v > u /\ v \in Int /\ u \in Int
        BY <3>4, <4>5, <4>6 DEF Newer
      <4>8. f # g
        BY <4>6, <4>7
      <4>9. After(f.entries, g.entries) \/ After(g.entries, f.entries)
        BY <1>1, <4>8 DEF Aged, ZeroInTime
      <4>10. After(g.entries, f.entries)
        BY <4>6, <4>7, <4>9 DEF After
      <4> QED BY <3>1, <4>1, <4>2, <4>10 DEF After
    <3>5. f \in NewestHit(k, n)
      BY <3>2, <3>3, <3>4 DEF NewestHit
    <3>6. Seen(0, k, n) = UNION {Visible(g.entries, k, n) : g \in NewestHit(k, n)}
      BY <1>2 DEF Seen
    <3> QED BY <2>3, <3>3, <3>5, <3>6
  <2>4. CASE p \in Levels \ {0}
    <3>1. PICK f \in files[p] : x \in f.entries
      BY <1>2, <2>4 DEF Place
    <3>2. f \in {g \in FindFile(p, IKey(k, n)) : InSpan(k, g)}
      BY <2>4, <3>1, FileFound
    <3>3. x \in Visible(f.entries, k, n)
      BY <1>4, <3>1
    <3>4. Seen(p, k, n) = UNION {Visible(g.entries, k, n) : g \in {h \in FindFile(p, IKey(k, n)) : InSpan(k, h)}}
      BY <1>2, <2>4 DEF Seen
    <3> QED BY <3>2, <3>3, <3>4
  <2> QED BY <2>1, <2>2, <2>3, <2>4 DEF Place
<1>7. ASSUME NEW q \in Mem .. (p - 1), NEW y \in Seen(q, k, n)
      PROVE  FALSE
  <2>1. q \in Mem .. (NumLevels - 1) /\ q < p /\ p \in Int /\ q \in Int
    BY <1>2, LevelsAre
  <2>2. y <= x /\ y \in Nat /\ x \in Nat /\ KeyOf(writes, y) = k
    BY <1>1, <1>5, <2>1, SeenStays
  <2>3. q = Mem \/ q = Imm \/ q \in Levels
    BY <1>2, <2>1, LevelsAre DEF Levels
  <2>4. CASE q = Mem
    <3>1. y \in mem
      BY <1>2, <1>7, <2>4 DEF Seen, Visible
    <3>2. x \in imm \/ InTables(files, x)
      BY <1>2, <2>1, <2>4 DEF Place, InTables
    <3>3. y > x
      BY <1>1, <3>1, <3>2 DEF MemNewest, After, InTables
    <3> QED BY <2>2, <3>3
  <2>5. CASE q = Imm
    <3>1. y \in imm
      BY <1>2, <1>7, <2>5 DEF Seen, Visible
    <3>2. InTables(files, x)
      BY <1>2, <2>1, <2>5 DEF Place, InTables
    <3>3. y > x
      BY <1>1, <3>1, <3>2 DEF MemNewest, After, InTables
    <3> QED BY <2>2, <3>3
  <2>6. CASE q \in Levels
    <3>1. p \in Levels
      BY <1>2, <2>1, <2>6 DEF Place
    <3>2. PICK f \in files[p] : x \in f.entries
      BY <1>2, <3>1 DEF Place
    <3>3. \E g \in files[q] : y \in g.entries
      <4>1. CASE q = 0
        BY <1>2, <1>7, <2>6, <4>1 DEF Seen, NewestHit, Visible
      <4>2. CASE q # 0
        BY <1>2, <1>7, <2>6, <4>2 DEF Seen, FindFile, Visible
      <4> QED BY <4>1, <4>2
    <3>4. PICK g \in files[q] : y \in g.entries
      BY <3>3
    <3>5. y > x
      BY <1>1, <1>3, <2>1, <2>2, <2>6, <3>1, <3>2, <3>4 DEF Aged, DeeperOlder, Over
    <3> QED BY <2>2, <3>5
  <2> QED BY <2>3, <2>4, <2>5, <2>6
<1> QED BY <1>6, <1>7

\* A lookup finds the latest entry of its key that is anywhere, up to its number.
LEMMA FoundIsLatest ==
    ASSUME Ordered, NEW k \in Keys, NEW n \in 0 .. Len(writes)
    PROVE  /\ \A x : Latest(files, mem, imm, writes, k, n, x) => Found(k, n) = x
           /\ (\A x : ~Latest(files, mem, imm, writes, k, n, x)) => Found(k, n) = NoNumber
<1>1. Basic /\ Len(writes) \in Nat
  BY Entries DEF Ordered, Basic
<1> DEFINE all == Mem .. (NumLevels - 1)
<1>2. ASSUME NEW x, Latest(files, mem, imm, writes, k, n, x)
      PROVE  Found(k, n) = x
  <2>1. x \in 1 .. Len(writes) /\ x <= n
    BY <1>1, <1>2, StayingAreWritten DEF Latest
  <2>2. \E p \in all : Place(p, x)
    <3>1. Mem \in all /\ Imm \in all /\ Levels \subseteq all
      BY LevelsAre DEF Mem, Imm, Levels
    <3>2. x \in mem \/ x \in imm \/ \E l \in Levels : \E f \in files[l] : x \in f.entries
      BY <1>2 DEF Latest, Stays, InTables
    <3> QED BY <3>1, <3>2 DEF Place
  <2>3. PICK p \in all : Place(p, x)
    BY <2>2
  <2>4. x \in Seen(p, k, n) /\ \A q \in Mem .. (p - 1) : Seen(q, k, n) = {}
    BY <1>2, <2>3, LatestIsSeen
  <2> DEFINE stops(i) == /\ Seen(i, k, n) # {}
                         /\ \A q \in Mem .. (i - 1) : Seen(q, k, n) = {}
             stop == CHOOSE i \in all : stops(i)
  <2>5. stop = p
    <3>1. p \in all /\ stops(p)
      BY <2>3, <2>4
    <3>2. stop \in all /\ stops(stop)
      <4> HIDE DEF stops
      <4> QED BY <3>1
    <3>3. Seen(p, k, n) # {} /\ Seen(stop, k, n) # {}
      BY <3>1, <3>2
    <3>4. p \in Mem .. (stop - 1) => Seen(p, k, n) = {}
      BY <3>2
    <3>5. stop \in Mem .. (p - 1) => Seen(stop, k, n) = {}
      BY <3>1
    <3> HIDE DEF stop, stops
    <3> QED BY <3>1, <3>2, <3>3, <3>4, <3>5, LevelsAre DEF Mem
  <2>6. \A y \in Seen(p, k, n) : y <= x
    BY <1>1, <1>2, <2>3, SeenStays DEF Latest
  <2>7. Found(k, n) = CHOOSE s \in Seen(stop, k, n) : \A t \in (s + 1) .. n : t \notin Seen(stop, k, n)
    BY <2>3, <2>4 DEF Found
  <2> HIDE DEF stop
  <2> DEFINE last(s) == \A t \in (s + 1) .. n : t \notin Seen(p, k, n)
  <2>8. Found(k, n) = CHOOSE s \in Seen(p, k, n) : last(s)
    BY <2>5, <2>7
  <2>9. last(x)
    BY <2>1, <2>6
  <2>10. ASSUME NEW s \in Seen(p, k, n), last(s)
         PROVE  s = x
    <3>1. s <= x /\ s \in 1 .. Len(writes)
      BY <1>1, <2>3, <2>6, SeenStays, StayingAreWritten
    <3>2. x \notin (s + 1) .. n
      BY <2>4, <2>10
    <3> QED BY <2>1, <3>1, <3>2
  <2> HIDE DEF last
  <2> QED BY <2>4, <2>8, <2>9, <2>10
<1>3. ASSUME \A x : ~Latest(files, mem, imm, writes, k, n, x)
      PROVE  Found(k, n) = NoNumber
  <2> DEFINE S == {s \in 1 .. Len(writes) : Stays(files, mem, imm, s) /\ KeyOf(writes, s) = k /\ s <= n}
  <2>1. S = {}
    <3> SUFFICES ASSUME S # {}
                 PROVE  FALSE
      OBVIOUS
    <3>1. S \in SUBSET (1 .. Len(writes)) /\ IsFiniteSet(1 .. Len(writes))
      BY <1>1, FS_Interval
    <3>2. \A t \in 1 .. Len(writes) : t \in Int
      OBVIOUS
    <3>3. \A t : Stays(files, mem, imm, t) /\ KeyOf(writes, t) = k /\ t <= n => t \in S
      BY <1>1, StayingAreWritten
    <3>4. \A t \in S : Stays(files, mem, imm, t) /\ KeyOf(writes, t) = k /\ t <= n
      OBVIOUS
    <3> HIDE DEF S
    <3>5. IsFiniteSet(S) /\ S \in SUBSET Int
      BY <3>1, <3>2, FS_Subset
    <3>6. PICK x \in S : \A t \in S : t <= x
      BY <3>5, MinMax
    <3>7. Latest(files, mem, imm, writes, k, n, x)
      BY <3>3, <3>4, <3>6 DEF Latest
    <3> QED BY <1>3, <3>7
  <2>2. \A p \in all : Seen(p, k, n) = {}
    BY <1>1, <2>1, SeenStays, StayingAreWritten
  <2> QED BY <2>2 DEF Found
<1> QED BY <1>2, <1>3

-----------------------------------------------------------------------------
(* A deletion is dropped only when nothing it hides is left: not among the   *)
(* inputs, as the snapshot that lets it go lets the older entries go too;    *)
(* not above them, where entries are newer; not at the inputs' levels, by    *)
(* what was chosen; and not below, where the compaction looked when it       *)
(* began, and where a flush since then puts only keys the inputs do not have *)
(* (BaseKnown).                                                              *)

BaseKnown(w, fs, mg) ==
    mg # Idle => \A m \in Levels : m > mg.level + 1 =>
        \A f \in fs[m] \ mg.base, g \in mg.in0 \cup mg.in1 : NoShared(w, f, g)

NothingOlder ==
    \A n : Viewed(writes, held, n) =>
        \A k, s : Newest(writes, k, n, s) /\ ~Stays(files, mem, imm, s) =>
            \A t : Stays(files, mem, imm, t) /\ KeyOf(writes, t) = k => t > n

Truthful == InOrder /\ Aging /\ Whole /\ BaseKnown(writes, files, merge) /\ NothingOlder

\* No file comes below a merging compaction that shares a key with its inputs.
LEMMA BaseKept ==
    ASSUME Aging, [Next]_vars, BaseKnown(writes, files, merge)
    PROVE  BaseKnown(writes', files', merge')
<1>1. Basic /\ Written(writes) /\ Stocked(writes, files) /\ Len(writes) \in Nat
  BY Entries DEF Aging, Basic
<1>2. UNCHANGED <<writes, files, merge>> => BaseKnown(writes', files', merge')
  OBVIOUS
<1>3. merge' = Idle => BaseKnown(writes', files', merge')
  BY DEF BaseKnown
<1>4. merge # Idle => /\ merge.level \in Levels /\ merge.level + 1 \in Levels
                      /\ merge.in0 \subseteq files[merge.level] /\ merge.in1 \subseteq files[merge.level + 1]
                      /\ merge.level \in Nat
  BY <1>1, LevelsAre DEF Basic, MergeTyped
<1>5. CASE Write
  <2>1. PICK k \in Keys, d \in BOOLEAN : writes' = Append(writes, [key |-> k, del |-> d])
    BY <1>5 DEF Write
  <2>2. Len(writes) < MaxWrites /\ UNCHANGED <<files, merge>>
    BY <1>5 DEF Write, LastSequence
  <2>3. \A s \in 1 .. Len(writes) : writes'[s] = writes[s]
    BY <1>1, <2>1, <2>2, OneMore
  <2>4. \A l \in Levels : \A f \in files[l] : f.entries \subseteq 1 .. Len(writes)
    BY <1>1 DEF Stocked, Table
  <2>5. \A l, m \in Levels : \A f \in files[l], g \in files[m] : NoShared(writes, f, g) => NoShared(writes', f, g)
    BY <2>3, <2>4 DEF NoShared, KeyOf
  <2> QED BY <1>4, <2>2, <2>5 DEF BaseKnown
<1>6. CASE CompactMemTable
  <2>1. UNCHANGED <<writes, merge>>
    BY <1>1, <1>6, FlushStep
  <2>2. PICK l, f :
           /\ l \in Levels /\ Table(writes, f)
           /\ files' = Flushed(files, l, {f})
           /\ l > 0 => \A m \in 0 .. l : m \in Levels /\ \A g \in files[m] : Disjoint(f, g)
    BY <1>1, <1>6, FlushStep
  <2>3. files'[l] = files[l] \cup {f} /\ \A m \in Levels \ {l} : files'[m] = files[m]
    BY <1>1, <2>2, Flushing
  <2> SUFFICES ASSUME merge # Idle, NEW m \in Levels, m > merge.level + 1,
                      NEW g \in files'[m] \ merge.base, NEW h \in merge.in0 \cup merge.in1
               PROVE  NoShared(writes, g, h)
    BY <2>1 DEF BaseKnown
  <2>4. CASE g \in files[m]
    BY <2>4 DEF BaseKnown
  <2>5. CASE g \notin files[m]
    <3>1. m = l /\ g = f
      BY <2>3, <2>5
    <3>2. l > 0 /\ merge.level \in 0 .. l /\ merge.level + 1 \in 0 .. l
      BY <1>4, <3>1, LevelsAre
    <3>3. Disjoint(f, h)
      BY <1>4, <2>2, <3>2
    <3>4. Table(writes, h)
      BY <1>1, MergedAre
    <3> QED BY <1>1, <2>2, <3>1, <3>3, <3>4, ShareNothing
  <2> QED BY <2>4, <2>5
<1>7. ASSUME NEW l \in 0 .. (NumLevels - 2), CompactionBegin(l)
      PROVE  BaseKnown(writes', files', merge')
  <2>1. UNCHANGED <<writes, files>> /\ merge'.level = l /\ merge'.base = Deeper(l)
    BY <1>1, <1>7, BeginStep
  <2>2. \A m \in Levels : m > l + 1 => files[m] \subseteq Deeper(l)
    <3>1. \A m \in Levels : m > l + 1 => m \in (l + 2) .. (NumLevels - 1)
      BY Constants DEF Levels
    <3> QED BY <3>1 DEF Deeper
  <2> QED BY <2>1, <2>2 DEF BaseKnown
<1>8. CASE \/ Reopen \/ DoCompactionWork \/ CompactionFails
           \/ \E l \in 0 .. (NumLevels - 2) : MoveTrivially(l)
  <2>1. merge' = Idle
    BY <1>8 DEF Reopen, DoCompactionWork, CompactionFails, MoveTrivially
  <2> QED BY <1>3, <2>1
<1>9. CASE SwitchMemTable \/ (\E h \in Handles : GetOrReleaseSnapshot(h)) \/ UNCHANGED vars
  BY <1>2, <1>9 DEF SwitchMemTable, GetOrReleaseSnapshot, vars
<1> QED BY <1>5, <1>6, <1>7, <1>8, <1>9 DEF Next, Compaction

\* After a compaction dropped what a view shows newest of a key, nothing of the
\* key is left for that view.
LEMMA NothingLeft ==
    ASSUME Truthful, DoCompactionWork, NEW n, Viewed(writes, held, n), NEW k, NEW s,
           Newest(writes, k, n, s), Stays(files, mem, imm, s), ~Stays(files', mem', imm', s),
           NEW t, Stays(files', mem', imm', t), KeyOf(writes, t) = k
    PROVE  t > n
<1>1. /\ Basic /\ OldestKnown /\ Written(writes) /\ Stocked(writes, files) /\ Len(writes) \in Nat
      /\ Aged(writes, files) /\ MemNewest(files, mem, imm) /\ SharesNothing(writes, files, merge)
      /\ BaseKnown(writes, files, merge)
  BY Entries DEF Truthful, Whole, Aging, Basic
<1> DEFINE l == merge.level
<1>2. /\ UNCHANGED <<writes, mem, imm, held>> /\ merge # Idle
      /\ \A m \in Levels : \A f \in files'[m] :
            \/ /\ f \in files[m]
               /\ m = l => f \notin merge.in0
               /\ m = l + 1 => f \notin merge.in1
            \/ f.entries \subseteq Kept
      /\ \A m \in Levels : \A f \in files[m] : f \in files'[m] \/ f.entries \subseteq Merged
      /\ \A x \in Kept : InTables(files', x) /\ InTables(files, x)
  BY <1>1, WorkedFiles
<1>3. /\ l \in Levels /\ l + 1 \in Levels /\ l \in Nat
      /\ merge.in0 \subseteq files[l] /\ merge.in1 \subseteq files[l + 1]
      /\ \A x \in Merged : \E f \in merge.in0 \cup merge.in1 : x \in f.entries
      /\ Kept \subseteq Merged /\ Merged \subseteq 1 .. Len(writes)
  BY <1>1, <1>2, MergedAre, LevelsAre DEF Basic, MergeTyped
<1>4. s \in Merged /\ s \notin Kept
  BY <1>2 DEF Stays, InTables
<1>5. ~(NewerMerged(s) # {} /\ Min(NewerMerged(s)) <= merge.snap)
  BY <1>1, <1>2, <1>4, NotHidden
<1>6. s <= merge.snap /\ IsBaseLevelForKey(k)
  BY <1>4, <1>5 DEF Kept, Dropped, Newest, Key, KeyOf
<1>7. Stays(files, mem, imm, t) /\ t \in 1 .. Len(writes)
  <2>1. Stays(files, mem, imm, t)
    BY <1>2 DEF Stays, InTables
  <2> QED BY <1>1, <2>1, StayingAreWritten
<1>8. n \in 0 .. Len(writes) /\ s \in 1 .. Len(writes) /\ KeyOf(writes, s) = k
  BY <1>1, Views DEF Newest
<1> SUFFICES ASSUME t <= n
             PROVE  FALSE
  BY <1>7, <1>8
<1>9. t < s
  <2>1. t <= s
    BY <1>7 DEF Newest
  <2>2. t # s
    OBVIOUS
  <2> QED BY <1>7, <1>8, <2>1, <2>2
<1>10. PICK h \in merge.in0 \cup merge.in1 : s \in h.entries
  BY <1>3, <1>4
<1>11. PICK lh \in Levels : h \in files[lh] /\ ((lh = l /\ h \in merge.in0) \/ (lh = l + 1 /\ h \in merge.in1))
  BY <1>3, <1>10
<1>12. lh \in Nat /\ l # l + 1
  BY <1>3, LevelsAre
<1>13. ~(t > s) /\ s \in Nat /\ t \in Nat
  BY <1>7, <1>8, <1>9
<1>14. t \notin mem /\ t \notin imm
  <2>1. h \in files[lh] /\ MemNewest(files, mem, imm)
    BY <1>1, <1>11
  <2>2. After(mem, h.entries) /\ After(imm, h.entries)
    BY <1>12, <2>1 DEF MemNewest
  <2> QED BY <1>10, <1>13, <2>2 DEF After
<1>15. PICK m \in Levels : \E f \in files'[m] : t \in f.entries
  BY <1>2, <1>14 DEF Stays, InTables
<1>16. PICK f \in files'[m] : t \in f.entries
  BY <1>15
<1>17. t \notin Kept
  <2> SUFFICES ASSUME t \in Merged
               PROVE  Dropped(t)
    BY <1>3 DEF Kept
  <2> DEFINE newer == NewerMerged(t)
  <2>1. s \in newer /\ newer \in SUBSET (1 .. Len(writes))
    BY <1>3, <1>4, <1>8, <1>9, <1>13 DEF NewerMerged, Key, KeyOf
  <2>2. Min(newer) <= s /\ Min(newer) \in 1 .. Len(writes)
    <3> HIDE DEF newer
    <3>1. IsFiniteSet(1 .. Len(writes))
      <4>1. Len(writes) \in Nat
        BY <1>1
      <4> QED BY <4>1, FS_Interval
    <3>2. IsFiniteSet(newer)
      BY <2>1, <3>1, FS_Subset
    <3>3. newer \in SUBSET Int
      <4>1. \A x \in 1 .. Len(writes) : x \in Int
        OBVIOUS
      <4> QED BY <2>1, <4>1
    <3> QED BY <2>1, <3>2, <3>3, MinMax
  <2>3. PICK x \in 1 .. Len(writes) : x = Min(newer)
    BY <2>2
  <2>4. merge.snap \in 0 .. Len(writes)
    BY <1>1, <1>2 DEF OldestKnown
  <2>5. x <= merge.snap
    BY <1>6, <1>13, <2>2, <2>3, <2>4
  <2>6. newer # {} /\ Min(newer) <= merge.snap
    BY <2>1, <2>3, <2>5
  <2> QED BY <2>6 DEF Dropped
<1>18. /\ f \in files[m]
       /\ m = l => f \notin merge.in0
       /\ m = l + 1 => f \notin merge.in1
  BY <1>2, <1>16, <1>17
<1>19. CASE m < lh
  <2>1. h \in files[lh] /\ f \in files[m] /\ DeeperOlder(writes, files)
    BY <1>1, <1>11, <1>18 DEF Aged
  <2>2. Over(writes, f, h)
    BY <1>12, <1>19, <2>1 DEF DeeperOlder
  <2> QED BY <1>8, <1>10, <1>13, <1>16, <2>2 DEF Over
<1>20. CASE m > l + 1
  <2>1. CASE f \in merge.base
    <3>1. ~InSpan(k, f)
      BY <1>6, <2>1 DEF IsBaseLevelForKey
    <3>2. Table(writes, f)
      BY <1>1, <1>18 DEF Stocked
    <3> QED BY <1>1, <1>16, <3>1, <3>2, TableKeys
  <2>2. CASE f \notin merge.base
    <3>1. NoShared(writes, f, h)
      BY <1>1, <1>2, <1>18, <1>20, <2>2 DEF BaseKnown
    <3> QED BY <1>8, <1>10, <1>16, <3>1 DEF NoShared
  <2> QED BY <2>1, <2>2
<1>21. CASE m = l /\ lh = l
  <2>1. h \in merge.in0 /\ f \in files[l] \ merge.in0
    BY <1>11, <1>12, <1>18, <1>21
  <2>2. merge # Idle /\ SharesNothing(writes, files, merge)
    BY <1>1, <1>2
  <2>3. Over(writes, f, h)
    BY <2>1, <2>2 DEF SharesNothing
  <2> QED BY <1>8, <1>10, <1>13, <1>16, <2>3 DEF Over
<1>22. CASE m = l + 1
  <2>1. NoShared(writes, f, h)
    BY <1>1, <1>2, <1>18, <1>22 DEF SharesNothing
  <2> QED BY <1>8, <1>10, <1>16, <2>1 DEF NoShared
<1>23. m < lh \/ m > l + 1 \/ (m = l /\ lh = l) \/ m = l + 1
  BY <1>3, <1>11, LevelsAre
<1> QED BY <1>19, <1>20, <1>21, <1>22, <1>23

\* A deletion is dropped only when it has nothing left to hide.
LEMMA NothingOlderKept ==
    ASSUME Truthful, [Next]_vars
    PROVE  NothingOlder'
<1>1. Basic /\ NothingOlder /\ Written(writes) /\ Len(writes) \in Nat
  BY Entries DEF Truthful, Whole, Basic
<1>2. ASSUME UNCHANGED writes, \A n : Viewed(writes, held', n) => Viewed(writes, held, n),
             \A s : Stays(files', mem', imm', s) <=> Stays(files, mem, imm, s)
      PROVE  NothingOlder'
  BY <1>1, <1>2 DEF NothingOlder
<1>3. CASE Write
  <2>1. PICK k \in Keys, d \in BOOLEAN : writes' = Append(writes, [key |-> k, del |-> d])
    BY <1>3 DEF Write
  <2>2. Len(writes) < MaxWrites /\ mem' = mem \cup {Len(writes) + 1} /\ UNCHANGED <<imm, files, held, merge>>
    BY <1>3 DEF Write, LastSequence
  <2>3. /\ \A j, s : \A n \in 0 .. Len(writes) : Newest(writes', j, n, s) <=> Newest(writes, j, n, s)
        /\ \A j, s : j # k => (Newest(writes', j, Len(writes'), s) <=> Newest(writes, j, Len(writes), s))
        /\ \A s : Newest(writes', k, Len(writes'), s) <=> s = Len(writes')
        /\ Len(writes') = Len(writes) + 1
        /\ \A s \in 1 .. Len(writes) : writes'[s] = writes[s]
        /\ writes'[Len(writes')] = [key |-> k, del |-> d]
    BY <1>1, <2>1, <2>2, NewestWithWrite
  <2>4. \A s : Stays(files', mem', imm', s) <=> Stays(files, mem, imm, s) \/ s = Len(writes')
    BY <2>2, <2>3 DEF Stays
  <2>5. KeyOf(writes', Len(writes')) = k /\ \A s \in 1 .. Len(writes) : KeyOf(writes', s) = KeyOf(writes, s)
    BY <2>3 DEF KeyOf
  <2>6. \A s : Stays(files, mem, imm, s) => s \in 1 .. Len(writes)
    BY <1>1, StayingAreWritten
  <2>7. \A n : Viewed(writes', held, n) => n = Len(writes') \/ Viewed(writes, held, n)
    BY DEF Viewed
  <2> SUFFICES ASSUME NEW n, Viewed(writes', held, n), NEW j, NEW s, Newest(writes', j, n, s),
                      ~Stays(files', mem', imm', s), NEW t, Stays(files', mem', imm', t), KeyOf(writes', t) = j
               PROVE  t > n
    BY <2>2 DEF NothingOlder
  <2>8. CASE Viewed(writes, held, n)
    <3>1. n \in 0 .. Len(writes)
      BY <1>1, <2>8, Views
    <3>2. Newest(writes, j, n, s) /\ ~Stays(files, mem, imm, s)
      BY <2>3, <2>4, <3>1
    <3>3. CASE t = Len(writes')
      BY <1>1, <2>3, <3>1, <3>3
    <3>4. CASE Stays(files, mem, imm, t)
      BY <1>1, <2>5, <2>6, <2>8, <3>2, <3>4 DEF NothingOlder
    <3> QED BY <2>4, <3>3, <3>4
  <2>9. CASE n = Len(writes')
    <3>1. j # k
      BY <2>3, <2>4, <2>9
    <3>2. Newest(writes, j, Len(writes), s) /\ ~Stays(files, mem, imm, s)
      BY <2>3, <2>4, <2>9, <3>1
    <3>3. Stays(files, mem, imm, t) /\ t \in 1 .. Len(writes)
      BY <2>4, <2>5, <2>6, <3>1
    <3>4. t > Len(writes)
      BY <1>1, <2>5, <3>2, <3>3 DEF NothingOlder, Viewed
    <3> QED BY <1>1, <3>3, <3>4
  <2> QED BY <2>7, <2>8, <2>9
<1>4. ASSUME NEW h \in Handles, GetOrReleaseSnapshot(h)
      PROVE  NothingOlder'
  <2>1. UNCHANGED <<writes, mem, imm, files, merge>>
    BY <1>4 DEF GetOrReleaseSnapshot
  <2>2. \A n : Viewed(writes, held', n) => Viewed(writes, held, n)
    <3>1. \A g \in Handles : held'[g] \in {held[g], Len(writes), NoNumber}
      BY <1>1, <1>4 DEF GetOrReleaseSnapshot, LastSequence, Basic
    <3> QED BY <3>1 DEF Viewed
  <2> QED BY <1>2, <2>1, <2>2
<1>5. CASE \/ SwitchMemTable \/ CompactMemTable \/ CompactionFails
           \/ \E l \in 0 .. (NumLevels - 2) : MoveTrivially(l) \/ CompactionBegin(l)
  <2>1. UNCHANGED <<writes, held>>
    BY <1>5 DEF SwitchMemTable, CompactMemTable, CompactionFails, MoveTrivially, CompactionBegin
  <2>2. \A s : Stays(files', mem', imm', s) <=> Stays(files, mem, imm, s)
    BY <1>1, <1>5, SameStay
  <2> QED BY <1>2, <2>1, <2>2
<1>6. CASE Reopen
  <2>1. writes' = writes /\ held' = [h \in Handles |-> NoNumber]
    BY <1>6 DEF Reopen
  <2>2. \A n : Viewed(writes, held', n) => Viewed(writes, held, n)
    BY <2>1 DEF Viewed
  <2>3. \A s : Stays(files', mem', imm', s) <=> Stays(files, mem, imm, s)
    BY <1>1, <1>6, SameStay
  <2> QED BY <1>2, <2>1, <2>2, <2>3
<1>7. CASE DoCompactionWork
  <2>1. UNCHANGED <<writes, mem, imm, held>>
    BY <1>7 DEF DoCompactionWork
  <2>2. \A s : Stays(files', mem', imm', s) => Stays(files, mem, imm, s)
    BY <1>1, <1>7, WorkedFiles DEF Stays, InTables
  <2> SUFFICES ASSUME NEW n, Viewed(writes, held, n), NEW k, NEW s, Newest(writes, k, n, s),
                      ~Stays(files', mem', imm', s), NEW t, Stays(files', mem', imm', t), KeyOf(writes, t) = k
               PROVE  t > n
    BY <2>1 DEF NothingOlder
  <2>3. CASE Stays(files, mem, imm, s)
    BY <1>7, <2>3, NothingLeft
  <2>4. CASE ~Stays(files, mem, imm, s)
    BY <1>1, <2>2, <2>4 DEF NothingOlder
  <2> QED BY <2>3, <2>4
<1>8. CASE UNCHANGED vars
  BY <1>2, <1>8 DEF vars
<1> QED BY <1>3, <1>4, <1>5, <1>6, <1>7, <1>8 DEF Next, Compaction

\* Every step keeps the whole invariant.
LEMMA TruthKept ==
    ASSUME KeysWhole, ~(Manual /\ InlineFlush)
    PROVE  Truthful /\ [Next]_vars => Truthful'
<1> SUFFICES ASSUME Truthful, [Next]_vars
             PROVE  Truthful'
  OBVIOUS
<1>1. InOrder'
  BY OrderKept DEF Truthful
<1>2. Aging'
  BY AgingKept DEF Truthful
<1>3. Whole'
  BY WholeKept DEF Truthful
<1>4. BaseKnown(writes', files', merge')
  BY BaseKept DEF Truthful
<1>5. NothingOlder'
  BY NothingOlderKept
<1>6. BaseKnown(writes, files, merge)'
  BY <1>4 DEF BaseKnown, NoShared, KeyOf
<1> QED BY <1>1, <1>2, <1>3, <1>5, <1>6 DEF Truthful

-----------------------------------------------------------------------------
(* What the store seems to be: the value of a key is that of its newest      *)
(* entry, of all that were written.  Where compactions moved and dropped     *)
(* entries meanwhile, a lookup still answers that (GetIsTruth), so that a    *)
(* step which writes nothing changes no answer.                              *)

Truth(w, k, n) ==
    IF \E s \in 1 .. Len(w) : Newest(w, k, n, s) /\ ~w[s].del
    THEN CHOOSE s \in 1 .. Len(w) : Newest(w, k, n, s)
    ELSE Absent

Map(w, n) == [k \in Keys |-> Truth(w, k, n)]
Maps(w, hd) == [h \in Handles |-> IF hd[h] = NoNumber THEN Store!Empty ELSE Map(w, hd[h])]

Current == [k \in Keys |-> Get(k, LastSequence)]
Frozen == [h \in Handles |-> [k \in Keys |-> IF held[h] = NoNumber THEN Absent ELSE Get(k, held[h])]]

\* A key has one newest entry up to a number, and that decides its value.
LEMMA OneNewest ==
    ASSUME NEW w, Written(w), NEW k, NEW n, NEW s, Newest(w, k, n, s)
    PROVE  /\ \A t : Newest(w, k, n, t) => t = s
           /\ Truth(w, k, n) = IF w[s].del THEN Absent ELSE s
           /\ s \in 1 .. Len(w)
<1>1. s \in 1 .. Len(w) /\ Len(w) \in Nat
  BY Entries DEF Newest
<1>2. \A t : Newest(w, k, n, t) => t = s
  <2> SUFFICES ASSUME NEW t, Newest(w, k, n, t)
               PROVE  t = s
    OBVIOUS
  <2>1. t \in 1 .. Len(w) /\ s <= t /\ t <= s
    BY DEF Newest
  <2> QED BY <1>1, <2>1
<1>3. (CHOOSE t \in 1 .. Len(w) : Newest(w, k, n, t)) = s
  BY <1>1, <1>2
<1>4. Truth(w, k, n) = IF w[s].del THEN Absent ELSE s
  <2>1. CASE w[s].del
    BY <1>2, <2>1 DEF Truth
  <2>2. CASE ~w[s].del
    BY <1>1, <1>3, <2>2 DEF Truth
  <2> QED BY <2>1, <2>2
<1> QED BY <1>1, <1>2, <1>4

\* Either nothing of the key is seen, or one entry of it is the newest.
LEMMA NoneOrNewest ==
    ASSUME NEW w, Written(w), NEW k, NEW n, NEW t \in 1 .. Len(w), KeyOf(w, t) = k, t <= n
    PROVE  \E s : Newest(w, k, n, s)
<1> DEFINE S == {s \in 1 .. Len(w) : KeyOf(w, s) = k /\ s <= n}
<1>1. S # {} /\ S \in SUBSET (1 .. Len(w))
  OBVIOUS
<1>2. \A s : s \in S <=> s \in 1 .. Len(w) /\ KeyOf(w, s) = k /\ s <= n
  OBVIOUS
<1> HIDE DEF S
<1>3. IsFiniteSet(S) /\ S \in SUBSET Int
  <2>1. Len(w) \in Nat
    BY Entries
  <2>2. IsFiniteSet(1 .. Len(w))
    BY <2>1, FS_Interval
  <2>3. IsFiniteSet(S)
    BY <1>1, <2>2, FS_Subset
  <2>4. \A x \in 1 .. Len(w) : x \in Int
    OBVIOUS
  <2> QED BY <1>1, <2>3, <2>4
<1>4. PICK s \in S : \A x \in S : x <= s
  BY <1>1, <1>3, MinMax
<1>5. Newest(w, k, n, s)
  BY <1>2, <1>4 DEF Newest
<1> QED BY <1>5

\* What Get answers is the value of the newest entry ever written of the key.
LEMMA GetIsTruth ==
    ASSUME Truthful, NEW k \in Keys, NEW n, Viewed(writes, held, n)
    PROVE  Get(k, n) = Truth(writes, k, n)
<1>1. /\ Ordered /\ Basic /\ Written(writes) /\ Len(writes) \in Nat
      /\ AllThere /\ NothingOlder
  BY Entries DEF Truthful, InOrder, Aging, Whole, Ordered, Basic
<1>2. n \in 0 .. Len(writes)
  BY <1>1, Views
<1>3. \A x : Stays(files, mem, imm, x) => x \in 1 .. Len(writes)
  BY <1>1, StayingAreWritten
<1>4. (\A x : ~Latest(files, mem, imm, writes, k, n, x)) => Get(k, n) = Absent
  <2>1. (\A x : ~Latest(files, mem, imm, writes, k, n, x)) => Found(k, n) = NoNumber
    BY <1>1, <1>2, FoundIsLatest
  <2> QED BY <2>1 DEF Get, Value
<1>5. ASSUME NEW s, Newest(writes, k, n, s), Stays(files, mem, imm, s)
      PROVE  Get(k, n) = Truth(writes, k, n)
  <2>1. Latest(files, mem, imm, writes, k, n, s)
    BY <1>3, <1>5 DEF Latest, Newest
  <2>2. Found(k, n) = s
    BY <1>1, <1>2, <2>1, FoundIsLatest
  <2>3. s # NoNumber
    BY <1>3, <1>5 DEF NoNumber
  <2>4. Get(k, n) = IF writes[s].del THEN Absent ELSE s
    BY <2>2, <2>3 DEF Get, Value
  <2> QED BY <1>1, <1>5, <2>4, OneNewest
<1>6. ASSUME NEW s, Newest(writes, k, n, s), ~Stays(files, mem, imm, s)
      PROVE  Get(k, n) = Truth(writes, k, n)
  <2>1. writes[s].del
    BY <1>1, <1>6 DEF AllThere
  <2>2. ASSUME NEW x, Latest(files, mem, imm, writes, k, n, x)
        PROVE  FALSE
    <3>1. x > n /\ x <= n /\ x \in 1 .. Len(writes)
      BY <1>1, <1>3, <1>6, <2>2 DEF NothingOlder, Latest
    <3> QED BY <1>2, <3>1
  <2>3. Truth(writes, k, n) = Absent
    BY <1>1, <1>6, <2>1, OneNewest
  <2> QED BY <1>4, <2>2, <2>3
<1>7. ASSUME \A s : ~Newest(writes, k, n, s)
      PROVE  Get(k, n) = Truth(writes, k, n)
  <2>1. \A x : ~Latest(files, mem, imm, writes, k, n, x)
    BY <1>1, <1>3, <1>7, NoneOrNewest DEF Latest
  <2>2. Truth(writes, k, n) = Absent
    BY <1>7 DEF Truth
  <2> QED BY <1>4, <2>1, <2>2
<1> QED BY <1>5, <1>6, <1>7

\* So the maps that are read are those of the entries written.
LEMMA Mapped == Truthful => Current = Map(writes, Len(writes)) /\ Frozen = Maps(writes, held)
<1> SUFFICES ASSUME Truthful
             PROVE  Current = Map(writes, Len(writes)) /\ Frozen = Maps(writes, held)
  OBVIOUS
<1>1. \A k \in Keys : \A n : Viewed(writes, held, n) => Get(k, n) = Truth(writes, k, n)
  BY GetIsTruth
<1>2. Viewed(writes, held, LastSequence) /\ LastSequence = Len(writes)
  BY DEF Viewed, LastSequence
<1>3. \A h \in Handles : held[h] # NoNumber => Viewed(writes, held, held[h])
  BY DEF Viewed
<1>4. Current = Map(writes, Len(writes))
  BY <1>1, <1>2 DEF Current, Map
<1>5. Frozen = Maps(writes, held)
  <2>1. ASSUME NEW h \in Handles
        PROVE  [k \in Keys |-> IF held[h] = NoNumber THEN Absent ELSE Get(k, held[h])]
               = IF held[h] = NoNumber THEN Store!Empty ELSE Map(writes, held[h])
    <3>1. CASE held[h] = NoNumber
      BY <3>1 DEF Store!Empty
    <3>2. CASE held[h] # NoNumber
      BY <1>1, <1>3, <3>2 DEF Map
    <3> QED BY <3>1, <3>2
  <2> QED BY <2>1 DEF Frozen, Maps
<1> QED BY <1>4, <1>5

\* The same of the next state.
LEMMA MappedNext == Truthful' => Current' = Map(writes', Len(writes')) /\ Frozen' = Maps(writes', held')
<1>1. (Truthful => Current = Map(writes, Len(writes)) /\ Frozen = Maps(writes, held))'
  BY Mapped, PTL
<1> QED BY <1>1 DEF Map, Maps, Truth, Newest, KeyOf, Store!Empty

\* A step of the levels is a step of the store, or none.
LEMMA StepsOfTheStore ==
    ASSUME Truthful, Truthful', [Next]_vars
    PROVE  [Store!Next]_Store!svars
<1>1. /\ Basic /\ Written(writes) /\ Len(writes) \in Nat
      /\ Current = Map(writes, Len(writes)) /\ Frozen = Maps(writes, held)
      /\ Current' = Map(writes', Len(writes')) /\ Frozen' = Maps(writes', held')
  BY Mapped, MappedNext, Entries DEF Truthful, Whole, Basic
<1>2. Current' = Current /\ Frozen' = Frozen => UNCHANGED Store!svars
  BY DEF Store!svars, Current, Frozen
<1>3. UNCHANGED <<writes, held>> => UNCHANGED Store!svars
  BY <1>1, <1>2 DEF Map, Maps, Truth, Newest, KeyOf
<1>4. CASE Write
  <2>1. PICK k \in Keys, d \in BOOLEAN : writes' = Append(writes, [key |-> k, del |-> d])
    BY <1>4 DEF Write
  <2>2. Len(writes) < MaxWrites /\ held' = held
    BY <1>4 DEF Write, LastSequence
  <2>3. /\ \A j, s : \A n \in 0 .. Len(writes) : Newest(writes', j, n, s) <=> Newest(writes, j, n, s)
        /\ \A j, s : j # k => (Newest(writes', j, Len(writes'), s) <=> Newest(writes, j, Len(writes), s))
        /\ Len(writes') = Len(writes) + 1
        /\ \A s \in 1 .. Len(writes) : writes'[s] = writes[s]
    BY <1>1, <2>1, <2>2, NewestWithWrite
  <2>4. Written(writes') /\ Len(writes') \in Nat /\ Len(writes') <= MaxWrites
    BY Entries DEF Truthful, Whole, Basic, Written
  <2>5. ASSUME NEW w, Written(w), NEW k1, NEW n
        PROVE  Truth(w, k1, n) \in (1 .. Len(w)) \cup {Absent}
    <3>1. CASE \E s : Newest(w, k1, n, s)
      <4>1. PICK s : Newest(w, k1, n, s)
        BY <3>1
      <4> QED BY <2>5, <4>1, OneNewest
    <3>2. CASE ~\E s : Newest(w, k1, n, s)
      BY <3>2 DEF Truth
    <3> QED BY <3>1, <3>2
  <2>6. ASSUME NEW j, NEW n, NEW m,
               \A s : Newest(writes', j, n, s) <=> Newest(writes, j, m, s)
        PROVE  Truth(writes', j, n) = Truth(writes, j, m)
    <3>1. CASE \E s : Newest(writes, j, m, s)
      <4>1. PICK s : Newest(writes, j, m, s)
        BY <3>1
      <4>2. /\ Truth(writes, j, m) = (IF writes[s].del THEN Absent ELSE s) /\ s \in 1 .. Len(writes)
            /\ Truth(writes', j, n) = IF writes'[s].del THEN Absent ELSE s
        BY <1>1, <2>4, <2>6, <4>1, OneNewest
      <4> QED BY <2>3, <4>2
    <3>2. CASE ~\E s : Newest(writes, j, m, s)
      BY <2>6, <3>2 DEF Truth
    <3> QED BY <3>1, <3>2
  <2>7. Frozen' = Frozen
    <3>1. ASSUME NEW h \in Handles, held[h] # NoNumber
          PROVE  Map(writes', held[h]) = Map(writes, held[h])
      <4>1. held[h] \in 0 .. Len(writes)
        BY <1>1, <3>1 DEF Basic
      <4>2. \A j \in Keys : Truth(writes', j, held[h]) = Truth(writes, j, held[h])
        BY <2>3, <2>6, <4>1
      <4> QED BY <4>2 DEF Map
    <3> QED BY <1>1, <2>2, <3>1 DEF Maps
  <2>8. \A j \in Keys \ {k} : Current'[j] = Current[j]
    <3>1. \A j \in Keys \ {k} : Truth(writes', j, Len(writes')) = Truth(writes, j, Len(writes))
      BY <2>3, <2>6
    <3> QED BY <1>1, <3>1 DEF Map
  <2>9. Current' \in [Keys -> (1 .. MaxWrites) \cup {Absent}]
    <3>1. \A j \in Keys : Truth(writes', j, Len(writes')) \in (1 .. Len(writes')) \cup {Absent}
      BY <2>4, <2>5
    <3>2. 1 .. Len(writes') \subseteq 1 .. MaxWrites
      BY <2>4, Constants
    <3> QED BY <1>1, <3>1, <3>2 DEF Map
  <2>10. Store!Write
    BY <2>7, <2>8, <2>9 DEF Store!Write, Current, Frozen
  <2> QED BY <2>10 DEF Store!Next
<1>5. ASSUME NEW h \in Handles, GetOrReleaseSnapshot(h)
      PROVE  [Store!Next]_Store!svars
  <2>1. writes' = writes /\ held' = [held EXCEPT ![h] = IF @ = NoNumber THEN Len(writes) ELSE NoNumber]
    BY <1>5 DEF GetOrReleaseSnapshot, LastSequence
  <2>2. Current' = Current
    BY <1>1, <2>1
  <2> DEFINE map == IF held[h] = NoNumber THEN Current ELSE Store!Empty
  <2>3. Frozen' = [Frozen EXCEPT ![h] = map]
    <3>1. Len(writes) # NoNumber
      BY <1>1 DEF NoNumber
    <3>2. held'[h] = (IF held[h] = NoNumber THEN Len(writes) ELSE NoNumber) /\ \A g \in Handles \ {h} : held'[g] = held[g]
      BY <1>1, <2>1 DEF Basic
    <3>3. Frozen'[h] = map
      BY <1>1, <2>1, <3>1, <3>2 DEF Maps
    <3>4. \A g \in Handles \ {h} : Frozen'[g] = Frozen[g]
      BY <1>1, <2>1, <3>2 DEF Maps
    <3>5. /\ Frozen' = [g \in Handles |-> Frozen'[g]]
          /\ Frozen = [g \in Handles |-> Frozen[g]]
      BY <1>1 DEF Maps
    <3> HIDE DEF map
    <3> QED BY <3>3, <3>4, <3>5
  <2>4. map \in {Current, Store!Empty}
    OBVIOUS
  <2> HIDE DEF map
  <2>5. \E m \in {Current, Store!Empty} : Frozen' = [Frozen EXCEPT ![h] = m]
    BY <2>3, <2>4
  <2>6. Store!TakeOrRelease(h)
    BY <2>2, <2>5 DEF Store!TakeOrRelease, Current, Frozen
  <2> QED BY <2>6 DEF Store!Next
<1>6. CASE Reopen
  <2>1. writes' = writes /\ held' = [h \in Handles |-> NoNumber]
    BY <1>6 DEF Reopen
  <2>2. Current' = Current
    BY <1>1, <2>1
  <2>3. Frozen' = [h \in Handles |-> Store!Empty]
    BY <1>1, <2>1 DEF Maps
  <2>4. Store!Reopen
    BY <2>2, <2>3 DEF Store!Reopen, Current, Frozen
  <2> QED BY <2>4 DEF Store!Next
<1>7. CASE SwitchMemTable \/ CompactMemTable \/ Compaction \/ UNCHANGED vars
  <2>1. UNCHANGED <<writes, held>>
    BY <1>7 DEF SwitchMemTable, CompactMemTable, Compaction, MoveTrivially, CompactionBegin,
                DoCompactionWork, CompactionFails, vars
  <2> QED BY <1>3, <2>1
<1> QED BY <1>4, <1>5, <1>6, <1>7 DEF Next

(* To the program the database is a map and its snapshots are maps: every    *)
(* write changes one key, and no flush, compaction, move or reopening is     *)
(* seen, by a reader of the latest sequence number or of a snapshot held     *)
(* through it.  The hypotheses are those of the two theorems it rests on.    *)
THEOREM StoreIsImplemented ==
    ASSUME KeysWhole, ~(Manual /\ InlineFlush)
    PROVE  Spec => ImplementsStore
<1>1. Init => Truthful
  <2> SUFFICES ASSUME Init
               PROVE  Truthful
    OBVIOUS
  <2>1. Basic
    BY BasicAtFirst
  <2>2. InOrder
    BY <2>1 DEF Init, InOrder, LevelsDisjoint, SidesKept, GapsFilled
  <2>3. Aging
    <3>1. \A l \in Levels : files[l] = {}
      BY DEF Init
    <3> QED BY <2>1, <3>1, LevelsAre
            DEF Init, Aging, Aged, KeysApart, ZeroInTime, DeeperOlder, MemNewest, SharesNothing, After
  <2>4. \A k, n, s : ~Newest(writes, k, n, s)
    <3>1. Len(writes) = 0
      BY DEF Init
    <3> QED BY <3>1 DEF Newest
  <2>5. Whole
    BY <2>1, <2>4 DEF Init, Whole, OldestKnown, AllThere
  <2>6. BaseKnown(writes, files, merge) /\ NothingOlder
    BY <2>4 DEF Init, BaseKnown, NothingOlder
  <2> QED BY <2>2, <2>3, <2>5, <2>6 DEF Truthful
<1>2. Truthful /\ [Next]_vars => Truthful'
  BY TruthKept
<1>3. Init => Store!Init
  <2> SUFFICES ASSUME Init
               PROVE  Store!Init
    OBVIOUS
  <2>1. Current = Map(writes, Len(writes)) /\ Frozen = Maps(writes, held)
    BY <1>1, Mapped
  <2>2. \A k, n : Truth(writes, k, n) = Absent
    <3>1. Len(writes) = 0
      BY DEF Init
    <3> QED BY <3>1 DEF Truth
  <2>3. \A n : Map(writes, n) = Store!Empty
    BY <2>2 DEF Map, Store!Empty
  <2>4. Current = Store!Empty /\ Frozen = [h \in Handles |-> Store!Empty]
    BY <2>1, <2>3 DEF Maps
  <2> QED BY <2>4 DEF Store!Init, Current, Frozen
<1>4. Truthful /\ Truthful' /\ [Next]_vars => [Store!Next]_Store!svars
  BY StepsOfTheStore
<1> QED BY <1>1, <1>2, <1>3, <1>4, PTL DEF Spec, ImplementsStore, Store!Spec

(* What Version::Get, the compactions and the snapshots rely on, all         *)
(* together, for every number of levels, keys, snapshots and writes: the     *)
(* conjunction that the runs check.                                          *)
THEOREM LevelsSafeHolds ==
    ASSUME KeysWhole, ~(Manual /\ InlineFlush)
    PROVE  Spec => []LevelsSafe
<1>1. TypeOK /\ LevelsDisjoint /\ EntriesNeverHop /\ VisibleStays => LevelsSafe
  BY DEF LevelsSafe
<1>2. Spec => []TypeOK
  BY TypesHold
<1>3. Spec => []LevelsDisjoint
  BY LevelsStayDisjoint
<1>4. Spec => []EntriesNeverHop
  BY EntriesStayInOrder
<1>5. Spec => []VisibleStays
  BY NothingVisibleIsLost
<1> QED BY <1>1, <1>2, <1>3, <1>4, <1>5, PTL

-----------------------------------------------------------------------------
(* Repair, as an instance.                                                   *)
CONSTANTS RepairKeys, RepairWrites, RepairNumbers, Damages, Crashes, BuildFails
VARIABLES tableFiles, logFiles, live, logNumber, immNumber, compaction, entries, nextNumber, stage,
          found, listed, salvage, lastSequence, readable, damages, stops, lost
Dir == INSTANCE Repair WITH
    Keys <- RepairKeys, MaxWrites <- RepairWrites, MaxNumber <- RepairNumbers,
    tables <- tableFiles, logs <- logFiles, log <- logNumber, imm <- immNumber,
    merge <- compaction, written <- entries, next <- nextNumber, pc <- stage,
    last <- lastSequence, crashes <- stops

RepairEntry == [key : RepairKeys, seq : 1..RepairWrites, type : {"value", "deletion"}]
RepairStages == {"up", "damage", "find", "convert", "scan", "copy", "repaired"}

\* The counts, and the number the next file gets.
CountsOK ==
    /\ entries \in Nat /\ entries <= RepairWrites
    /\ damages \in Nat /\ stops \in Nat /\ lost \in BOOLEAN /\ stage \in RepairStages
    /\ nextNumber \in Nat /\ nextNumber > 0
    /\ \A n \in Dir!Numbers : n \in Nat /\ 0 < n /\ n < nextNumber

\* The entries there are, all together, are finitely many.
TablesIn(ts, F) == \A n \in DOMAIN ts : ts[n].has \subseteq F
LogsIn(ls, F) == \A n \in DOMAIN ls : ls[n] \subseteq F
Within(F) ==
    /\ TablesIn(tableFiles, F) /\ LogsIn(logFiles, F)
    /\ stage = "copy" => salvage.has \subseteq F
EntriesOK == \E F \in SUBSET RepairEntry : IsFiniteSet(F) /\ Within(F)

\* A table without an error has entries.
SoundTable(t) == t.ok \in BOOLEAN /\ (t.ok => t.has # {}) /\ (Damages = 0 => t.ok)
Sound(ts) == \A n \in DOMAIN ts : SoundTable(ts[n])
TablesOK == Sound(tableFiles) /\ (Damages = 0 => stage # "copy")

\* The database in use.
DatabaseOK ==
    /\ compaction \in [inputs : SUBSET Nat, out : Nat]
    /\ stage = "up" =>
           /\ DOMAIN live \subseteq DOMAIN tableFiles /\ compaction.inputs \subseteq DOMAIN live
           /\ logNumber \in DOMAIN logFiles
           /\ immNumber # 0 =>
                  immNumber \in DOMAIN logFiles /\ immNumber # logNumber /\ logFiles[immNumber] # {}

\* The tables listed are in the directory, and one that is not has nothing in
\* it or is still to be looked at.
ListedOK ==
    /\ stage = "convert" => found = DOMAIN logFiles /\ DOMAIN listed = {}
    /\ stage \in {"scan", "copy", "repaired"} =>
           /\ DOMAIN logFiles = {}
           /\ found \subseteq DOMAIN tableFiles /\ found \cap DOMAIN listed = {}
           /\ \A n \in DOMAIN listed :
                  /\ n \in DOMAIN tableFiles /\ tableFiles[n].ok
                  /\ listed[n] = Dir!MetaData(tableFiles[n].has)
           /\ ~lost => \A n \in DOMAIN tableFiles :
                           tableFiles[n].has = {} \/ n \in found \/ n \in DOMAIN listed
    /\ stage = "copy" =>
           /\ salvage.copy \in DOMAIN tableFiles \ (found \cup DOMAIN listed)
           /\ tableFiles[salvage.copy].has = {} /\ ~tableFiles[salvage.copy].ok
           /\ salvage.table \in Nat /\ 0 < salvage.table /\ salvage.table < nextNumber
           /\ salvage.table \notin DOMAIN tableFiles
    /\ stage = "repaired" =>
           /\ found = {}
           /\ \A n \in DOMAIN listed : \A e \in tableFiles[n].has : e.seq <= lastSequence

\* What could be read is somewhere.
IsThere(e) ==
    \/ \E n \in DOMAIN tableFiles : e \in tableFiles[n].has
    \/ \E n \in DOMAIN logFiles : e \in logFiles[n]
    \/ stage = "copy" /\ e \in salvage.has
ReadableThere ==
    (Damages = 0 \/ Crashes = 0) /\ ~lost /\ stage \notin {"up", "damage"} =>
        \A e \in readable : IsThere(e)

RepairInv == CountsOK /\ EntriesOK /\ TablesOK /\ DatabaseOK /\ ListedOK /\ ReadableThere

\* Tables that are sound stay so when one is added.
LEMMA MoreSound ==
    ASSUME NEW f, Sound(f), NEW n, NEW v, SoundTable(v)
    PROVE  Sound(Dir!With(f, n, v))
<1> DEFINE g == Dir!With(f, n, v)
<1>1. DOMAIN g = DOMAIN f \cup {n} /\ g[n] = v /\ \A m \in DOMAIN f : m # n => g[m] = f[m]
  BY DEF Dir!With
<1> HIDE DEF g
<1>2. Sound(g)
  BY <1>1 DEF Sound
<1> QED BY <1>2 DEF g
\* And when some go.
LEMMA FewerSound == ASSUME NEW f, Sound(f), NEW S PROVE Sound(Dir!Without(f, S))
  BY DEF Sound, Dir!Without

\* The same of what they contain.
LEMMA MoreIn ==
    ASSUME NEW f, NEW F, TablesIn(f, F), NEW n, NEW v, v.has \subseteq F
    PROVE  TablesIn(Dir!With(f, n, v), F)
<1> DEFINE g == Dir!With(f, n, v)
<1>1. DOMAIN g = DOMAIN f \cup {n} /\ g[n] = v /\ \A m \in DOMAIN f : m # n => g[m] = f[m]
  BY DEF Dir!With
<1> HIDE DEF g
<1>2. TablesIn(g, F)
  BY <1>1 DEF TablesIn
<1> QED BY <1>2 DEF g
\* And when some go.
LEMMA FewerIn == ASSUME NEW f, NEW F, TablesIn(f, F), NEW S PROVE TablesIn(Dir!Without(f, S), F)
  BY DEF TablesIn, Dir!Without
\* The logs' content.
LEMMA FewerLogsIn == ASSUME NEW f, NEW F, LogsIn(f, F), NEW S PROVE LogsIn(Dir!Without(f, S), F)
  BY DEF LogsIn, Dir!Without

\* An empty directory but for a log.
LEMMA RepairInit == ASSUME Dir!RepairAssumption, Dir!Init PROVE RepairInv
<1> USE DEF Dir!RepairAssumption, Dir!Init, Dir!NoFiles, Dir!With, Dir!Without
<1>1. CountsOK
  <2>1. \A n \in Dir!Numbers : n = 1
    BY DEF Dir!Numbers
  <2>2. stage \in RepairStages
    BY DEF RepairStages
  <2>3. /\ RepairWrites \in Nat /\ entries = 0 /\ damages = 0 /\ stops = 0
        /\ lost = FALSE /\ nextNumber = 2
    OBVIOUS
  <2>4. lost \in BOOLEAN
    BY ONLY <2>3
  <2>5. \A n \in Dir!Numbers : n \in Nat /\ 0 < n /\ n < nextNumber
    BY ONLY <2>1, <2>3
  <2>6. nextNumber \in Nat /\ nextNumber > 0 /\ entries \in Nat /\ entries <= RepairWrites
    BY ONLY <2>3
  <2>7. damages \in Nat /\ stops \in Nat
    BY ONLY <2>3
  <2> QED BY ONLY <2>2, <2>4, <2>5, <2>6, <2>7 DEF CountsOK
<1>2. EntriesOK
  <2>1. {} \in SUBSET RepairEntry /\ IsFiniteSet({})
    BY FS_EmptySet
  <2>2. Within({})
    BY DEF Within, TablesIn, LogsIn
  <2> QED BY <2>1, <2>2 DEF EntriesOK
<1>3. TablesOK /\ ListedOK /\ ReadableThere
  BY DEF TablesOK, Sound, ListedOK, ReadableThere
<1>4. DatabaseOK
  BY DEF DatabaseOK, Dir!NoMerge
<1> QED BY <1>1, <1>2, <1>3, <1>4 DEF RepairInv

\* The instance's least and greatest numbers.
LEMMA DirMinMax ==
    ASSUME NEW S \in SUBSET Int, IsFiniteSet(S), S # {}
    PROVE  /\ Dir!Min(S) \in S /\ \A x \in S : Dir!Min(S) <= x
           /\ Dir!Max(S) \in S /\ \A x \in S : x <= Dir!Max(S)
<1>1. Dir!Min(S) = Min(S) /\ Dir!Max(S) = Max(S)
  BY DEF Dir!Min, Dir!Max, Min, Max
<1> QED BY <1>1, MinMax

\* The highest number of a file.
LEMMA Highest ==
    ASSUME CountsOK
    PROVE  /\ Dir!Max({0} \cup Dir!Numbers) \in Nat
           /\ \A n \in Dir!Numbers : n <= Dir!Max({0} \cup Dir!Numbers)
<1> DEFINE S == {0} \cup Dir!Numbers
<1>1. S \subseteq 0..nextNumber /\ nextNumber \in Nat /\ S # {}
  BY DEF CountsOK
<1>2. IsFiniteSet(S)
  <2>1. IsFiniteSet(0..nextNumber)
    BY <1>1, FS_Interval
  <2> QED BY <1>1, <2>1, FS_Subset
<1>3. S \in SUBSET Int /\ S \subseteq Nat
  BY <1>1
<1> HIDE DEF S
<1>4. Dir!Max(S) \in S /\ \A x \in S : x <= Dir!Max(S)
  BY <1>1, <1>2, <1>3, DirMinMax
<1> QED BY <1>3, <1>4 DEF S

\* The range of the keys of a table.
LEMMA KeyRange ==
    ASSUME Dir!RepairAssumption, NEW S \in SUBSET RepairEntry, IsFiniteSet(S), NEW e \in S
    PROVE  e.key \in Dir!MetaData(S).smallest..Dir!MetaData(S).largest
<1> DEFINE ks == Dir!KeysOf(S)
           f == [x \in S |-> x.key]
<1>1. ks \in SUBSET Int /\ e.key \in ks
  <2>1. \A x \in S : x.key \in Nat
    BY DEF RepairEntry, Dir!RepairAssumption
  <2> QED BY <2>1 DEF Dir!KeysOf
<1>2. f \in Surjection(S, ks)
  BY DEF Surjection, Dir!KeysOf
<1>3. IsFiniteSet(ks)
  BY <1>2, FS_Surjection
<1> HIDE DEF ks, f
<1>4. Dir!Min(ks) \in Int /\ Dir!Max(ks) \in Int /\ Dir!Min(ks) <= e.key /\ e.key <= Dir!Max(ks)
  BY <1>1, <1>3, DirMinMax
<1>5. Dir!MetaData(S).smallest = Dir!Min(ks) /\ Dir!MetaData(S).largest = Dir!Max(ks)
  BY DEF Dir!MetaData, ks
<1>6. e.key \in Int
  BY <1>1
<1> QED BY <1>4, <1>5, <1>6

\* Its last sequence number.
LEMMA LastOf ==
    ASSUME Dir!RepairAssumption, NEW S \in SUBSET RepairEntry, IsFiniteSet(S), S # {}
    PROVE  /\ Dir!MetaData(S).seq \in 1..RepairWrites
           /\ \A e \in S : e.seq <= Dir!MetaData(S).seq
<1> DEFINE qs == {e.seq : e \in S}
<1>1. qs \in SUBSET (1..RepairWrites) /\ qs # {} /\ RepairWrites \in Int
  BY DEF RepairEntry, Dir!RepairAssumption
<1>2. IsFiniteSet(qs)
  <2>1. IsFiniteSet(1..RepairWrites)
    BY <1>1, FS_Interval
  <2> QED BY <1>1, <2>1, FS_Subset
<1>3. \A e \in S : e.seq \in qs
  OBVIOUS
<1>4. Dir!MetaData(S).seq = Dir!Max(qs)
  BY DEF Dir!MetaData
<1>5. qs \in SUBSET Int
  BY <1>1
<1> HIDE DEF qs
<1>6. Dir!Max(qs) \in qs /\ \A x \in qs : x <= Dir!Max(qs)
  BY <1>1, <1>2, <1>5, DirMinMax
<1> QED BY <1>1, <1>3, <1>4, <1>6

\* Numbers are given out in order, and a repair begins beyond all it finds.
LEMMA CountsKept ==
    ASSUME Dir!RepairAssumption, RepairInv, [Dir!Next]_Dir!vars
    PROVE  CountsOK'
<1> USE DEF RepairInv, CountsOK, Dir!Numbers, Dir!RepairAssumption, RepairStages, Dir!With, Dir!Without, DatabaseOK, ListedOK
<1>1. CASE UNCHANGED Dir!vars
  BY <1>1 DEF Dir!vars, Dir!db, Dir!repair
<1>2. CASE Dir!Write
  BY <1>2 DEF Dir!Write, Dir!db, Dir!repair
<1>3. CASE Dir!NewLog
  BY <1>3 DEF Dir!NewLog, Dir!db, Dir!repair
<1>4. CASE Dir!Flush
  BY <1>4 DEF Dir!Flush, Dir!db, Dir!repair
<1>5. CASE Dir!PickCompaction
  BY <1>5 DEF Dir!PickCompaction, Dir!db, Dir!repair
<1>6. CASE Dir!WriteOutput
  BY <1>6 DEF Dir!WriteOutput, Dir!db, Dir!repair
<1>7. CASE Dir!InstallOutput
  BY <1>7 DEF Dir!InstallOutput, Dir!db, Dir!repair
<1>8. CASE Dir!DeleteObsolete
  BY <1>8 DEF Dir!DeleteObsolete, Dir!db, Dir!repair
<1>9. CASE Dir!Stop
  BY <1>9 DEF Dir!Stop, Dir!db, Dir!repair
<1>10. CASE Dir!Damage
  BY <1>10 DEF Dir!Damage, Dir!db, Dir!repair
<1>11. CASE Dir!FindFiles
  <2>1. /\ nextNumber' = Dir!Max({0} \cup Dir!Numbers) + 1 /\ UNCHANGED <<tableFiles, logFiles>>
        /\ entries' = entries /\ damages' = damages /\ stops' = stops /\ lost' = lost
        /\ stage' = "convert"
    BY <1>11 DEF Dir!FindFiles, Dir!db
  <2>2. Dir!Numbers' = Dir!Numbers
    BY <2>1
  <2>3. PICK m \in Nat : nextNumber' = m + 1 /\ \A n \in Dir!Numbers : n <= m
    BY <2>1, Highest
  <2>4. \A n \in Dir!Numbers : n \in Nat /\ 0 < n
    OBVIOUS
  <2>5. /\ entries' \in Nat /\ entries' <= RepairWrites /\ damages' \in Nat /\ stops' \in Nat
        /\ lost' \in BOOLEAN /\ stage' \in RepairStages
    BY <2>1
  <2> HIDE DEF Dir!Numbers, RepairInv, CountsOK, ListedOK, DatabaseOK
  <2>6. nextNumber' \in Nat /\ nextNumber' > 0
    BY <2>1, <2>3
  <2>7. \A n \in Dir!Numbers' : n \in Nat /\ 0 < n /\ n < nextNumber'
    <3> SUFFICES ASSUME NEW n \in Dir!Numbers' PROVE n \in Nat /\ 0 < n /\ n < nextNumber'
      OBVIOUS
    <3>1. n \in Dir!Numbers
      BY <2>2
    <3>2. n \in Nat /\ 0 < n /\ n <= m
      BY <2>3, <2>4, <3>1
    <3> QED BY <2>3, <3>2
  <2> QED BY ONLY <2>5, <2>6, <2>7 DEF CountsOK
<1>12. ASSUME NEW n \in found, Dir!ConvertLog(n) PROVE CountsOK'
  <2>1. DOMAIN tableFiles' \subseteq DOMAIN tableFiles \cup {nextNumber} /\ DOMAIN logFiles' \subseteq DOMAIN logFiles
    BY <1>12 DEF Dir!ConvertLog
  <2>2. /\ nextNumber' = nextNumber + 1 /\ lost' \in BOOLEAN /\ stage' = stage
        /\ entries' = entries /\ damages' = damages /\ stops' = stops
    BY <1>12 DEF Dir!ConvertLog, Dir!db
  <2> QED BY <2>1, <2>2
<1>13. CASE Dir!ExtractMetaData
  BY <1>13 DEF Dir!ExtractMetaData, Dir!db, Dir!repair
<1>14. ASSUME NEW n \in found, Dir!ScanTable(n) PROVE CountsOK'
  BY <1>14 DEF Dir!ScanTable, Dir!db, Dir!repair
<1>15. ASSUME NEW n \in found, Dir!RepairTable(n) PROVE CountsOK'
  <2>1. DOMAIN tableFiles' \subseteq DOMAIN tableFiles \cup {nextNumber} /\ logFiles' = logFiles
    BY <1>15 DEF Dir!RepairTable
  <2>2. /\ nextNumber' = nextNumber + 1 /\ lost' \in BOOLEAN /\ stage' \in {"scan", "copy"}
        /\ entries' = entries /\ damages' = damages /\ stops' = stops
    BY <1>15 DEF Dir!RepairTable, Dir!db
  <2> QED BY <2>1, <2>2
<1>16. CASE Dir!RenameCopy
  BY <1>16 DEF Dir!RenameCopy, Dir!db, Dir!repair
<1>17. CASE Dir!WriteDescriptor
  BY <1>17 DEF Dir!WriteDescriptor, Dir!db, Dir!repair
<1>18. CASE Dir!StopRepair
  BY <1>18 DEF Dir!StopRepair, Dir!db, Dir!repair
<1> QED BY <1>1, <1>2, <1>3, <1>4, <1>5, <1>6, <1>7, <1>8, <1>9,
          <1>10, <1>11, <1>12, <1>13, <1>14, <1>15, <1>16, <1>17, <1>18 DEF Dir!Next

\* Tables are written whole, or damaged.
LEMMA TablesKept ==
    ASSUME Dir!RepairAssumption, RepairInv, [Dir!Next]_Dir!vars
    PROVE  TablesOK'
<1>0. TablesOK /\ CountsOK /\ DatabaseOK /\ ListedOK
  BY DEF RepairInv
<1> USE DEF TablesOK
<1>1. CASE UNCHANGED Dir!vars
  BY <1>0, <1>1 DEF Dir!vars, Dir!db, Dir!repair
<1>2. CASE Dir!Write
  BY <1>0, <1>2 DEF Dir!Write, Dir!db, Dir!repair
<1>3. CASE Dir!NewLog
  BY <1>0, <1>3 DEF Dir!NewLog, Dir!db, Dir!repair
<1>4. CASE Dir!Flush
  <2>1. tableFiles' = Dir!With(tableFiles, nextNumber, Dir!Whole(logFiles[immNumber])) /\ logFiles[immNumber] # {} /\ stage' = stage
    BY <1>0, <1>4 DEF Dir!Flush, Dir!repair, DatabaseOK
  <2>2. SoundTable(Dir!Whole(logFiles[immNumber]))
    BY <2>1 DEF SoundTable, Dir!Whole
  <2> QED BY <1>0, <2>1, <2>2, MoreSound
<1>5. CASE Dir!PickCompaction
  BY <1>0, <1>5 DEF Dir!PickCompaction, Dir!db, Dir!repair
<1>6. CASE Dir!WriteOutput
  <2>1. stage' = stage /\ \/ tableFiles' = tableFiles
                           \/ \E S : S # {} /\ tableFiles' = Dir!With(tableFiles, nextNumber, Dir!Whole(S))
    BY <1>6 DEF Dir!WriteOutput, Dir!repair
  <2>2. \A S : S # {} => SoundTable(Dir!Whole(S))
    BY DEF SoundTable, Dir!Whole
  <2> QED BY <1>0, <2>1, <2>2, MoreSound
<1>7. CASE Dir!InstallOutput
  BY <1>0, <1>7 DEF Dir!InstallOutput, Dir!db, Dir!repair
<1>8. CASE Dir!DeleteObsolete
  <2>1. stage' = stage /\ \E S : tableFiles' = Dir!Without(tableFiles, S) \/ tableFiles' = tableFiles
    BY <1>8 DEF Dir!DeleteObsolete, Dir!repair
  <2> QED BY <1>0, <2>1, FewerSound
<1>9. CASE Dir!Stop
  BY <1>0, <1>9 DEF Dir!Stop, Dir!db, Dir!repair
<1>10. CASE Dir!Damage
  <2>1. stage' = stage /\ stage # "copy" /\ Damages # 0
    BY <1>0, <1>10 DEF Dir!Damage, Dir!repair, Dir!RepairAssumption, CountsOK
  <2>2. CASE tableFiles' = tableFiles
    BY <1>0, <2>1, <2>2
  <2>3. ASSUME NEW n \in DOMAIN tableFiles, NEW S,
               tableFiles' = [tableFiles EXCEPT ![n] = [has |-> S, ok |-> FALSE]]
        PROVE  TablesOK'
    <3>1. SoundTable([has |-> S, ok |-> FALSE])
      BY <2>1 DEF SoundTable
    <3> QED BY <1>0, <2>1, <2>3, <3>1 DEF Sound
  <2> QED BY <1>10, <2>2, <2>3 DEF Dir!Damage
<1>11. CASE Dir!FindFiles
  BY <1>0, <1>11 DEF Dir!FindFiles, Dir!db, Dir!repair
<1>12. ASSUME NEW n \in found, Dir!ConvertLog(n) PROVE TablesOK'
  <2>1. stage' = stage /\ \/ tableFiles' = tableFiles
                           \/ \E S : S # {} /\ tableFiles' = Dir!With(tableFiles, nextNumber, Dir!Whole(S))
    BY <1>12 DEF Dir!ConvertLog
  <2>2. \A S : S # {} => SoundTable(Dir!Whole(S))
    BY DEF SoundTable, Dir!Whole
  <2> QED BY <1>0, <2>1, <2>2, MoreSound
<1>13. CASE Dir!ExtractMetaData
  BY <1>0, <1>13 DEF Dir!ExtractMetaData, Dir!db, Dir!repair
<1>14. ASSUME NEW n \in found, Dir!ScanTable(n) PROVE TablesOK'
  BY <1>0, <1>14 DEF Dir!ScanTable, Dir!db, Dir!repair
<1>15. ASSUME NEW n \in found, Dir!RepairTable(n) PROVE TablesOK'
  <2>1. ~tableFiles[n].ok /\ n \in DOMAIN tableFiles
    BY <1>0, <1>15 DEF Dir!RepairTable, ListedOK
  <2>2. Damages # 0
    BY <1>0, <2>1 DEF Sound, SoundTable
  <2>3. SoundTable([has |-> {}, ok |-> FALSE])
    BY <2>2 DEF SoundTable
  <2>4. Sound(Dir!With(Dir!Without(tableFiles, {n}), nextNumber, [has |-> {}, ok |-> FALSE]))
    BY <1>0, <2>3, MoreSound, FewerSound
  <2> QED BY <1>0, <1>15, <2>2, <2>4 DEF Dir!RepairTable
<1>16. CASE Dir!RenameCopy
  <2>1. stage' = "scan" /\ Damages # 0
    BY <1>0, <1>16 DEF Dir!RenameCopy
  <2>2. Sound(Dir!Without(tableFiles, {salvage.copy}))
    BY <1>0, FewerSound
  <2>3. salvage.has # {} => SoundTable(Dir!Whole(salvage.has))
    BY DEF SoundTable, Dir!Whole
  <2>4. salvage.has # {} => Sound(Dir!With(Dir!Without(tableFiles, {salvage.copy}), salvage.table, Dir!Whole(salvage.has)))
    BY <2>2, <2>3, MoreSound
  <2> QED BY <1>0, <1>16, <2>1, <2>2, <2>4 DEF Dir!RenameCopy
<1>17. CASE Dir!WriteDescriptor
  BY <1>0, <1>17 DEF Dir!WriteDescriptor, Dir!db, Dir!repair
<1>18. CASE Dir!StopRepair
  BY <1>0, <1>18 DEF Dir!StopRepair, Dir!db, Dir!repair
<1> QED BY <1>1, <1>2, <1>3, <1>4, <1>5, <1>6, <1>7, <1>8, <1>9,
          <1>10, <1>11, <1>12, <1>13, <1>14, <1>15, <1>16, <1>17, <1>18 DEF Dir!Next

\* The database removes nothing it needs.
LEMMA DatabaseKept ==
    ASSUME Dir!RepairAssumption, RepairInv, [Dir!Next]_Dir!vars
    PROVE  DatabaseOK'
<1> USE DEF RepairInv, DatabaseOK, CountsOK, Dir!Numbers, Dir!RepairAssumption, Dir!With, Dir!Without
<1>1. CASE UNCHANGED Dir!vars
  BY <1>1 DEF Dir!vars, Dir!db, Dir!repair
<1>2. CASE Dir!Write
  BY <1>2 DEF Dir!Write, Dir!db, Dir!repair
<1>3. CASE Dir!NewLog
  BY <1>3 DEF Dir!NewLog, Dir!db, Dir!repair
<1>4. CASE Dir!Flush
  BY <1>4 DEF Dir!Flush, Dir!db, Dir!repair
<1>5. CASE Dir!PickCompaction
  <2>1. compaction'.inputs \subseteq DOMAIN live /\ compaction' = [inputs |-> compaction'.inputs, out |-> 0]
    BY <1>5 DEF Dir!PickCompaction, Dir!At
  <2>2. DOMAIN live \subseteq Nat
    BY <1>5 DEF Dir!PickCompaction
  <2>3. compaction' \in [inputs : SUBSET Nat, out : Nat]
    BY <2>1, <2>2
  <2> QED BY <1>5, <2>1, <2>3 DEF Dir!PickCompaction, Dir!repair
<1>6. CASE Dir!WriteOutput
  BY <1>6 DEF Dir!WriteOutput, Dir!db, Dir!repair
<1>7. CASE Dir!InstallOutput
  <2>1. compaction' = Dir!NoMerge /\ UNCHANGED <<tableFiles, logFiles, logNumber, immNumber, stage>>
    BY <1>7 DEF Dir!InstallOutput, Dir!repair
  <2>2. compaction' \in [inputs : SUBSET Nat, out : Nat] /\ compaction'.inputs = {}
    BY <2>1 DEF Dir!NoMerge
  <2>3. DOMAIN live' \subseteq DOMAIN tableFiles
    BY <1>7 DEF Dir!InstallOutput
  <2> QED BY <1>7, <2>1, <2>2, <2>3 DEF Dir!InstallOutput
<1>8. CASE Dir!DeleteObsolete
  BY <1>8 DEF Dir!DeleteObsolete, Dir!db, Dir!repair
<1>9. CASE Dir!Stop
  BY <1>9 DEF Dir!Stop, Dir!db, Dir!repair
<1>10. CASE Dir!Damage
  BY <1>10 DEF Dir!Damage, Dir!db, Dir!repair
<1>11. CASE Dir!FindFiles
  BY <1>11 DEF Dir!FindFiles, Dir!db, Dir!repair
<1>12. ASSUME NEW n \in found, Dir!ConvertLog(n) PROVE DatabaseOK'
  BY <1>12 DEF Dir!ConvertLog, Dir!db, Dir!repair
<1>13. CASE Dir!ExtractMetaData
  BY <1>13 DEF Dir!ExtractMetaData, Dir!db, Dir!repair
<1>14. ASSUME NEW n \in found, Dir!ScanTable(n) PROVE DatabaseOK'
  BY <1>14 DEF Dir!ScanTable, Dir!db, Dir!repair
<1>15. ASSUME NEW n \in found, Dir!RepairTable(n) PROVE DatabaseOK'
  BY <1>15 DEF Dir!RepairTable, Dir!db, Dir!repair
<1>16. CASE Dir!RenameCopy
  BY <1>16 DEF Dir!RenameCopy, Dir!db, Dir!repair
<1>17. CASE Dir!WriteDescriptor
  BY <1>17 DEF Dir!WriteDescriptor, Dir!db, Dir!repair
<1>18. CASE Dir!StopRepair
  BY <1>18 DEF Dir!StopRepair, Dir!db, Dir!repair
<1> QED BY <1>1, <1>2, <1>3, <1>4, <1>5, <1>6, <1>7, <1>8, <1>9,
          <1>10, <1>11, <1>12, <1>13, <1>14, <1>15, <1>16, <1>17, <1>18 DEF Dir!Next

\* Only Write adds an entry.
LEMMA EntriesKept ==
    ASSUME Dir!RepairAssumption, RepairInv, [Dir!Next]_Dir!vars
    PROVE  EntriesOK'
<1>0. PICK F \in SUBSET RepairEntry : IsFiniteSet(F) /\ Within(F)
  BY DEF RepairInv, EntriesOK
<1>a. ASSUME Within(F)' PROVE EntriesOK'
  BY <1>0, <1>a DEF EntriesOK
<1>b. CountsOK /\ DatabaseOK /\ ListedOK
  BY DEF RepairInv
<1> USE DEF Within
<1>1. CASE UNCHANGED Dir!vars
  BY <1>0, <1>a, <1>1 DEF Dir!vars, Dir!db, Dir!repair
<1>2. CASE Dir!Write
  <2>1. PICK e \in RepairEntry : logFiles' = [logFiles EXCEPT ![logNumber] = logFiles[logNumber] \cup {e}]
    <3>1. PICK k \in RepairKeys, w \in {"value", "deletion"} :
            logFiles' = [logFiles EXCEPT ![logNumber] = logFiles[logNumber] \cup {[key |-> k, seq |-> entries + 1, type |-> w]}]
      BY <1>2 DEF Dir!Write
    <3>2. entries + 1 \in 1..RepairWrites
      BY <1>b, <1>2 DEF Dir!Write, CountsOK, Dir!RepairAssumption
    <3> QED BY <3>1, <3>2 DEF RepairEntry
  <2>2. F \cup {e} \in SUBSET RepairEntry /\ IsFiniteSet(F \cup {e})
    BY <1>0, FS_AddElement
  <2>3. tableFiles' = tableFiles /\ stage' = "up"
    BY <1>2 DEF Dir!Write, Dir!repair
  <2>4. Within(F \cup {e})'
    BY <1>0, <2>1, <2>3 DEF TablesIn, LogsIn
  <2> HIDE DEF Within
  <2> QED BY <2>2, <2>4 DEF EntriesOK
<1>3. CASE Dir!NewLog
  <2>1. logFiles' = Dir!With(logFiles, nextNumber, {}) /\ tableFiles' = tableFiles /\ stage' = "up"
    BY <1>3 DEF Dir!NewLog, Dir!repair
  <2>2. LogsIn(logFiles', F)
    BY <1>0, <2>1 DEF LogsIn, Dir!With
  <2> QED BY <1>0, <1>a, <2>1, <2>2
<1>4. CASE Dir!Flush
  <2>1. /\ tableFiles' = Dir!With(tableFiles, nextNumber, Dir!Whole(logFiles[immNumber]))
        /\ logFiles' = logFiles /\ stage' = "up"
    BY <1>4 DEF Dir!Flush, Dir!repair
  <2>2. Dir!Whole(logFiles[immNumber]).has \subseteq F
    BY <1>0, <1>b, <1>4 DEF DatabaseOK, Dir!Flush, LogsIn, Dir!Whole
  <2>3. TablesIn(tableFiles', F)
    BY <1>0, <2>1, <2>2, MoreIn
  <2> QED BY <1>0, <1>a, <2>1, <2>3
<1>5. CASE Dir!PickCompaction
  BY <1>0, <1>a, <1>5 DEF Dir!PickCompaction, Dir!db, Dir!repair
<1>6. CASE Dir!WriteOutput
  <2>1. logFiles' = logFiles /\ stage' = "up"
    BY <1>6 DEF Dir!WriteOutput, Dir!repair
  <2>2. Dir!Merged(Dir!Has(compaction.inputs)) \subseteq F
    <3>1. compaction.inputs \subseteq DOMAIN tableFiles
      BY <1>b, <1>6 DEF DatabaseOK, Dir!WriteOutput
    <3> QED BY <1>0, <3>1 DEF TablesIn, Dir!Merged, Dir!Has
  <2>3. TablesIn(Dir!With(tableFiles, nextNumber, Dir!Whole(Dir!Merged(Dir!Has(compaction.inputs)))), F)
    <3>1. Dir!Whole(Dir!Merged(Dir!Has(compaction.inputs))).has \subseteq F
      BY <2>2 DEF Dir!Whole
    <3> QED BY <1>0, <3>1, MoreIn
  <2>4. TablesIn(tableFiles', F)
    BY <1>0, <2>3, <1>6 DEF Dir!WriteOutput
  <2> QED BY <1>0, <1>a, <2>1, <2>4
<1>7. CASE Dir!InstallOutput
  BY <1>0, <1>a, <1>7 DEF Dir!InstallOutput, Dir!db, Dir!repair
<1>8. CASE Dir!DeleteObsolete
  <2>1. /\ stage' = "up"
        /\ tableFiles' = tableFiles \/ \E S : tableFiles' = Dir!Without(tableFiles, S)
        /\ logFiles' = logFiles \/ \E S : logFiles' = Dir!Without(logFiles, S)
    BY <1>8 DEF Dir!DeleteObsolete, Dir!repair
  <2>2. TablesIn(tableFiles', F) /\ LogsIn(logFiles', F)
    BY <1>0, <2>1, FewerIn, FewerLogsIn
  <2> QED BY <1>0, <1>a, <2>1, <2>2
<1>9. CASE Dir!Stop
  BY <1>0, <1>a, <1>9 DEF Dir!Stop, Dir!db, Dir!repair
<1>10. CASE Dir!Damage
  <2>1. stage' = "damage"
    BY <1>10 DEF Dir!Damage, Dir!repair
  <2>2. TablesIn(tableFiles', F) /\ LogsIn(logFiles', F)
    BY <1>0, <1>10 DEF Dir!Damage, TablesIn, LogsIn
  <2> QED BY <1>a, <2>1, <2>2
<1>11. CASE Dir!FindFiles
  BY <1>0, <1>a, <1>11 DEF Dir!FindFiles, Dir!db, Dir!repair
<1>12. ASSUME NEW n \in found, Dir!ConvertLog(n) PROVE EntriesOK'
  <2>1. stage' = "convert" /\ logFiles' = Dir!Without(logFiles, {n})
    BY <1>12 DEF Dir!ConvertLog
  <2>2. LogsIn(logFiles', F)
    BY <1>0, <2>1, FewerLogsIn
  <2>3. TablesIn(Dir!With(tableFiles, nextNumber, Dir!Whole(logFiles[n])), F)
    <3>1. Dir!Whole(logFiles[n]).has \subseteq F
      BY <1>0, <1>b, <1>12 DEF Dir!ConvertLog, ListedOK, LogsIn, Dir!Whole
    <3> QED BY <1>0, <3>1, MoreIn
  <2>4. TablesIn(tableFiles', F)
    BY <1>0, <2>3, <1>12 DEF Dir!ConvertLog
  <2> QED BY <1>a, <2>1, <2>2, <2>4
<1>13. CASE Dir!ExtractMetaData
  BY <1>0, <1>a, <1>13 DEF Dir!ExtractMetaData, Dir!db, Dir!repair
<1>14. ASSUME NEW n \in found, Dir!ScanTable(n) PROVE EntriesOK'
  BY <1>0, <1>a, <1>14 DEF Dir!ScanTable, Dir!db, Dir!repair
<1>15. ASSUME NEW n \in found, Dir!RepairTable(n) PROVE EntriesOK'
  <2>1. logFiles' = logFiles
    BY <1>15 DEF Dir!RepairTable
  <2>2. TablesIn(Dir!With(Dir!Without(tableFiles, {n}), nextNumber, [has |-> {}, ok |-> FALSE]), F)
    BY <1>0, MoreIn, FewerIn
  <2>3. TablesIn(tableFiles', F)
    BY <1>0, <2>2, <1>15 DEF Dir!RepairTable
  <2>4. stage' = "copy" => salvage'.has \subseteq F
    BY <1>0, <1>b, <1>15 DEF Dir!RepairTable, TablesIn, ListedOK
  <2> QED BY <1>0, <1>a, <2>1, <2>3, <2>4
<1>16. CASE Dir!RenameCopy
  <2>1. logFiles' = logFiles /\ stage' = "scan" /\ salvage.has \subseteq F
    BY <1>0, <1>16 DEF Dir!RenameCopy
  <2>2. TablesIn(Dir!Without(tableFiles, {salvage.copy}), F)
    BY <1>0, FewerIn
  <2>3. TablesIn(Dir!With(Dir!Without(tableFiles, {salvage.copy}), salvage.table, Dir!Whole(salvage.has)), F)
    <3>1. Dir!Whole(salvage.has).has \subseteq F
      BY <2>1 DEF Dir!Whole
    <3> QED BY <2>2, <3>1, MoreIn
  <2>4. TablesIn(tableFiles', F)
    BY <1>0, <2>2, <2>3, <1>16 DEF Dir!RenameCopy
  <2> QED BY <1>0, <1>a, <2>1, <2>4
<1>17. CASE Dir!WriteDescriptor
  BY <1>0, <1>a, <1>17 DEF Dir!WriteDescriptor, Dir!db, Dir!repair
<1>18. CASE Dir!StopRepair
  BY <1>0, <1>a, <1>18 DEF Dir!StopRepair, Dir!db, Dir!repair
<1> QED BY <1>1, <1>2, <1>3, <1>4, <1>5, <1>6, <1>7, <1>8, <1>9,
          <1>10, <1>11, <1>12, <1>13, <1>14, <1>15, <1>16, <1>17, <1>18 DEF Dir!Next

\* The repair goes through the files one by one.
LEMMA ListedKept ==
    ASSUME Dir!RepairAssumption, RepairInv, [Dir!Next]_Dir!vars
    PROVE  ListedOK'
<1>0. CountsOK /\ TablesOK /\ ListedOK /\ EntriesOK /\ ReadableThere
  BY DEF RepairInv
<1>1. CASE UNCHANGED Dir!vars
  BY <1>0, <1>1 DEF ListedOK, Dir!vars, Dir!db, Dir!repair
<1>2. CASE \/ Dir!Write \/ Dir!NewLog \/ Dir!Flush \/ Dir!PickCompaction \/ Dir!WriteOutput
           \/ Dir!InstallOutput \/ Dir!DeleteObsolete \/ Dir!Stop \/ Dir!Damage
  <2>1. stage' = "up" \/ stage' = "damage"
    BY <1>2 DEF Dir!Write, Dir!NewLog, Dir!Flush, Dir!PickCompaction, Dir!WriteOutput,
       Dir!InstallOutput, Dir!DeleteObsolete, Dir!Stop, Dir!Damage, Dir!repair
  <2> QED BY ONLY <2>1 DEF ListedOK
<1>3. CASE Dir!FindFiles
  BY <1>0, <1>3 DEF ListedOK, Dir!NoFiles, Dir!Numbers, Dir!FindFiles
<1>4. ASSUME NEW n \in found, Dir!ConvertLog(n) PROVE ListedOK'
  BY <1>0, <1>4 DEF ListedOK, Dir!Without, Dir!ConvertLog
<1>5. CASE Dir!ExtractMetaData
  BY <1>0, <1>5 DEF ListedOK, Dir!ExtractMetaData
<1>6. ASSUME NEW n \in found, Dir!ScanTable(n) PROVE ListedOK'
  BY <1>0, <1>6 DEF ListedOK, Dir!With, Dir!ScanTable
<1>7. ASSUME NEW n \in found, Dir!RepairTable(n) PROVE ListedOK'
  <2>1. /\ stage = "scan" /\ n \in found /\ n \in DOMAIN tableFiles
        /\ found' = found \ {n} /\ listed' = listed /\ logFiles' = logFiles /\ nextNumber' = nextNumber + 1
    BY <1>0, <1>7 DEF Dir!RepairTable, ListedOK
  <2>2. CASE /\ tableFiles' = Dir!With(Dir!Without(tableFiles, {n}), nextNumber, [has |-> {}, ok |-> FALSE])
             /\ salvage' = [table |-> n, copy |-> nextNumber, has |-> tableFiles[n].has]
             /\ stage' = "copy" /\ lost' = lost
    <3>1. /\ DOMAIN tableFiles' = (DOMAIN tableFiles \ {n}) \cup {nextNumber}
          /\ tableFiles'[nextNumber] = [has |-> {}, ok |-> FALSE]
          /\ \A m \in DOMAIN tableFiles : m # n /\ m # nextNumber => tableFiles'[m] = tableFiles[m]
      <4> DEFINE rest == Dir!Without(tableFiles, {n})
      <4>1. /\ DOMAIN rest = DOMAIN tableFiles \ {n}
            /\ \A m \in DOMAIN tableFiles \ {n} : rest[m] = tableFiles[m]
        BY DEF Dir!Without
      <4>2. tableFiles' = Dir!With(rest, nextNumber, [has |-> {}, ok |-> FALSE])
        BY <2>2
      <4> HIDE DEF rest
      <4>3. /\ DOMAIN tableFiles' = DOMAIN rest \cup {nextNumber}
            /\ tableFiles'[nextNumber] = [has |-> {}, ok |-> FALSE]
            /\ \A m \in DOMAIN rest : m # nextNumber => tableFiles'[m] = rest[m]
        BY ONLY <4>2 DEF Dir!With
      <4> QED BY ONLY <4>1, <4>3
    <3>2. nextNumber \notin DOMAIN tableFiles /\ n \in Nat /\ 0 < n /\ n < nextNumber /\ nextNumber \in Nat
      BY <1>0, <2>1 DEF CountsOK, Dir!Numbers
    <3>3. /\ salvage'.table = n /\ salvage'.copy = nextNumber /\ tableFiles'[nextNumber].has = {}
          /\ ~tableFiles'[nextNumber].ok
      BY <2>2, <3>1
    <3>4. \A m \in DOMAIN listed' : /\ m \in DOMAIN tableFiles' /\ tableFiles'[m].ok
                                     /\ listed'[m] = Dir!MetaData(tableFiles'[m].has)
      BY <1>0, <2>1, <3>1, <3>2 DEF ListedOK
    <3>5. found' \subseteq DOMAIN tableFiles' /\ found' \cap DOMAIN listed' = {} /\ DOMAIN logFiles' = {}
      BY <1>0, <2>1, <3>1, <3>2 DEF ListedOK
    <3>6. ~lost' => \A m \in DOMAIN tableFiles' :
                        tableFiles'[m].has = {} \/ m \in found' \/ m \in DOMAIN listed'
      BY <1>0, <2>1, <2>2, <3>1, <3>2, <3>3 DEF ListedOK
    <3>7. nextNumber \in DOMAIN tableFiles' \ (found' \cup DOMAIN listed') /\ n \notin DOMAIN tableFiles'
      BY <1>0, <2>1, <3>1, <3>2 DEF ListedOK
    <3>8. /\ salvage'.copy \in DOMAIN tableFiles' \ (found' \cup DOMAIN listed')
          /\ tableFiles'[salvage'.copy].has = {} /\ ~tableFiles'[salvage'.copy].ok
          /\ salvage'.table \in Nat /\ 0 < salvage'.table /\ salvage'.table < nextNumber'
          /\ salvage'.table \notin DOMAIN tableFiles'
      BY <2>1, <3>2, <3>3, <3>7
    <3>9. stage' = "copy"
      BY <2>2
    <3> QED BY ONLY <3>4, <3>5, <3>6, <3>8, <3>9 DEF ListedOK
  <2>3. CASE lost' = TRUE /\ UNCHANGED <<tableFiles, salvage, stage>>
    BY <1>0, <2>1, <2>3 DEF ListedOK
  <2> QED BY <1>7, <2>2, <2>3 DEF Dir!RepairTable
<1>8. CASE Dir!RenameCopy
  <2> DEFINE others == Dir!Without(tableFiles, {salvage.copy})
  <2>1. /\ DOMAIN others = DOMAIN tableFiles \ {salvage.copy}
        /\ \A m \in DOMAIN others : others[m] = tableFiles[m]
    BY DEF Dir!Without
  <2>2. /\ stage = "copy" /\ stage' = "scan" /\ logFiles' = logFiles /\ found' = found
    BY <1>8 DEF Dir!RenameCopy
  <2>3. /\ DOMAIN logFiles = {} /\ found \subseteq DOMAIN others /\ found \cap DOMAIN listed = {}
        /\ salvage.table \notin DOMAIN tableFiles /\ tableFiles[salvage.copy].has = {}
        /\ \A m \in DOMAIN listed : /\ m \in DOMAIN others /\ tableFiles[m].ok
                                    /\ listed[m] = Dir!MetaData(tableFiles[m].has)
        /\ ~lost => \A m \in DOMAIN tableFiles :
                        tableFiles[m].has = {} \/ m \in found \/ m \in DOMAIN listed
    BY <1>0, <2>1, <2>2 DEF ListedOK
  <2> HIDE DEF others
  <2>4. CASE /\ tableFiles' = Dir!With(others, salvage.table, Dir!Whole(salvage.has))
             /\ listed' = Dir!With(listed, salvage.table, Dir!MetaData(salvage.has))
             /\ lost' = lost
    <3>1. /\ DOMAIN tableFiles' = DOMAIN others \cup {salvage.table}
          /\ tableFiles'[salvage.table] = Dir!Whole(salvage.has)
          /\ \A m \in DOMAIN others : m # salvage.table => tableFiles'[m] = others[m]
      BY ONLY <2>4 DEF Dir!With
    <3>2. /\ DOMAIN listed' = DOMAIN listed \cup {salvage.table}
          /\ listed'[salvage.table] = Dir!MetaData(salvage.has)
          /\ \A m \in DOMAIN listed : m # salvage.table => listed'[m] = listed[m]
      BY ONLY <2>4 DEF Dir!With
    <3>3. tableFiles'[salvage.table].has = salvage.has /\ tableFiles'[salvage.table].ok
      BY <3>1 DEF Dir!Whole
    <3>4. \A m \in DOMAIN listed' : /\ m \in DOMAIN tableFiles' /\ tableFiles'[m].ok
                                     /\ listed'[m] = Dir!MetaData(tableFiles'[m].has)
      <4> SUFFICES ASSUME NEW m \in DOMAIN listed'
                   PROVE  /\ m \in DOMAIN tableFiles' /\ tableFiles'[m].ok
                          /\ listed'[m] = Dir!MetaData(tableFiles'[m].has)
        OBVIOUS
      <4>1. CASE m = salvage.table
        BY <3>1, <3>2, <3>3, <4>1
      <4>2. CASE m # salvage.table
        BY <2>1, <2>3, <3>1, <3>2, <4>2
      <4> QED BY <4>1, <4>2
    <3>5. found' \subseteq DOMAIN tableFiles' /\ found' \cap DOMAIN listed' = {} /\ DOMAIN logFiles' = {}
      BY <2>1, <2>2, <2>3, <3>1, <3>2
    <3>6. ~lost' => \A m \in DOMAIN tableFiles' :
                        tableFiles'[m].has = {} \/ m \in found' \/ m \in DOMAIN listed'
      BY <2>1, <2>2, <2>3, <2>4, <3>1, <3>2
    <3> QED BY <2>2, <3>4, <3>5, <3>6 DEF ListedOK
  <2>5. CASE tableFiles' = others /\ listed' = listed
    BY <2>1, <2>2, <2>3, <2>5, <1>8 DEF ListedOK, Dir!RenameCopy
  <2>6. CASE UNCHANGED <<tableFiles, listed, lost>>
    BY <1>0, <2>2, <2>3, <2>6, <2>1 DEF ListedOK
  <2> QED BY <1>8, <2>4, <2>5, <2>6 DEF Dir!RenameCopy, others
<1>9. CASE Dir!WriteDescriptor
  <2> DEFINE seqs == {listed[n].seq : n \in DOMAIN listed}
  <2>1. /\ stage = "scan" /\ found = {} /\ stage' = "repaired" /\ lastSequence' = Dir!Max({0} \cup seqs)
        /\ UNCHANGED <<tableFiles, logFiles, found, listed, lost>>
    BY <1>9 DEF Dir!WriteDescriptor
  <2>2. PICK F \in SUBSET RepairEntry : IsFiniteSet(F) /\ TablesIn(tableFiles, F)
    BY <1>0 DEF EntriesOK, Within
  <2>3. ASSUME NEW n \in DOMAIN listed
        PROVE  listed[n].seq \in 1..RepairWrites /\ \A e \in tableFiles[n].has : e.seq <= listed[n].seq
    <3>1. /\ n \in DOMAIN tableFiles /\ tableFiles[n].ok
          /\ listed[n] = Dir!MetaData(tableFiles[n].has)
      BY <1>0, <2>1 DEF ListedOK
    <3>2. tableFiles[n].has \in SUBSET F /\ tableFiles[n].has # {}
      BY <1>0, <2>2, <3>1 DEF TablesIn, TablesOK, Sound, SoundTable
    <3>3. IsFiniteSet(tableFiles[n].has) /\ tableFiles[n].has \in SUBSET RepairEntry
      BY <2>2, <3>2, FS_Subset
    <3> QED BY <3>1, <3>2, <3>3, LastOf
  <2>4. {0} \cup seqs \in SUBSET (0..RepairWrites) /\ RepairWrites \in Nat
    BY <2>3 DEF Dir!RepairAssumption
  <2>5. IsFiniteSet({0} \cup seqs)
    <3>1. IsFiniteSet(0..RepairWrites)
      BY <2>4, FS_Interval
    <3> HIDE DEF seqs
    <3> QED BY <2>4, <3>1, FS_Subset
  <2>6. {0} \cup seqs \in SUBSET Int /\ \A n \in DOMAIN listed : listed[n].seq \in {0} \cup seqs
    BY <2>4
  <2> HIDE DEF seqs
  <2>7. lastSequence' \in Int /\ \A n \in DOMAIN listed : listed[n].seq <= lastSequence'
    BY <2>1, <2>5, <2>6, DirMinMax
  <2>8. \A n \in DOMAIN listed : \A e \in tableFiles[n].has : e.seq <= lastSequence'
    <3> SUFFICES ASSUME NEW n \in DOMAIN listed, NEW e \in tableFiles[n].has PROVE e.seq <= lastSequence'
      OBVIOUS
    <3>1. e \in RepairEntry
      BY <1>0, <2>1, <2>2 DEF ListedOK, TablesIn
    <3>2. e.seq \in Int /\ listed[n].seq \in Int
      BY <2>3, <3>1 DEF RepairEntry
    <3> QED BY <2>3, <2>7, <3>2
  <2> QED BY <1>0, <2>1, <2>8 DEF ListedOK
<1>10. CASE Dir!StopRepair
  BY <1>0, <1>10 DEF ListedOK, Dir!StopRepair
<1> QED BY <1>1, <1>2, <1>3, <1>4, <1>5, <1>6, <1>7, <1>8, <1>9, <1>10
       DEF Dir!Next

\* What is taken from one file is in another.
LEMMA ThereKept ==
    ASSUME Dir!RepairAssumption, RepairInv, [Dir!Next]_Dir!vars
    PROVE  ReadableThere'
<1>0. CountsOK /\ TablesOK /\ ListedOK /\ EntriesOK /\ ReadableThere
  BY DEF RepairInv
<1>1. CASE UNCHANGED Dir!vars
  BY <1>0, <1>1 DEF ReadableThere, IsThere, Dir!vars, Dir!db, Dir!repair
<1>2. CASE \/ Dir!Write \/ Dir!NewLog \/ Dir!Flush \/ Dir!PickCompaction \/ Dir!WriteOutput
           \/ Dir!InstallOutput \/ Dir!DeleteObsolete \/ Dir!Stop \/ Dir!Damage
  <2>1. stage' = "up" \/ stage' = "damage"
    BY <1>2 DEF Dir!Write, Dir!NewLog, Dir!Flush, Dir!PickCompaction, Dir!WriteOutput,
       Dir!InstallOutput, Dir!DeleteObsolete, Dir!Stop, Dir!Damage, Dir!repair
  <2> QED BY ONLY <2>1 DEF ReadableThere
<1>3. CASE Dir!FindFiles
  BY <1>0, <1>3 DEF ReadableThere, IsThere, Dir!Has, Dir!FindFiles
<1>4. ASSUME NEW n \in found, Dir!ConvertLog(n) PROVE ReadableThere'
  BY <1>0, <1>4 DEF CountsOK, Dir!Numbers, ListedOK, ReadableThere, IsThere, Dir!With, Dir!Without, Dir!Whole, Dir!ConvertLog
<1>5. CASE Dir!ExtractMetaData
  BY <1>0, <1>5 DEF ReadableThere, IsThere, Dir!ExtractMetaData
<1>6. ASSUME NEW n \in found, Dir!ScanTable(n) PROVE ReadableThere'
  BY <1>0, <1>6 DEF ReadableThere, IsThere, Dir!ScanTable
<1>7. ASSUME NEW n \in found, Dir!RepairTable(n) PROVE ReadableThere'
  <2>1. /\ stage = "scan" /\ n \in DOMAIN tableFiles /\ logFiles' = logFiles /\ readable' = readable
    BY <1>0, <1>7 DEF Dir!RepairTable, ListedOK
  <2>2. CASE /\ tableFiles' = Dir!With(Dir!Without(tableFiles, {n}), nextNumber, [has |-> {}, ok |-> FALSE])
             /\ salvage' = [table |-> n, copy |-> nextNumber, has |-> tableFiles[n].has]
             /\ stage' = "copy" /\ lost' = lost
    <3>1. /\ DOMAIN tableFiles' = (DOMAIN tableFiles \ {n}) \cup {nextNumber}
          /\ tableFiles'[nextNumber] = [has |-> {}, ok |-> FALSE]
          /\ \A m \in DOMAIN tableFiles : m # n /\ m # nextNumber => tableFiles'[m] = tableFiles[m]
      <4> DEFINE rest == Dir!Without(tableFiles, {n})
      <4>1. /\ DOMAIN rest = DOMAIN tableFiles \ {n}
            /\ \A m \in DOMAIN tableFiles \ {n} : rest[m] = tableFiles[m]
        BY DEF Dir!Without
      <4>2. tableFiles' = Dir!With(rest, nextNumber, [has |-> {}, ok |-> FALSE])
        BY <2>2
      <4> HIDE DEF rest
      <4>3. /\ DOMAIN tableFiles' = DOMAIN rest \cup {nextNumber}
            /\ tableFiles'[nextNumber] = [has |-> {}, ok |-> FALSE]
            /\ \A m \in DOMAIN rest : m # nextNumber => tableFiles'[m] = rest[m]
        BY ONLY <4>2 DEF Dir!With
      <4> QED BY ONLY <4>1, <4>3
    <3>2. nextNumber \notin DOMAIN tableFiles /\ n \in Nat /\ 0 < n /\ n < nextNumber /\ nextNumber \in Nat
      BY <1>0, <2>1 DEF CountsOK, Dir!Numbers
    <3>3. \A e : IsThere(e) => IsThere(e)'
      <4> SUFFICES ASSUME NEW e, IsThere(e) PROVE IsThere(e)'
        OBVIOUS
      <4>1. ASSUME NEW m \in DOMAIN tableFiles, e \in tableFiles[m].has PROVE IsThere(e)'
        <5>1. CASE m = n
          BY <2>2, <4>1, <5>1 DEF IsThere
        <5>2. CASE m # n
          BY <3>1, <3>2, <4>1, <5>2 DEF IsThere
        <5> QED BY <5>1, <5>2
      <4> QED BY <2>1, <4>1 DEF IsThere
    <3> QED BY <1>0, <2>1, <2>2, <3>3 DEF ReadableThere
  <2>3. CASE lost' = TRUE
    BY <2>3 DEF ReadableThere
  <2> QED BY <1>7, <2>2, <2>3 DEF Dir!RepairTable
<1>8. CASE Dir!RenameCopy
  <2> DEFINE others == Dir!Without(tableFiles, {salvage.copy})
  <2>1. /\ DOMAIN others = DOMAIN tableFiles \ {salvage.copy}
        /\ \A m \in DOMAIN others : others[m] = tableFiles[m]
    BY DEF Dir!Without
  <2>2. /\ stage = "copy" /\ stage' = "scan" /\ logFiles' = logFiles /\ readable' = readable
    BY <1>8 DEF Dir!RenameCopy
  <2>3. salvage.table \notin DOMAIN tableFiles /\ tableFiles[salvage.copy].has = {}
    BY <1>0, <2>2 DEF ListedOK
  <2> HIDE DEF others
  <2>4. CASE tableFiles' = Dir!With(others, salvage.table, Dir!Whole(salvage.has)) /\ lost' = lost
    <3>1. /\ DOMAIN tableFiles' = DOMAIN others \cup {salvage.table}
          /\ tableFiles'[salvage.table] = Dir!Whole(salvage.has)
          /\ \A m \in DOMAIN others : m # salvage.table => tableFiles'[m] = others[m]
      BY ONLY <2>4 DEF Dir!With
    <3>2. tableFiles'[salvage.table].has = salvage.has
      BY <3>1 DEF Dir!Whole
    <3>3. \A e : IsThere(e) => IsThere(e)'
      <4> SUFFICES ASSUME NEW e, IsThere(e) PROVE IsThere(e)'
        OBVIOUS
      <4>1. ASSUME NEW m \in DOMAIN tableFiles, e \in tableFiles[m].has PROVE IsThere(e)'
        <5>1. m \in DOMAIN others /\ m # salvage.table
          BY <2>1, <2>3, <4>1
        <5> QED BY <2>1, <3>1, <4>1, <5>1 DEF IsThere
      <4>2. CASE e \in salvage.has
        BY <3>1, <3>2, <4>2 DEF IsThere
      <4> QED BY <2>2, <4>1, <4>2 DEF IsThere
    <3> QED BY <1>0, <2>2, <2>4, <3>3 DEF ReadableThere
  <2>5. CASE salvage.has = {} /\ UNCHANGED <<tableFiles, lost>>
    BY <1>0, <2>2, <2>5 DEF ReadableThere, IsThere
  <2>6. CASE lost' = TRUE
    BY <2>6 DEF ReadableThere
  <2> QED BY <1>8, <2>4, <2>5, <2>6 DEF Dir!RenameCopy, others
<1>9. CASE Dir!WriteDescriptor
  BY <1>0, <1>9 DEF ReadableThere, IsThere, Dir!WriteDescriptor
<1>10. CASE Dir!StopRepair
  BY <1>0, <1>10 DEF ReadableThere, IsThere, TablesOK, CountsOK, Dir!RepairAssumption, Dir!StopRepair
<1> QED BY <1>1, <1>2, <1>3, <1>4, <1>5, <1>6, <1>7, <1>8, <1>9, <1>10
       DEF Dir!Next

\* What is proved of the files gives what a repair promises.
LEMMA RepairHold == ASSUME Dir!RepairAssumption, RepairInv PROVE Dir!RepairKeeps
<1>0. CountsOK /\ EntriesOK /\ TablesOK /\ DatabaseOK /\ ListedOK /\ ReadableThere
  BY DEF RepairInv
<1>1. PICK F \in SUBSET RepairEntry : IsFiniteSet(F) /\ TablesIn(tableFiles, F)
  BY <1>0 DEF EntriesOK, Within
<1>2. Dir!TypeOK
  <2>1. \A n \in DOMAIN tableFiles :
            tableFiles[n].has \subseteq [key : RepairKeys, seq : 1..RepairWrites, type : {"value", "deletion"}]
    BY <1>1 DEF TablesIn, RepairEntry
  <2>2. DOMAIN live \subseteq DOMAIN tableFiles \/ stage # "up"
    BY <1>0 DEF DatabaseOK
  <2>3. Dir!Numbers \subseteq 1..(nextNumber - 1)
    BY <1>0 DEF CountsOK
  <2>4. stage \in {"up", "damage", "find", "convert", "scan", "copy", "repaired"}
    BY <1>0 DEF CountsOK, RepairStages
  <2> QED BY <2>1, <2>2, <2>3, <2>4 DEF Dir!TypeOK
<1>3. Dir!DescriptorHolds
  <2> SUFFICES ASSUME stage = "repaired" PROVE
        /\ \A n \in DOMAIN listed :
            /\ n \in DOMAIN tableFiles /\ tableFiles[n].ok
            /\ \A e \in tableFiles[n].has :
                e.key \in listed[n].smallest..listed[n].largest /\ e.seq <= lastSequence
        /\ \A n \in Dir!Numbers : n < nextNumber
    BY DEF Dir!DescriptorHolds, Dir!Repaired
  <2>1. \A n \in Dir!Numbers : n < nextNumber
    BY <1>0 DEF CountsOK
  <2>2. ASSUME NEW n \in DOMAIN listed
        PROVE  /\ n \in DOMAIN tableFiles /\ tableFiles[n].ok
               /\ listed[n] = Dir!MetaData(tableFiles[n].has)
               /\ \A e \in tableFiles[n].has : e.seq <= lastSequence
    BY <1>0 DEF ListedOK
  <2>3. ASSUME NEW n \in DOMAIN listed, NEW e \in tableFiles[n].has
        PROVE  e.key \in listed[n].smallest..listed[n].largest
    <3>1. tableFiles[n].has \subseteq F
      BY <1>1, <2>2 DEF TablesIn
    <3>2. IsFiniteSet(tableFiles[n].has) /\ tableFiles[n].has \in SUBSET RepairEntry
      BY <1>1, <3>1, FS_Subset
    <3> QED BY <2>2, <3>2, KeyRange
  <2> QED BY <2>1, <2>2, <2>3
<1>4. (Damages = 0 \/ Crashes = 0) => Dir!ReadableKept
  <2> SUFFICES ASSUME Damages = 0 \/ Crashes = 0, stage = "repaired", ~lost, NEW e \in readable
               PROVE  \E n \in DOMAIN listed : e \in tableFiles[n].has
    BY DEF Dir!ReadableKept, Dir!Repaired, Dir!Kept, Dir!Has
  <2>1. IsThere(e)
    BY <1>0 DEF ReadableThere
  <2>2. DOMAIN logFiles = {} /\ found = {}
    BY <1>0 DEF ListedOK
  <2>3. PICK n \in DOMAIN tableFiles : e \in tableFiles[n].has
    BY <2>1, <2>2 DEF IsThere
  <2>4. tableFiles[n].has = {} \/ n \in found \/ n \in DOMAIN listed
    BY <1>0 DEF ListedOK
  <2> QED BY <2>2, <2>3, <2>4
<1> QED BY <1>2, <1>3, <1>4 DEF Dir!RepairKeeps

\* A repaired database has what could be read when the repair began, unless a
\* table could not be written or a salvage was stopped; its descriptor lists
\* only tables that are there and can be read, with the right bounds, and its
\* file number and sequence number are beyond all that is left (RepairDB,
\* db/repair.cc).
THEOREM RepairKeepsHolds == ASSUME Dir!RepairAssumption PROVE Dir!Spec => []Dir!RepairKeeps
<1>1. Dir!Init => RepairInv
  BY RepairInit
<1>2. RepairInv /\ [Dir!Next]_Dir!vars => RepairInv'
  BY CountsKept, EntriesKept, TablesKept, DatabaseKept, ListedKept, ThereKept DEF RepairInv
<1>3. RepairInv => Dir!RepairKeeps
  BY RepairHold
<1> QED BY <1>1, <1>2, <1>3, PTL DEF Dir!Spec
=============================================================================
