----------------------------- MODULE TableProofs -----------------------------
(***************************************************************************)
(* What Where keeps of a table, for tables of any length.                  *)
(***************************************************************************)
EXTENDS Tables, Sequences, FiniteSetTheorems, SequenceTheorems, TLAPS

\* A set of natural numbers has a least element.
LEMMA LeastOfNats ==
  ASSUME NEW T, T \subseteq Nat, T # {}
  PROVE  \E x \in T : \A y \in T : x <= y
<1>1. \E x \in T : \A y \in T : <<y, x>> \notin OpToRel(<, Nat)
  BY NatLessThanWellFounded, WFMin
<1>2. PICK x \in T : \A y \in T : <<y, x>> \notin OpToRel(<, Nat)
  BY <1>1
<1>3. ASSUME NEW y \in T PROVE x <= y
  <2>1. x \in Nat /\ y \in Nat
    OBVIOUS
  <2>2. <<y, x>> \notin OpToRel(<, Nat)
    BY <1>2
  <2>3. ~(y < x)
    BY <2>1, <2>2 DEF OpToRel
  <2> QED
    BY <2>1, <2>3
<1> QED
  BY <1>3

\* The positions of a table, and any of them, can be counted.
LEMMA PositionsFinite ==
  ASSUME NEW S, NEW q \in Seq(S), NEW K, K \subseteq DOMAIN q
  PROVE  IsFiniteSet(K) /\ Cardinality(K) \in Nat
<1>1. DOMAIN q = 1..Len(q) /\ Len(q) \in Nat
  OBVIOUS
<1>2. IsFiniteSet(1..Len(q))
  BY <1>1, FS_Interval
<1>3. IsFiniteSet(K)
  BY <1>1, <1>2, FS_Subset
<1> QED
  BY <1>3, FS_CardinalityType

\* Rank numbers the positions K from 1 on, in their order.
LEMMA RankBijective ==
  ASSUME NEW S, NEW q \in Seq(S), NEW K, K \subseteq DOMAIN q
  PROVE  /\ \A k \in K : Rank(K, k) \in 1..Cardinality(K)
         /\ \A k, m \in K : k < m => Rank(K, k) < Rank(K, m)
         /\ \A i \in 1..Cardinality(K) : \E k \in K : Rank(K, k) = i
<1> DEFINE Upto(k) == {m \in K : m <= k}
           rank == [k \in K |-> Rank(K, k)]
           n == Cardinality(K)
<1>1. K \subseteq Nat /\ IsFiniteSet(K) /\ n \in Nat
  BY PositionsFinite
<1>r. \A k \in K : Rank(K, k) = Cardinality(Upto(k))
  BY DEF Rank
<1>2. \A k \in K : IsFiniteSet(Upto(k)) /\ Cardinality(Upto(k)) \in Nat
  <2> TAKE k \in K
  <2>1. Upto(k) \in SUBSET K
    OBVIOUS
  <2>2. IsFiniteSet(Upto(k))
    BY <2>1, <1>1, FS_Subset
  <2> QED
    BY <2>2, FS_CardinalityType
<1>3. \A k \in K : Rank(K, k) \in 1..n
  <2> TAKE k \in K
  <2>1. Upto(k) \in SUBSET K /\ k \in Upto(k)
    BY <1>1
  <2>2. Cardinality(Upto(k)) <= n
    BY <2>1, <1>1, FS_Subset
  <2>3. Cardinality(Upto(k)) # 0
    BY <2>1, <1>2, FS_EmptySet
  <2> QED
    <3> HIDE DEF Upto, n
    <3> QED
      BY <2>2, <2>3, <1>1, <1>2, <1>r
<1>4. \A k, m \in K : k < m => Rank(K, k) < Rank(K, m)
  <2> SUFFICES ASSUME NEW k \in K, NEW m \in K, k < m PROVE Rank(K, k) < Rank(K, m)
    OBVIOUS
  <2>1. Upto(k) \in SUBSET Upto(m) /\ m \in Upto(m) /\ m \notin Upto(k)
    BY <1>1
  <2>2. Cardinality(Upto(k)) <= Cardinality(Upto(m)) /\ Cardinality(Upto(k)) # Cardinality(Upto(m))
    BY <2>1, <1>2, FS_Subset
  <2> QED
    <3> HIDE DEF Upto
    <3> QED
      BY <2>2, <1>2, <1>r
<1>5. IsFiniteSet(1..n) /\ Cardinality(1..n) = n
  BY <1>1, FS_Interval
<1>6. rank \in Injection(K, 1..n)
  <2>1. rank \in [K -> 1..n]
    BY <1>3
  <2>2. \A k, m \in K : rank[k] = rank[m] => k = m
    BY <1>1, <1>3, <1>4
  <2> QED
    BY <2>1, <2>2 DEF Injection, IsInjective
<1>7. rank \in Surjection(K, 1..n)
  BY <1>5, <1>6, FS_Injection
<1>8. \A i \in 1..n : \E k \in K : rank[k] = i
  BY <1>7 DEF Surjection
<1> QED
  BY <1>3, <1>4, <1>8

\* T holds the rows of q at K, each once, in their order: at[i] is the position
\* that the row i had.
Selects(T, q, K, at) ==
    /\ at \in [DOMAIN T -> K]
    /\ \A i \in DOMAIN T : T[i] = q[at[i]]
    /\ \A i, j \in DOMAIN T : i < j => at[i] < at[j]
    /\ \A k \in K : \E i \in DOMAIN T : at[i] = k

LEMMA WhereKeeps ==
  ASSUME NEW S, NEW q \in Seq(S), NEW K, K \subseteq DOMAIN q
  PROVE  Where(q, K) \in Seq(S) /\ \E at : Selects(Where(q, K), q, K, at)
<1> DEFINE n == Cardinality(K)
           at == [i \in 1..n |-> CHOOSE k \in K : Rank(K, k) = i]
<1>1. K \subseteq Nat /\ n \in Nat
  BY PositionsFinite
<1>r. /\ \A k \in K : Rank(K, k) \in 1..n
      /\ \A k, m \in K : k < m => Rank(K, k) < Rank(K, m)
  BY RankBijective
<1>2. \A i \in 1..n : at[i] \in K /\ Rank(K, at[i]) = i
  BY RankBijective
<1>3. \A i \in 1..n : Where(q, K)[i] = q[at[i]]
  BY DEF Where
<1>4. DOMAIN Where(q, K) = 1..n
  BY DEF Where
<1> HIDE DEF at, n
<1>5. at \in [1..n -> K]
  BY <1>2 DEF at
<1>6. Where(q, K) \in Seq(S)
  <2>1. \A i \in 1..n : Where(q, K)[i] \in S
    BY <1>2, <1>3
  <2>2. Where(q, K) = [i \in 1..n |-> Where(q, K)[i]]
    BY DEF Where, n
  <2> QED
    BY <2>1, <2>2, <1>1, IsASeq
<1>7. \A i, j \in 1..n : i < j => at[i] < at[j]
  <2> SUFFICES ASSUME NEW i \in 1..n, NEW j \in 1..n, i < j PROVE at[i] < at[j]
    OBVIOUS
  <2>1. at[i] \in K /\ at[j] \in K /\ Rank(K, at[i]) = i /\ Rank(K, at[j]) = j
    BY <1>2
  <2>2. at[i] \in Nat /\ at[j] \in Nat /\ i \in Nat /\ j \in Nat
    BY <2>1, <1>1
  <2>3. ~(at[j] < at[i])
    BY <2>1, <2>2, <1>r
  <2> QED
    BY <2>1, <2>2, <2>3
<1>8. \A k \in K : \E i \in 1..n : at[i] = k
  <2> TAKE k \in K
  <2>1. Rank(K, k) \in 1..n
    BY <1>r
  <2>2. at[Rank(K, k)] \in K /\ Rank(K, at[Rank(K, k)]) = Rank(K, k)
    BY <2>1, <1>2
  <2>3. at[Rank(K, k)] = k
    <3>1. at[Rank(K, k)] \in Nat /\ k \in Nat /\ Rank(K, k) \in Nat
      BY <2>1, <2>2, <1>1
    <3>2. ~(at[Rank(K, k)] < k) /\ ~(k < at[Rank(K, k)])
      BY <2>2, <3>1, <1>r
    <3> QED
      BY <3>1, <3>2
  <2> QED
    BY <2>1, <2>3
<1>9. \E f \in [1..n -> K] :
         /\ \A i \in 1..n : Where(q, K)[i] = q[f[i]]
         /\ \A i, j \in 1..n : i < j => f[i] < f[j]
         /\ \A k \in K : \E i \in 1..n : f[i] = k
  BY <1>3, <1>5, <1>7, <1>8
<1> DEFINE D == DOMAIN Where(q, K)
<1>10. 1..n = D
  BY <1>4
<1> HIDE DEF D
<1>11. PICK f \in [D -> K] :
          /\ \A i \in D : Where(q, K)[i] = q[f[i]]
          /\ \A i, j \in D : i < j => f[i] < f[j]
          /\ \A k \in K : \E i \in D : f[i] = k
  BY <1>9, <1>10
<1>12. Selects(Where(q, K), q, K, f)
  BY <1>11 DEF D, Selects
<1> QED
  BY <1>6, <1>12
-------------------------------------------------------------------------------
(* A transaction that deletes rows and adds others *)

\* T is what becomes of the rows q when those at K are kept and adds are added:
\* the row i of T was at the position at[i], or follows the first n.
TableOf(T, q, K, adds, n, at) ==
    /\ at \in [1..n -> K]
    /\ \A i \in 1..n : i \in DOMAIN T /\ T[i] = q[at[i]]
    /\ \A i \in DOMAIN adds : n + i \in DOMAIN T /\ n + i \notin 1..n /\ T[n + i] = adds[i]
    /\ \A x \in DOMAIN T : x \in 1..n \/ \E i \in DOMAIN adds : x = n + i
    /\ \A i, j \in 1..n : at[i] = at[j] => i = j
    /\ \A k \in K : \E i \in 1..n : at[i] = k

LEMMA RowsOfTable ==
  ASSUME NEW S, NEW q \in Seq(S), NEW K, K \subseteq DOMAIN q, NEW adds \in Seq(S)
  PROVE  /\ Where(q, K) \o adds \in Seq(S)
         /\ \E n \in Nat : \E at : TableOf(Where(q, K) \o adds, q, K, adds, n, at)
<1> DEFINE kept == Where(q, K)
           T == kept \o adds
<1>1. kept \in Seq(S) /\ \E at : Selects(kept, q, K, at)
  BY WhereKeeps
<1> HIDE DEF kept
<1>2. PICK at : Selects(kept, q, K, at)
  BY <1>1
<1>3. Len(kept) \in Nat /\ DOMAIN kept = 1..Len(kept)
  BY <1>1
<1>4. Len(adds) \in Nat /\ DOMAIN adds = 1..Len(adds)
  OBVIOUS
<1>5. T \in Seq(S) /\ DOMAIN T = 1..(Len(kept) + Len(adds))
  <2>1. T \in Seq(S) /\ Len(T) = Len(kept) + Len(adds)
    BY <1>1
  <2>2. DOMAIN T = 1..Len(T)
    BY <2>1
  <2> QED
    BY <2>1, <2>2
<1>6. \A i \in 1..Len(kept) : T[i] = kept[i]
  BY <1>1, <1>3, <1>4
<1>7. \A i \in 1..Len(adds) : T[Len(kept) + i] = adds[i]
  BY <1>1, <1>3, <1>4
<1> HIDE DEF T
<1>8. \A i \in 1..Len(kept) : i \in DOMAIN T /\ T[i] = q[at[i]]
  BY <1>2, <1>3, <1>4, <1>5, <1>6 DEF Selects
<1>9. \A i \in DOMAIN adds : Len(kept) + i \in DOMAIN T /\ Len(kept) + i \notin 1..Len(kept)
                             /\ T[Len(kept) + i] = adds[i]
  BY <1>3, <1>4, <1>5, <1>7
<1>10. ASSUME NEW x \in DOMAIN T PROVE x \in 1..Len(kept) \/ \E i \in DOMAIN adds : x = Len(kept) + i
  <2>1. CASE x <= Len(kept)
    BY <2>1, <1>3, <1>5
  <2>2. CASE x > Len(kept)
    <3>1. x - Len(kept) \in DOMAIN adds /\ x = Len(kept) + (x - Len(kept))
      BY <2>2, <1>3, <1>4, <1>5
    <3> QED
      BY <3>1
  <2> QED
    BY <2>1, <2>2, <1>3, <1>5
<1>11. ASSUME NEW i \in 1..Len(kept), NEW j \in 1..Len(kept), at[i] = at[j] PROVE i = j
  <2>1. at[i] \in Nat /\ i \in Nat /\ j \in Nat
    <3>1. K \subseteq Nat
      OBVIOUS
    <3> QED
      BY <3>1, <1>2, <1>3 DEF Selects
  <2>2. ~(at[i] < at[j]) /\ ~(at[j] < at[i])
    BY <2>1, <1>11
  <2>3. ~(i < j) /\ ~(j < i)
    BY <2>2, <1>2, <1>3 DEF Selects
  <2> QED
    BY <2>1, <2>3
<1>12. TableOf(T, q, K, adds, Len(kept), at)
  BY <1>2, <1>3, <1>8, <1>9, <1>10, <1>11 DEF TableOf, Selects
<1> QED
  BY <1>3, <1>5, <1>12 DEF T, kept

\* A transaction that adds none.
LEMMA SelectsTable ==
  ASSUME NEW S, NEW q \in Seq(S), NEW K, K \subseteq DOMAIN q,
         NEW T \in Seq(S), NEW at, Selects(T, q, K, at)
  PROVE  TableOf(T, q, K, <<>>, Len(T), at)
<1>1. DOMAIN T = 1..Len(T) /\ Len(T) \in Nat /\ K \subseteq Nat
  OBVIOUS
<1>2. DOMAIN <<>> = {}
  OBVIOUS
<1>3. ASSUME NEW i \in 1..Len(T), NEW j \in 1..Len(T), at[i] = at[j] PROVE i = j
  <2>1. at[i] \in Nat /\ at[j] \in Nat /\ i \in Nat /\ j \in Nat
    <3>1. at[i] \in K /\ at[j] \in K
      BY <1>1 DEF Selects
    <3> QED
      BY <3>1, <1>1
  <2>2. ~(at[i] < at[j]) /\ ~(at[j] < at[i])
    BY <2>1, <1>3
  <2>3. ~(i < j) /\ ~(j < i)
    BY <2>2, <1>1 DEF Selects
  <2> QED
    BY <2>1, <2>3
<1> QED
  BY <1>1, <1>2, <1>3 DEF TableOf, Selects
-------------------------------------------------------------------------------
(* The row that each transaction has locked: taker is who has locked a row *)

\* A transaction has locked one row, and those of the set B are open.
OneRowEach(q, Workers, B) ==
    /\ \A k, m \in DOMAIN q, g \in Workers : q[k].taker = g /\ q[m].taker = g => k = m
    /\ \A g \in Workers : g \in B <=> \E k \in DOMAIN q : q[k].taker = g

LEMMA LockTaken ==
  ASSUME NEW q, NEW Workers, NEW B, OneRowEach(q, Workers, B),
         NEW k \in DOMAIN q, q[k].taker \notin Workers, NEW g \in Workers, g \notin B,
         NEW T, DOMAIN T = DOMAIN q, T[k].taker = g,
         \A m \in DOMAIN q \ {k} : T[m].taker = q[m].taker
  PROVE  OneRowEach(T, Workers, B \cup {g})
  BY DEF OneRowEach

LEMMA LockReleased ==
  ASSUME NEW q, NEW Workers, NEW B, OneRowEach(q, Workers, B), NEW g \in Workers,
         NEW nobody, nobody \notin Workers, NEW T, DOMAIN T = DOMAIN q,
         \A k \in DOMAIN q : T[k].taker = IF q[k].taker = g THEN nobody ELSE q[k].taker
  PROVE  OneRowEach(T, Workers, B \ {g})
  BY DEF OneRowEach

LEMMA LocksKept ==
  ASSUME NEW q, NEW Workers, NEW B, OneRowEach(q, Workers, B),
         NEW T, DOMAIN q \subseteq DOMAIN T,
         \A k \in DOMAIN q : T[k].taker = q[k].taker,
         \A k \in DOMAIN T \ DOMAIN q : T[k].taker \notin Workers
  PROVE  OneRowEach(T, Workers, B)
  BY DEF OneRowEach

LEMMA LockCommitted ==
  ASSUME NEW q, NEW Workers, NEW B, OneRowEach(q, Workers, B), NEW g \in Workers,
         NEW T, NEW K, K \subseteq DOMAIN q,
         \A k \in DOMAIN q : k \in K <=> q[k].taker # g,
         NEW adds, \A i \in DOMAIN adds : adds[i].taker \notin Workers,
         NEW n \in Nat, NEW at, TableOf(T, q, K, adds, n, at)
  PROVE  OneRowEach(T, Workers, B \ {g})
<1>1. \A x \in DOMAIN T, h \in Workers : T[x].taker = h =>
         x \in 1..n /\ at[x] \in K /\ h # g /\ q[at[x]].taker = h
  BY DEF TableOf
<1>2. ASSUME NEW x \in DOMAIN T, NEW y \in DOMAIN T, NEW h \in Workers,
             T[x].taker = h, T[y].taker = h
      PROVE  x = y
  <2>1. at[x] = at[y]
    BY <1>1, <1>2 DEF OneRowEach
  <2> QED
    BY <1>1, <1>2, <2>1 DEF TableOf
<1>3. ASSUME NEW h \in Workers
      PROVE  h \in B \ {g} <=> \E x \in DOMAIN T : T[x].taker = h
  <2>1. ASSUME h \in B \ {g} PROVE \E x \in DOMAIN T : T[x].taker = h
    <3>1. PICK k \in DOMAIN q : q[k].taker = h
      BY <2>1 DEF OneRowEach
    <3>2. k \in K
      BY <2>1, <3>1
    <3>3. PICK x \in 1..n : at[x] = k
      BY <3>2 DEF TableOf
    <3> QED
      BY <3>1, <3>3 DEF TableOf
  <2>2. ASSUME NEW x \in DOMAIN T, T[x].taker = h PROVE h \in B \ {g}
    BY <1>1, <2>2 DEF OneRowEach
  <2> QED
    BY <2>1, <2>2
<1> QED
  BY <1>2, <1>3 DEF OneRowEach

\* Rows that nobody has locked are deleted, and others added.
LEMMA UnlockedReplaced ==
  ASSUME NEW q, NEW Workers, NEW B, OneRowEach(q, Workers, B),
         NEW T, NEW K, K \subseteq DOMAIN q,
         \A k \in DOMAIN q \ K : q[k].taker \notin Workers,
         NEW adds, \A i \in DOMAIN adds : adds[i].taker \notin Workers,
         NEW n \in Nat, NEW at, TableOf(T, q, K, adds, n, at)
  PROVE  OneRowEach(T, Workers, B)
<1>1. \A x \in DOMAIN T, h \in Workers : T[x].taker = h =>
         x \in 1..n /\ at[x] \in K /\ T[x] = q[at[x]]
  BY DEF TableOf
<1>2. ASSUME NEW x \in DOMAIN T, NEW y \in DOMAIN T, NEW h \in Workers,
             T[x].taker = h, T[y].taker = h
      PROVE  x = y
  <2>1. at[x] = at[y] /\ x \in 1..n /\ y \in 1..n
    BY <1>1, <1>2 DEF OneRowEach
  <2> QED
    BY <2>1 DEF TableOf
<1>3. ASSUME NEW h \in Workers PROVE h \in B <=> \E x \in DOMAIN T : T[x].taker = h
  <2>1. (\E k \in K : q[k].taker = h) <=> h \in B
    BY DEF OneRowEach
  <2>2. (\E k \in K : q[k].taker = h) => \E x \in DOMAIN T : T[x].taker = h
    BY DEF TableOf
  <2>3. (\E x \in DOMAIN T : T[x].taker = h) => \E k \in K : q[k].taker = h
    BY <1>1
  <2> QED
    BY <2>1, <2>2, <2>3
<1> QED
  BY <1>2, <1>3 DEF OneRowEach

LEMMA UnlockedDeleted ==
  ASSUME NEW q, NEW Workers, NEW B, OneRowEach(q, Workers, B),
         NEW T, NEW K, K \subseteq DOMAIN q,
         \A k \in DOMAIN q \ K : q[k].taker \notin Workers,
         NEW n \in Nat, NEW at, TableOf(T, q, K, <<>>, n, at)
  PROVE  OneRowEach(T, Workers, B)
<1>1. DOMAIN <<>> = {}
  OBVIOUS
<1> QED
  BY <1>1, UnlockedReplaced

\* The locks of a transaction, counted.
LEMMA LocksCounted ==
  ASSUME NEW q, NEW Workers, NEW B, OneRowEach(q, Workers, B), NEW g \in Workers
  PROVE  Cardinality({k \in DOMAIN q : q[k].taker = g}) = IF g \in B THEN 1 ELSE 0
<1> DEFINE L == {k \in DOMAIN q : q[k].taker = g}
<1>1. CASE g \in B
  <2>1. PICK k \in DOMAIN q : q[k].taker = g
    BY <1>1 DEF OneRowEach
  <2>2. L = {k}
    BY <2>1 DEF OneRowEach
  <2> QED
    BY <2>2, <1>1, FS_Singleton
<1>2. CASE g \notin B
  <2>1. L = {}
    BY <1>2 DEF OneRowEach
  <2> QED
    BY <2>1, <1>2, FS_EmptySet
<1> QED
  BY <1>1, <1>2

\* GetNextJob: one of the jobs has the highest priority, and is the oldest of those.
LEMMA FirstInLine ==
  ASSUME NEW A, A \subseteq Nat, A # {}, NEW p \in [A -> 0..10]
  PROVE  \E k \in A : \A m \in A \ {k} : p[k] > p[m] \/ (p[k] = p[m] /\ k < m)
<1> DEFINE Top == {k \in A : \A m \in A : p[m] <= p[k]}
<1>1. Top # {}
  <2> DEFINE D == {n \in 0..10 : \E k \in A : p[k] = 10 - n}
  <2>1. D # {}
    <3>1. PICK k \in A : TRUE
      OBVIOUS
    <3>2. 10 - p[k] \in D
      BY <3>1
    <3> QED
      BY <3>2
  <2>2. PICK n \in D : \A m \in D : n <= m
    BY <2>1, LeastOfNats
  <2>3. PICK k \in A : p[k] = 10 - n
    BY <2>2
  <2>4. \A m \in A : p[m] <= p[k]
    <3> TAKE m \in A
    <3>1. 10 - p[m] \in D /\ p[m] \in 0..10
      OBVIOUS
    <3> QED
      BY <2>2, <2>3, <3>1
  <2> QED
    BY <2>3, <2>4
<1>2. PICK k \in Top : \A m \in Top : k <= m
  BY <1>1, LeastOfNats
<1>3. ASSUME NEW m \in A \ {k} PROVE p[k] > p[m] \/ (p[k] = p[m] /\ k < m)
  <2>1. p[m] <= p[k] /\ k \in A
    BY <1>2
  <2>2. p[m] = p[k] => m \in Top
    BY <2>1
  <2>3. k \in Nat /\ m \in Nat /\ p[k] \in Nat /\ p[m] \in Nat
    BY <2>1
  <2> QED
    BY <1>2, <2>1, <2>2, <2>3
<1> QED
  BY <1>2, <1>3
-------------------------------------------------------------------------------
(* What is left when all rows but one are deleted, or all *)

LEMMA WhereOne ==
  ASSUME NEW q, NEW k \in Nat
  PROVE  Where(q, {k}) = <<q[k]>>
<1>1. Cardinality({k}) = 1
  BY FS_Singleton
<1>2. Rank({k}, k) = 1
  <2>1. {m \in {k} : m <= k} = {k}
    OBVIOUS
  <2> QED
    BY <2>1, <1>1 DEF Rank
<1> DEFINE at(i) == CHOOSE m \in {k} : Rank({k}, m) = i
<1>3. at(1) = k
  BY <1>2
<1>4. Where(q, {k}) = [i \in 1..1 |-> q[at(i)]]
  BY <1>1 DEF Where
<1> HIDE DEF at
<1>5. \A i \in 1..1 : q[at(i)] = q[k]
  BY <1>3
<1>6. Where(q, {k}) = [i \in 1..1 |-> q[k]]
  BY <1>4, <1>5
<1> QED
  BY <1>6

LEMMA WhereNone ==
  ASSUME NEW q
  PROVE  Where(q, {}) = <<>>
<1> DEFINE at(i) == q[CHOOSE k \in {} : Rank({}, k) = i]
<1>1. Cardinality({}) = 0 /\ 1..0 = {}
  BY FS_EmptySet
<1>2. Where(q, {}) = [i \in {} |-> at(i)]
  BY <1>1 DEF Where
<1> HIDE DEF at
<1>3. [i \in {} |-> at(i)] = <<>>
  OBVIOUS
<1> QED
  BY <1>2, <1>3
===============================================================================
