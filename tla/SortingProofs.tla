--------------------------- MODULE SortingProofs ---------------------------
(***************************************************************************)
(* What the filters and sorts of Sorting make of a sequence, for the       *)
(* proofs about the modules that use them, and what they rest on: a set of *)
(* numbers has a least and a greatest one, which is the induction these    *)
(* proofs need.  Sequences that are flattened or put in a row have the     *)
(* elements of their parts, and their first and last element in a set are  *)
(* those of a part; this takes the place of an induction over sequences.   *)
(***************************************************************************)
EXTENDS Sorting, SequencesExt, FiniteSetTheorems, SequenceTheorems, TLAPS

\* Every set of numbers that is not empty has a least one.
LEMMA LeastNumber ==
  ASSUME NEW T \in SUBSET Nat, T # {}
  PROVE  \E m \in T : \A k \in T : m <= k
<1> DEFINE R == OpToRel(<, Nat)
<1>1. IsWellFoundedOn(R, Nat)
  BY NatLessThanWellFounded
<1>2. \A x, y \in Nat : <<y, x>> \in R <=> y < x
  BY DEF OpToRel
<1> HIDE DEF R
<1>3. PICK m \in T : \A k \in T : ~(<<k, m>> \in R)
  <2>1. T \subseteq Nat /\ T # {}
    OBVIOUS
  <2>2. \E x \in T : \A y \in T : ~(<<y, x>> \in R)
    BY ONLY <1>1, <2>1, WFMin, ZenonT(20)
  <2> QED
    BY <2>2
<1>4. \A k \in T : k \in Nat /\ m \in Nat
  OBVIOUS
<1>5. \A k \in T : ~(k < m)
  BY <1>2, <1>3, <1>4
<1> QED
  BY <1>4, <1>5

\* Every set of numbers up to some number that is not empty has a greatest one.
LEMMA GreatestNumber ==
  ASSUME NEW n \in Nat, NEW T \in SUBSET (1 .. n), T # {}
  PROVE  \E m \in T : \A k \in T : m >= k
<1> DEFINE B == {b \in Nat : \A k \in T : b >= k}
<1>1. B \in SUBSET Nat /\ B # {}
  <2>1. n \in B
    OBVIOUS
  <2> QED
    BY <2>1
<1>2. PICK m \in B : \A b \in B : m <= b
  <2> HIDE DEF B
  <2> QED
    BY <1>1, LeastNumber
<1>3. m \in Nat /\ \A k \in T : m >= k
  BY <1>2
<1>4. m \in T
  <2> SUFFICES ASSUME m \notin T PROVE FALSE
    OBVIOUS
  <2>1. PICK x \in T : TRUE
    OBVIOUS
  <2>2. m - 1 \in Nat
    BY <1>3, <2>1
  <2>3. \A k \in T : m - 1 >= k
    <3> SUFFICES ASSUME NEW k \in T PROVE m - 1 >= k
      OBVIOUS
    <3>1. k \in Nat /\ k # m /\ m >= k
      BY <1>3
    <3> QED
      BY <1>3, <3>1
  <2>4. m - 1 \in B
    BY <2>2, <2>3
  <2> QED
    BY <1>2, <1>3, <2>4
<1> QED
  BY <1>3, <1>4

-----------------------------------------------------------------------------
(* Filters and sorts.                                                      *)

\* Ranks that differ are all the numbers up to the size of the set.
LEMMA RanksAreAll ==
  ASSUME NEW I, IsFiniteSet(I), NEW r \in [I -> 1 .. Cardinality(I)],
         \A i, j \in I : r[i] = r[j] => i = j
  PROVE  \A k \in 1 .. Cardinality(I) : \E i \in I : r[i] = k
<1> DEFINE n == Cardinality(I)
<1>1. n \in Nat
  BY FS_CardinalityType
<1>2. IsFiniteSet(1 .. n) /\ Cardinality(1 .. n) = n
  BY <1>1, FS_Interval
<1>3. r \in Injection(I, 1 .. n)
  BY DEF Injection, IsInjective
<1>4. r \in Surjection(I, 1 .. n)
  BY <1>2, <1>3, FS_Injection
<1> QED
  BY <1>4 DEF Surjection

\* The rank of an element: as many as come before it, and itself.
LEMMA RankBounds ==
  ASSUME NEW I, IsFiniteSet(I), NEW U \in SUBSET I, NEW i \in U
  PROVE  Cardinality(U) \in 1 .. Cardinality(I)
<1>1. IsFiniteSet(U) /\ Cardinality(U) <= Cardinality(I)
  BY FS_Subset
<1>2. Cardinality(U) # 0
  BY <1>1, FS_EmptySet
<1>3. Cardinality(U) \in Nat /\ Cardinality(I) \in Nat
  BY <1>1, FS_CardinalityType
<1> QED
  BY <1>1, <1>2, <1>3

\* A set that lacks an element of another one that includes it is smaller.
LEMMA SmallerRank ==
  ASSUME NEW V, IsFiniteSet(V), NEW U \in SUBSET V, NEW i \in V, i \notin U
  PROVE  Cardinality(U) < Cardinality(V)
<1>1. IsFiniteSet(U) /\ Cardinality(U) <= Cardinality(V) /\ Cardinality(U) # Cardinality(V)
  BY FS_Subset
<1>2. Cardinality(U) \in Nat /\ Cardinality(V) \in Nat
  BY <1>1, FS_CardinalityType
<1> QED
  BY <1>1, <1>2

\* The numbers of a finite set in ascending order: each is there, once, and none else.
LEMMA AscendingOrder ==
  ASSUME NEW I \in SUBSET Int, IsFiniteSet(I)
  PROVE  /\ Ascending(I) \in [1 .. Cardinality(I) -> I]
         /\ \A i \in I : \E k \in 1 .. Cardinality(I) : Ascending(I)[k] = i
         /\ \A k, l \in 1 .. Cardinality(I) : k < l => Ascending(I)[k] < Ascending(I)[l]
<1> DEFINE n == Cardinality(I)
           upTo(i) == {j \in I : j <= i}
           r == [i \in I |-> Cardinality(upTo(i))]
<1>1. \A i \in I : i \in upTo(i) /\ upTo(i) \in SUBSET I /\ IsFiniteSet(upTo(i))
  BY FS_Subset
<1>2. r \in [I -> 1 .. n]
  BY <1>1, RankBounds
<1>3. ASSUME NEW i \in I, NEW j \in I, i < j PROVE r[i] < r[j]
  <2>1. upTo(i) \in SUBSET upTo(j) /\ j \in upTo(j) /\ j \notin upTo(i)
    <3>1. \A m \in I : m \in Int
      OBVIOUS
    <3>2. \A m \in I : m <= i => m <= j
      BY <1>3, <3>1
    <3>3. j <= j /\ ~(j <= i)
      BY <1>3, <3>1
    <3> QED
      BY <3>2, <3>3
  <2>2. Cardinality(upTo(i)) < Cardinality(upTo(j))
    BY <1>1, <2>1, SmallerRank
  <2> QED
    BY <2>2
<1>4. \A i, j \in I : r[i] = r[j] => i = j
  <2> SUFFICES ASSUME NEW i \in I, NEW j \in I, r[i] = r[j], i # j PROVE FALSE
    OBVIOUS
  <2>1. i < j \/ j < i
    OBVIOUS
  <2>2. r[i] \in Int /\ r[j] \in Int
    BY <1>2
  <2> HIDE DEF r
  <2> QED
    BY <1>3, <2>1, <2>2
<1>5. \A k \in 1 .. n : \E i \in I : r[i] = k
  <2> HIDE DEF r
  <2> QED
    BY <1>2, <1>4, RanksAreAll
<1>6. \A k \in 1 .. n : Ascending(I)[k] = CHOOSE i \in I : r[i] = k
  BY DEF Ascending
<1>7. \A k \in 1 .. n : Ascending(I)[k] \in I /\ r[Ascending(I)[k]] = k
  BY <1>5, <1>6
<1>8. Ascending(I) \in [1 .. n -> I]
  BY <1>7 DEF Ascending
<1> HIDE DEF r
<1>9. \A i \in I : Ascending(I)[r[i]] = i /\ r[i] \in 1 .. n
  BY <1>2, <1>4, <1>7
<1>10. ASSUME NEW k \in 1 .. n, NEW l \in 1 .. n, k < l
       PROVE  Ascending(I)[k] < Ascending(I)[l]
  <2> DEFINE i == Ascending(I)[k]
             j == Ascending(I)[l]
  <2>1. i \in I /\ j \in I /\ r[i] = k /\ r[j] = l
    BY <1>7
  <2>2. i \in Int /\ j \in Int
    BY <2>1
  <2>3. i # j
    BY <1>10, <2>1
  <2>4. ~(j < i)
    <3>1. SUFFICES ASSUME j < i PROVE FALSE
      OBVIOUS
    <3>2. r[j] < r[i]
      BY <1>3, <2>1, <3>1
    <3> QED
      BY <1>10, <2>1, <3>2
  <2> QED
    BY <2>2, <2>3, <2>4
<1> QED
  BY <1>8, <1>9, <1>10

\* a sequence is another one, its indices in the order p
Reorders(p, s, t) ==
  /\ p \in [DOMAIN s -> DOMAIN s]
  /\ t = [k \in DOMAIN s |-> s[p[k]]]
  /\ \A k, l \in DOMAIN s : p[k] = p[l] => k = l
  /\ \A i \in DOMAIN s : \E k \in DOMAIN s : p[k] = i

\* A sort keeps every element, once: it is the sequence taken in another order of its
\* indices.
LEMMA SortRearranges ==
  ASSUME NEW n \in Nat, NEW s, DOMAIN s = 1 .. n, NEW key \in [1 .. n -> Int]
  PROVE  \E p : Reorders(p, s, SortedBy(s, key))
<1> DEFINE I == DOMAIN s
           r == [i \in I |-> Cardinality(UpTo(I, key, i))]
           p == [k \in I |-> CHOOSE i \in I : Cardinality(UpTo(I, key, i)) = k]
<1>0. IsFiniteSet(I) /\ Cardinality(I) = n /\ I \subseteq Int /\ I = 1 .. n
  BY FS_Interval
<1>1. \A i \in I : i \in UpTo(I, key, i) /\ UpTo(I, key, i) \in SUBSET I /\ IsFiniteSet(UpTo(I, key, i))
  BY <1>0, FS_Subset DEF UpTo
<1>2. r \in [I -> 1 .. n]
  BY <1>0, <1>1, RankBounds
<1>3. ASSUME NEW i \in I, NEW j \in I, key[i] < key[j] \/ (key[i] = key[j] /\ i < j)
      PROVE r[i] < r[j]
  <2>0. \A m \in I : key[m] \in Int
    OBVIOUS
  <2>1. UpTo(I, key, i) \in SUBSET UpTo(I, key, j) /\ j \in UpTo(I, key, j) /\ j \notin UpTo(I, key, i)
    BY <1>0, <1>3, <2>0 DEF UpTo
  <2>2. Cardinality(UpTo(I, key, i)) < Cardinality(UpTo(I, key, j))
    BY <1>1, <2>1, SmallerRank
  <2> QED
    BY <2>2
<1>4. \A i, j \in I : r[i] = r[j] => i = j
  <2> SUFFICES ASSUME NEW i \in I, NEW j \in I, r[i] = r[j], i # j PROVE FALSE
    OBVIOUS
  <2>1. key[i] < key[j] \/ (key[i] = key[j] /\ i < j) \/ key[j] < key[i] \/ (key[j] = key[i] /\ j < i)
    BY <1>0
  <2>2. r[i] \in Int /\ r[j] \in Int
    BY <1>2
  <2> HIDE DEF r
  <2> QED
    BY <1>3, <2>1, <2>2
<1>5. \A k \in I : \E i \in I : r[i] = k
  <2>1. r \in [I -> 1 .. Cardinality(I)]
    BY <1>0, <1>2
  <2> HIDE DEF r, I
  <2>2. \A k \in 1 .. Cardinality(I) : \E i \in I : r[i] = k
    BY <1>0, <1>4, <2>1, RanksAreAll
  <2> QED
    BY <1>0, <2>2
<1>6. SortedBy(s, key) = [k \in I |-> s[p[k]]]
  BY DEF SortedBy
<1>7. \A k \in I : p[k] \in I /\ r[p[k]] = k
  BY <1>5
<1> HIDE DEF r
<1>8. p \in [I -> I]
  BY <1>7
<1>9. \A i \in I : p[r[i]] = i /\ r[i] \in I
  <2>1. \A i \in I : r[i] \in I
    BY <1>0, <1>2
  <2> HIDE DEF p
  <2> QED
    BY <1>4, <1>7, <2>1
<1>10. \A k, l \in I : p[k] = p[l] => k = l
  BY <1>7
<1>11. \A i \in I : \E k \in I : p[k] = i
  BY <1>9
<1> HIDE DEF p
<1> QED
  BY <1>6, <1>8, <1>10, <1>11 DEF Reorders

\* The elements of a sequence at some indices: those, in their order.
LEMMA ThoseElements ==
  ASSUME NEW n \in Nat, NEW s, DOMAIN s = 1 .. n, NEW I \in SUBSET (1 .. n)
  PROVE  /\ Cardinality(I) \in Nat
         /\ Ascending(I) \in [1 .. Cardinality(I) -> I]
         /\ DOMAIN Those(s, I) = 1 .. Cardinality(I)
         /\ \A k \in 1 .. Cardinality(I) : Those(s, I)[k] = s[Ascending(I)[k]]
         /\ \A i \in I : \E k \in 1 .. Cardinality(I) : Ascending(I)[k] = i
         /\ \A k, l \in 1 .. Cardinality(I) : k < l => Ascending(I)[k] < Ascending(I)[l]
         /\ \A k, l \in 1 .. Cardinality(I) : Ascending(I)[k] = Ascending(I)[l] => k = l
<1>0. IsFiniteSet(1 .. n)
  BY FS_Interval
<1>1. IsFiniteSet(I) /\ (\A i \in I : i \in Int)
  <2>1. IsFiniteSet(I)
    BY <1>0, FS_Subset
  <2>2. \A i \in I : i \in 1 .. n
    OBVIOUS
  <2>3. \A i \in 1 .. n : i \in Int
    OBVIOUS
  <2> QED
    BY <2>1, <2>2, <2>3
<1>2. Cardinality(I) \in Nat
  BY <1>1, FS_CardinalityType
<1>3. /\ Ascending(I) \in [1 .. Cardinality(I) -> I]
      /\ \A i \in I : \E k \in 1 .. Cardinality(I) : Ascending(I)[k] = i
      /\ \A k, l \in 1 .. Cardinality(I) : k < l => Ascending(I)[k] < Ascending(I)[l]
  <2>1. I \in SUBSET Int
    OBVIOUS
  <2> QED
    BY <1>1, <2>1, AscendingOrder
<1>4. \A k, l \in 1 .. Cardinality(I) : Ascending(I)[k] = Ascending(I)[l] => k = l
  <2> SUFFICES ASSUME NEW k \in 1 .. Cardinality(I), NEW l \in 1 .. Cardinality(I),
                      Ascending(I)[k] = Ascending(I)[l], k # l
               PROVE  FALSE
    OBVIOUS
  <2>1. k < l \/ l < k
    BY <1>2
  <2>2. Ascending(I)[k] \in I /\ Ascending(I)[l] \in I
    BY <1>3
  <2>3. Ascending(I)[k] \in Int /\ Ascending(I)[l] \in Int
    BY <1>1, <2>2
  <2> QED
    BY <1>3, <2>1, <2>3
<1> QED
  BY <1>2, <1>3, <1>4 DEF Those

\* A function on the numbers up to one is a sequence.
LEMMA FunctionIsSeq ==
  ASSUME NEW S, NEW n \in Nat, NEW s \in [1 .. n -> S]
  PROVE  s \in Seq(S) /\ Len(s) = n /\ DOMAIN s = 1 .. n
<1>1. s \in Seq(S)
  BY SeqDef
<1>2. DOMAIN s = 1 .. Len(s) /\ Len(s) \in Nat
  BY <1>1, LenProperties
<1> QED
  BY <1>1, <1>2

\* The elements of a sequence at some indices, as a sequence.
Picked(t, s, I) ==
  \E a \in [DOMAIN t -> I] :
    /\ \A k \in DOMAIN t : t[k] = s[a[k]]
    /\ \A i \in I : \E k \in DOMAIN t : a[k] = i
    /\ \A k, l \in DOMAIN t : a[k] = a[l] => k = l

LEMMA ThosePicked ==
  ASSUME NEW T, NEW s \in Seq(T), NEW I \in SUBSET DOMAIN s
  PROVE  /\ Those(s, I) \in Seq(T) /\ Picked(Those(s, I), s, I)
         /\ Len(Those(s, I)) <= Len(s)
<1> DEFINE n == Len(s)
           t == Those(s, I)
           a == Ascending(I)
<1>1. n \in Nat /\ DOMAIN s = 1 .. n /\ I \in SUBSET (1 .. n)
  BY LenProperties
<1>2. /\ Cardinality(I) \in Nat /\ a \in [1 .. Cardinality(I) -> I]
      /\ DOMAIN t = 1 .. Cardinality(I)
      /\ \A k \in 1 .. Cardinality(I) : t[k] = s[a[k]]
      /\ \A i \in I : \E k \in 1 .. Cardinality(I) : a[k] = i
      /\ \A k, l \in 1 .. Cardinality(I) : a[k] = a[l] => k = l
  BY <1>1, ThoseElements
<1>3. Those(s, I) = [k \in 1 .. Cardinality(I) |-> s[Ascending(I)[k]]]
  BY Zenon DEF Those
<1>4. IsFiniteSet(1 .. n) /\ Cardinality(1 .. n) = n
  <2>1. \A m \in Nat : IsFiniteSet(1 .. m) /\ Cardinality(1 .. m) = m
    BY FS_Interval
  <2> QED
    BY <1>1, <2>1
<1>5. Cardinality(I) <= n
  BY <1>1, <1>4, FS_Subset
<1> HIDE DEF t, a
<1>6. \A k \in 1 .. Cardinality(I) : s[a[k]] \in T
  <2> SUFFICES ASSUME NEW k \in 1 .. Cardinality(I) PROVE s[a[k]] \in T
    OBVIOUS
  <2>1. a[k] \in 1 .. n
    BY <1>1, <1>2
  <2> QED
    BY <2>1, ElementOfSeq
<1>7. t \in [1 .. Cardinality(I) -> T]
  BY <1>3, <1>6 DEF t, a
<1>8. t \in Seq(T) /\ Len(t) = Cardinality(I)
  BY <1>2, <1>7, FunctionIsSeq
<1>9. Picked(t, s, I)
  BY <1>2 DEF Picked
<1> QED
  BY <1>5, <1>8, <1>9 DEF t

-----------------------------------------------------------------------------
(* Sequences.                                                              *)

\* The elements of the sequences stand in t, those of the i-th behind off[i] others.
Laid(t, seqs, off) ==
  /\ \A i \in DOMAIN seqs : \A j \in 1 .. Len(seqs[i]) :
       off[i] + j \in 1 .. Len(t) /\ t[off[i] + j] = seqs[i][j]
  /\ \A k \in 1 .. Len(t) : \E i \in DOMAIN seqs : \E j \in 1 .. Len(seqs[i]) : k = off[i] + j
  /\ \A i, l \in DOMAIN seqs : i < l => off[i] + Len(seqs[i]) <= off[l]

\* what the recursion of FlattenSeq computes
Flattened(seqs) ==
  CHOOSE h : h = [i \in 1 .. Len(seqs) |-> IF i = 1 THEN seqs[i] ELSE h[i - 1] \o seqs[i]]

\* Which is a function.
LEMMA FlattenedExists ==
  ASSUME NEW S, NEW n \in Nat, NEW seqs \in [1 .. n -> Seq(S)]
  PROVE  /\ Flattened(seqs) \in [1 .. n -> Seq(S)]
         /\ \A i \in 1 .. n :
              Flattened(seqs)[i] = IF i = 1 THEN seqs[i] ELSE Flattened(seqs)[i - 1] \o seqs[i]
<1> DEFINE Joins(f, m) == \A i \in 1 .. m : f[i] = IF i = 1 THEN seqs[i] ELSE f[i - 1] \o seqs[i]
           Q(m) == \E f \in [1 .. m -> Seq(S)] : Joins(f, m)
           T == {m \in 0 .. n : ~Q(m)}
<1>0. Len(seqs) = n
  BY FunctionIsSeq
<1>1. Q(n)
  <2> HIDE DEF Q
  <2> SUFFICES ASSUME n \in T PROVE FALSE
    OBVIOUS
  <2>1. PICK m \in T : \A k \in T : m <= k
    <3>1. T \in SUBSET Nat /\ T # {}
      OBVIOUS
    <3> HIDE DEF T
    <3> QED
      BY <3>1, LeastNumber
  <2>2. m # 0
    <3>1. [i \in 1 .. 0 |-> <<>>] \in [1 .. 0 -> Seq(S)] /\ Joins([i \in 1 .. 0 |-> <<>>], 0)
      OBVIOUS
    <3>2. Q(0)
      BY <3>1 DEF Q
    <3> QED
      BY <2>1, <3>2
  <2>3. m - 1 \in 0 .. n /\ m \in 1 .. n /\ m - 1 \notin T
    BY <2>1, <2>2
  <2>4. PICK f \in [1 .. (m - 1) -> Seq(S)] : Joins(f, m - 1)
    BY <2>3 DEF Q
  <2> DEFINE g == [i \in 1 .. m |-> IF i # m THEN f[i]
                                    ELSE IF i = 1 THEN seqs[i] ELSE f[m - 1] \o seqs[m]]
  <2>5. \A i \in 1 .. m : g[i] \in Seq(S)
    <3> SUFFICES ASSUME NEW i \in 1 .. m PROVE g[i] \in Seq(S)
      OBVIOUS
    <3>1. CASE i # m
      <4>1. i \in 1 .. (m - 1)
        BY <2>3, <3>1
      <4>2. f[i] \in Seq(S)
        BY <2>4, <4>1
      <4>3. g[i] = f[i]
        BY <3>1
      <4> QED
        BY <4>2, <4>3
    <3>2. CASE i = m /\ i = 1
      <4>1. g[i] = seqs[i]
        BY <3>2
      <4>2. seqs[i] \in Seq(S)
        BY <2>3
      <4> QED
        BY <4>1, <4>2
    <3>3. CASE i = m /\ i # 1
      <4>1. m - 1 \in 1 .. (m - 1)
        BY <2>3, <3>3
      <4>2. f[m - 1] \in Seq(S) /\ seqs[m] \in Seq(S)
        BY <2>3, <2>4, <4>1
      <4>3. g[i] = f[m - 1] \o seqs[m]
        BY <3>3
      <4> HIDE DEF g
      <4> QED
        BY <4>2, <4>3, ConcatProperties
    <3> QED
      BY <3>1, <3>2, <3>3
  <2>6. g \in [1 .. m -> Seq(S)]
    BY <2>5
  <2>7. Joins(g, m)
    <3>2. SUFFICES ASSUME NEW i \in 1 .. m
                   PROVE  g[i] = IF i = 1 THEN seqs[i] ELSE g[i - 1] \o seqs[i]
      OBVIOUS
    <3>3. CASE i # m
      <4>1. i \in 1 .. (m - 1)
        BY <2>3, <3>3
      <4>2. f[i] = IF i = 1 THEN seqs[i] ELSE f[i - 1] \o seqs[i]
        BY <2>4, <4>1
      <4>3. g[i] = f[i]
        BY <3>3
      <4>4. i # 1 => g[i - 1] = f[i - 1]
        <5>1. i # 1 => i - 1 \in 1 .. m /\ i - 1 # m
          BY <2>3, <4>1
        <5> QED
          BY <5>1
      <4> HIDE DEF g
      <4> QED
        BY <4>2, <4>3, <4>4
    <3>4. CASE i = m
      <4>1. i = 1 => g[i] = seqs[i]
        BY <3>4
      <4>2. i # 1 => g[i] = f[m - 1] \o seqs[m]
        BY <3>4
      <4>3. i # 1 => g[i - 1] = f[m - 1]
        <5>1. i # 1 => i - 1 \in 1 .. m /\ i - 1 # m
          BY <2>3, <3>4
        <5> QED
          BY <3>4, <5>1
      <4> HIDE DEF g
      <4> QED
        BY <3>4, <4>1, <4>2, <4>3
    <3> QED
      BY <3>3, <3>4
  <2> HIDE DEF g, Joins
  <2>8. Q(m)
    BY <2>6, <2>7 DEF Q
  <2> QED
    BY <2>1, <2>8
<1>2. PICK f \in [1 .. n -> Seq(S)] : Joins(f, n)
  BY <1>1 DEF Q
<1>3. f = [i \in 1 .. n |-> IF i = 1 THEN seqs[i] ELSE f[i - 1] \o seqs[i]]
  BY <1>2
<1>4. \E h : h = [i \in 1 .. n |-> IF i = 1 THEN seqs[i] ELSE h[i - 1] \o seqs[i]]
  BY <1>3
<1>5. Flattened(seqs) = CHOOSE h : h = [i \in 1 .. n |-> IF i = 1 THEN seqs[i] ELSE h[i - 1] \o seqs[i]]
  BY <1>0, Zenon DEF Flattened
<1> DEFINE t == Flattened(seqs)
<1>6. t = [i \in 1 .. n |-> IF i = 1 THEN seqs[i] ELSE t[i - 1] \o seqs[i]]
  BY <1>4, <1>5, Zenon
<1> HIDE DEF t
<1>7. \A i \in 1 .. n : t[i] = IF i = 1 THEN seqs[i] ELSE t[i - 1] \o seqs[i]
  BY <1>6
<1> DEFINE B == {i \in 1 .. n : t[i] \notin Seq(S)}
<1>8. B = {}
  <2> SUFFICES ASSUME B # {} PROVE FALSE
    OBVIOUS
  <2>1. PICK m \in B : \A k \in B : m <= k
    <3>1. B \in SUBSET Nat
      OBVIOUS
    <3> HIDE DEF B
    <3> QED
      BY <3>1, LeastNumber
  <2>2. m \in 1 .. n /\ t[m] \notin Seq(S) /\ seqs[m] \in Seq(S)
    OBVIOUS
  <2>3. m # 1
    BY <1>7, <2>2
  <2>4. m - 1 \in 1 .. n /\ m - 1 \notin B
    BY <2>1, <2>2, <2>3
  <2>5. t[m - 1] \in Seq(S) /\ t[m] = t[m - 1] \o seqs[m]
    BY <1>7, <2>2, <2>3, <2>4
  <2> QED
    BY <2>2, <2>5, ConcatProperties
<1>9. t \in [1 .. n -> Seq(S)]
  BY <1>6, <1>8
<1> QED
  BY <1>7, <1>9 DEF t

\* The elements of two sequences in a row.
LEMMA ConcatLaid ==
  ASSUME NEW S, NEW a \in Seq(S), NEW b \in Seq(S)
  PROVE  /\ a \o b \in Seq(S) /\ Len(a \o b) = Len(a) + Len(b)
         /\ Len(a) \in Nat /\ Len(b) \in Nat
         /\ \A k \in 1 .. Len(a) : k \in 1 .. Len(a \o b) /\ (a \o b)[k] = a[k]
         /\ \A k \in 1 .. Len(b) : Len(a) + k \in 1 .. Len(a \o b) /\ (a \o b)[Len(a) + k] = b[k]
<1>1. Len(a) \in Nat /\ Len(b) \in Nat
  BY LenProperties
<1>2. /\ a \o b \in Seq(S) /\ Len(a \o b) = Len(a) + Len(b)
      /\ \A i \in 1 .. Len(a) + Len(b) :
           (a \o b)[i] = IF i <= Len(a) THEN a[i] ELSE b[i - Len(a)]
  BY ConcatProperties
<1>3. \A k \in 1 .. Len(a) : k \in 1 .. Len(a) + Len(b) /\ k <= Len(a)
  BY <1>1
<1>4. \A k \in 1 .. Len(b) : /\ Len(a) + k \in 1 .. Len(a) + Len(b) /\ ~(Len(a) + k <= Len(a))
                             /\ (Len(a) + k) - Len(a) = k
  BY <1>1
<1> QED
  BY <1>1, <1>2, <1>3, <1>4

\* The elements of flattened sequences, each behind those of the ones before.
LEMMA FlattenLaid ==
  ASSUME NEW S, NEW n \in Nat, NEW seqs \in [1 .. n -> Seq(S)]
  PROVE  /\ FlattenSeq(seqs) \in Seq(S)
         /\ \E off \in [1 .. n -> Nat] : Laid(FlattenSeq(seqs), seqs, off)
<1> DEFINE F == Flattened(seqs)
           off == [i \in 1 .. n |-> IF i = 1 THEN 0 ELSE Len(F[i - 1])]
           Fits(m) ==
             /\ \A i \in 1 .. m : \A j \in 1 .. Len(seqs[i]) :
                  off[i] + j \in 1 .. Len(F[m]) /\ F[m][off[i] + j] = seqs[i][j]
             /\ \A k \in 1 .. Len(F[m]) : \E i \in 1 .. m : \E j \in 1 .. Len(seqs[i]) : k = off[i] + j
             /\ \A i \in 1 .. m : off[i] + Len(seqs[i]) <= Len(F[m])
<1>0. Len(seqs) = n /\ DOMAIN seqs = 1 .. n
  BY FunctionIsSeq
<1>1. FlattenSeq(seqs) = IF n = 0 THEN seqs ELSE F[n]
  <2>1. FlattenSeq(seqs) = IF Len(seqs) = 0 THEN seqs ELSE F[Len(seqs)]
    BY Zenon DEF FlattenSeq, Flattened
  <2> HIDE DEF F
  <2> QED
    BY <1>0, <2>1
<1>2. /\ F \in [1 .. n -> Seq(S)]
      /\ \A i \in 1 .. n : F[i] = IF i = 1 THEN seqs[i] ELSE F[i - 1] \o seqs[i]
  BY FlattenedExists
<1> HIDE DEF F
<1>3. \A i \in 1 .. n : /\ F[i] \in Seq(S) /\ seqs[i] \in Seq(S)
                        /\ Len(F[i]) \in Nat /\ Len(seqs[i]) \in Nat
  BY <1>2, LenProperties
<1>4. \A i \in 1 .. n : off[i] \in Nat /\ (i = 1 => off[i] = 0)
                        /\ (i # 1 => i - 1 \in 1 .. n /\ off[i] = Len(F[i - 1]))
  <2> SUFFICES ASSUME NEW i \in 1 .. n
               PROVE  off[i] \in Nat /\ (i = 1 => off[i] = 0)
                        /\ (i # 1 => i - 1 \in 1 .. n /\ off[i] = Len(F[i - 1]))
    OBVIOUS
  <2>1. i # 1 => i - 1 \in 1 .. n
    OBVIOUS
  <2>2. i # 1 => Len(F[i - 1]) \in Nat
    BY <1>3, <2>1
  <2> QED
    BY <2>1, <2>2
<1>5. off \in [1 .. n -> Nat]
  BY <1>4
<1> HIDE DEF off
<1>6. \A i \in 1 .. n : Len(F[i]) = off[i] + Len(seqs[i])
  <2> SUFFICES ASSUME NEW i \in 1 .. n PROVE Len(F[i]) = off[i] + Len(seqs[i])
    OBVIOUS
  <2>1. CASE i = 1
    BY <1>2, <1>3, <1>4, <2>1
  <2>2. CASE i # 1
    <3>1. i - 1 \in 1 .. n /\ off[i] = Len(F[i - 1]) /\ F[i] = F[i - 1] \o seqs[i]
      BY <1>2, <1>4, <2>2
    <3>2. F[i - 1] \in Seq(S) /\ seqs[i] \in Seq(S)
      BY <1>3, <3>1
    <3> QED
      BY <3>1, <3>2, ConcatLaid
  <2> QED
    BY <2>1, <2>2
<1>7. \A m \in 1 .. n : Fits(m)
  <2> DEFINE T == {m \in 1 .. n : ~Fits(m)}
  <2> HIDE DEF Fits
  <2> SUFFICES ASSUME T # {} PROVE FALSE
    OBVIOUS
  <2>1. PICK m \in T : \A k \in T : m <= k
    <3>1. T \in SUBSET Nat
      OBVIOUS
    <3> HIDE DEF T
    <3> QED
      BY <3>1, LeastNumber
  <2>2. m \in 1 .. n /\ ~Fits(m)
    OBVIOUS
  <2>3. CASE m = 1
    <3>1. F[m] = seqs[1] /\ off[1] = 0 /\ 1 \in 1 .. n
      BY <1>2, <1>4, <2>2, <2>3
    <3>2. Len(seqs[1]) \in Nat /\ \A j \in 1 .. Len(seqs[1]) : 0 + j = j
      BY <1>3, <3>1
    <3>3. \A i \in 1 .. 1 : i = 1
      OBVIOUS
    <3>4. 1 \in 1 .. 1
      OBVIOUS
    <3>5. Fits(1)
      BY <2>3, <3>1, <3>2, <3>3, <3>4 DEF Fits
    <3> QED
      BY <2>2, <2>3, <3>5
  <2>4. CASE m # 1
    <3> DEFINE l == m - 1
    <3>1. l \in 1 .. n /\ l \notin T
      BY <2>1, <2>2, <2>4
    <3>2. Fits(l)
      BY <3>1
    <3>3. F[m] = F[l] \o seqs[m] /\ off[m] = Len(F[l])
      BY <1>2, <1>4, <2>2, <2>4
    <3>4. F[l] \in Seq(S) /\ seqs[m] \in Seq(S)
      BY <1>3, <2>2, <3>1
    <3>5. /\ Len(F[m]) = Len(F[l]) + Len(seqs[m]) /\ Len(F[l]) \in Nat /\ Len(seqs[m]) \in Nat
          /\ \A k \in 1 .. Len(F[l]) : k \in 1 .. Len(F[m]) /\ F[m][k] = F[l][k]
          /\ \A k \in 1 .. Len(seqs[m]) : off[m] + k \in 1 .. Len(F[m]) /\ F[m][off[m] + k] = seqs[m][k]
      BY <3>3, <3>4, ConcatLaid
    <3>6. \A i \in 1 .. m : i = m \/ i \in 1 .. l
      BY <2>2
    <3>7. l < m /\ \A i \in 1 .. l : i \in 1 .. m /\ i \in 1 .. n
      BY <2>2, <3>1
    <3> HIDE DEF l
    <3>8. \A i \in 1 .. m : \A j \in 1 .. Len(seqs[i]) :
            off[i] + j \in 1 .. Len(F[m]) /\ F[m][off[i] + j] = seqs[i][j]
      BY <3>2, <3>5, <3>6 DEF Fits
    <3>9. \A k \in 1 .. Len(F[m]) : \E i \in 1 .. m : \E j \in 1 .. Len(seqs[i]) : k = off[i] + j
      <4> SUFFICES ASSUME NEW k \in 1 .. Len(F[m])
                   PROVE  \E i \in 1 .. m : \E j \in 1 .. Len(seqs[i]) : k = off[i] + j
        OBVIOUS
      <4>1. CASE k \in 1 .. Len(F[l])
        <5>1. PICK i \in 1 .. l : \E j \in 1 .. Len(seqs[i]) : k = off[i] + j
          BY <3>2, <4>1 DEF Fits
        <5> QED
          BY <3>7, <5>1
      <4>2. CASE k \notin 1 .. Len(F[l])
        <5>1. k - off[m] \in 1 .. Len(seqs[m]) /\ k = off[m] + (k - off[m])
          BY <3>3, <3>5, <4>2
        <5>2. m \in 1 .. m
          BY <2>2
        <5> QED
          BY <5>1, <5>2
      <4> QED
        BY <4>1, <4>2
    <3>10. \A i \in 1 .. m : off[i] + Len(seqs[i]) <= Len(F[m])
      <4>1. off[m] + Len(seqs[m]) <= Len(F[m])
        BY <3>3, <3>5
      <4>2. ASSUME NEW i \in 1 .. l PROVE off[i] + Len(seqs[i]) <= Len(F[m])
        <5>1. off[i] + Len(seqs[i]) <= Len(F[l])
          BY <3>2 DEF Fits
        <5>2. off[i] \in Nat /\ Len(seqs[i]) \in Nat
          BY <1>3, <1>4, <3>7
        <5> QED
          BY <3>5, <5>1, <5>2
      <4> QED
        BY <3>6, <4>1, <4>2
    <3>11. Fits(m)
      BY <3>8, <3>9, <3>10 DEF Fits
    <3> QED
      BY <2>2, <3>11
  <2> QED
    BY <2>3, <2>4
<1>8. CASE n = 0
  <2>1. seqs = <<>> /\ FlattenSeq(seqs) = <<>>
    BY <1>0, <1>1, <1>8
  <2>2. DOMAIN seqs = {} /\ 1 .. Len(FlattenSeq(seqs)) = {}
    BY <1>0, <1>8, <2>1
  <2>3. Laid(FlattenSeq(seqs), seqs, off)
    BY <2>2 DEF Laid
  <2>4. FlattenSeq(seqs) \in Seq(S)
    <3>1. <<>> \in Seq(S)
      BY EmptySeq
    <3> QED
      BY <2>1, <3>1, Zenon
  <2>5. \E o \in [1 .. n -> Nat] : Laid(FlattenSeq(seqs), seqs, o)
    BY <1>5, <2>3, Zenon
  <2> QED
    BY <2>4, <2>5
<1>9. CASE n # 0
  <2>1. n \in 1 .. n /\ FlattenSeq(seqs) = F[n]
    BY <1>1, <1>9
  <2>2. FlattenSeq(seqs) \in Seq(S)
    BY <1>3, <2>1
  <2>3. Fits(n)
    BY <1>7, <2>1
  <2>4. \A i, l \in 1 .. n : i < l => off[i] + Len(seqs[i]) <= off[l]
    <3> SUFFICES ASSUME NEW i \in 1 .. n, NEW l \in 1 .. n, i < l
                 PROVE  off[i] + Len(seqs[i]) <= off[l]
      OBVIOUS
    <3>1. l # 1 /\ l - 1 \in 1 .. n /\ i \in 1 .. (l - 1)
      OBVIOUS
    <3>2. Fits(l - 1)
      BY <1>7, <3>1
    <3>3. off[i] + Len(seqs[i]) <= Len(F[l - 1])
      BY <3>1, <3>2
    <3> QED
      BY <1>4, <3>1, <3>3
  <2>5. Laid(FlattenSeq(seqs), seqs, off)
    <3>1. \A i \in DOMAIN seqs : \A j \in 1 .. Len(seqs[i]) :
            /\ off[i] + j \in 1 .. Len(FlattenSeq(seqs))
            /\ FlattenSeq(seqs)[off[i] + j] = seqs[i][j]
      BY <1>0, <2>1, <2>3
    <3>2. \A k \in 1 .. Len(FlattenSeq(seqs)) :
            \E i \in DOMAIN seqs : \E j \in 1 .. Len(seqs[i]) : k = off[i] + j
      BY <1>0, <2>1, <2>3
    <3> QED
      BY <1>0, <2>4, <3>1, <3>2, Zenon DEF Laid
  <2> QED
    BY <1>5, <2>2, <2>5
<1> QED
  BY <1>8, <1>9

\* k is the last index of t with an element of Q
Final(t, k, Q) ==
  /\ k \in 1 .. Len(t) /\ t[k] \in Q
  /\ \A l \in 1 .. Len(t) : l > k => t[l] \notin Q

\* There is a last element in a set, if there is any,
LEMMA FinalExists ==
  ASSUME NEW S, NEW t \in Seq(S), NEW Q, \E k \in 1 .. Len(t) : t[k] \in Q
  PROVE  \E k : Final(t, k, Q)
<1> DEFINE T == {k \in 1 .. Len(t) : t[k] \in Q}
<1>1. T \in SUBSET (1 .. Len(t)) /\ T # {} /\ Len(t) \in Nat
  BY LenProperties
<1>2. PICK m \in T : \A k \in T : m >= k
  <2> HIDE DEF T
  <2> QED
    BY <1>1, GreatestNumber
<1>3. \A l \in 1 .. Len(t) : l > m => t[l] \notin Q
  BY <1>1, <1>2
<1> QED
  BY <1>2, <1>3 DEF Final

\* and only one.
LEMMA FinalUnique ==
  ASSUME NEW S, NEW t \in Seq(S), NEW Q, NEW k, NEW l, Final(t, k, Q), Final(t, l, Q)
  PROVE  k = l
<1>1. k \in Int /\ l \in Int /\ ~(k > l) /\ ~(l > k)
  BY LenProperties DEF Final
<1> QED
  BY <1>1

\* The elements of flattened sequences are those of the sequences.
LEMMA FlattenElements ==
  ASSUME NEW S, NEW n \in Nat, NEW seqs \in [1 .. n -> Seq(S)]
  PROVE  /\ FlattenSeq(seqs) \in Seq(S)
         /\ \A x : x \in ToSet(FlattenSeq(seqs)) <=> \E i \in 1 .. n : x \in ToSet(seqs[i])
<1> DEFINE t == FlattenSeq(seqs)
<1>1. t \in Seq(S) /\ \E off \in [1 .. n -> Nat] : Laid(t, seqs, off)
  BY FlattenLaid
<1> HIDE DEF t
<1>2. PICK off \in [1 .. n -> Nat] : Laid(t, seqs, off)
  BY <1>1
<1>3. DOMAIN t = 1 .. Len(t) /\ DOMAIN seqs = 1 .. n
      /\ \A i \in 1 .. n : DOMAIN seqs[i] = 1 .. Len(seqs[i])
  BY <1>1, LenProperties
<1>4. ASSUME NEW k \in 1 .. Len(t) PROVE \E i \in 1 .. n : t[k] \in ToSet(seqs[i])
  <2>1. PICK i \in 1 .. n : \E j \in 1 .. Len(seqs[i]) : k = off[i] + j
    BY <1>2, <1>3, <1>4 DEF Laid
  <2>2. PICK j \in 1 .. Len(seqs[i]) : k = off[i] + j
    BY <2>1
  <2>3. t[k] = seqs[i][j]
    BY <1>2, <1>3, <2>2 DEF Laid
  <2> QED
    BY <1>3, <2>3 DEF ToSet
<1>5. ASSUME NEW i \in 1 .. n, NEW j \in 1 .. Len(seqs[i]) PROVE seqs[i][j] \in ToSet(t)
  <2>1. off[i] + j \in 1 .. Len(t) /\ t[off[i] + j] = seqs[i][j]
    BY <1>2, <1>3 DEF Laid
  <2> QED
    BY <1>3, <2>1 DEF ToSet
<1>6. \A x : x \in ToSet(t) <=> \E i \in 1 .. n : x \in ToSet(seqs[i])
  <2>1. ASSUME NEW x \in ToSet(t) PROVE \E i \in 1 .. n : x \in ToSet(seqs[i])
    BY <1>3, <1>4 DEF ToSet
  <2>2. ASSUME NEW i \in 1 .. n, NEW x \in ToSet(seqs[i]) PROVE x \in ToSet(t)
    <3>1. PICK j \in 1 .. Len(seqs[i]) : x = seqs[i][j]
      BY <1>3 DEF ToSet
    <3> QED
      BY <1>5, <3>1
  <2> QED
    BY <2>1, <2>2
<1> QED
  BY <1>1, <1>6 DEF t

\* two elements are the same
SameAt(s, i, t, j) == s[i] = t[j]

\* element k of t is the last one of Q in the i-th sequence, and no later one has any
FinalOf(t, k, seqs, i, Q) ==
  /\ \E j : Final(seqs[i], j, Q) /\ SameAt(t, k, seqs[i], j)
  /\ \A l \in DOMAIN seqs : l > i => ToSet(seqs[l]) \intersect Q = {}

\* The last element of a set in flattened sequences is the last one in one of them,
\* and the sequences after that one have none.
LEMMA FlattenFinal ==
  ASSUME NEW S, NEW n \in Nat, NEW seqs \in [1 .. n -> Seq(S)], NEW k, NEW Q,
         Final(FlattenSeq(seqs), k, Q)
  PROVE  \E i \in 1 .. n : FinalOf(FlattenSeq(seqs), k, seqs, i, Q)
<1> DEFINE t == FlattenSeq(seqs)
<1>1. t \in Seq(S) /\ \E off \in [1 .. n -> Nat] : Laid(t, seqs, off)
  BY FlattenLaid
<1> HIDE DEF t
<1>2. PICK off \in [1 .. n -> Nat] : Laid(t, seqs, off)
  BY <1>1
<1>3. DOMAIN seqs = 1 .. n
      /\ \A i \in 1 .. n : DOMAIN seqs[i] = 1 .. Len(seqs[i]) /\ Len(seqs[i]) \in Nat
  BY LenProperties
<1>4. k \in 1 .. Len(t) /\ t[k] \in Q /\ \A l \in 1 .. Len(t) : l > k => t[l] \notin Q
  BY DEF Final, t
<1>5. PICK i \in 1 .. n : \E j \in 1 .. Len(seqs[i]) : k = off[i] + j
  BY <1>2, <1>3, <1>4 DEF Laid
<1>6. PICK j \in 1 .. Len(seqs[i]) : k = off[i] + j
  BY <1>5
<1>7. t[k] = seqs[i][j]
  BY <1>2, <1>3, <1>6 DEF Laid
<1>8. ASSUME NEW l \in 1 .. Len(seqs[i]), l > j PROVE seqs[i][l] \notin Q
  <2>1. off[i] + l \in 1 .. Len(t) /\ t[off[i] + l] = seqs[i][l]
    BY <1>2, <1>3 DEF Laid
  <2>2. off[i] + l > k
    BY <1>6, <1>8
  <2> QED
    BY <1>4, <2>1, <2>2
<1>9. ASSUME NEW l \in 1 .. n, l > i PROVE ToSet(seqs[l]) \intersect Q = {}
  <2>1. ASSUME NEW m \in 1 .. Len(seqs[l]) PROVE seqs[l][m] \notin Q
    <3>1. off[l] + m \in 1 .. Len(t) /\ t[off[l] + m] = seqs[l][m]
      BY <1>2, <1>3 DEF Laid
    <3>2. off[i] + Len(seqs[i]) <= off[l]
      BY <1>2, <1>3, <1>9 DEF Laid
    <3>3. off[l] \in Nat /\ off[i] \in Nat /\ Len(seqs[i]) \in Nat /\ m \in Nat /\ m > 0
      BY <1>3
    <3>4. off[l] + m > k
      BY <1>6, <3>2, <3>3
    <3> QED
      BY <1>4, <3>1, <3>4
  <2> QED
    BY <1>3, <2>1 DEF ToSet
<1>10. Final(seqs[i], j, Q)
  BY <1>4, <1>7, <1>8 DEF Final
<1>11. FinalOf(t, k, seqs, i, Q)
  BY <1>3, <1>7, <1>9, <1>10 DEF FinalOf, SameAt
<1> QED
  BY <1>11 DEF t

\* The first element of flattened sequences is the first of one of them, and the
\* sequences before that one are empty.
LEMMA FlattenHead ==
  ASSUME NEW S, NEW n \in Nat, NEW seqs \in [1 .. n -> Seq(S)], Len(FlattenSeq(seqs)) > 0
  PROVE  \E i \in 1 .. n : /\ Len(seqs[i]) > 0 /\ SameAt(FlattenSeq(seqs), 1, seqs[i], 1)
                           /\ \A l \in 1 .. n : l < i => Len(seqs[l]) = 0
<1> DEFINE t == FlattenSeq(seqs)
<1>1. t \in Seq(S) /\ \E off \in [1 .. n -> Nat] : Laid(t, seqs, off)
  BY FlattenLaid
<1>0. Len(t) > 0
  OBVIOUS
<1> HIDE DEF t
<1>2. PICK off \in [1 .. n -> Nat] : Laid(t, seqs, off)
  BY <1>1
<1>3. DOMAIN seqs = 1 .. n
      /\ \A i \in 1 .. n : DOMAIN seqs[i] = 1 .. Len(seqs[i]) /\ Len(seqs[i]) \in Nat
  BY LenProperties
<1>4. 1 \in 1 .. Len(t)
  BY <1>0, <1>1, LenProperties
<1>5. PICK i \in 1 .. n : \E j \in 1 .. Len(seqs[i]) : 1 = off[i] + j
  BY <1>2, <1>3, <1>4 DEF Laid
<1>6. PICK j \in 1 .. Len(seqs[i]) : 1 = off[i] + j
  BY <1>5
<1>7. off[i] \in Nat /\ j \in Nat /\ j >= 1 /\ Len(seqs[i]) \in Nat /\ j <= Len(seqs[i])
  BY <1>3
<1>8. j = 1 /\ off[i] = 0 /\ Len(seqs[i]) > 0
  BY <1>6, <1>7
<1>9. t[1] = seqs[i][1]
  BY <1>2, <1>3, <1>6, <1>8 DEF Laid
<1>10. ASSUME NEW l \in 1 .. n, l < i PROVE Len(seqs[l]) = 0
  <2>1. off[l] + Len(seqs[l]) <= off[i] /\ off[l] \in Nat /\ Len(seqs[l]) \in Nat
    BY <1>2, <1>3, <1>10 DEF Laid
  <2> QED
    BY <1>8, <2>1
<1> QED
  BY <1>8, <1>9, <1>10 DEF t, SameAt

\* The elements of two sequences in a row are those of both.
LEMMA ConcatElements ==
  ASSUME NEW S, NEW a \in Seq(S), NEW b \in Seq(S)
  PROVE  a \o b \in Seq(S) /\ ToSet(a \o b) = ToSet(a) \union ToSet(b)
<1> DEFINE t == a \o b
<1>1. /\ t \in Seq(S) /\ Len(t) = Len(a) + Len(b) /\ Len(a) \in Nat /\ Len(b) \in Nat
      /\ \A k \in 1 .. Len(a) : k \in 1 .. Len(t) /\ t[k] = a[k]
      /\ \A k \in 1 .. Len(b) : Len(a) + k \in 1 .. Len(t) /\ t[Len(a) + k] = b[k]
  BY ConcatLaid
<1> HIDE DEF t
<1>2. DOMAIN t = 1 .. Len(t) /\ DOMAIN a = 1 .. Len(a) /\ DOMAIN b = 1 .. Len(b)
  BY <1>1, LenProperties
<1>3. ASSUME NEW k \in 1 .. Len(t) PROVE t[k] \in ToSet(a) \union ToSet(b)
  <2>1. CASE k \in 1 .. Len(a)
    BY <1>1, <1>2, <2>1 DEF ToSet
  <2>2. CASE k \notin 1 .. Len(a)
    <3>1. k - Len(a) \in 1 .. Len(b) /\ Len(a) + (k - Len(a)) = k
      BY <1>1, <2>2
    <3>2. t[k] = b[k - Len(a)]
      BY <1>1, <3>1
    <3> QED
      BY <1>2, <3>1, <3>2 DEF ToSet
  <2> QED
    BY <2>1, <2>2
<1>4. \A x \in ToSet(a) : x \in ToSet(t)
  BY <1>1, <1>2 DEF ToSet
<1>5. \A x \in ToSet(b) : x \in ToSet(t)
  BY <1>1, <1>2 DEF ToSet
<1>6. \A x \in ToSet(t) : x \in ToSet(a) \union ToSet(b)
  BY <1>2, <1>3 DEF ToSet
<1> QED
  BY <1>1, <1>4, <1>5, <1>6 DEF t

\* The last element of a set in them.
LEMMA ConcatFinal ==
  ASSUME NEW S, NEW a \in Seq(S), NEW b \in Seq(S), NEW k, NEW Q, Final(a \o b, k, Q)
  PROVE  \/ \E j : Final(b, j, Q) /\ SameAt(a \o b, k, b, j)
         \/ Final(a, k, Q) /\ SameAt(a \o b, k, a, k) /\ ToSet(b) \intersect Q = {}
<1> DEFINE t == a \o b
<1>1. /\ t \in Seq(S) /\ Len(t) = Len(a) + Len(b) /\ Len(a) \in Nat /\ Len(b) \in Nat
      /\ \A i \in 1 .. Len(a) : i \in 1 .. Len(t) /\ t[i] = a[i]
      /\ \A i \in 1 .. Len(b) : Len(a) + i \in 1 .. Len(t) /\ t[Len(a) + i] = b[i]
  BY ConcatLaid
<1>2. k \in 1 .. Len(t) /\ t[k] \in Q /\ \A l \in 1 .. Len(t) : l > k => t[l] \notin Q
  BY DEF Final
<1> HIDE DEF t
<1>3. DOMAIN b = 1 .. Len(b)
  BY LenProperties
<1>4. CASE k \in 1 .. Len(a)
  <2>1. t[k] = a[k]
    BY <1>1, <1>4
  <2>2. \A l \in 1 .. Len(a) : l > k => a[l] \notin Q
    BY <1>1, <1>2
  <2>3. \A i \in 1 .. Len(b) : Len(a) + i > k /\ b[i] \notin Q
    <3> SUFFICES ASSUME NEW i \in 1 .. Len(b) PROVE Len(a) + i > k /\ b[i] \notin Q
      OBVIOUS
    <3>1. Len(a) + i > k
      BY <1>1, <1>4
    <3> QED
      BY <1>1, <1>2, <3>1
  <2>4. ToSet(b) \intersect Q = {}
    BY <1>3, <2>3 DEF ToSet
  <2>5. Final(a, k, Q)
    BY <1>2, <1>4, <2>1, <2>2 DEF Final
  <2> QED
    BY <2>1, <2>4, <2>5 DEF t, SameAt
<1>5. CASE k \notin 1 .. Len(a)
  <2> DEFINE j == k - Len(a)
  <2>1. j \in 1 .. Len(b) /\ Len(a) + j = k
    BY <1>1, <1>2, <1>5
  <2>2. t[k] = b[j]
    BY <1>1, <2>1
  <2>3. ASSUME NEW l \in 1 .. Len(b), l > j PROVE b[l] \notin Q
    <3>1. Len(a) + l > k
      BY <1>1, <2>1, <2>3
    <3> QED
      BY <1>1, <1>2, <3>1
  <2> HIDE DEF j
  <2>4. Final(b, j, Q)
    BY <1>2, <2>1, <2>2, <2>3 DEF Final
  <2> QED
    BY <2>2, <2>4 DEF t, SameAt
<1> QED
  BY <1>4, <1>5

\* Their first element.
LEMMA ConcatHead ==
  ASSUME NEW S, NEW a \in Seq(S), NEW b \in Seq(S), Len(a \o b) > 0
  PROVE  \/ Len(a) > 0 /\ (a \o b)[1] = a[1]
         \/ Len(a) = 0 /\ Len(b) > 0 /\ (a \o b)[1] = b[1]
<1>1. /\ Len(a \o b) = Len(a) + Len(b) /\ Len(a) \in Nat /\ Len(b) \in Nat
      /\ \A i \in 1 .. Len(a) : (a \o b)[i] = a[i]
      /\ \A i \in 1 .. Len(b) : (a \o b)[Len(a) + i] = b[i]
  BY ConcatLaid
<1>2. CASE Len(a) = 0
  BY <1>1, <1>2
<1>3. CASE Len(a) # 0
  BY <1>1, <1>3
<1> QED
  BY <1>2, <1>3

\* A finite set as a sequence: each element is there.
LEMMA SetAsSequence ==
  ASSUME NEW A, IsFiniteSet(A)
  PROVE  SetToSeq(A) \in Seq(A) /\ ToSet(SetToSeq(A)) = A
<1> DEFINE n == Cardinality(A)
           s == SetToSeq(A)
<1>1. n \in Nat
  BY FS_CardinalityType
<1>2. \E f \in [1 .. n -> A] : IsInjective(f)
  <2>1. ExistsBijection(1 .. n, A)
    BY FS_CardinalityType
  <2>2. PICK g \in Bijection(1 .. n, A) : TRUE
    BY <2>1 DEF ExistsBijection
  <2> QED
    BY <2>2 DEF Bijection, Injection, IsInjective
<1>3. s \in [1 .. n -> A] /\ IsInjective(s)
  BY <1>2 DEF SetToSeq
<1> HIDE DEF s
<1>4. s \in Seq(A) /\ Len(s) = n /\ DOMAIN s = 1 .. n
  BY <1>1, <1>3, FunctionIsSeq
<1>5. IsFiniteSet(1 .. n) /\ Cardinality(1 .. n) = n
  BY <1>1, FS_Interval
<1>6. s \in Injection(1 .. n, A)
  BY <1>3 DEF Injection, IsInjective
<1>7. s \in Surjection(1 .. n, A)
  BY <1>5, <1>6, FS_Injection
<1>8. ToSet(s) = A
  BY <1>4, <1>7 DEF Surjection, ToSet
<1> QED
  BY <1>4, <1>8 DEF s

\* The last element of all is that of the sequence.
LEMMA FinalOfAll ==
  ASSUME NEW S, NEW s \in Seq(S), NEW Q, NEW j, Final(s, j, Q), ToSet(s) \subseteq Q
  PROVE  j = Len(s)
<1>1. DOMAIN s = 1 .. Len(s) /\ Len(s) \in Nat
  BY LenProperties
<1>2. j \in 1 .. Len(s) /\ Len(s) \in 1 .. Len(s)
  BY <1>1 DEF Final
<1>3. s[Len(s)] \in Q
  BY <1>1, <1>2 DEF ToSet
<1>4. ~(Len(s) > j)
  BY <1>2, <1>3 DEF Final
<1>5. Len(s) \in Nat /\ j \in Nat /\ j <= Len(s) /\ ~(Len(s) > j)
  <2>1. Len(s) \in Nat
    BY <1>1
  <2>2. \A a \in Nat : \A b \in 1 .. a : b \in Nat /\ b <= a
    OBVIOUS
  <2> QED
    BY <1>2, <1>4, <2>1, <2>2, Zenon
<1> QED
  BY <1>5

\* The first element of a sequence is one of its elements.
LEMMA HeadIn ==
  ASSUME NEW S, NEW s \in Seq(S), Len(s) > 0
  PROVE  s[1] \in ToSet(s) /\ s[1] \in S
<1>1. DOMAIN s = 1 .. Len(s) /\ 1 \in 1 .. Len(s)
  BY LenProperties
<1>2. s[1] \in S
  BY <1>1, ElementOfSeq
<1> QED
  BY <1>1, <1>2 DEF ToSet

\* A sequence without elements is empty.
LEMMA EmptyIff ==
  ASSUME NEW S, NEW s \in Seq(S)
  PROVE  ToSet(s) = {} <=> Len(s) = 0
<1>1. DOMAIN s = 1 .. Len(s) /\ Len(s) \in Nat
  BY LenProperties
<1>2. CASE Len(s) = 0
  BY <1>1, <1>2 DEF ToSet
<1>3. CASE Len(s) # 0
  <2>1. 1 \in 1 .. Len(s)
    BY <1>1, <1>3
  <2> QED
    BY <1>1, <1>3, <2>1 DEF ToSet
<1> QED
  BY <1>2, <1>3

\* The elements of a sequence that lie in a set: those, and the last of them is the
\* last element of the sequence in the set.
IndicesIn(s, Q) == {i \in DOMAIN s : s[i] \in Q}

\* t has the elements of s in Q, in their order
AllIn(t, s, Q, S) ==
  /\ t \in Seq(S)
  /\ \A x : x \in ToSet(t) <=> x \in ToSet(s) /\ x \in Q
  /\ Len(t) > 0 => \E m : Final(s, m, Q) /\ SameAt(s, m, t, Len(t))

LEMMA ThoseOf ==
  ASSUME NEW S, NEW s \in Seq(S), NEW Q,
         NEW t, t = Those(s, IndicesIn(s, Q))
  PROVE  AllIn(t, s, Q, S)
<1> DEFINE n == Len(s)
           I == IndicesIn(s, Q)
           c == Cardinality(I)
           a == Ascending(I)
<1>1. n \in Nat /\ DOMAIN s = 1 .. n /\ I \in SUBSET (1 .. n)
  BY LenProperties DEF IndicesIn
<1>0. t = Those(s, I)
  OBVIOUS
<1>2. /\ c \in Nat /\ a \in [1 .. c -> I] /\ DOMAIN Those(s, I) = 1 .. c
      /\ \A k \in 1 .. c : Those(s, I)[k] = s[a[k]]
      /\ \A i \in I : \E k \in 1 .. c : a[k] = i
      /\ \A k, l \in 1 .. c : k < l => a[k] < a[l]
  <2> HIDE DEF I, n
  <2> QED
    BY <1>1, ThoseElements
<1>2a. DOMAIN t = 1 .. c /\ \A k \in 1 .. c : t[k] = s[a[k]]
  BY <1>0, <1>2
<1>3. t = [k \in 1 .. c |-> s[a[k]]]
  BY <1>0, Zenon DEF Those
<1>4. \A i \in I : i \in 1 .. n /\ s[i] \in S /\ s[i] \in Q
  BY <1>1, ElementOfSeq DEF IndicesIn
<1>5. \A i \in 1 .. n : s[i] \in Q => i \in I
  BY <1>1 DEF IndicesIn
<1> HIDE DEF I, c, a
<1>6. \A k \in 1 .. c : a[k] \in I
  BY <1>2
<1>7. \A k \in 1 .. c : s[a[k]] \in S
  BY <1>4, <1>6
<1>8. t \in [1 .. c -> S]
  BY <1>3, <1>7
<1>9. t \in Seq(S) /\ Len(t) = c
  BY <1>2, <1>2a, <1>8, FunctionIsSeq
<1>10. ASSUME NEW x PROVE x \in ToSet(t) <=> x \in ToSet(s) /\ x \in Q
  <2>1. ASSUME x \in ToSet(t) PROVE x \in ToSet(s) /\ x \in Q
    <3>1. PICK k \in 1 .. c : x = t[k]
      BY <1>2, <1>2a, <2>1 DEF ToSet
    <3> QED
      BY <1>1, <1>2, <1>2a, <1>4, <1>6, <3>1 DEF ToSet
  <2>2. ASSUME x \in ToSet(s), x \in Q PROVE x \in ToSet(t)
    <3>1. PICK i \in 1 .. n : x = s[i]
      BY <1>1, <2>2 DEF ToSet
    <3>2. i \in I
      BY <1>5, <2>2, <3>1
    <3>3. PICK k \in 1 .. c : a[k] = i
      BY <1>2, <1>2a, <3>2
    <3> QED
      BY <1>2, <1>2a, <3>1, <3>3 DEF ToSet
  <2> QED
    BY <2>1, <2>2
<1>11. ASSUME Len(t) > 0 PROVE \E m : Final(s, m, Q) /\ SameAt(s, m, t, Len(t))
  <2>1. c \in 1 .. c
    BY <1>2, <1>2a, <1>9, <1>11
  <2>2. a[c] \in 1 .. n /\ s[a[c]] \in Q /\ t[c] = s[a[c]]
    BY <1>2, <1>2a, <1>4, <1>6, <2>1
  <2>3. ASSUME NEW l \in 1 .. n, l > a[c] PROVE s[l] \notin Q
    <3> SUFFICES ASSUME s[l] \in Q PROVE FALSE
      OBVIOUS
    <3>1. PICK k \in 1 .. c : a[k] = l
      BY <1>2, <1>2a, <1>5
    <3>2. k = c \/ k < c
      BY <1>2, <1>2a
    <3>3. k < c => a[k] < a[c]
      BY <1>2, <1>2a, <2>1
    <3>4. a[c] \in Int /\ l \in Int
      BY <2>2
    <3> QED
      BY <2>3, <3>1, <3>2, <3>3, <3>4
  <2>4. Final(s, a[c], Q)
    BY <2>2, <2>3 DEF Final
  <2>5. SameAt(s, a[c], t, Len(t))
    BY <1>9, <2>2 DEF SameAt
  <2> QED
    BY <2>4, <2>5
<1> QED
  BY <1>9, <1>10, <1>11 DEF AllIn

\* s is a sequence
IsList(s) == \E S : s \in Seq(S)

\* The numbers up to n in ascending order.
LEMMA AscendingInterval ==
  ASSUME NEW n \in Nat
  PROVE  Cardinality(1 .. n) = n /\ \A k \in 1 .. n : Ascending(1 .. n)[k] = k
<1> DEFINE I == 1 .. n
<1>1. IsFiniteSet(I) /\ Cardinality(I) = n
  BY FS_Interval
<1>2. \A i \in I : Cardinality({j \in I : j <= i}) = i
  <2> SUFFICES ASSUME NEW i \in I PROVE Cardinality({j \in I : j <= i}) = i
    OBVIOUS
  <2>1. {j \in I : j <= i} = 1 .. i
    OBVIOUS
  <2>2. Cardinality(1 .. i) = i
    BY FS_Interval
  <2> QED
    BY <2>1, <2>2
<1>3. ASSUME NEW k \in I PROVE Ascending(I)[k] = k
  <2> DEFINE c == CHOOSE i \in I : Cardinality({j \in I : j <= i}) = k
  <2>1. Ascending(I)[k] = c
    BY <1>1, <1>3 DEF Ascending
  <2>2. \E i \in I : Cardinality({j \in I : j <= i}) = k
    BY <1>2
  <2>3. c \in I /\ Cardinality({j \in I : j <= c}) = k
    BY <2>2, Zenon
  <2> HIDE DEF c
  <2> QED
    BY <1>2, <2>1, <2>3
<1> QED
  BY <1>1, <1>3

\* All elements of a sequence are the sequence.
LEMMA ThoseAll ==
  ASSUME NEW s, IsList(s)
  PROVE  Those(s, DOMAIN s) = s
<1>1. PICK S : s \in Seq(S)
  BY DEF IsList
<1>2. Len(s) \in Nat /\ DOMAIN s = 1 .. Len(s)
  BY <1>1, LenProperties
<1>3. Cardinality(DOMAIN s) = Len(s) /\ \A k \in 1 .. Len(s) : Ascending(DOMAIN s)[k] = k
  BY <1>2, AscendingInterval
<1>4. s = [k \in 1 .. Len(s) |-> s[k]]
  BY <1>1, <1>2, SeqDef
<1> QED
  BY <1>3, <1>4 DEF Those

\* What a function makes of a finite set is finite.
LEMMA FiniteImage ==
  ASSUME NEW S, IsFiniteSet(S), NEW f
  PROVE  IsFiniteSet({f[x] : x \in S})
<1> DEFINE T == {f[x] : x \in S}
           g == [x \in S |-> f[x]]
<1>1. g \in Surjection(S, T)
  BY DEF Surjection
<1> HIDE DEF g
<1> QED
  BY <1>1, FS_Surjection

\* Numbers up to n are finitely many.
LEMMA FiniteInterval ==
  ASSUME NEW n \in Nat, NEW S \in SUBSET (1 .. n)
  PROVE  IsFiniteSet(S)
<1>1. IsFiniteSet(1 .. n)
  BY FS_Interval
<1> QED
  BY <1>1, FS_Subset

\* The k-th number of a set is in it.
LEMMA AscendingWithin ==
  ASSUME NEW n \in Nat, NEW I \in SUBSET (1 .. n)
  PROVE  \A k \in DOMAIN Ascending(I) : Ascending(I)[k] \in I
<1>1. IsFiniteSet(I)
  BY FiniteInterval
<1>2. I \in SUBSET Int
  OBVIOUS
<1> QED
  BY <1>1, <1>2, AscendingOrder

\* A sequence of elements of a set is one of elements of a wider set.
LEMMA SeqWider ==
  ASSUME NEW A, NEW B, A \subseteq B, NEW s \in Seq(A)
  PROVE  s \in Seq(B)
BY SeqDef
=============================================================================
