----------------------------- MODULE SeqLemmas -----------------------------
(* What the operations on sequences that the code's deques and queues are   *)
(* made of do to their elements; permutations, and the protocol that finds  *)
(* the elements of a distribution.                                          *)
EXTENDS PermutationOps, SequencesExt, SequenceTheorems, FiniteSetTheorems, TLAPS

LEMMA RemoveAtFact ==
  ASSUME NEW S, NEW s \in Seq(S), NEW p \in 1 .. Len(s)
  PROVE  /\ RemoveAt(s, p) \in Seq(S)
         /\ Len(RemoveAt(s, p)) = Len(s) - 1
         /\ \A r \in 1 .. Len(s) - 1 :
              RemoveAt(s, p)[r] = IF r < p THEN s[r] ELSE s[r + 1]
<1> DEFINE a == SubSeq(s, 1, p - 1)
           b == SubSeq(s, p + 1, Len(s))
<1>1. a \in Seq(S) /\ Len(a) = p - 1 /\ \A r \in 1 .. p - 1 : a[r] = s[r]
  OBVIOUS
<1>2. b \in Seq(S) /\ Len(b) = Len(s) - p /\ \A r \in 1 .. Len(s) - p : b[r] = s[r + p]
  OBVIOUS
<1>3. RemoveAt(s, p) = a \o b
  BY DEF RemoveAt
<1> HIDE DEF a, b
<1>4. Len(a \o b) = Len(a) + Len(b) /\ a \o b \in Seq(S)
  BY <1>1, <1>2, ConcatProperties
<1>5. \A r \in 1 .. Len(s) - 1 : (a \o b)[r] = IF r < p THEN s[r] ELSE s[r + 1]
  <2> SUFFICES ASSUME NEW r \in 1 .. Len(s) - 1
               PROVE  (a \o b)[r] = IF r < p THEN s[r] ELSE s[r + 1]
    OBVIOUS
  <2>1. CASE r < p
    BY <1>1, <1>2, <2>1
  <2>2. CASE ~ (r < p)
    <3>1. r - (p - 1) \in 1 .. Len(s) - p /\ r - (p - 1) + p = r + 1
      BY <2>2
    <3>2. (a \o b)[r] = b[r - (p - 1)]
      BY <1>1, <1>2, <2>2
    <3> QED
      BY <3>1, <3>2, <1>2, <2>2
  <2> QED
    BY <2>1, <2>2
<1> QED
  BY <1>1, <1>2, <1>3, <1>4, <1>5

LEMMA AppendFact ==
  ASSUME NEW S, NEW s \in Seq(S), NEW e \in S
  PROVE  /\ Append(s, e) \in Seq(S)
         /\ Range(Append(s, e)) = Range(s) \cup {e}
         /\ IsInjective(s) /\ e \notin Range(s) => IsInjective(Append(s, e))
<1>1. /\ Append(s, e) \in Seq(S) /\ Len(s) \in Nat
      /\ DOMAIN s = 1 .. Len(s) /\ DOMAIN Append(s, e) = 1 .. Len(s) + 1
      /\ Append(s, e)[Len(s) + 1] = e
      /\ \A p \in 1 .. Len(s) : Append(s, e)[p] = s[p]
  OBVIOUS
<1>2. \A p \in 1 .. Len(s) + 1 : p \in 1 .. Len(s) \/ p = Len(s) + 1
  BY <1>1
<1>3. Range(Append(s, e)) = Range(s) \cup {e}
  BY <1>1, <1>2 DEF Range
<1>4. IsInjective(s) /\ e \notin Range(s) => IsInjective(Append(s, e))
  BY <1>1, <1>2 DEF Range, IsInjective
<1> QED
  BY <1>1, <1>3, <1>4

LEMMA TailFact ==
  ASSUME NEW S, NEW s \in Seq(S), s # <<>>
  PROVE  /\ Tail(s) \in Seq(S) /\ Head(s) \in S
         /\ Head(s) \in Range(s)
         /\ Range(s) = Range(Tail(s)) \cup {Head(s)}
         /\ IsInjective(s) => IsInjective(Tail(s)) /\ Head(s) \notin Range(Tail(s))
<1>1. /\ Tail(s) \in Seq(S) /\ Len(s) \in Nat /\ Len(s) > 0
      /\ DOMAIN s = 1 .. Len(s) /\ DOMAIN Tail(s) = 1 .. Len(s) - 1
      /\ Head(s) = s[1] /\ s[1] \in S
      /\ \A p \in 1 .. Len(s) - 1 : Tail(s)[p] = s[p + 1]
  OBVIOUS
<1>2. \A p \in 1 .. Len(s) : p = 1 \/ (p - 1 \in 1 .. Len(s) - 1 /\ p - 1 + 1 = p)
  BY <1>1
<1>3. \A p \in 1 .. Len(s) - 1 : p + 1 \in 1 .. Len(s) /\ p + 1 # 1
  BY <1>1
<1>4. Range(s) = Range(Tail(s)) \cup {Head(s)} /\ Head(s) \in Range(s)
  <2>1. Head(s) \in Range(s)
    BY <1>1 DEF Range
  <2>2. Range(Tail(s)) \subseteq Range(s)
    BY <1>1, <1>3 DEF Range
  <2>3. \A p \in 1 .. Len(s) : s[p] = Head(s) \/ s[p] \in Range(Tail(s))
    BY <1>1, <1>2 DEF Range
  <2> QED
    BY <1>1, <2>1, <2>2, <2>3 DEF Range
<1>5. IsInjective(s) => IsInjective(Tail(s)) /\ Head(s) \notin Range(Tail(s))
  <2> SUFFICES ASSUME IsInjective(s)
               PROVE  IsInjective(Tail(s)) /\ Head(s) \notin Range(Tail(s))
    OBVIOUS
  <2>1. \A p, r \in 1 .. Len(s) : s[p] = s[r] => p = r
    BY <1>1 DEF IsInjective
  <2>2. Head(s) \notin Range(Tail(s))
    BY <1>1, <1>3, <2>1 DEF Range
  <2>3. \A p, r \in 1 .. Len(s) - 1 : Tail(s)[p] = Tail(s)[r] => p = r
    <3> SUFFICES ASSUME NEW p \in 1 .. Len(s) - 1, NEW r \in 1 .. Len(s) - 1,
                        Tail(s)[p] = Tail(s)[r]
                 PROVE  p = r
      OBVIOUS
    <3>1. p + 1 = r + 1
      BY <1>1, <1>3, <2>1
    <3> QED
      BY <3>1
  <2> QED
    BY <1>1, <2>2, <2>3 DEF IsInjective
<1> QED
  BY <1>1, <1>4, <1>5

\* Removing from a sequence without repetition.
LEMMA RemoveAtInjective ==
  ASSUME NEW S, NEW s \in Seq(S), NEW p \in 1 .. Len(s), IsInjective(s)
  PROVE  /\ IsInjective(RemoveAt(s, p))
         /\ Range(RemoveAt(s, p)) = Range(s) \ {s[p]}
<1> DEFINE w == RemoveAt(s, p)
           L == Len(s)
<1>1. /\ w \in Seq(S) /\ DOMAIN s = 1 .. L /\ DOMAIN w = 1 .. L - 1 /\ L \in Nat
      /\ \A r \in 1 .. L - 1 : w[r] = IF r < p THEN s[r] ELSE s[r + 1]
  BY RemoveAtFact
<1>2. \A r, t \in 1 .. L : s[r] = s[t] => r = t
  BY <1>1 DEF IsInjective
<1> HIDE DEF w
<1>3. \A r \in 1 .. L - 1 : \E t \in 1 .. L : t # p /\ w[r] = s[t]
  BY <1>1
<1>4. \A t \in 1 .. L : t # p => \E r \in 1 .. L - 1 : w[r] = s[t]
  <2> SUFFICES ASSUME NEW t \in 1 .. L, t # p
               PROVE  \E r \in 1 .. L - 1 : w[r] = s[t]
    OBVIOUS
  <2>1. CASE t < p
    BY <1>1, <2>1
  <2>2. CASE t > p
    <3>1. t - 1 \in 1 .. L - 1 /\ ~ (t - 1 < p) /\ t - 1 + 1 = t
      BY <2>2, <1>1
    <3> QED
      BY <3>1, <1>1
  <2> QED
    BY <2>1, <2>2
<1>5. Range(w) = Range(s) \ {s[p]}
  <2>1. Range(s) = {s[t] : t \in 1 .. L} /\ Range(w) = {w[r] : r \in 1 .. L - 1}
    BY <1>1 DEF Range
  <2>2. ASSUME NEW e \in Range(w) PROVE e \in Range(s) \ {s[p]}
    BY <2>1, <1>2, <1>3
  <2>3. ASSUME NEW e \in Range(s) \ {s[p]} PROVE e \in Range(w)
    BY <2>1, <1>4
  <2> QED
    BY <2>2, <2>3
<1>6. \A r, t \in 1 .. L - 1 : w[r] = w[t] => r = t
  <2> SUFFICES ASSUME NEW r \in 1 .. L - 1, NEW t \in 1 .. L - 1, w[r] = w[t]
               PROVE  r = t
    OBVIOUS
  <2> DEFINE shift(x) == IF x < p THEN x ELSE x + 1
  <2>1. /\ shift(r) \in 1 .. L /\ shift(t) \in 1 .. L
        /\ w[r] = s[shift(r)] /\ w[t] = s[shift(t)]
    BY <1>1
  <2>2. shift(r) = shift(t)
    BY <2>1, <1>2
  <2> QED
    BY <2>2
<1> QED
  BY <1>1, <1>5, <1>6 DEF w, IsInjective

\* A set of natural numbers has a least element.
LEMMA LeastNatural ==
  ASSUME NEW S \in SUBSET Nat, S # {}
  PROVE  \E n \in S : \A m \in S : n <= m
<1> DEFINE T == {1 .. n : n \in S}
<1>1. T \subseteq FiniteSubsetsOf(Nat) /\ T # {}
  <2>1. ASSUME NEW n \in S PROVE 1 .. n \in FiniteSubsetsOf(Nat)
    <3>1. n \in Int /\ 1 .. n \subseteq Nat
      OBVIOUS
    <3>2. IsFiniteSet(1 .. n)
      BY <3>1, FS_Interval
    <3> QED
      BY <3>1, <3>2 DEF FiniteSubsetsOf
  <2> QED
    BY <2>1
<1>2. PICK x \in T : \A y \in T : ~ (<<y, x>> \in StrictSubsetOrdering(Nat))
  <2> HIDE DEF T
  <2> QED
    BY <1>1, FS_StrictSubsetOrderingWellFounded, WFMin
<1>3. PICK n \in S : x = 1 .. n
  OBVIOUS
<1>4. ASSUME NEW m \in S, m < n PROVE FALSE
  <2>1. 1 .. m \in T /\ 1 .. m \subseteq Nat /\ 1 .. n \subseteq Nat
    OBVIOUS
  <2>2. 1 .. m \subseteq 1 .. n /\ 1 .. m # 1 .. n
    <3>1. n \in 1 .. n /\ n \notin 1 .. m
      BY <1>4
    <3> QED
      BY <1>4, <3>1
  <2>3. <<1 .. m, 1 .. n>> \in StrictSubsetOrdering(Nat)
    BY <2>1, <2>2 DEF StrictSubsetOrdering
  <2> QED
    BY <1>2, <1>3, <2>1, <2>3
<1> QED
  BY <1>4

\* A sequence that increases from each element to the next one is sorted.
LEMMA StepwiseSorted ==
  ASSUME NEW n \in Nat, NEW d, \A k \in 1 .. n : d[k] \in Int,
         \A k \in 1 .. n - 1 : d[k] <= d[k + 1]
  PROVE  \A j, k \in 1 .. n : j <= k => d[j] <= d[k]
<1> SUFFICES ASSUME NEW j \in 1 .. n, NEW k \in 1 .. n, j <= k, ~ (d[j] <= d[k]) PROVE FALSE
  OBVIOUS
<1> DEFINE Bad == {m \in 1 .. n : j <= m /\ ~ (d[j] <= d[m])}
<1>1. PICK m \in Bad : \A i \in Bad : m <= i
  <2>1. Bad \subseteq Nat /\ k \in Bad
    OBVIOUS
  <2> HIDE DEF Bad
  <2> QED
    BY <2>1, LeastNatural
<1>2. m # j /\ m - 1 \in 1 .. n - 1 /\ m - 1 >= j /\ m - 1 \notin Bad /\ m - 1 + 1 = m
  BY <1>1
<1> QED
  BY <1>2

----------------------------------------------------------------------------
(* Permutations, and sets of positions. *)

LEMMA PermutationOnto ==
  ASSUME NEW n \in Nat, NEW p \in [1 .. n -> 0 .. n - 1],
         \A a, b \in 1 .. n : a # b => p[a] # p[b]
  PROVE  \A k \in 0 .. n - 1 : \E j \in 1 .. n : p[j] = k
<1> DEFINE f == [j \in 1 .. n |-> p[j] + 1]
<1>1. f \in Injection(1 .. n, 1 .. n)
  BY DEF Injection, IsInjective
<1>2. f \in Surjection(1 .. n, 1 .. n)
  BY <1>1, FS_Injection, FS_Interval
<1> SUFFICES ASSUME NEW k \in 0 .. n - 1 PROVE \E j \in 1 .. n : p[j] = k
  OBVIOUS
<1>3. k + 1 \in 1 .. n
  OBVIOUS
<1>4. PICK j \in 1 .. n : f[j] = k + 1
  <2> HIDE DEF f
  <2> QED
    BY <1>2, <1>3 DEF Surjection
<1> QED
  BY <1>4

\* inv_permute puts the values back where permute has taken them.
LEMMA InvPermutedFact ==
  ASSUME NEW n \in Nat, NEW p \in [1 .. n -> 0 .. n - 1],
         \A a, b \in 1 .. n : a # b => p[a] # p[b],
         NEW b \in [1 .. n -> Int]
  PROVE  /\ InvPermuted(b, p) \in [1 .. n -> Int]
         /\ \A i \in 1 .. n : \E j \in 1 .. n : p[j] + 1 = i /\ InvPermuted(b, p)[i] = b[j]
<1> DEFINE at == [i \in 1 .. n |-> CHOOSE j \in 1 .. n : p[j] = i - 1]
<1>1. Len(p) = n
  OBVIOUS
<1>2. \A i \in 1 .. n : at[i] \in 1 .. n /\ p[at[i]] = i - 1
  <2> SUFFICES ASSUME NEW i \in 1 .. n PROVE at[i] \in 1 .. n /\ p[at[i]] = i - 1
    OBVIOUS
  <2>1. i - 1 \in 0 .. n - 1
    OBVIOUS
  <2>2. \E j \in 1 .. n : p[j] = i - 1
    BY <2>1, PermutationOnto
  <2> QED
    BY <2>2
<1>3. InversePermutation(p) = [i \in 1 .. n |-> at[i] - 1]
  BY <1>1 DEF InversePermutation
<1> HIDE DEF at
<1>4. Len(InversePermutation(p)) = n
  BY <1>3, <1>2
<1>5. InvPermuted(b, p) = [i \in 1 .. n |-> b[(at[i] - 1) + 1]]
  BY <1>3, <1>4 DEF InvPermuted, Permuted
<1>6. \A i \in 1 .. n : (at[i] - 1) + 1 = at[i] /\ p[at[i]] + 1 = i
  BY <1>2
<1>7. \A i \in 1 .. n : InvPermuted(b, p)[i] = b[at[i]] /\ b[at[i]] \in Int
  BY <1>2, <1>5, <1>6
<1>8. InvPermuted(b, p) \in [1 .. n -> Int]
  BY <1>5, <1>7
<1> QED
  BY <1>2, <1>6, <1>7, <1>8

\* A set that has all that precedes its elements.
LEMMA InitialSegment ==
  ASSUME NEW n \in Nat, NEW S \in SUBSET (1 .. n),
         \A i \in S : \A j \in 1 .. n : j < i => j \in S
  PROVE  /\ IsFiniteSet(S) /\ Cardinality(S) \in 0 .. n
         /\ \A i \in 1 .. n : i \in S <=> i <= Cardinality(S)
<1>1. IsFiniteSet(1 .. n) /\ Cardinality(1 .. n) = n
  BY FS_Interval
<1>2. IsFiniteSet(S) /\ Cardinality(S) \in Nat /\ Cardinality(S) <= n
  BY <1>1, FS_Subset, FS_CardinalityType
<1>3. ASSUME NEW i \in S PROVE i <= Cardinality(S)
  <2>1. 1 .. i \subseteq S
    OBVIOUS
  <2>2. Cardinality(1 .. i) = i
    BY FS_Interval
  <2> QED
    BY <1>2, <2>1, <2>2, FS_Subset
<1>4. ASSUME NEW i \in 1 .. n, i \notin S PROVE ~ (i <= Cardinality(S))
  <2>1. S \subseteq 1 .. i - 1
    BY <1>4
  <2>2. IsFiniteSet(1 .. i - 1) /\ Cardinality(1 .. i - 1) = i - 1
    BY FS_Interval
  <2>3. Cardinality(S) <= i - 1
    BY <2>1, <2>2, FS_Subset
  <2> QED
    BY <1>2, <2>3
<1> QED
  BY <1>2, <1>3, <1>4

----------------------------------------------------------------------------
(* Distributions: n_elt elements over n_rank ranks. *)

IsDistributionOf(d, n_rank, n_elt) ==
  /\ d \in [1 .. n_rank + 1 -> 0 .. n_elt]
  /\ d[1] = 0 /\ d[n_rank + 1] = n_elt
  /\ \A k \in 1 .. n_rank : d[k] <= d[k + 1]

LEMMA PartsSorted ==
  ASSUME NEW n_rank \in Nat \ {0}, NEW n_elt \in Nat \ {0},
         NEW d, IsDistributionOf(d, n_rank, n_elt)
  PROVE  \A j, k \in 1 .. n_rank + 1 : j <= k => d[j] <= d[k]
<1>1. n_rank + 1 \in Nat /\ \A k \in 1 .. n_rank + 1 : d[k] \in Int
  BY DEF IsDistributionOf
<1>2. \A k \in 1 .. (n_rank + 1) - 1 : d[k] <= d[k + 1]
  BY DEF IsDistributionOf
<1> QED
  BY <1>1, <1>2, StepwiseSorted

\* rank_offset gives the rank that has the element, and where it is in its part.
LEMMA OffsetFact ==
  ASSUME NEW n_rank \in Nat \ {0}, NEW n_elt \in Nat \ {0},
         NEW d, IsDistributionOf(d, n_rank, n_elt), NEW i \in 0 .. n_elt - 1
  PROVE  /\ RankOffset(i, d)[1] \in 0 .. n_rank - 1
         /\ RankOffset(i, d)[2] \in 0 .. d[RankOffset(i, d)[1] + 2] - d[RankOffset(i, d)[1] + 1] - 1
         /\ i = d[RankOffset(i, d)[1] + 1] + RankOffset(i, d)[2]
<1> DEFINE B == {k \in 1 .. n_rank + 1 : d[k] <= i}
           c == Cardinality(B)
<1>1. n_rank \in Nat /\ n_rank > 0 /\ Len(d) = n_rank + 1 /\ i \in Int /\ i < n_elt /\ 0 <= i
  BY DEF IsDistributionOf
<1>2. c \in 0 .. n_rank + 1 /\ \A k \in 1 .. n_rank + 1 : d[k] <= i <=> k <= c
  <2>1. \A k \in B : \A j \in 1 .. n_rank + 1 : j < k => j \in B
    <3>1. \A k \in 1 .. n_rank + 1 : d[k] \in Int
      BY DEF IsDistributionOf
    <3>2. \A j, k \in 1 .. n_rank + 1 : j <= k => d[j] <= d[k]
      BY PartsSorted
    <3> QED
      BY <1>1, <3>1, <3>2
  <2>3. B \in SUBSET (1 .. n_rank + 1) /\ n_rank + 1 \in Nat
    BY <1>1
  <2> HIDE DEF B
  <2>2. c \in 0 .. n_rank + 1 /\ \A k \in 1 .. n_rank + 1 : k \in B <=> k <= c
    BY <2>1, <2>3, InitialSegment
  <2> QED
    BY <2>2 DEF B
<1>3. RankOffset(i, d) = <<c - 1, i - d[c - 1 + 1]>>
  BY <1>1 DEF RankOffset
<1> HIDE DEF c
<1>4. c >= 1 /\ c < n_rank + 1
  BY <1>1, <1>2 DEF IsDistributionOf
<1>5. d[c] <= i /\ i < d[c + 1] /\ d[c] \in Int /\ d[c + 1] \in Int
  BY <1>1, <1>2, <1>4 DEF IsDistributionOf
<1> QED
  BY <1>1, <1>2, <1>3, <1>4, <1>5

\* The exchanged ids are the given ones.
LEMMA GroupedFact ==
  ASSUME NEW E, NEW d, NEW s \in Seq(E), NEW p \in NewToOlds(d, s)
  PROVE  /\ Len(s) \in Nat /\ p \in [1 .. Len(s) -> 0 .. Len(s) - 1]
         /\ \A a, b \in 1 .. Len(s) : a # b => p[a] # p[b]
         /\ Permuted(s, p) = [n \in 1 .. Len(s) |-> s[p[n] + 1]]
         /\ \A n \in 1 .. Len(s) : p[n] + 1 \in 1 .. Len(s) /\ Permuted(s, p)[n] \in E
         /\ \A m \in 1 .. Len(s) : \E n \in 1 .. Len(s) : Permuted(s, p)[n] = s[m]
<1>1. /\ Len(s) \in Nat /\ p \in [1 .. Len(s) -> 0 .. Len(s) - 1] /\ Len(p) = Len(s)
      /\ \A a, b \in 1 .. Len(s) : a # b => p[a] # p[b]
  BY DEF NewToOlds
<1>2. Permuted(s, p) = [n \in 1 .. Len(s) |-> s[p[n] + 1]]
  BY <1>1 DEF Permuted
<1>3. \A n \in 1 .. Len(s) : p[n] + 1 \in 1 .. Len(s)
  BY <1>1
<1>4. \A n \in 1 .. Len(s) : Permuted(s, p)[n] \in E
  BY <1>2, <1>3
<1>5. ASSUME NEW m \in 1 .. Len(s) PROVE \E n \in 1 .. Len(s) : Permuted(s, p)[n] = s[m]
  <2>1. m - 1 \in 0 .. Len(s) - 1
    BY <1>1
  <2>2. PICK n \in 1 .. Len(s) : p[n] = m - 1
    BY <1>1, <2>1, PermutationOnto
  <2>3. p[n] + 1 = m
    BY <2>2
  <2> QED
    BY <1>2, <2>3
<1> QED
  BY <1>1, <1>2, <1>3, <1>4, <1>5

\* partition_sort_indices tells, for each rank, where its ids end.
LEMMA GroupedPartition ==
  ASSUME NEW n_rank \in Nat \ {0}, NEW n_elt \in Nat \ {0},
         NEW d, IsDistributionOf(d, n_rank, n_elt),
         NEW E \in SUBSET Nat, \A e \in E : e < n_elt, NEW s \in Seq(E), NEW p \in NewToOlds(d, s),
         NEW k \in 1 .. n_rank + 1
  PROVE  /\ PartitionIs(d, s)[k] \in Nat
         /\ \A n \in 1 .. Len(s) : Permuted(s, p)[n] < d[k] <=> n <= PartitionIs(d, s)[k]
<1>0. /\ Len(s) \in Nat /\ p \in [1 .. Len(s) -> 0 .. Len(s) - 1]
      /\ \A a, b \in 1 .. Len(s) : a # b => p[a] # p[b]
      /\ Permuted(s, p) = [n \in 1 .. Len(s) |-> s[p[n] + 1]]
      /\ \A n \in 1 .. Len(s) : p[n] + 1 \in 1 .. Len(s) /\ Permuted(s, p)[n] \in E
  BY GroupedFact
<1> DEFINE L == Len(s)
           S == {n \in 1 .. L : Permuted(s, p)[n] < d[k]}
           T == {m \in 1 .. L : s[m] < d[k]}
           f == [n \in S |-> p[n] + 1]
<1>1. L \in Nat /\ Len(d) = n_rank + 1
  BY DEF IsDistributionOf
<1>2. \A i \in S : \A j \in 1 .. L : j < i => j \in S
  BY <1>1 DEF NewToOlds, IsPartitionSort
<1>3. /\ IsFiniteSet(S) /\ Cardinality(S) \in 0 .. L
      /\ \A n \in 1 .. L : n \in S <=> n <= Cardinality(S)
  <2>1. S \in SUBSET (1 .. L)
    OBVIOUS
  <2> HIDE DEF S, L
  <2> QED
    BY <1>1, <1>2, <2>1, InitialSegment
<1>4. f \in Bijection(S, T)
  <2> USE <1>1
  <2>0. /\ p \in [1 .. L -> 0 .. L - 1] /\ \A a, b \in 1 .. L : a # b => p[a] # p[b]
        /\ \A n \in 1 .. L : Permuted(s, p)[n] = s[p[n] + 1] /\ p[n] + 1 \in 1 .. L
    BY <1>0
  <2>1. \A n \in S : f[n] \in T
    BY <2>0
  <2>2. \A a, b \in S : f[a] = f[b] => a = b
    <3> SUFFICES ASSUME NEW a \in S, NEW b \in S, a # b PROVE f[a] # f[b]
      OBVIOUS
    <3>1. p[a] # p[b] /\ p[a] \in Int /\ p[b] \in Int
      <4>1. a \in 1 .. L /\ b \in 1 .. L
        OBVIOUS
      <4>2. p[a] # p[b]
        BY <2>0, <4>1
      <4>3. p[a] \in 0 .. L - 1 /\ p[b] \in 0 .. L - 1
        BY <2>0, <4>1
      <4> QED
        BY <4>2, <4>3
    <3>2. f[a] = p[a] + 1 /\ f[b] = p[b] + 1
      OBVIOUS
    <3> HIDE DEF f, S
    <3> QED
      BY <3>1, <3>2
  <2>3. \A m \in T : \E n \in S : f[n] = m
    <3> SUFFICES ASSUME NEW m \in T PROVE \E n \in S : f[n] = m
      OBVIOUS
    <3>1. m - 1 \in 0 .. L - 1 /\ m - 1 + 1 = m
      BY <1>1
    <3>2. PICK n \in 1 .. L : p[n] = m - 1
      <4> HIDE DEF L
      <4> QED
        BY <2>0, <3>1, PermutationOnto
    <3>3. n \in S
      BY <2>0, <3>1, <3>2
    <3> QED
      BY <3>1, <3>2, <3>3
  <2>4. f \in [S -> T]
    BY <2>1
  <2> HIDE DEF f
  <2> QED
    BY <2>2, <2>3, <2>4 DEF Bijection, Injection, Surjection, IsInjective
<1>5. Cardinality(T) = Cardinality(S)
  <2>1. IsFiniteSet(S) /\ ExistsBijection(S, T)
    <3> HIDE DEF f, S, T
    <3> QED
      BY <1>3, <1>4 DEF ExistsBijection
  <2> HIDE DEF f, S, T
  <2> QED
    BY <2>1, FS_Bijection
<1>6. PartitionIs(d, s)[k] = Cardinality(T)
  BY <1>1 DEF PartitionIs
<1>7. \A n \in 1 .. L : Permuted(s, p)[n] < d[k] <=> n <= Cardinality(S)
  BY <1>3
<1>8. Cardinality(S) \in Nat
  <2> HIDE DEF S, L
  <2> QED
    BY <1>1, <1>3
<1> HIDE DEF S, T
<1> QED
  BY <1>5, <1>6, <1>7, <1>8

\* The protocol finds each element where rank_offset says it is.
LEMMA GroupedProtocol ==
  ASSUME NEW n_rank \in Nat \ {0}, NEW n_elt \in Nat \ {0},
         NEW d, IsDistributionOf(d, n_rank, n_elt),
         NEW E \in SUBSET Nat, \A e \in E : e < n_elt, NEW s \in Seq(E), NEW p \in NewToOlds(d, s)
  PROVE  Protocol(d, s, p) =
           [places |-> [n \in 1 .. Len(s) |-> RankOffset(Permuted(s, p)[n], d)], new_to_old |-> p]
<1>0. /\ Len(s) \in Nat /\ p \in [1 .. Len(s) -> 0 .. Len(s) - 1]
      /\ \A a, b \in 1 .. Len(s) : a # b => p[a] # p[b]
      /\ Permuted(s, p) = [n \in 1 .. Len(s) |-> s[p[n] + 1]]
      /\ \A n \in 1 .. Len(s) : p[n] + 1 \in 1 .. Len(s) /\ Permuted(s, p)[n] \in E
  BY GroupedFact
<1> DEFINE is == PartitionIs(d, s)
<1>1. ASSUME NEW n \in 1 .. Len(s)
      PROVE  RankOffset(Permuted(s, p)[n], d)
               = <<PartOf(is, n), Permuted(s, p)[n] - d[PartOf(is, n) + 1]>>
  <2> DEFINE i == Permuted(s, p)[n]
             G == {m \in 1 .. Len(is) - 1 : is[m + 1] < n}
             H == {j \in 1 .. Len(d) : d[j] <= i}
  <2>1. /\ n_rank \in Nat /\ n_rank > 0 /\ Len(d) = n_rank + 1 /\ Len(is) = n_rank + 1 /\ n \in Int
        /\ \A j \in 1 .. n_rank + 1 : d[j] \in Int
    BY DEF IsDistributionOf, PartitionIs
  <2>2. i \in Int /\ 0 <= i /\ i < n_elt
    <3>1. i \in E
      BY <1>0
    <3> HIDE DEF i
    <3>2. i \in Nat /\ i < n_elt
      BY <3>1
    <3> QED
      BY <3>2
  <2>3. \A j \in 1 .. n_rank + 1 : is[j] \in Nat /\ (i < d[j] <=> n <= is[j])
    BY GroupedPartition
  <2> HIDE DEF i, is
  <2>4. H \in SUBSET (1 .. n_rank + 1) /\ n_rank + 1 \in Nat
    BY <2>1
  <2>5. \A j \in H : \A m \in 1 .. n_rank + 1 : m < j => m \in H
    <3>1. \A m, j \in 1 .. n_rank + 1 : m <= j => d[m] <= d[j]
      BY PartsSorted
    <3> QED
      BY <2>1, <2>2, <3>1
  <2>6. 1 \in H /\ n_rank + 1 \notin H
    BY <2>1, <2>2 DEF IsDistributionOf
  <2>7. \A m \in 1 .. n_rank : m \in G <=> m + 1 \in H
    BY <2>1, <2>2, <2>3
  <2>8. G \subseteq 1 .. n_rank
    BY <2>1
  <2>9. Cardinality(G) = Cardinality(H) - 1
    <3> DEFINE c == Cardinality(H)
    <3> HIDE DEF G, H
    <3>1. c \in 0 .. n_rank + 1 /\ \A j \in 1 .. n_rank + 1 : j \in H <=> j <= c
      BY <2>4, <2>5, InitialSegment
    <3> HIDE DEF c
    <3>2. c >= 1 /\ c <= n_rank
      BY <2>1, <2>6, <3>1
    <3>3. G = 1 .. c - 1
      <4>1. \A m \in 1 .. n_rank : m \in G <=> m <= c - 1
        BY <2>1, <2>7, <3>1, <3>2
      <4>2. c - 1 \in Int /\ c - 1 <= n_rank
        BY <2>1, <3>1, <3>2
      <4>3. \A m : m \in G => m \in 1 .. c - 1
        BY <2>1, <2>8, <4>1, <4>2
      <4>4. \A m : m \in 1 .. c - 1 => m \in G
        BY <2>1, <4>1, <4>2
      <4> QED
        BY <4>3, <4>4
    <3>4. Cardinality(1 .. c - 1) = c - 1
        <4>1. (1 \in Int /\ c - 1 \in Int /\ ~ (1 > c - 1)) \/ c - 1 = 0
        BY <2>1, <3>1, <3>2
      <4>2. c - 1 \in Int /\ c - 1 >= 0
        BY <2>1, <3>1, <3>2
      <4> QED
        BY <4>1, <4>2, FS_Interval
    <3> QED
      BY <3>3, <3>4 DEF c
  <2>10. PartOf(is, n) = Cardinality(H) - 1
    BY <2>9 DEF PartOf
  <2>11. RankOffset(i, d) = <<Cardinality(H) - 1, i - d[Cardinality(H) - 1 + 1]>>
    BY DEF RankOffset
  <2> QED
    BY <2>10, <2>11 DEF i
<1>2. Protocol(d, s, p) =
        [places |-> [n \in 1 .. Len(s) |->
                       <<PartOf(is, n), Permuted(s, p)[n] - d[PartOf(is, n) + 1]>>],
         new_to_old |-> p]
  BY DEF Protocol
<1> QED
  BY <1>1, <1>2

=============================================================================
