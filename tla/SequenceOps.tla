----------------------------- MODULE SequenceOps -----------------------------
(* The algorithms on sequences that std_e has in its own versions, so that they *)
(* are constexpr, and the small ones that it adds. Positions are numbered from  *)
(* 0 as in the code: element i of s is s[i + 1], and Len(s) is the end.         *)
EXTENDS Integers, Sequences, FiniteSets, PermutationOps
LOCAL INSTANCE SequencesExt
LOCAL INSTANCE FiniteSetsExt
LOCAL INSTANCE Intervals

CONSTANTS Elts,      \* what the sequences hold: 0, 1 and 2 are the keys of partition_3way
          MaxLeft, MaxRight

ASSUME SequencesAssumption == Elts \subseteq Nat /\ MaxLeft \in Nat /\ MaxRight \in Nat

VARIABLES left, right
sequenceVars == <<left, right>>

-----------------------------------------------------------------------------
(* Comparisons of two sequences. The versions with three iterators, as equal    *)
(* and equal_n, need the second sequence not to be the shorter one.             *)
Mismatch(s, t) ==
  LET from[n \in 0 .. Len(s)] ==
        IF n = Len(s) \/ n = Len(t) THEN n
        ELSE IF s[n + 1] = t[n + 1] THEN from[n + 1] ELSE n
  IN from[0]
EqualRange(s, t) == \A n \in DOMAIN s : s[n] = t[n]
EqualN(s, t, n) == \A k \in 1 .. n : s[k] = t[k]
LexicographicalCompare(s, t) ==
  LET from[n \in 0 .. Len(s)] ==
        IF n = Len(s) \/ n = Len(t) THEN n = Len(s) /\ n # Len(t)
        ELSE IF s[n + 1] < t[n + 1] THEN TRUE
        ELSE IF t[n + 1] < s[n + 1] THEN FALSE ELSE from[n + 1]
  IN from[0]
ThreeWayCompare(s, t) ==
  LET from[n \in 0 .. Len(s)] ==
        IF n = Len(s) \/ n = Len(t)
        THEN IF n # Len(s) THEN "greater" ELSE IF n # Len(t) THEN "less" ELSE "equal"
        ELSE IF s[n + 1] = t[n + 1] THEN from[n + 1]
        ELSE IF s[n + 1] < t[n + 1] THEN "less" ELSE "greater"
  IN from[0]

(* Searches. partition_point and lower_bound halve the part that is left.       *)
FindPosition(s, v) == Min({n \in 0 .. Len(s) - 1 : s[n + 1] = v} \cup {Len(s)})
HasValue(s, v) == FindPosition(s, v) # Len(s)
CountOf(s, v) == FoldLeft(LAMBDA ret, x : IF x = v THEN ret + 1 ELSE ret, 0, s)
PartitionPoint(s, holds) ==
  LET halve[n \in 0 .. Len(s), first \in 0 .. Len(s)] ==
        IF n = 0 THEN first
        ELSE LET step == n \div 2
             IN IF s[first + step + 1] \in holds THEN halve[n - (step + 1), first + step + 1]
                ELSE halve[step, first]
  IN halve[Len(s), 0]
(* Mutant: the element that is less is not stepped over.                        *)
LowerBoundOfStay(s, v) ==
  LET halve[n \in 0 .. Len(s), first \in 0 .. Len(s)] ==
        IF n = 0 THEN first
        ELSE LET step == n \div 2
             IN IF s[first + step + 1] < v THEN halve[n - (step + 1), first + step]
                ELSE halve[step, first]
  IN halve[Len(s), 0]
LowerBoundOf(s, v) ==
  LET halve[n \in 0 .. Len(s), first \in 0 .. Len(s)] ==
        IF n = 0 THEN first
        ELSE LET step == n \div 2
             IN IF s[first + step + 1] < v THEN halve[n - (step + 1), first + step + 1]
                ELSE halve[step, first]
  IN halve[Len(s), 0]
LowerBoundPosition(s, v) == LowerBoundOf(s, v)

(* for_each_partition, with comparisons to 0, 1, ... for what the elements of a *)
(* sorted range are, as in its test: the ends of the parts that are visited.    *)
PartitionEnds(s) ==
  LET visit[n \in Nat, first \in 0 .. Len(s)] ==
        IF first = Len(s) THEN <<>>
        ELSE LET last == first + PartitionPoint(SubSeq(s, first + 1, Len(s)), {n})
             IN <<last>> \o visit[n + 1, last]
  IN visit[0, 0]

(* frozen_flat_map: sorted by keys, which are different.                        *)
FrozenFlatMaps(ks, vs) == {z.rngs : z \in ZipSort(<<ks, vs>>)}
ValueOf(map, key) == map[2][LowerBoundOf(map[1], key) + 1]

-----------------------------------------------------------------------------
(* Reductions and scans.                                                        *)
Accumulate(s, init) == FoldLeft(LAMBDA acc, x : acc + x, init, s)
InclusiveScan(s) ==
  LET sum[n \in DOMAIN s] == IF n = 1 THEN s[1] ELSE sum[n - 1] + s[n] IN [n \in DOMAIN s |-> sum[n]]
ExclusiveScan(s, init) ==
  LET sum[n \in DOMAIN s] == IF n = 1 THEN init ELSE sum[n - 1] + s[n - 1] IN [n \in DOMAIN s |-> sum[n]]
TransformPlus(s, t) == [n \in DOMAIN s |-> s[n] + t[n]]
Iota(n, value) == [k \in 1 .. n |-> value + k - 1]
Shifted(s, value) == [n \in DOMAIN s |-> s[n] + value]

(* copy and copy_n: what is at a position is overwritten. concatenate writes    *)
(* the ranges one after the other in an array of the sum of their sizes.        *)
Written(out, at, s) == [n \in DOMAIN out |-> IF n - at \in DOMAIN s THEN s[n - at] ELSE out[n]]
ConcatenateIn(out, ranges) ==
  FoldLeft(LAMBDA acc, s : [out |-> Written(acc.out, acc.at, s), at |-> acc.at + Len(s)],
           [out |-> out, at |-> 0], ranges).out
Concatenated(ranges) ==
  LET size == FoldLeft(LAMBDA n, s : n + Len(s), 0, ranges)
  IN ConcatenateIn([n \in 1 .. size |-> 0], ranges)

(* concat_view: a tree, since a concatenation may be a part of another one. A   *)
(* nested one is copied from the iterator that it is given by value, so that it *)
(* is its size that moves the iterator of the outer one.                        *)
RangeView(s) == [nested |-> FALSE, items |-> s]
ConcatView(views) == [nested |-> TRUE, items |-> views]
RepeatView(x, n) ==
  LET from[i \in 0 .. n] == IF i = n THEN <<>> ELSE <<x>> \o from[i + 1] IN RangeView(from[0])
RECURSIVE ViewSize(_), ConcatCopy(_, _, _)
ViewSize(v) ==
  IF v.nested THEN FoldLeft(LAMBDA sz, part : sz + ViewSize(part), 0, v.items) ELSE Len(v.items)
ConcatCopy(v, out, at) ==
  LET Copy(acc, part) ==
        [out |-> IF part.nested THEN ConcatCopy(part, acc.out, acc.at)
                 ELSE Written(acc.out, acc.at, part.items),
         at |-> acc.at + ViewSize(part)]
  IN FoldLeft(Copy, [out |-> out, at |-> at], v.items).out
ViewToVector(v) == ConcatCopy(v, [n \in 1 .. ViewSize(v) |-> 0], 0)

(* partition_copy, unique, sort_unique, sort_unique_permutation and             *)
(* make_sub_vector of vectors.                                                  *)
PartitionedVectors(s, holds) ==
  <<SelectSeq(s, LAMBDA x : x \in holds), SelectSeq(s, LAMBDA x : x \notin holds)>>
UniquePositions(s) == SelectSeq(UniquePermutation(s), LAMBDA pos : pos >= 0)
SortUnique(s) == LET r == SortSeq(s, <) IN Permuted(r, UniquePositions(r))
SortUniquePermutations(s) ==
  {Permuted(p, UniquePositions(Permuted(s, p))) : p \in SortPermutations(s)}
SubVector(s, start, size) == [n \in 1 .. size |-> s[start + n]]

-----------------------------------------------------------------------------
(* Functions that rearrange a sequence.                                         *)
SwappedAt(s, a, b) == [s EXCEPT ![a + 1] = s[b + 1], ![b + 1] = s[a + 1]]

(* partition: those that hold are swapped to the front. The range, and where    *)
(* the others begin.                                                            *)
PartitionFront(s, holds) ==
  LET first == Min({n \in 0 .. Len(s) - 1 : s[n + 1] \notin holds} \cup {Len(s)})
      Visit(acc, i) == IF acc.s[i + 1] \in holds
                       THEN [s |-> SwappedAt(acc.s, i, acc.first), first |-> acc.first + 1] ELSE acc
  IN FoldLeft(Visit, [s |-> s, first |-> first],
              [k \in 1 .. Len(s) - 1 - first |-> first + k])

(* quick_sort: the elements that are equal to the pivot are in neither call.    *)
ConstexprQuickSort(s) ==
  LET sort[r \in Seq(Elts)] ==
        IF Len(r) <= 1 THEN r
        ELSE LET pivot == r[Len(r) \div 2 + 1]
                 below == PartitionFront(r, {x \in Elts : x < pivot})
                 equal == PartitionFront(SubSeq(below.s, below.first + 1, Len(r)),
                                         {x \in Elts : ~(pivot < x)})
             IN sort[SubSeq(below.s, 1, below.first)] \o SubSeq(equal.s, 1, equal.first)
                \o sort[SubSeq(equal.s, equal.first + 1, Len(equal.s))]
  IN sort[s]

(* sorting_network<N>: the pairs that are compared, and swapped if not in order.*)
Network(n) ==
  CASE n = 2 -> <<<<0, 1>>>>
    [] n = 3 -> <<<<0, 1>>, <<1, 2>>, <<0, 1>>>>
    [] n = 4 -> <<<<0, 1>>, <<2, 3>>, <<0, 2>>, <<1, 3>>, <<1, 2>>>>
    [] OTHER -> <<>>
SortNetwork(s) ==
  FoldLeft(LAMBDA r, pair : IF r[pair[2] + 1] < r[pair[1] + 1] THEN SwappedAt(r, pair[1], pair[2]) ELSE r,
           s, Network(Len(s)))

(* partition_3way: each iteration brings n and l closer by one.                 *)
Partition3Way(s) ==
  LET Visit(acc, i) ==
        LET key == acc.s[acc.n + 1]
        IN CASE key = 0 -> [s |-> SwappedAt(acc.s, acc.f, acc.n), f |-> acc.f + 1, n |-> acc.n + 1, l |-> acc.l]
             [] key = 2 -> [s |-> SwappedAt(acc.s, acc.l - 1, acc.n), f |-> acc.f, n |-> acc.n, l |-> acc.l - 1]
             [] OTHER -> [acc EXCEPT !.n = @ + 1]
  IN FoldLeft(Visit, [s |-> s, f |-> 0, n |-> 0, l |-> Len(s)], s)

RotateMinFirst(s) ==
  LET min_pos == FindPosition(s, Min(ToSet(s)))
  IN [n \in DOMAIN s |-> s[((min_pos + n - 1) % Len(s)) + 1]]

(* sort_into_partitions                                                         *)
SortIntoPartitions(s) ==
  {[values |-> Permuted(s, p), seps |-> MismatchIndices(Permuted(s, p)), off |-> 0] : p \in SortPermutations(s)}

-----------------------------------------------------------------------------
SequencesInit == left = <<>> /\ right = <<>>
(* append, emplace_back: in the end a range is at the end of another one.       *)
AppendLeft ==
  /\ Len(left) < MaxLeft
  /\ \E x \in Elts : left' = left \o <<x>>
  /\ UNCHANGED right
AppendRight ==
  /\ \E s \in {<<>>, right} : \E x \in Elts :
       /\ Len(right) + Len(s) < MaxRight
       /\ right' = right \o Append(s, x)
  /\ UNCHANGED left
SequencesNext == AppendLeft \/ AppendRight

-----------------------------------------------------------------------------
IsSortedSeq(s) == \A n \in 2 .. Len(s) : s[n - 1] <= s[n]
SameElements(s, t) == \A x \in ToSet(s) \cup ToSet(t) : CountOf(s, x) = CountOf(t, x)

ComparisonsAgree ==
  LET n == Mismatch(left, right)
  IN /\ EqualN(left, right, n)
     /\ n < Len(left) /\ n < Len(right) => left[n + 1] # right[n + 1]
     /\ Len(left) <= Len(right) => (EqualRange(left, right) <=> n = Len(left))
     /\ LexicographicalCompare(left, right) <=> ThreeWayCompare(left, right) = "less"
     /\ LexicographicalCompare(right, left) <=> ThreeWayCompare(left, right) = "greater"
     /\ ThreeWayCompare(left, right) = "equal" <=> left = right
     /\ LexicographicalCompare(left, right) => IF n = Len(left) THEN n # Len(right) ELSE left[n + 1] < right[n + 1]

ConcatenationsAgree ==
  LET both == Concatenated(<<left, right>>)
  IN /\ both = left \o right
     /\ \A v \in {ConcatView(<<RangeView(left), ConcatView(<<RangeView(right), RepeatView(7, 2)>>)>>),
                 ConcatView(<<ConcatView(<<RangeView(left), RangeView(right)>>), RepeatView(7, 2)>>)} :
          ViewToVector(v) = both \o <<7, 7>>
     /\ ViewToVector(ConcatView(<<ConcatView(<<RangeView(left)>>), RangeView(right)>>)) = both

SearchesFind ==
  \A x \in Elts :
    /\ HasValue(left, x) <=> CountOf(left, x) > 0
    /\ LET sorted_left == ConstexprQuickSort(left)
           pos == LowerBoundPosition(sorted_left, x)
       IN /\ pos = Len(SelectSeq(left, LAMBDA y : y < x))
          /\ pos = PartitionPoint(sorted_left, {y \in Elts : y < x})
          /\ PartitionedVectors(sorted_left, {y \in Elts : y < x})
               = <<SubVector(sorted_left, 0, pos), SubVector(sorted_left, pos, Len(left) - pos)>>
          /\ HasValue(left, x) => pos = FindPosition(sorted_left, x)

ScansSum ==
  LET sums == InclusiveScan(left)
  IN /\ TransformPlus(ExclusiveScan(left, 0), left) = sums
     /\ left # <<>> => sums[Len(left)] = Accumulate(left, 0)
     /\ InclusiveScan(Shifted(left, 1)) = TransformPlus(sums, Iota(Len(left), 1))

(* Every way to sort gives the same sequence, and every way to cut it the same  *)
(* parts.                                                                       *)
SortsAgree ==
  LET sorted_left == ConstexprQuickSort(left)
      three == Partition3Way(left)
  IN /\ IsSortedSeq(sorted_left) /\ SameElements(left, sorted_left)
     /\ Len(left) <= 4 => SortNetwork(left) = sorted_left
     /\ \A s \in SortIntoPartitions(left) :
          /\ s.values = sorted_left
          /\ \A b \in DOMAIN BlocksOf(s) : Cardinality(ToSet(BlocksOf(s)[b])) <= 1
          /\ Len(s.seps) = Cardinality(ToSet(left)) + 1 \/ left = <<>>
     /\ SameElements(left, three.s)
     /\ \A n \in DOMAIN left : (three.s[n] = 0 <=> n <= three.f) /\ (three.s[n] = 2 <=> n > three.l)
     /\ LET ends == PartitionEnds(sorted_left)
        IN \A k \in DOMAIN ends : ends[k] = LowerBoundPosition(sorted_left, k)
     /\ left # <<>> => LET r == RotateMinFirst(left)
                       IN /\ r[1] = sorted_left[1]
                          /\ \E n \in 0 .. Len(left) - 1 : r = SubSeq(left, n + 1, Len(left)) \o SubSeq(left, 1, n)

(* Permutations and their inverses, and the ids that follow them.               *)
PermutationsAgree ==
  /\ \A z \in ZipSort(<<left, Iota(Len(left), 10)>>) :
       LET inv == InversePermutation(z.perm)
           ids == Iota(Len(left), 10)
       IN /\ z.rngs[1] = ConstexprQuickSort(left)
          /\ \A n \in DOMAIN left : left[z.rngs[2][n] - 9] = z.rngs[1][n]
          /\ ComposePermutations(z.perm, inv) = Iota(Len(left), 0)
          /\ PermuteIds(PermuteIds(ids, z.perm, 10), inv, 10) = ids
          /\ PermuteIds(ids, z.perm, 10) = z.rngs[2]
          /\ UpdateIdsInRange(<<9>> \o ids, z.perm, 10, 10 + Len(ids)) = <<9>> \o z.rngs[2]
          /\ ApplyTo(OffsetPermutation(10, 20, z.perm), ids) = Shifted(z.rngs[2], 10)
  /\ Permuted(left, UniquePositions(left)) = [b \in 1 .. Len(MismatchIndices(left)) - 1 |-> left[MismatchIndices(left)[b] + 1]]
  /\ ToSet(SortUnique(left)) = ToSet(left) /\ \A n \in 2 .. Len(SortUnique(left)) : SortUnique(left)[n - 1] < SortUnique(left)[n]
  /\ \A p \in SortUniquePermutations(left) : Permuted(left, p) = SortUnique(left)
  /\ Cardinality(ToSet(left)) = Len(left) =>
       \A map \in FrozenFlatMaps(left, Iota(Len(left), 0)) :
         \A n \in DOMAIN left : ValueOf(map, left[n]) = n - 1

(* The ways that std_e has to compare, search, sum, concatenate, sort and       *)
(* permute sequences agree with each other, whatever the sequences.             *)
SequencesAgree ==
  /\ ComparisonsAgree /\ ConcatenationsAgree
  /\ right = <<>> => SearchesFind /\ ScansSum /\ SortsAgree /\ PermutationsAgree
=============================================================================
