------------------------------ MODULE Intervals -------------------------------
(* std_e/interval: intervals, sequences of contiguous intervals, and the        *)
(* algorithms on them. An interval [first,last) is a pair; a sequence of n      *)
(* intervals is the sequence of its n+1 knots. Intervals are counted from 0 as  *)
(* in the code, TLA+ sequences from 1.                                          *)
EXTENDS SequencesExt, Integers

(* partial_accumulate: the sums of the first values, from init on.              *)
PartialSums(s, init) ==
  LET sum[k \in 0 .. Len(s)] == IF k = 0 THEN init ELSE sum[k - 1] + s[k]
  IN  [k \in 1 .. Len(s) + 1 |-> sum[k - 1]]
(* exclusive_adjacent_difference                                                *)
AdjacentDifferences(s) == [k \in 1 .. Len(s) - 1 |-> s[k + 1] - s[k]]

-----------------------------------------------------------------------------
Interval(first, last) == [first |-> first, last |-> last]
Length(r) == r.last - r.first
IsIn(r, i) == r.first <= i /\ i < r.last
Contiguous(r0, r1) == r0.last = r1.first

(* closed_interval: [i,i-1] is the empty one.                                   *)
ClosedLength(r) == r.last - r.first + 1
IsInClosed(r, i) == r.first <= i /\ i <= r.last
ContiguousClosed(r0, r1) == r0.last + 1 = r1.first
ToClosedOpen(r) == Interval(r.first, r.last + 1)

-----------------------------------------------------------------------------
NInterval(is) == Len(is) - 1
IntervalAt(is, i) == Interval(is[i + 1], is[i + 2])
WholeInterval(is) == Interval(is[1], is[Len(is)])

IntervalLengths(is) == AdjacentDifferences(is)

IndicesFromStrides(s) == PartialSums(s, 0)

(* The values of r are strides, and the last of them is not used.               *)
IndicesFromStridesInplace(r, start) ==
  LET Shift(acc, i) == [r |-> [acc.r EXCEPT ![i + 1] = acc.r[i] + acc.tmp], tmp |-> acc.r[i + 1]]
  IN  FoldLeft(Shift, [r |-> [r EXCEPT ![1] = start], tmp |-> r[1]], [i \in 1 .. Len(r) - 1 |-> i]).r

(* upper_bound: the first knot that is greater than x.                          *)
IntervalIndex(x, is) == Cardinality({k \in DOMAIN is : is[k] <= x}) - 1

(* knot_sequence, that interval_sequence replaces, with knots that are ints: its*)
(* bounds are ints whatever its knots are.                                      *)
IsKnotSequence(v) == \A k \in 1 .. Len(v) - 1 : v[k] <= v[k + 1]
KnotInterval(ks, i) ==
  LET inf == ks[i + 1]
      sup == ks[i + 2]
  IN  [first |-> inf, last |-> sup, length |-> sup - inf]
(* adjacent_difference, whose first value is not a difference and is replaced.  *)
KnotLengths(ks) ==
  LET differences == [k \in 1 .. Len(ks) - 1 |-> IF k = 1 THEN ks[2] ELSE ks[k + 1] - ks[k]]
  IN  [differences EXCEPT ![1] = KnotInterval(ks, 0).length]
KnotsFromSizes(r) ==
  LET scan[k \in DOMAIN r] == IF k = 1 THEN r[1] ELSE scan[k - 1] + r[k]
  IN  [k \in 1 .. Len(r) + 1 |-> IF k = 1 THEN 0 ELSE scan[k - 1]]
(* upper_bound - begin - 1                                                      *)
KnotIndex(x, ks) == Min({k \in DOMAIN ks : ks[k] > x} \cup {Len(ks) + 1}) - 2

-----------------------------------------------------------------------------
IsInterval(x) == \A i \in 2 .. Len(x) : x[i] = x[1] + i - 1

(* Where the value that was at index is after a rotation of [first,last) that   *)
(* brings n_first to first.                                                     *)
RotatedPosition(index, first, n_first, last) ==
  IF IsIn(Interval(first, n_first), index) THEN index + (last - n_first)
  ELSE IF IsIn(Interval(n_first, last), index) THEN index - (n_first - first)
  ELSE index

(* minmax_over_interval_sequence: one pair for each interval that is not empty. *)
MinMaxOverIntervals(x, is) ==
  LET intervals == SelectSeq([k \in 1 .. NInterval(is) |-> IntervalAt(is, k - 1)],
                             LAMBDA r : r.first # r.last)
      ValuesIn(r) == {x[i] : i \in r.first + 1 .. r.last}
  IN  [k \in DOMAIN intervals |-> [min |-> Min(ValuesIn(intervals[k])), max |-> Max(ValuesIn(intervals[k]))]]
(* is_partitioned_at_indices. Some interval is not empty: size()-1 would        *)
(* underflow.                                                                   *)
IsPartitionedAtIndices(x, is) ==
  LET bounds == MinMaxOverIntervals(x, is)
  IN  \A i \in 1 .. Len(bounds) - 1 : bounds[i].max < bounds[i + 1].min

-----------------------------------------------------------------------------
(* sum and prod over [first,last) (accumulate.hpp).                             *)
SumOver(r, f) == FoldFunctionOnSet(+, 0, f, {i \in DOMAIN f : IsIn(r, i)})
ProdOver(r, f) == FoldFunctionOnSet( *, 1, f, {i \in DOMAIN f : IsIn(r, i)})
(* The coordinates and the dimensions are numbered from 0 here.                 *)
IndexWithFortranLayout(coords, dims) ==
  LET n == Cardinality(DOMAIN dims)
  IN  SumOver(Interval(0, n), [a \in DOMAIN dims |-> coords[a] * ProdOver(Interval(0, a), dims)])
IndexWithCLayout(coords, dims) ==
  LET n == Cardinality(DOMAIN dims)
  IN  SumOver(Interval(0, n), [a \in DOMAIN dims |-> coords[a] * ProdOver(Interval(a + 1, n), dims)])

(* length of a multi_interval                                                   *)
MultiLength(firsts, lasts) == [k \in DOMAIN firsts |-> Length(Interval(firsts[k], lasts[k]))]

-----------------------------------------------------------------------------
(* Jagged ranges (std_e/data_structure/jagged_range.hpp). A range of rank 2 is  *)
(* [values, seps, off]: flat values and the separators of blocks, that are      *)
(* shifted by off in a view of a part of a range of rank 3. A range of rank 3   *)
(* is [values, seps0, seps1]: seps1 separates the blocks of seps0 in groups.    *)
(* Positions are counted from 0 in the separators, as in the code.              *)

(* operator[] of rank 2: block i, from 0. It subtracts the offset.              *)
BlockAt(x, i) == SubSeq(x.values, x.seps[i + 1] - x.off + 1, x.seps[i + 2] - x.off)
BlocksOf(x) == [k \in 1 .. Len(x.seps) - 1 |-> BlockAt(x, k - 1)]
(* Where it finds block i in the flat values, and where *(begin() + i) and      *)
(* values() find the block and all the values: these do not subtract the offset,*)
(* and find the same only in a range that has none.                             *)
BlockInterval(x, i) == Interval(x.seps[i + 1] - x.off, x.seps[i + 2] - x.off)
IteratedInterval(x, i) == IntervalAt(x.seps, i)
ValuesInterval(x) == WholeInterval(x.seps)

(* Mutant: the offset of the group, in blocks.                                  *)
SubRangeOff(x, i) ==
  LET seps == SubSeq(x.seps0, x.seps1[i + 1] + 1, x.seps1[i + 2] + 1)
  IN  [values |-> SubSeq(x.values, seps[1] + 1, Last(seps)), seps |-> seps, off |-> x.seps1[i + 1]]
(* operator[] of rank 3: group i, from 0.                                       *)
SubRange(x, i) ==
  LET seps == SubSeq(x.seps0, x.seps1[i + 1] + 1, x.seps1[i + 2] + 1)
  IN  [values |-> SubSeq(x.values, seps[1] + 1, Last(seps)), seps |-> seps, off |-> seps[1]]

(* operator== of rank 2: only as many separators as x has are compared. y has   *)
(* no fewer of them, otherwise it is read past its end.                         *)
EqualRanges(x, y) ==
  /\ x.values = y.values
  /\ \A j \in DOMAIN x.seps : x.seps[j] - x.off = y.seps[j] - y.off

-----------------------------------------------------------------------------
(* upscaled_separators: from positions in lower separators to what they hold.   *)
Upscaled(upper, lower) == [k \in DOMAIN upper |-> lower[upper[k] + 1]]

(* downscale_separators: each is searched from where the previous one was found;*)
(* of equal separators the first one is.                                        *)
Downscaled(upper, lower) ==
  LET Find(acc, sep) ==
        LET at == SelectInSubSeq(lower, acc.cur + 1, Len(lower), LAMBDA l : l = sep) - 1
        IN  [cur |-> IF at < 0 THEN Len(lower) ELSE at, res |-> Append(acc.res, IF at < 0 THEN Len(lower) ELSE at)]
  IN  FoldLeft(Find, [cur |-> 0, res |-> <<>>], upper).res

-----------------------------------------------------------------------------
(* mismatch_indices: where the key differs from that of the last mismatch.      *)
MismatchIndices(keys) ==
  LET Visit(acc, i) ==
        IF acc.prev # 0 /\ keys[acc.prev] = keys[i] THEN acc
        ELSE [prev |-> i, res |-> Append(acc.res, i - 1)]
  IN  Append(FoldLeft(Visit, [prev |-> 0, res |-> <<>>], [i \in DOMAIN keys |-> i]).res, Len(keys))

(* indirect_partition_by_block_size: a stable sort of the numbers of the blocks *)
(* by their sizes, and the intervals of equal sizes.                            *)
PartitionByBlockSize(seps) ==
  LET sizes == IntervalLengths(seps)
      Before(i, j) == sizes[i + 1] < sizes[j + 1] \/ (sizes[i + 1] = sizes[j + 1] /\ i < j)
      perm == SortSeq([k \in DOMAIN sizes |-> k - 1], Before)
  IN  [perm |-> perm, indices |-> MismatchIndices([k \in DOMAIN perm |-> sizes[perm[k] + 1]])]
=============================================================================
