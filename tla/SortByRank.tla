------------------------------ MODULE SortByRank ------------------------------
(* sort_by_rank and sort: the ranks look together for the places where to cut   *)
(* their arrays, so that the j-th buckets of all of them, put on rank j, make   *)
(* the sorted array. Each rank has its own variables and goes on by what the    *)
(* collective operations return; a collective operation is one step, when all   *)
(* the ranks have come to it.                                                   *)
(* What std::partition leaves inside a part is in any order: x[r] is kept       *)
(* sorted, and the elements a sample finds at given places of a part are any    *)
(* elements of it. PivotPartition is the partition itself.                      *)
EXTENDS Distribution, SequencesExt

CONSTANT Shapes  \* the bounds of the inputs that are sorted: records of

ASSUME SortAssumption ==
  \A s \in Shapes :
    /\ s.n_rank \in Nat \ {0}      \* the number of ranks
    /\ s.n_value \in Nat \ {0}     \* the elements are in 1..n_value
    /\ s.totals \subseteq Nat      \* the numbers of elements
    /\ s.occur \in Nat             \* no element occurs more often than that
    /\ s.max_shift \in Nat         \* the largest max_interval_tick_shift
    /\ s.max_iter \in Nat          \* the iterations it gives up after: 64 in the code

VARIABLES shape,
          x,             \* the arrays
          shift,         \* max_interval_tick_shift
          sz_tot,        \* the sum of the sizes
          pc,            \* what each rank comes to
          rank_indices,  \* its cuts
          sub_ins, new_sub_ins,
          pivots,        \* pivots_by_sub_intervals
          i,             \* the sub-interval it is at
          sample,        \* sample_local: values, increasing
          partition,     \* partition_indices_sub
          tot,           \* partition_indices_sub_tot
          n_iter,
          x_part,        \* what it receives
          new_distri

inVars == <<shape, x, shift, sz_tot>>
loopVars == <<sub_ins, new_sub_ins, i, n_iter>>
sortVars == <<inVars, pc, rank_indices, loopVars, pivots, sample, partition, tot, x_part, new_distri>>

-----------------------------------------------------------------------------
NbRanks == shape.n_rank
AllRanks == 1 .. NbRanks
Values == 1 .. shape.n_value

AllAt(where) == \A r \in AllRanks : pc[r] = where
(* The steps that are local to a rank commute with those of the others: the     *)
(* ranks do them in order.                                                      *)
Turn(r, where) == pc[r] = where /\ \A q \in 1 .. r - 1 : pc[q] # where
Sum(f) == SumFunction(f)                        \* MPI_SUM
InOrder(K) ==                                   \* the integers of K, increasing
  [n \in 1 .. Cardinality(K) |-> CHOOSE k \in K : Cardinality({j \in K : j < k}) = n - 1]

(* The arrays, each one sorted, by how often each element occurs on each rank.  *)
Occurrences == {c \in [AllRanks -> 0 .. shape.occur] : Sum(c) <= shape.occur}
Arrays(occurs) ==
  [r \in AllRanks |-> FlattenSeq([v \in Values |-> [n \in 1 .. occurs[v][r] |-> v]])]
OnEach(v) == [r \in AllRanks |-> v]

SortInit ==
  /\ shape \in Shapes
  /\ \E occurs \in [Values -> Occurrences] :
       /\ sz_tot = Sum([v \in Values |-> Sum(occurs[v])])
       /\ sz_tot \in shape.totals
       /\ x = Arrays(occurs)
  /\ shift \in 0 .. shape.max_shift
  /\ pc = OnEach("sample once")
  /\ n_iter = OnEach(0) /\ i = OnEach(1)
  /\ rank_indices = OnEach(<<>>) /\ sub_ins = OnEach(<<>>) /\ new_sub_ins = OnEach(<<>>)
  /\ pivots = OnEach(<<>>) /\ sample = OnEach(<<>>) /\ partition = OnEach(<<>>) /\ tot = OnEach(<<>>)
  /\ x_part = OnEach(<<>>) /\ new_distri = OnEach(<<>>)

(* n values of the part [inf,sup) of rank r, wherever they are in it.           *)
SampleOf(r, inf, sup, n) ==
  {SortSeq([m \in 1 .. n |-> x[r][InOrder(S)[m]]], <) : S \in kSubset(n, inf + 1 .. sup)}

(* Mutant: the samples are not gathered.                                        *)
GatheredNot(r) == LET own == sample[r] IN IF own = <<>> THEN <<1>> ELSE own
Gathered(r) == SortSeq(FlattenSeq(sample), <)

(* find_pivots_by_sampling: exactly n_pivot values of the gathered sample.      *)
PivotsOf(all, n_pivot) ==
  LET n_sample == Len(all)
      index == SampleExcludeEnds(n_sample, n_pivot)
  IN  [n \in 1 .. n_pivot |-> IF n_sample >= n_pivot THEN all[index[n] + 1]
                             ELSE IF n <= n_sample THEN all[n] ELSE all[n_sample]]

(* pivot_partition_indices and pivot_partition_eq_indices of the part [inf,sup) *)
(* of rank r, in places of x[r]. Of equal pivots, the first one that the        *)
(* recursion comes to has the elements that are equal to it.                    *)
Below(r, inf, sup, v) == inf + Cardinality({n \in inf + 1 .. sup : x[r][n] < v})
FirstReached(same, k) ==
  LET Reached[lo \in 0 .. k, hi \in 0 .. k] ==
        LET mid == lo + ((hi - lo) \div 2)
        IN  IF mid + 1 \in same THEN mid + 1
            ELSE IF \A p \in same : p > mid + 1 THEN Reached[mid + 1, hi]
            ELSE Reached[lo, mid]
  IN  Reached[0, k]

LessIndices(r, piv) ==
  LET n == Len(x[r])
  IN  <<0>> \o [p \in 1 .. Len(piv) |-> Below(r, 0, n, piv[p])] \o <<n>>

EqIndices(r, inf, sup, piv) ==
  LET k == Len(piv)
      Owner(p) == FirstReached({q \in 1 .. k : piv[q] = piv[p]}, k)
      LessThan(v) == Below(r, inf, sup, v)
      Inf(p) == IF p <= Owner(p) THEN LessThan(piv[p]) ELSE LessThan(piv[p] + 1)
      Sup(p) == IF p < Owner(p) THEN LessThan(piv[p]) ELSE LessThan(piv[p] + 1)
  IN  <<inf>> \o [n \in 1 .. 2 * k |-> IF n % 2 = 1 THEN Inf((n + 1) \div 2)
                                       ELSE Sup(n \div 2)] \o <<sup>>

ObjectiveTicks(position, n_tick) ==
  [t \in 1 .. n_tick |-> UniformDistributionPoint(sz_tot, NbRanks, position + t)]

(* Mutant: a far tick is looked for in all of the part again.                   *)
SubIntervalsWide(ticks, knots, local, offset, eq) ==
  LET FarIn(k) == FarTicks(ticks, knots, shift, eq, k)
      ks == InOrder({k \in 0 .. Len(knots) - 2 : FarIn(k) # {}})
  IN  [n \in 1 .. Len(ks) |->
         [inf |-> local[1], sup |-> local[Len(local)],
          n_tick |-> Cardinality(FarIn(ks[n])),
          position |-> offset + CHOOSE t \in FarIn(ks[n]) : \A u \in FarIn(ks[n]) : t <= u]]
(* 1.2: the sub-intervals that still contain far ticks.                         *)
SubIntervals(ticks, knots, local, offset, eq) ==
  LET FarIn(k) == FarTicks(ticks, knots, shift, eq, k)
      ks == InOrder({k \in 0 .. Len(knots) - 2 : FarIn(k) # {}})
  IN  [n \in 1 .. Len(ks) |->
         [inf |-> local[ks[n] + 1], sup |-> local[ks[n] + 2],
          n_tick |-> Cardinality(FarIn(ks[n])),
          position |-> offset + CHOOSE t \in FarIn(ks[n]) : \A u \in FarIn(ks[n]) : t <= u]]

(* Mutant: the indices are read where they are being written.                   *)
ReadInPlace(written, local) == IF Len(written) = Len(local) THEN written ELSE local
ReadAside(written, local) == local
(* 1.3: the ticks that are found.                                               *)
Report(indices, ticks, knots, local, offset, eq) ==
  FoldLeft(LAMBDA written, t :
             [written EXCEPT ![2 + offset + t] =
                ReadAside(written, local)
                  [NearKnot(ticks[t + 1], knots, ContainingInterval(ticks[t + 1], knots), shift, eq) + 1]],
           indices, InOrder(NearTicks(ticks, knots, shift, eq)))

(* all_reduce of one list of indices per rank.                                  *)
AllReduce(local) ==
  [n \in 1 .. Len(local[1]) |-> Sum([r \in AllRanks |-> local[r][n]])]

-----------------------------------------------------------------------------
(* Where a rank goes when it has the sub-intervals s: the loop condition and    *)
(* the exception.                                                               *)
LoopHead(s, n) ==
  IF s = <<>> THEN "exchange" ELSE IF n > shape.max_iter THEN "thrown" ELSE "sample"

(* sort_by_rank_once: as many values as uniform_sample_local takes.             *)
SampleOnce(r) ==
  LET n_pivot == NbRanks - 1
      n_sample == IF sz_tot < 3 * n_pivot THEN sz_tot ELSE 3 * n_pivot
      start == Sum([q \in 1 .. r - 1 |-> Len(x[q])])
      indices == UniformTicksInSubInterval(start, start + Len(x[r]), sz_tot, n_sample)
  IN  /\ Turn(r, "sample once")
      /\ \E values \in SampleOf(r, 0, Len(x[r]), Len(indices)) :
           sample' = [sample EXCEPT ![r] = values]
      /\ pc' = [pc EXCEPT ![r] = "gather once"]
      /\ UNCHANGED <<inVars, rank_indices, loopVars, pivots, partition, tot, x_part, new_distri>>

GatherOnce ==
  /\ AllAt("gather once")
  /\ pivots' = [r \in AllRanks |-> IF sz_tot = 0 THEN <<>> ELSE <<PivotsOf(Gathered(r), NbRanks - 1)>>]
  /\ sample' = OnEach(<<>>)
  /\ pc' = OnEach("partition once")
  /\ UNCHANGED <<inVars, rank_indices, loopVars, partition, tot, x_part, new_distri>>

PartitionOnce(r) ==
  LET indices == IF sz_tot = 0 THEN [n \in 1 .. NbRanks + 1 |-> 0] ELSE LessIndices(r, pivots[r][1])
  IN  /\ Turn(r, "partition once")
      /\ partition' = [partition EXCEPT ![r] = indices]
      /\ rank_indices' = [rank_indices EXCEPT ![r] = indices]
      /\ pivots' = [pivots EXCEPT ![r] = <<>>]
      /\ pc' = [pc EXCEPT ![r] = "reduce once"]
      /\ UNCHANGED <<inVars, loopVars, sample, tot, x_part, new_distri>>

(* compute_intervals_containing_ticks3.                                         *)
NarrowOnce(r) ==
  LET ticks == ObjectiveTicks(0, NbRanks - 1)
      new == <<>> \o SubIntervals(ticks, tot[r], partition[r], 0, FALSE)
  IN  /\ Turn(r, "narrow once")
      /\ sub_ins' = [sub_ins EXCEPT ![r] = new]
      /\ rank_indices' = [rank_indices EXCEPT ![r] =
                             Report(@, ticks, tot[r], partition[r], 0, FALSE)]
      /\ n_iter' = [n_iter EXCEPT ![r] = IF new = <<>> THEN @ ELSE @ + 1]
      /\ pc' = [pc EXCEPT ![r] = LoopHead(new, n_iter[r])]
      /\ partition' = [partition EXCEPT ![r] = <<>>]
      /\ tot' = [tot EXCEPT ![r] = <<>>]
      /\ UNCHANGED <<inVars, new_sub_ins, i, pivots, sample, x_part, new_distri>>

(* find_pivots, for one sub-interval: median_of_3_sample_mod, then all_gather.  *)
Sub(r) == sub_ins[r][i[r]]
SampleSub(r) ==
  LET length == Sub(r).sup - Sub(r).inf
  IN  /\ Turn(r, "sample")
      /\ \E values \in SampleOf(r, Sub(r).inf, Sub(r).sup, IF length >= 3 THEN 3 ELSE length) :
           sample' = [sample EXCEPT ![r] = values]
      /\ pc' = [pc EXCEPT ![r] = "gather"]
      /\ UNCHANGED <<inVars, rank_indices, loopVars, pivots, partition, tot, x_part, new_distri>>

IsLast(r) == i[r] = Len(sub_ins[r])
GatherSub ==
  /\ AllAt("gather")
  /\ pivots' = [r \in AllRanks |-> Append(pivots[r], PivotsOf(Gathered(r), Sub(r).n_tick))]
  /\ sample' = OnEach(<<>>)
  /\ pc' = [r \in AllRanks |-> IF IsLast(r) THEN "partition" ELSE "sample"]
  /\ i' = [r \in AllRanks |-> IF IsLast(r) THEN 1 ELSE i[r] + 1]
  /\ UNCHANGED <<inVars, rank_indices, sub_ins, new_sub_ins, n_iter, partition, tot,
                 x_part, new_distri>>

(* 2.0, for one sub-interval.                                                   *)
PartitionSub(r) ==
  /\ Turn(r, "partition")
  /\ partition' = [partition EXCEPT ![r] = EqIndices(r, Sub(r).inf, Sub(r).sup, pivots[r][i[r]])]
  /\ pc' = [pc EXCEPT ![r] = "reduce"]
  /\ UNCHANGED <<inVars, rank_indices, loopVars, pivots, sample, tot, x_part, new_distri>>

(* all_reduce(partition_indices_sub).                                           *)
Reduce(where, next) ==
  /\ AllAt(where)
  /\ tot' = OnEach(AllReduce(partition))
  /\ pc' = OnEach(next)
  /\ UNCHANGED <<inVars, rank_indices, loopVars, pivots, sample, partition, x_part, new_distri>>

(* 2.1, compute_interval_containing_ticks2; step 3 after the last sub-interval. *)
NarrowSub(r) ==
  LET ticks == ObjectiveTicks(Sub(r).position, Sub(r).n_tick)
      new == new_sub_ins[r] \o SubIntervals(ticks, tot[r], partition[r], Sub(r).position, TRUE)
  IN  /\ Turn(r, "narrow")
      /\ rank_indices' = [rank_indices EXCEPT ![r] =
                             Report(@, ticks, tot[r], partition[r], Sub(r).position, TRUE)]
      /\ partition' = [partition EXCEPT ![r] = <<>>]
      /\ tot' = [tot EXCEPT ![r] = <<>>]
      /\ IF IsLast(r)
           THEN /\ sub_ins' = [sub_ins EXCEPT ![r] = new]
                /\ new_sub_ins' = [new_sub_ins EXCEPT ![r] = <<>>]
                /\ pivots' = [pivots EXCEPT ![r] = <<>>]
                /\ i' = [i EXCEPT ![r] = 1]
                /\ n_iter' = [n_iter EXCEPT ![r] = IF new = <<>> THEN @ ELSE @ + 1]
                /\ pc' = [pc EXCEPT ![r] = LoopHead(new, n_iter[r])]
           ELSE /\ new_sub_ins' = [new_sub_ins EXCEPT ![r] = new]
                /\ i' = [i EXCEPT ![r] = @ + 1]
                /\ pc' = [pc EXCEPT ![r] = "partition"]
                /\ UNCHANGED <<sub_ins, pivots, n_iter>>
      /\ UNCHANGED <<inVars, sample, x_part, new_distri>>

(* Mutant: the last element of a bucket is left behind.                         *)
BucketShort(q, r) == SubSeq(x[q], rank_indices[q][r] + 1, rank_indices[q][r + 1] - 1)
(* What rank q has for rank r.                                                  *)
Bucket(q, r) == SubSeq(x[q], rank_indices[q][r] + 1, rank_indices[q][r + 1])

(* sort: all_to_all and all_reduce, by the cuts.                                *)
Exchange ==
  /\ AllAt("exchange")
  /\ x_part' = [r \in AllRanks |-> FlattenSeq([q \in AllRanks |-> Bucket(q, r)])]
  /\ new_distri' = [r \in AllRanks |-> AllReduce(rank_indices)]
  /\ pc' = [r \in AllRanks |-> "local sort"]
  /\ UNCHANGED <<inVars, rank_indices, loopVars, pivots, sample, partition, tot>>

LocalSort(r) ==
  /\ Turn(r, "local sort")
  /\ x_part' = [x_part EXCEPT ![r] = SortSeq(@, <)]
  /\ pc' = [pc EXCEPT ![r] = "done"]
  /\ UNCHANGED <<inVars, rank_indices, loopVars, pivots, sample, partition, tot, new_distri>>

Ended == \A r \in AllRanks : pc[r] \in {"done", "thrown"}
Stop == Ended /\ UNCHANGED sortVars

SortNext ==
  \/ \E r \in AllRanks : \/ SampleOnce(r) \/ PartitionOnce(r) \/ NarrowOnce(r)
                      \/ SampleSub(r) \/ PartitionSub(r) \/ NarrowSub(r) \/ LocalSort(r)
  \/ GatherOnce \/ Reduce("reduce once", "narrow once")
  \/ GatherSub \/ Reduce("reduce", "narrow")
  \/ Exchange \/ Stop

SortSpec == SortInit /\ [][SortNext]_sortVars

-----------------------------------------------------------------------------
(* The ranks that come to a collective operation come to the same one, for the   *)
(* same sub-interval of as many, with the same number of pivots and of indices: *)
(* if one had another number of sub-intervals than the others they would wait   *)
(* for each other for ever. When they throw, they throw together.               *)
RanksAgree ==
  \A r, q \in AllRanks :
    {pc[r], pc[q]} \subseteq {"gather once", "reduce once", "gather", "reduce", "exchange", "thrown"} =>
      /\ pc[r] = pc[q]
      /\ i[r] = i[q] /\ n_iter[r] = n_iter[q] /\ pivots[r] = pivots[q]
      /\ Len(partition[r]) = Len(partition[q])
      /\ Len(sub_ins[r]) = Len(sub_ins[q])
      /\ \A s \in 1 .. Len(sub_ins[r]) :
           /\ sub_ins[r][s].n_tick = sub_ins[q][s].n_tick
           /\ sub_ins[r][s].position = sub_ins[q][s].position

(* cut[r], for all ranks r, is a cut of the whole array: what is before it on   *)
(* any rank is smaller than what is after it on any rank.                       *)
IsCut(cut) ==
  \A r, q \in AllRanks : cut[r] > 0 /\ cut[q] < Len(x[q]) => x[r][cut[r]] < x[q][cut[q] + 1]
Total(cut) == Sum(cut)

(* The ends of a sub-interval are cuts of the whole array, and its ticks are    *)
(* inside it, far from the ends: the interval is not empty (or there would be   *)
(* no sample to take a pivot from), and it never needs what is outside it.      *)
SubInf(s) == [r \in AllRanks |-> sub_ins[r][s].inf]
SubSup(s) == [r \in AllRanks |-> sub_ins[r][s].sup]
SubIntervalsAreCuts ==
  AllAt("sample") =>
    \A s \in 1 .. Len(sub_ins[1]) :
      /\ IsCut(SubInf(s)) /\ IsCut(SubSup(s))
      /\ \A t \in 1 .. sub_ins[1][s].n_tick :
           LET tick == UniformDistributionPoint(sz_tot, NbRanks, sub_ins[1][s].position + t)
           IN  Total(SubInf(s)) + shift < tick /\ tick < Total(SubSup(s)) - shift

(* Every iteration takes one element out of every sub-interval at least, its    *)
(* pivot: there are no more iterations than elements.                           *)
IterationsShrink ==
  AllAt("sample") =>
    \A s \in 1 .. Len(sub_ins[1]) : Total(SubSup(s)) - Total(SubInf(s)) < sz_tot - n_iter[1] + 2

(* When the cuts are found, each one is within the accepted shift of its tick,  *)
(* or the tick is inside a run of equal elements and the cut is the nearest end *)
(* of the run.                                                                  *)
CutsAreNear ==
  AllAt("exchange") =>
    \A t \in 1 .. NbRanks - 1 :
      LET cut == Sum([r \in AllRanks |-> rank_indices[r][t + 1]])
          tick == UniformDistributionPoint(sz_tot, NbRanks, t)
          Upto(v) == Cardinality({p \in AllRanks \X (1 .. sz_tot) :
                                    p[2] <= Len(x[p[1]]) /\ x[p[1]][p[2]] <= v})
      IN  \/ Abs(cut - tick) <= shift
          \/ \E v \in Values : /\ cut \in {Upto(v - 1), Upto(v)}
                               /\ Upto(v - 1) < tick /\ tick < Upto(v)
                               /\ \A e \in {Upto(v - 1), Upto(v)} : Abs(cut - tick) <= Abs(e - tick)

(* The cuts converge: while there are ticks left they are inside a sub-interval *)
(* whose ends are cuts, and when there are none left the cut of each tick is    *)
(* where it should be.                                                          *)
CutsConverge == SubIntervalsAreCuts /\ CutsAreNear

(* In the end the array is sorted over the ranks, equal elements are on the     *)
(* same rank, no element is lost, and the new distribution is the sizes.        *)
SortedOverRanks ==
  AllAt("done") =>
    /\ \A r \in AllRanks : \A a, b \in 1 .. Len(x_part[r]) : a < b => x_part[r][a] <= x_part[r][b]
    /\ \A r, q \in AllRanks : r < q =>
         \A a \in 1 .. Len(x_part[r]), b \in 1 .. Len(x_part[q]) : x_part[r][a] < x_part[q][b]
    /\ \A v \in Values :
         Sum([r \in AllRanks |-> Cardinality({n \in 1 .. Len(x[r]) : x[r][n] = v})])
           = Sum([r \in AllRanks |-> Cardinality({n \in 1 .. Len(x_part[r]) : x_part[r][n] = v})])
    /\ \A r \in AllRanks : new_distri[r][r + 1] - new_distri[r][r] = Len(x_part[r])
=============================================================================
