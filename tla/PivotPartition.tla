---------------------------- MODULE PivotPartition ----------------------------
(* pivot_partition and its variants: a range is partitioned by the middle       *)
(* pivot, then each side is by the pivots of its side, recursively. The calls   *)
(* that remain to be made are a stack; the elements are compared only, so that  *)
(* small numbers stand for them.                                                *)
EXTENDS Integers, Sequences, FiniteSets

CONSTANTS MaxLen,    \* the largest length of the range
          MaxPivot,  \* the largest number of pivots
          NValue     \* the elements are in 1..NValue, the pivots in 1..NValue+1

ASSUME PivotAssumption ==
  MaxLen \in Nat /\ MaxPivot \in Nat /\ NValue \in Nat \ {0}

VARIABLES variant, input, pivots,  \* the arguments
          x,      \* the range
          out,    \* the partition indices; -1 where nothing is written
          stack,  \* the calls, the current one first: [first,last) of x,
                  \* [pf,pl) of the pivots, at: where out_first points
          scan    \* the variables f, n, l of pivot_partition_eq; <<>> outside it

argVars == <<variant, input, pivots>>
pivotVars == <<argVars, x, out, stack, scan>>

(* less: pivot_partition_indices; point: pivot_partition_point_indices;         *)
(* sort: partition_sort_indices; eq: pivot_partition_eq_indices.                *)
Variants == {"less", "point", "sort", "eq"}
Values == 1 .. NValue
Sorted(s) == \A i, j \in 1 .. Len(s) : i < j => s[i] <= s[j]
SeqUpto(S, n) == UNION {[1 .. m -> S] : m \in 0 .. n}
CountIn(s, inf, sup, P(_)) == Cardinality({i \in inf + 1 .. sup : P(s[i])})
Count(s, P(_)) == CountIn(s, 0, Len(s), P)
Rearranged(s, t) == \A v \in Values : Count(s, LAMBDA e : e = v) = Count(t, LAMBDA e : e = v)
PartitionedBy(s, inf, sup, piv) ==
  \A i, j \in inf + 1 .. sup : i < j /\ s[j] < piv => s[i] < piv

OutSize == IF variant = "eq" THEN 2 * Len(pivots) ELSE Len(pivots)

PivotInit ==
  /\ variant \in Variants
  /\ input \in SeqUpto(Values, MaxLen)
  /\ pivots \in SeqUpto(1 .. NValue + 1, MaxPivot)
  /\ Sorted(pivots)
  /\ variant = "point" =>
       \A p \in 1 .. Len(pivots) : PartitionedBy(input, 0, Len(input), pivots[p])
  /\ x = input
  /\ out = [i \in 1 .. OutSize |-> -1]
  /\ stack = <<[first |-> 0, last |-> Len(input), pf |-> 0, pl |-> Len(pivots), at |-> 0]>>
  /\ scan = <<>>

Top == stack[1]
Mid == Top.pf + (Top.pl - Top.pf) \div 2        \* piv_mid
Pivot == pivots[Mid + 1]
At == Top.at + Mid - Top.pf                     \* pi_mid

Returns == stack # <<>> /\ Top.pf = Top.pl

(* The early return for no pivot.                                               *)
Return ==
  /\ Returns
  /\ stack' = Tail(stack)
  /\ UNCHANGED <<argVars, x, out, scan>>

(* Mutant: both sides are given the same place of the output.                   *)
RecurseSamePlace(mid_inf, mid_sup, right_pf, left_at, right_at) ==
  stack' = (IF Top.pl - Top.pf > 1
              THEN <<[Top EXCEPT !.last = mid_inf, !.pl = Mid, !.at = left_at],
                     [Top EXCEPT !.first = mid_sup, !.pf = right_pf, !.at = left_at]>>
              ELSE <<>>)
           \o Tail(stack)
(* The two recursive calls, if (k>1).                                           *)
Recurse(mid_inf, mid_sup, right_pf, left_at, right_at) ==
  stack' = (IF Top.pl - Top.pf > 1
              THEN <<[Top EXCEPT !.last = mid_inf, !.pl = Mid, !.at = left_at],
                     [Top EXCEPT !.first = mid_sup, !.pf = right_pf, !.at = right_at]>>
              ELSE <<>>)
           \o Tail(stack)

(* std::partition leaves the elements of each side in any order;                *)
(* std::partition_point moves none.                                             *)
Partitions ==
  IF variant = "point" THEN {x}
  ELSE {y \in [1 .. Len(x) -> Values] :
          /\ \A i \in (1 .. Top.first) \cup (Top.last + 1 .. Len(x)) : y[i] = x[i]
          /\ Rearranged(x, y)
          /\ PartitionedBy(y, Top.first, Top.last, Pivot)}

Index(pp_mid) == pp_mid

(* The variants that split a range in two. partition_sort gives the middle      *)
(* pivot to its right side again.                                               *)
Partition ==
  LET pp_mid == Top.first + CountIn(x, Top.first, Top.last, LAMBDA e : e < Pivot)
  IN  /\ stack # <<>> /\ ~Returns /\ variant # "eq"
      /\ x' \in Partitions
      /\ out' = [out EXCEPT ![At + 1] = Index(pp_mid)]
      /\ IF variant = "sort" THEN Recurse(pp_mid, pp_mid, Mid, Top.at, At)
         ELSE Recurse(pp_mid, pp_mid, Mid + 1, Top.at, At + 1)
      /\ UNCHANGED <<argVars, scan>>

(* pivot_partition_eq: [first,f) is below the pivot, [f,n) is equal to it,      *)
(* [l,last) is above it, [n,l) is not looked at yet.                            *)
ScanBegin ==
  /\ stack # <<>> /\ ~Returns /\ variant = "eq" /\ scan = <<>>
  /\ scan' = [f |-> Top.first, n |-> Top.first, l |-> Top.last]
  /\ UNCHANGED <<argVars, x, out, stack>>

Swapped(i, j) == [x EXCEPT ![i + 1] = x[j + 1], ![j + 1] = x[i + 1]]

Scanning == scan # <<>> /\ scan.n # scan.l
ScanBelow ==
  /\ Scanning /\ x[scan.n + 1] < Pivot
  /\ x' = Swapped(scan.f, scan.n)
  /\ scan' = [scan EXCEPT !.f = @ + 1, !.n = @ + 1]
  /\ UNCHANGED <<argVars, out, stack>>
ScanAbove ==
  /\ Scanning /\ x[scan.n + 1] > Pivot
  /\ x' = Swapped(scan.l - 1, scan.n)
  /\ scan' = [scan EXCEPT !.l = @ - 1]
  /\ UNCHANGED <<argVars, out, stack>>
ScanEqual ==
  /\ Scanning /\ x[scan.n + 1] = Pivot
  /\ scan' = [scan EXCEPT !.n = @ + 1]
  /\ UNCHANGED <<argVars, x, out, stack>>
ScanEnd ==
  LET pi_mid_inf == Top.at + 2 * (Mid - Top.pf)
  IN  /\ scan # <<>> /\ scan.n = scan.l
      /\ out' = [out EXCEPT ![pi_mid_inf + 1] = Index(scan.f), ![pi_mid_inf + 2] = Index(scan.l)]
      /\ Recurse(scan.f, scan.l, Mid + 1, Top.at, pi_mid_inf + 2)
      /\ scan' = <<>>
      /\ UNCHANGED <<argVars, x>>

PivotNext == Return \/ Partition \/ ScanBegin \/ ScanBelow \/ ScanAbove \/ ScanEqual \/ ScanEnd

PivotSpec == PivotInit /\ [][PivotNext]_pivotVars

-----------------------------------------------------------------------------
(* A partition index that is written is not written again with another value,   *)
(* although partition_sort computes some of them twice.                         *)
WrittenIsKept == \A i \in 1 .. OutSize : out[i] # -1 => out'[i] = out[i]
IndicesAreFinal == [][WrittenIsKept]_pivotVars

(* In the end out[j] is the number of elements below the j-th pivot. For eq,    *)
(* out[2j-1] and out[2j] enclose the elements that are equal to the j-th pivot; *)
(* of several equal pivots one has them all and the others have none. It is     *)
(* what sort_by_rank takes for the ranks of its pivots.                         *)
IndicesAreCounts ==
  stack = <<>> =>
    \A p \in 1 .. Len(pivots) :
      LET below == Count(input, LAMBDA e : e < pivots[p])
          upto == Count(input, LAMBDA e : e <= pivots[p])
          Same == {q \in 1 .. Len(pivots) : pivots[q] = pivots[p]}
      IN  IF variant # "eq" THEN out[p] = below
          ELSE \E owner \in Same :
                 \A q \in Same : /\ out[2 * q - 1] = IF q <= owner THEN below ELSE upto
                                 /\ out[2 * q] = IF q < owner THEN below ELSE upto

(* A sub-range is where the pivots of its call are to be looked for, and only   *)
(* there: its elements are between the pivots that neighbour them, the elements *)
(* before it are below them or, for eq, at most equal, those after it are not   *)
(* below. The two sides never need to be looked at together again, although     *)
(* partition_sort keeps a pivot that it has already used.                       *)
RecursionNarrows ==
  \A c \in 1 .. Len(stack) :
    LET call == stack[c]
    IN  /\ \A a \in call.first + 1 .. call.last :
             /\ call.pf > 0 => pivots[call.pf] < x[a] \/ (variant # "eq" /\ pivots[call.pf] = x[a])
             /\ call.pl < Len(pivots) => x[a] < pivots[call.pl + 1]
        /\ \A q \in call.pf + 1 .. call.pl :
             /\ \A a \in 1 .. call.first : x[a] < pivots[q] \/ (variant = "eq" /\ x[a] = pivots[q])
             /\ \A a \in call.last + 1 .. Len(x) : pivots[q] <= x[a]

(* No element is lost or duplicated, the recursion looks for each pivot where   *)
(* it has to be, and in the end every pivot partitions the whole range, at the  *)
(* index that is written for it.                                                *)
RangeIsPartitioned ==
  /\ IndicesAreCounts
  /\ RecursionNarrows
  /\ Rearranged(x, input)
  /\ stack = <<>> => \A p \in 1 .. Len(pivots) : PartitionedBy(x, 0, Len(x), pivots[p])

=============================================================================
