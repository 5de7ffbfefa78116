------------------------------ MODULE QuickSort ------------------------------
(* quicksort, as std_e::ranges::sort calls it: partitions by a median of three  *)
(* until the parts are small, then one insertion sort of the whole range, that  *)
(* tests for the beginning of the range only in its first elements. Positions   *)
(* are numbered from 0 as in the code: the element at position i is             *)
(* sorted[i + 1], and it is known by the place where it was at first.           *)
EXTENDS Integers, SequencesExt

CONSTANTS MaxSorted,  \* the largest size of the range
          SortKeys,   \* what the elements are compared by
          Threshold,  \* 16 in quicksort
          MaxLoop     \* 300 in quicksort_loop

ASSUME QuickSortAssumption ==
  /\ MaxSorted \in Nat /\ MaxLoop \in Nat
  /\ SortKeys \subseteq Int
  /\ Threshold \in Nat \ {0}

VARIABLES keys,     \* the projection of each element
          sorted,   \* the range, in place
          frames,   \* the calls of quicksort_loop, the innermost last
          crossing, \* the two iterators of unguarded_partition, and the pivot
          inserted  \* the size of what insertion_sort has sorted

quickSortVars == <<keys, sorted, frames, crossing, inserted>>

(* make_comp_proj: comp(proj(x), proj(y)).                                      *)
Less(a, b) == keys[a] < keys[b]
ElementAt(rng, pos) == rng[pos + 1]
IterSwap(rng, a, b) == [rng EXCEPT ![a + 1] = rng[b + 1], ![b + 1] = rng[a + 1]]

(* swap_median_of_3_pivot_first: the position of the median, that goes first.   *)
MedianOf3(rng, a, b, c) ==
  LET LessAt(u, v) == Less(ElementAt(rng, u), ElementAt(rng, v))
  IN IF LessAt(a, b) THEN IF LessAt(b, c) THEN b ELSE IF LessAt(a, c) THEN c ELSE a
     ELSE IF LessAt(a, c) THEN a ELSE IF LessAt(b, c) THEN c ELSE b

(* The two inner loops of unguarded_partition: nothing but the elements stops   *)
(* them, and they leave the range if none does.                                 *)
Ascend(rng, from, pivot) ==
  Min({pos \in from .. Len(rng) - 1 : ~Less(ElementAt(rng, pos), pivot)} \cup {Len(rng)})
(* Mutant: the elements that are equal to the pivot are stepped over too.       *)
DescendOverEqual(rng, from, pivot) ==
  Max({pos \in 0 .. from : Less(ElementAt(rng, pos), pivot)} \cup {-1})
Descend(rng, from, pivot) ==
  Max({pos \in 0 .. from : ~Less(pivot, ElementAt(rng, pos))} \cup {-1})

Scanned(rng, first, last, pivot) ==
  [up |-> Ascend(rng, first, pivot), down |-> Descend(rng, last, pivot), pivot |-> pivot]

-----------------------------------------------------------------------------
Frame(first, last, n) == [first |-> first, last |-> last, k |-> n]
Innermost == Last(frames)
Idle == crossing = <<>>

QuickSortInit ==
  /\ \E n \in 0 .. MaxSorted : keys \in [1 .. n -> SortKeys]
  /\ sorted = [pos \in 1 .. Len(keys) |-> pos]
  /\ frames = IF Len(keys) <= Threshold THEN <<>> ELSE <<Frame(0, Len(keys), 0)>>
  /\ crossing = <<>>
  /\ inserted = IF keys = <<>> THEN 0 ELSE 1

InLoop == frames # <<>> /\ Innermost.last - Innermost.first > Threshold /\ Innermost.k < MaxLoop

(* The pivot is a copy of the first element, that moves.                        *)
Partition3 ==
  /\ Idle /\ InLoop
  /\ LET first == Innermost.first
         last == Innermost.last
         rng == IterSwap(sorted, first, MedianOf3(sorted, first, first + (last - first) \div 2, last - 1))
     IN /\ sorted' = rng
        /\ crossing' = <<Scanned(rng, first, last - 1, ElementAt(rng, first))>>
  /\ UNCHANGED <<keys, frames, inserted>>

Cross ==
  /\ ~Idle /\ crossing[1].up < crossing[1].down
  /\ LET c == crossing[1]
         rng == IterSwap(sorted, c.up, c.down)
     IN /\ sorted' = rng
        /\ crossing' = <<Scanned(rng, c.up + 1, c.down - 1, c.pivot)>>
  /\ UNCHANGED <<keys, frames, inserted>>

(* The smaller side by a recursive call, the other one by the loop. The element *)
(* at the cut is in neither.                                                    *)
SplitAtCut ==
  /\ ~Idle /\ crossing[1].up >= crossing[1].down
  /\ LET cut == crossing[1].up
         first == Innermost.first
         last == Innermost.last
         n == Innermost.k + 1
     IN frames' = Front(frames) \o
          IF last - cut < cut - first THEN <<Frame(first, cut, n), Frame(cut + 1, last, 0)>>
          ELSE <<Frame(cut + 1, last, n), Frame(first, cut, 0)>>
  /\ crossing' = <<>>
  /\ UNCHANGED <<keys, sorted, inserted>>

LoopReturns ==
  /\ Idle /\ frames # <<>> /\ ~InLoop
  /\ frames' = Front(frames)
  /\ UNCHANGED <<keys, sorted, crossing, inserted>>

(* linear_insert shifts everything if the value goes first, and is the          *)
(* unguarded one if not; both put it after the last element that is not more.   *)
Stops == {pos \in 0 .. inserted - 1 : ~Less(ElementAt(sorted, inserted), ElementAt(sorted, pos))}
InsertNext ==
  /\ frames = <<>> /\ inserted < Len(sorted)
  /\ sorted' = InsertAt(RemoveAt(sorted, inserted + 1),
                        Max(Stops \cup {-1}) + 2, ElementAt(sorted, inserted))
  /\ inserted' = inserted + 1
  /\ UNCHANGED <<keys, frames, crossing>>

QuickSortNext == Partition3 \/ Cross \/ SplitAtCut \/ LoopReturns \/ InsertNext
QuickSortSpec == QuickSortInit /\ [][QuickSortNext]_quickSortVars
QuickSorted == frames = <<>> /\ inserted = Len(keys)

-----------------------------------------------------------------------------
(* The loops that do not look at the ends of the range stop inside of it: those *)
(* of the partition inside of the part, the unguarded insertion after the first *)
(* element, because the least one is already among the first ones, that were    *)
(* sorted with the guard. In the end the range is sorted, with all its elements.*)
SortsInside ==
  /\ \A n \in DOMAIN crossing :
       /\ Innermost.first <= crossing[n].down /\ crossing[n].down < Innermost.last
       /\ Innermost.first <= crossing[n].up /\ crossing[n].up < Innermost.last
  /\ frames = <<>> /\ inserted \in Threshold .. Len(keys) - 1 => Stops # {}
  /\ ToSet(sorted) = DOMAIN keys
  /\ QuickSorted => \A pos \in 2 .. Len(keys) : ~Less(sorted[pos], sorted[pos - 1])
=============================================================================
