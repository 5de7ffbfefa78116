------------------------- MODULE BalancedDistribution -------------------------
(* std_e/algorithm/distribution/weighted.hpp: the elements of several blocks,   *)
(* where an element of a block weighs as much as the block says, are cut into   *)
(* dist_sz slots of about the same weight. balanced_distribution walks over the *)
(* bounds and the blocks at the same time and carries what it could not cut     *)
(* from one bound to the next; elements_in_interval finds which elements of     *)
(* which block are in a slot.                                                   *)
(* block_size[b], block_weight[b] and the bounds are numbered from 1.           *)
EXTENDS Distribution, FiniteSetsExt

CONSTANTS Slots,     \* the numbers of slots
          NBlock,    \* the number of blocks
          MaxBlock,  \* the largest size of a block
          Weights,   \* the weights of an element
          LastWeighs \* whether the last elements must have a weight

ASSUME BalancedAssumption ==
  /\ Slots \subseteq Nat \ {0} /\ NBlock \in Nat \ {0} /\ MaxBlock \in Nat
  /\ Weights \subseteq Nat /\ LastWeighs \in BOOLEAN

VARIABLES block_size, block_weight, n_slot,
          bound,          \* the index of *first: the bound being computed
          dist, weighted, \* [first,last) and [first_weighted,...)
          block,          \* the index of *first_size and *first_weights
          partial_size,   \* the elements of this block that are already placed
          weighted_size,  \* what remains to be placed before the bound
          size            \* the elements placed since the previous bound

inputVars == <<block_size, block_weight, n_slot>>
loopVars == <<bound, dist, weighted, block, partial_size, weighted_size, size>>
balancedVars == <<inputVars, loopVars>>

Blocks == 1 .. NBlock
(* The weight of the first n blocks: std::inner_product for n = NBlock.         *)
WeightedSize(n) == MapThenSumSet(LAMBDA b : block_size[b] * block_weight[b], 1 .. n)

BalancedInit ==
  /\ n_slot \in Slots
  /\ block_size \in [Blocks -> 0 .. MaxBlock]
  /\ block_weight \in [Blocks -> Weights]
  /\ LastWeighs => \A b \in Blocks :
       block_size[b] > 0 /\ (\A c \in b + 1 .. NBlock : block_size[c] = 0)
         => block_weight[b] > 0
  /\ dist = UniformKnots(0, WeightedSize(NBlock), n_slot)
  /\ weighted = <<0>>
  /\ bound = 2
  /\ block = 1
  /\ partial_size = 0
  /\ weighted_size = dist[2]
  /\ size = 0

(* 1.0: the rest of the block fits before the bound.                            *)
Complete(left_in_block) ==
  LET remaining_first_size == block_size[block] - partial_size
      w_sz == remaining_first_size * block_weight[block]
  IN  /\ bound <= n_slot + 1
      /\ weighted_size > w_sz
      /\ weighted_size' = weighted_size - w_sz
      /\ size' = size + remaining_first_size
      /\ block' = block + 1
      /\ partial_size' = left_in_block
      /\ UNCHANGED <<inputVars, bound, dist, weighted>>
(* Mutant: partial_size is not reset for the next block.                        *)
CompleteBlockNoReset == Complete(partial_size)
CompleteBlock == Complete(0)

(* 1.1: how many elements of weight w fit before the bound, and what is left.   *)
Fitting(w) == IF weighted_size > 0 THEN weighted_size \div w ELSE 0
Remainder(w) == IF weighted_size > 0 THEN weighted_size % w ELSE 0

(* 1.1 and 1.2: the bound is in this block; what its elements are too heavy to  *)
(* fill is left to the next slot.                                               *)
ReachBound ==
  LET w == block_weight[block]
      cur_partial_size == Fitting(w)
      prev_weighted_size == dist[bound] - Remainder(w)
  IN  /\ bound <= n_slot + 1
      /\ weighted_size <= (block_size[block] - partial_size) * w
      /\ partial_size' = partial_size + cur_partial_size
      /\ dist' = [dist EXCEPT ![bound] = dist[bound - 1] + size + cur_partial_size]
      /\ weighted' = Append(weighted, prev_weighted_size)
      /\ bound' = bound + 1
      /\ weighted_size' = IF bound <= n_slot THEN dist[bound + 1] - prev_weighted_size
                          ELSE weighted_size
      /\ size' = 0
      /\ UNCHANGED <<inputVars, block>>

BalancedNext == CompleteBlock \/ ReachBound

BalancedSpec == BalancedInit /\ [][BalancedNext]_balancedVars

-----------------------------------------------------------------------------
(* The first block, from a given one, that brings the weighted size up to x.    *)
FirstReaching(x, from) ==
  CHOOSE b \in from .. NBlock :
    WeightedSize(b) >= x /\ \A c \in from .. b - 1 : WeightedSize(c) < x

(* Where the interval ends in block i, when the block goes beyond it.           *)
Upper(i, elt_after_sup) == block_size[i] - elt_after_sup

(* elements_in_interval(inf,sup,...): in each block, the elements [lo,hi) that  *)
(* are in a slot. A block of weight 0 may be divided by: see block_weight.      *)
ElementsInInterval(inf, sup) ==
  LET i == FirstReaching(inf, 1)
      k == FirstReaching(sup, i + 1)
      elt_before_inf == (inf - WeightedSize(i - 1)) \div block_weight[i]
      elt_after_sup == (WeightedSize(i) - sup) \div block_weight[i]
      elt_before_sup == (sup - WeightedSize(k - 1)) \div block_weight[k]
      Lo(b) == IF b < i THEN block_size[b] ELSE IF b = i THEN elt_before_inf ELSE 0
      Hi(b) == IF b < i THEN block_size[b]
               ELSE IF WeightedSize(i) > sup
                 THEN IF b = i THEN Upper(i, elt_after_sup) ELSE 0
               ELSE IF b = i \/ (i < NBlock /\ b < k) THEN block_size[b]
               ELSE IF b = k THEN elt_before_sup ELSE 0
  IN  [b \in Blocks |-> [lo |-> Lo(b), hi |-> Hi(b)]]

-----------------------------------------------------------------------------
Computed == bound - 1     \* the number of bounds that are final
Ideal == UniformKnots(0, WeightedSize(NBlock), n_slot)
SizeUpto(n) == MapThenSumSet(LAMBDA b : block_size[b], 1 .. n)

(* No block is read past the last one: what a bound leaves is never more than   *)
(* what the blocks still hold, thanks to the remainder that is carried.         *)
BlocksAreEnough == bound <= n_slot + 1 => block <= NBlock

(* The j-th bound, counted in elements, and the j-th weighted bound are the     *)
(* same place: the first dist[j] elements weigh weighted[j]. "take as much      *)
(* element as possible, but do not cross the bound": it is before the ideal     *)
(* one, by less than the weight of one element.                                 *)
WeightOfFirst(n) ==
  MapThenSumSet(LAMBDA b : block_weight[b] *
            Min({block_size[b], Max({0, n - SizeUpto(b - 1)})}), Blocks)
BoundsAreClose ==
  \A j \in 1 .. Computed :
    /\ WeightOfFirst(dist[j]) = weighted[j]
    /\ weighted[j] <= Ideal[j]
    /\ Ideal[j] - weighted[j] < Max({1} \cup {block_weight[b] : b \in Blocks})
    /\ j > 1 => dist[j - 1] <= dist[j]

(* "Ensures that the last bound is exactly the sum all all block sizes"         *)
(* (weighted.hpp:55).                                                           *)
LastBoundIsTheSize == bound = n_slot + 2 => dist[n_slot + 1] = SizeUpto(NBlock)

(* The slots, as elements_in_interval finds them from the weighted bounds, tile *)
(* the blocks: each starts where the previous one ended, and holds as many      *)
(* elements as the distribution says.                                           *)
SlotsTileTheBlocks ==
  bound = n_slot + 2 /\ WeightedSize(NBlock) > 0 /\ (\A b \in Blocks : block_weight[b] > 0) =>
    LET In(s) == ElementsInInterval(weighted[s], weighted[s + 1])
    IN  \A s \in 1 .. n_slot :
          /\ MapThenSumSet(LAMBDA b : In(s)[b].hi - In(s)[b].lo, Blocks)
               = dist[s + 1] - dist[s]
          /\ \A b \in Blocks : In(s)[b].lo <= In(s)[b].hi
          /\ s < n_slot => \A b \in Blocks :
               In(s)[b].lo < In(s)[b].hi /\ In(s + 1)[b].lo < In(s + 1)[b].hi
                 => In(s + 1)[b].lo = In(s)[b].hi

(* The slots of a weighted distribution: their bounds are where the weights say *)
(* they should be, none is skipped, and what elements_in_interval reads back    *)
(* from them tiles the blocks.                                                  *)
SlotsAreBalanced == BoundsAreClose /\ SlotsTileTheBlocks

=============================================================================
