--------------------------- MODULE PermutationOps ----------------------------
(* What the functions of permutation.hpp compute, and the protocols of the      *)
(* exchanges that are made of permutations. Element i of a range s is s[i+1]; a *)
(* permutation holds positions from 0.                                          *)
EXTENDS Integers, Sequences, FiniteSets

(* permute_copy, and inv_permute by way of inverse_permutation.                 *)
Permuted(s, p) == [i \in 1 .. Len(p) |-> s[p[i] + 1]]
InversePermutation(p) == [i \in 1 .. Len(p) |-> (CHOOSE j \in 1 .. Len(p) : p[j] = i - 1) - 1]
InvPermuted(s, p) == Permuted(s, InversePermutation(p))

(* sort_permutation: std::sort is not stable.                                   *)
SortPermutations(s) ==
  {p \in [DOMAIN s -> 0 .. Len(s) - 1] :
     /\ \A i, j \in DOMAIN s : p[i] = p[j] => i = j
     /\ \A i \in 1 .. Len(s) - 1 : s[p[i] + 1] <= s[p[i + 1] + 1]}

(* compose_permutations: p1 after p0.                                           *)
ComposePermutations(p0, p1) == Permuted(p1, p0)

(* unique_permutation: -1 after what is kept.                                   *)
UniquePermutation(s) ==
  LET kept == SelectSeq([k \in DOMAIN s |-> k - 1],
                        LAMBDA pos : IF pos = 0 THEN TRUE ELSE s[pos] # s[pos + 1])
  IN [k \in DOMAIN s |-> IF k <= Len(kept) THEN kept[k] ELSE -1]

(* zip_sort: every range by a permutation that sorts the first one.             *)
ZipSort(rngs) ==
  {[perm |-> p, rngs |-> [k \in DOMAIN rngs |-> Permuted(rngs[k], p)]] :
     p \in SortPermutations(rngs[1])}

(* permute_id, and update_ids_after_permutation: the ids start at an offset.    *)
PermuteIds(ids, p, offset) == [k \in DOMAIN ids |-> p[ids[k] - offset + 1] + offset]
UpdateIdsInRange(ids, p, first, last) ==
  [k \in DOMAIN ids |-> IF first <= ids[k] /\ ids[k] < last THEN p[ids[k] - first + 1] + first
                        ELSE ids[k]]
(* offset_permutation, as a function on the ids that it applies to.             *)
OffsetPermutation(old_offset, new_offset, p) ==
  [id \in old_offset .. old_offset + Len(p) - 1 |-> p[id - old_offset + 1] + new_offset]
(* apply, apply_if with the test that the permutation applies.                  *)
ApplyTo(f, ids) == [k \in DOMAIN ids |-> IF ids[k] \in DOMAIN f THEN f[ids[k]] ELSE ids[k]]

-----------------------------------------------------------------------------
(* create_gather_protocol and create_exchange_protocol: the global ids a rank   *)
(* wants are grouped by the rank that owns them and shifted to positions in its *)
(* part. A distribution is the sequence of the first ids of the parts, and the  *)
(* end of the last one; parts may be empty. Ranks, ids and positions are        *)
(* numbered from 0.                                                             *)

(* partition_sort_indices by distri[1..]: where each rank's ids end. What each  *)
(* part contains, and in which order, is left to std::partition.                *)
PartitionIs(distri, ids) ==
  [k \in 1 .. Len(distri) |-> Cardinality({n \in 1 .. Len(ids) : ids[n] < distri[k]})]

IsPartitionSort(new_to_old, distri, ids) ==
  \A k \in 1 .. Len(distri), m, n \in 1 .. Len(ids) :
    m < n /\ Permuted(ids, new_to_old)[n] < distri[k] => Permuted(ids, new_to_old)[m] < distri[k]
NewToOlds(distri, ids) ==
  LET n == Len(ids)
  IN  {p \in [1 .. n -> 0 .. n - 1] :
         /\ \A a, b \in 1 .. n : a # b => p[a] # p[b]
         /\ IsPartitionSort(p, distri, ids)}

(* Mutant: only one empty part is passed over.                                  *)
PartOfIf(partition_is, n) ==
  LET k == Cardinality({m \in 1 .. Len(partition_is) - 1 : partition_is[m + 1] < n})
  IN  IF k > 0 /\ partition_is[k + 1] = partition_is[k] THEN k - 1 ELSE k
(* apply_step: the part that the n-th of the grouped ids is in.                 *)
PartOf(partition_is, n) == Cardinality({m \in 1 .. Len(partition_is) - 1 : partition_is[m + 1] < n})

(* The result: the sequence of <<rank, position>> in the order of the exchange, *)
(* and the permutation.                                                         *)
Protocol(distri, ids, new_to_old) ==
  LET sorted == Permuted(ids, new_to_old)
      is == PartitionIs(distri, ids)
  IN  [places |-> [n \in 1 .. Len(ids) |->
                     <<PartOf(is, n), sorted[n] - distri[PartOf(is, n) + 1]>>],
       new_to_old |-> new_to_old]

(* rank_offset, with interval_index by std::upper_bound.                        *)
RankOffset(i, distri) ==
  LET rank == Cardinality({k \in 1 .. Len(distri) : distri[k] <= i}) - 1
  IN  <<rank, i - distri[rank + 1]>>

=============================================================================
