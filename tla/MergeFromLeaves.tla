--------------------------- MODULE MergeFromLeaves ----------------------------
(* merge_from_leaves: level by level, the nodes that have the same value and    *)
(* the same children become one. The edges into a node are redirected to the    *)
(* first of its equivalents; what is redirected is kept, and dropped at the end *)
(* with the nodes themselves.                                                   *)
EXTENDS GraphTraversal

CONSTANTS MaxMerged,    \* the largest number of nodes of the graph
          MaxForest,    \* the largest one that may have several roots and parents
                        \* of different values
          Labels        \* the values of the nodes; eq is =, less is <

ASSUME MergeAssumption ==
  MaxMerged \in Nat \ {0} /\ MaxForest \in Nat /\ Labels \subseteq Nat

VARIABLES label, ins, outs,  \* the io_graph g; ins is not modified
          height,            \* height(node(g[i])), part of the value of i
          node_perm,
          lvl,               \* of the level_comparison_generator
          p_first, p_last,   \* the partition of node_perm of that level
          first, first_eq,   \* of replace_by_first_equivalent
          at,                \* "sort", "partition", "redirect", "keep", "merged"
          merged             \* the graph that is returned

ioVars == <<label, ins, outs, height>>
mergeLoopVars == <<lvl, p_first, p_last, first, first_eq>>
mergeVars == <<ioVars, node_perm, mergeLoopVars, at, merged>>

Nodes == 1 .. Len(outs)

(* make_bidirectional_from_outward_edges.                                       *)
InwardEdges(g) ==
  LET edges(i) == [k \in 1 .. Len(g[i]) |-> <<i, g[i][k]>>]
      all == FlattenSeq([i \in 1 .. Len(g) |-> edges(i)])
      into(j) == SelectSeq(all, LAMBDA e : e[2] = j)
  IN [j \in 1 .. Len(g) |-> [k \in 1 .. Len(into(j)) |-> into(j)[k][1]]]

(* The height that bidirectional_graph_builder gives to a node.                 *)
HeightIn(g) ==
  LET h[v \in 1 .. Len(g)] == Max({0} \cup {h[g[v][k]] + 1 : k \in 1 .. Len(g[v])}) IN h

MergeInit ==
  /\ \E n \in 1 .. MaxMerged : outs \in AdjacencyLists(n)
  /\ label \in [Nodes -> Labels]
  /\ Len(outs) > MaxForest =>
       /\ Reached(outs, Len(outs)) = Nodes
       /\ \A v, w \in Nodes : outs[v] # <<>> /\ outs[w] # <<>> => label[v] = label[w]
  /\ ins = InwardEdges(outs)
  /\ height = HeightIn(outs)
  /\ node_perm = [i \in Nodes |-> i]
  /\ lvl = Min({height[i] : i \in Nodes})
  /\ p_first = 1 /\ p_last = 1 /\ first = 1 /\ first_eq = 1
  /\ at = "sort"
  /\ merged = [label |-> <<>>, ins |-> <<>>, outs |-> <<>>]

(* std::sort leaves the nodes of a level in any order.                          *)
SortByLevel ==
  /\ at = "sort"
  /\ at' = "partition"
  /\ node_perm' \in {q \in [Nodes -> Nodes] :
                  /\ IsInjective(q)
                  /\ \A i, j \in Nodes : i < j => height[q[i]] <= height[q[j]]}
  /\ UNCHANGED <<ioVars, mergeLoopVars, merged>>

-----------------------------------------------------------------------------
(* equivalent_by_node_and_outwards, less_by_node_and_outwards.                  *)
Equivalent(i, j) == label[i] = label[j] /\ outs[i] = outs[j]
LessByNodeAndOutwards(i, j) ==
  label[i] < label[j] \/ (label[i] = label[j] /\ LexicographicallyLess(outs[i], outs[j]))

(* std::stable_sort of [f,l).                                                   *)
StableSorted(f, l) ==
  LET before(i, j) == \/ LessByNodeAndOutwards(node_perm[i], node_perm[j])
                      \/ i < j /\ ~LessByNodeAndOutwards(node_perm[j], node_perm[i])
      rank(i) == Cardinality({j \in f .. l - 1 : j # i /\ before(j, i)})
  IN [k \in Nodes |-> IF k \in f .. l - 1
                      THEN node_perm[CHOOSE i \in f .. l - 1 : rank(i) = k - f] ELSE node_perm[k]]

(* The next level of for_each_partition: its nodes are sorted.                  *)
NextPartition ==
  LET last == 1 + Cardinality({i \in Nodes : height[node_perm[i]] <= lvl})
  IN /\ at = "partition" /\ p_first <= Len(node_perm)
     /\ p_last' = last
     /\ node_perm' = StableSorted(p_first, last)
     /\ first' = p_first + 1 /\ first_eq' = p_first
     /\ at' = "redirect"
     /\ UNCHANGED <<ioVars, lvl, p_first, merged>>

(* redirect_inward_adjacencies: in each of the parents, as many times as it is  *)
(* one, the first edge to old.                                                  *)
RedirectedIn(g, parent, old, new) ==
  [g EXCEPT ![parent] = ReplaceAt(@, SelectInSeq(@, LAMBDA v : v = old), new)]
Redirected(old, new) ==
  FoldLeft(LAMBDA g, parent : RedirectedIn(g, parent, old, new), outs, ins[old])

(* Mutant: the next nodes are compared with the last.                           *)
RedirectToPrevious ==
  LET old == node_perm[first]
      new == node_perm[first_eq]
  IN /\ at = "redirect" /\ first < p_last
     /\ outs' = IF Equivalent(old, new) THEN Redirected(old, new) ELSE outs
     /\ first' = first + 1 /\ first_eq' = first
     /\ UNCHANGED <<label, ins, height, node_perm, lvl, p_first, p_last, at, merged>>
(* One turn of replace_by_first_equivalent, with redirect_inward_to_equivalent. *)
Redirect ==
  LET old == node_perm[first]
      new == node_perm[first_eq]
  IN /\ at = "redirect" /\ first < p_last
     /\ IF Equivalent(old, new)
          THEN outs' = Redirected(old, new) /\ UNCHANGED first_eq
          ELSE first_eq' = first /\ UNCHANGED outs
     /\ first' = first + 1
     /\ UNCHANGED <<label, ins, height, node_perm, lvl, p_first, p_last, at, merged>>
PartitionEnd ==
  /\ at = "redirect" /\ first >= p_last
  /\ lvl' = lvl + 1
  /\ p_first' = p_last
  /\ at' = "partition"
  /\ UNCHANGED <<ioVars, node_perm, p_last, first, first_eq, merged>>

-----------------------------------------------------------------------------
(* unique: the first of equivalent neighbours is kept.                          *)
WithoutRepeats(p) ==
  FoldLeft(LAMBDA kept, i : IF kept # <<>> /\ Equivalent(Last(kept), i) THEN kept
                            ELSE Append(kept, i), <<>>, p)
KeepFirst ==
  /\ at = "partition" /\ p_first > Len(node_perm)
  /\ node_perm' = WithoutRepeats(node_perm)
  /\ at' = "keep"
  /\ UNCHANGED <<ioVars, mergeLoopVars, merged>>

(* inverse_partial_permutation, with 0 for the nodes that are dropped.          *)
InversePartial(p) == [v \in Nodes |-> SelectInSeq(p, LAMBDA w : w = v)]

(* bidirectional_graph_from_outward_edges.                                      *)
Rebuild ==
  LET inv == InversePartial(node_perm)
      kept == [i \in 1 .. Len(node_perm) |->
                 [k \in 1 .. Len(outs[node_perm[i]]) |-> inv[outs[node_perm[i]][k]]]]
  IN /\ at = "keep"
     /\ merged' = [label |-> [i \in 1 .. Len(node_perm) |-> label[node_perm[i]]],
                   outs |-> kept, ins |-> InwardEdges(kept)]
     /\ at' = "merged"
     /\ UNCHANGED <<ioVars, node_perm, mergeLoopVars>>

MergeNext ==
  SortByLevel \/ NextPartition \/ Redirect \/ PartitionEnd \/ KeepFirst \/ Rebuild
MergeSpec == MergeInit /\ [][MergeNext]_mergeVars

=============================================================================
