------------------------------- MODULE MCGraphs -------------------------------
(* Instances of the traversals and of merge_from_leaves: either one traversal   *)
(* of any small graph, or the merge of one; and what they should compute, by    *)
(* recursion. MCContainers runs them.                                           *)
EXTENDS MergeFromLeaves

VARIABLES asked,  \* "traverse", "merge" or "nothing"
          given   \* the children before merge_from_leaves redirects edges

graphsVars == <<asked, given, graphVars, mergeVars>>

TraversalIdle ==
  /\ algo = "find" /\ out_indices = <<<<>>>> /\ root = 1 /\ answer = <<"out">>
  /\ pc = "done" /\ graph_stack = <<>> /\ found = <<>>
  /\ heard = <<>> /\ built = TreeEmpty /\ made = GraphEmpty /\ reduction = <<>>
MergeIdle ==
  /\ label = <<>> /\ ins = <<>> /\ outs = <<>> /\ height = <<>> /\ node_perm = <<>>
  /\ lvl = 0 /\ p_first = 1 /\ p_last = 1 /\ first = 1 /\ first_eq = 1
  /\ at = "idle" /\ merged = [label |-> <<>>, ins |-> <<>>, outs |-> <<>>]

GraphsInit ==
  /\ asked \in {"traverse", "merge"}
  /\ IF asked = "traverse" THEN GraphInit ELSE TraversalIdle
  /\ IF asked = "merge" THEN MergeInit ELSE MergeIdle
  /\ given = outs

GraphsIdle == asked = "nothing" /\ TraversalIdle /\ MergeIdle /\ given = outs

GraphsNext ==
  /\ UNCHANGED <<asked, given>>
  /\ \/ asked = "traverse" /\ GraphNext /\ UNCHANGED mergeVars
     \/ asked = "merge" /\ MergeNext /\ UNCHANGED graphVars

-----------------------------------------------------------------------------
(* A recursive depth-first search from v, that the answer "out" stops: the      *)
(* calls, whether it is stopped, and the places of the children on the way to   *)
(* where it is.                                                                 *)
RECURSIVE Recursion(_), RecursionFrom(_, _)
Recursion(v) ==
  IF answer[v] = "into"
    THEN LET below == RecursionFrom(v, 1)
         IN [below EXCEPT !.calls = <<Pre(v)>> \o @ \o <<Post(v)>>]
    ELSE [calls |-> <<Pre(v), Post(v)>>, stops |-> answer[v] = "out", way |-> <<>>]
RecursionFrom(v, k) ==
  IF k > Len(out_indices[v]) THEN [calls |-> <<>>, stops |-> FALSE, way |-> <<>>]
  ELSE LET w == out_indices[v][k]
           child == Recursion(w)
           calls == <<Down(v, w)>> \o child.calls \o <<Up(w, v)>>
           rest == RecursionFrom(v, k + 1)
       IN IF child.stops THEN [calls |-> calls, stops |-> TRUE, way |-> <<k>> \o child.way]
          ELSE [rest EXCEPT !.calls = calls \o @]

(* The stack replaces the recursion: the visitor hears the calls that it would  *)
(* make, closed ones included when the search steps out, and the iterator that  *)
(* is returned is on the first node, in preorder, for which pre() says so.      *)
DepthFirst ==
  pc = "done" /\ asked = "traverse" =>
    LET expected == Recursion(root)
    IN /\ heard = SelectSeq(expected.calls, LAMBDA c : c[1] \in Calls[algo])
       /\ found = IF expected.stops THEN <<1>> \o expected.way ELSE <<>>

(* The tree that tree_builder should build from v, where should_go_down allows. *)
RECURSIVE TreeFrom(_)
TreeFrom(v) ==
  FoldLeft(AppendChild, Build(v),
           IF answer[v] = "into"
             THEN [k \in 1 .. Len(out_indices[v]) |-> TreeFrom(out_indices[v][k])] ELSE <<>>)

(* The sub-tree of t at i, found by the iterators.                              *)
RECURSIVE SubTree(_, _)
SubTree(t, i) ==
  CreateTree(t.nodes[i], [k \in 1 .. Len(Children(t, i)) |-> SubTree(t, Children(t, i)[k])])

Ancestors(t, i) == Cardinality({j \in 1 .. i - 1 : j + t.sizes[j] > i})

TreeIsBuilt ==
  LET t == [nodes |-> built.nodes, sizes |-> built.sizes]
  IN /\ t = TreeFrom(root)
     /\ SubTree(t, 1) = t
     /\ \A i \in DOMAIN t.nodes :
          LET v == TreeView(t, i)
          IN /\ TreesAreEqual(v, SubTree(t, i)) /\ (IsLeaf(v) <=> NbChildren(v) = 0)
             /\ \A k \in 1 .. NbChildren(v) : ChildView(v, k - 1) = TreeView(t, Children(t, i)[k])
             /\ \A j \in DOMAIN t.nodes :
                  LET w == TreeView(t, j)
                  IN /\ ~(TreeIsLess(v, w) /\ TreeIsLess(w, v))
                     /\ TreesAreEqual(v, w) <=> ~TreeIsLess(v, w) /\ ~TreeIsLess(w, v)
     /\ DfsDepths(t) = [i \in 1 .. Len(t.nodes) |-> Ancestors(t, i)]

GraphIsMade ==
  LET number(v) == SelectInSeq(made.nodes, LAMBDA w : w = v)
  IN /\ [i \in 1 .. root |-> Post(made.nodes[i])] = SelectSeq(heard, LAMBDA c : c[1] = "post")
     /\ \A v \in 1 .. root :
          /\ made.outs[number(v)] =
               [k \in 1 .. Len(out_indices[v]) |-> number(out_indices[v][k])]
          /\ made.heights[number(v)] = HeightIn(out_indices)[v]
     /\ made.ins = InwardEdges(made.outs)

IsReduced ==
  LET Heard(i, kind) == Cardinality({j \in 1 .. i : heard[j][1] = kind})
      depth(i) == Heard(i, "down") - Heard(i, "up")
  IN reduction = <<[size |-> Heard(Len(heard), "pre"),
                  height |-> Max({depth(i) : i \in 1 .. Len(heard)})]>>

(* The stacks of the visitors follow that of the traversal, pruned or stopped:  *)
(* the sizes of a built nested_tree delimit its sub-trees, so that it is read   *)
(* back by its iterators and its own depth-first search; the graph made of a    *)
(* tree has both directions of its edges and the heights that merge_from_leaves *)
(* relies on; the reduction counts what has been visited, and is left with the  *)
(* level of the root.                                                           *)
VisitorsAgree ==
  pc = "done" /\ asked = "traverse" =>
    /\ algo \in {"scan", "prune"} => TreeIsBuilt
    /\ algo = "scan" /\ IsTree => GraphIsMade
    /\ algo = "search" => IsReduced

(* A traversal, stopped or pruned anywhere, is the recursion that it replaces,  *)
(* to the visitor that is called and to those that have a stack of their own.   *)
TraversalsAgree == DepthFirst /\ VisitorsAgree

-----------------------------------------------------------------------------
RECURSIVE Unfolded(_, _, _)
Unfolded(values, g, v) ==
  <<values[v], [k \in 1 .. Len(g[v]) |-> Unfolded(values, g, g[v][k])]>>

(* The edges are redirected in place while ins is left as it was: as long as a  *)
(* node may still be redirected, each edge that ins gives it is among those of  *)
(* the parent, as many times. It is what the assertion of                       *)
(* redirect_inward_adjacencies requires.                                        *)
EdgesAreFound ==
  at \in {"partition", "redirect"} =>
    \A k \in (IF at = "redirect" THEN first ELSE p_first) .. Len(node_perm) :
      \A parent \in Nodes :
        Cardinality({e \in DOMAIN outs[parent] : outs[parent][e] = node_perm[k]})
          = Cardinality({e \in DOMAIN ins[node_perm[k]] : ins[node_perm[k]][e] = parent})

(* The merged graph unfolds into the same trees as the given one, and each of   *)
(* its nodes into another one: everything that is equal is shared, and nothing  *)
(* else. No edge leads to a node that is dropped, children are before their     *)
(* parents, and the edges are known from both ends.                             *)
SharedOnce ==
  at = "merged" =>
    /\ \A i \in 1 .. Len(merged.outs) : ToSet(merged.outs[i]) \subseteq 1 .. i - 1
    /\ {Unfolded(merged.label, merged.outs, i) : i \in 1 .. Len(merged.outs)}
         = {Unfolded(label, given, v) : v \in Nodes}
    /\ \A i, j \in 1 .. Len(merged.outs) :
         i # j => Unfolded(merged.label, merged.outs, i) # Unfolded(merged.label, merged.outs, j)
    /\ merged.ins = InwardEdges(merged.outs)

(* merge_from_leaves shares what is equal: its assertion holds at each step,    *)
(* and the graph that it makes unfolds as the one it was given, each tree once. *)
MergeIsSound == EdgesAreFound /\ SharedOnce

=============================================================================
