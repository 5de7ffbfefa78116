---------------------------- MODULE GraphTraversal ----------------------------
(* The depth-first traversals: a stack of iterators over the children takes the *)
(* place of the recursion, so that stepping out of the middle is possible. The  *)
(* loops of search, prune, scan and find are the same one, of which each makes  *)
(* only some of the calls to its visitor and meets only some of the answers.    *)
(*                                                                              *)
(* First, the visitors of the library: what each call of pre, post, up and down *)
(* does to their state, and the nested trees that some of them build. The nodes *)
(* are numbers.                                                                 *)
EXTENDS SequencesExt, FiniteSetsExt, Integers

CONSTANTS MaxNode,   \* the largest number of nodes of a graph
          MaxDegree, \* the largest number of children of a node
          Wide       \* the nodes from which build() makes a tree of two nodes

ASSUME GraphAssumption == MaxNode \in Nat \ {0} /\ MaxDegree \in Nat

-----------------------------------------------------------------------------
(* A nested_tree holds its nodes in depth-first order, each with the size of    *)
(* its sub-tree. Positions are counted from 1.                                  *)
Leaf(x) == [nodes |-> <<x>>, sizes |-> <<1>>]

AppendChild(t, c) ==
  [nodes |-> t.nodes \o c.nodes, sizes |-> [t.sizes \o c.sizes EXCEPT ![1] = @ + c.sizes[1]]]
CreateTree(x, children) == FoldLeft(AppendChild, Leaf(x), children)

(* A child_iterator goes from a child to the next over the sub-tree.            *)
AfterSubTree(t, i) == i + t.sizes[i]
Children(t, i) ==
  LET from[j \in i + 1 .. Len(t.sizes) + 1] ==
        IF j >= AfterSubTree(t, i) THEN <<>> ELSE <<j>> \o from[AfterSubTree(t, j)]
  IN from[i + 1]

(* A child_iterator gives a view of the sub-tree.                               *)
TreeView(t, i) ==
  [nodes |-> SubSeq(t.nodes, i, AfterSubTree(t, i) - 1), sizes |-> SubSeq(t.sizes, i, AfterSubTree(t, i) - 1)]
ChildView(t, i) == TreeView(t, Children(t, 1)[i + 1])
NbChildren(t) == Len(Children(t, 1))
IsLeaf(t) == t.sizes[1] = 1

TreesAreEqual(x, y) ==
  /\ x.sizes[1] = y.sizes[1]
  /\ \A i \in 1 .. x.sizes[1] : x.nodes[i] = y.nodes[i] /\ x.sizes[i] = y.sizes[i]
(* operator< of vectors                                                         *)
RECURSIVE LexicographicallyLess(_, _)
LexicographicallyLess(s, t) ==
  IF s = <<>> \/ t = <<>> THEN s = <<>> /\ t # <<>>
  ELSE s[1] < t[1] \/ (s[1] = t[1] /\ LexicographicallyLess(Tail(s), Tail(t)))
(* By shape first.                                                              *)
TreeIsLess(x, y) ==
  \/ LexicographicallyLess(x.sizes, y.sizes)
  \/ x.sizes = y.sizes /\ LexicographicallyLess(x.nodes, y.nodes)

-----------------------------------------------------------------------------
(* nested_tree_dfs_with_preordering: how many times down() has been called      *)
(* without up() when pre() is called for each node. A level of the stack is     *)
(* what remains to be visited of a sub-tree, its root included.                 *)
Unfinished(stack) == SubSeq(stack, 1, SelectLastInSeq(stack, LAMBDA n : n # 1))

DfsNext(d, size) ==
  LET open == Unfinished(d.stack)
  IN [stack |-> Append(ReplaceAt(open, Len(open), Last(open) - size), size),
      depths |-> Append(d.depths, Len(open))]
DfsDepths(t) ==
  FoldLeft(DfsNext, [stack |-> <<t.sizes[1]>>, depths |-> <<0>>], Tail(t.sizes)).depths

-----------------------------------------------------------------------------
Current(S) == S[Len(S)]          \* current_level
Parent(S) == S[Len(S) - 1]       \* parent_level
AtRootLevel(S) == Len(S) = 1     \* is_at_root_level
(* The operations on the levels of a graph_stack.                               *)
SetCurrent(S, level) == ReplaceAt(S, Len(S), level)
SetParent(S, level) == ReplaceAt(S, Len(S) - 1, level)

-----------------------------------------------------------------------------
(* tree_builder. build(x) is the builder's own; here x alone, or with a child.  *)
Build(x) == CreateTree(x, IF x \in Wide THEN <<Leaf(-x)>> ELSE <<>>)

TreeEmpty == [nodes |-> <<>>, sizes |-> <<>>, indices |-> <<>>, levels |-> <<>>]
TreePre(t, x) ==
  LET b == Build(x)
  IN [nodes |-> t.nodes \o b.nodes, sizes |-> t.sizes \o b.sizes,
      indices |-> Append(t.indices, Len(t.nodes) + 1),
      levels |-> Append(t.levels, Len(b.nodes))]
(* Mutant: the size of the sub-tree is that of the built nodes.                 *)
TreePostOwnSize(t) ==
  IF AtRootLevel(t.indices) THEN t
  ELSE [t EXCEPT !.indices = Front(@), !.levels = Front(SetParent(@, Parent(@) + Current(@)))]
TreePost(t) ==
  LET written == [t EXCEPT !.sizes[Current(t.indices)] = Current(t.levels)]
  IN IF AtRootLevel(t.indices) THEN written
     ELSE [written EXCEPT
             !.indices = Front(@),
             !.levels = Front(SetParent(@, Parent(@) + Current(@)))]
-----------------------------------------------------------------------------
(* bidirectional_graph_builder: the nodes are numbered in postorder.            *)
GraphEmpty == [nodes |-> <<>>, heights |-> <<>>, ins |-> <<>>, outs |-> <<>>,
               height_stack |-> <<>>, outs_stack |-> <<>>]
GraphPre(g) == [g EXCEPT !.height_stack = Append(@, 0), !.outs_stack = Append(@, <<>>)]
GraphPost(g, x) ==
  LET i == Len(g.nodes) + 1
      outs_lvl == Current(g.outs_stack)
      created == [g EXCEPT
        !.nodes = Append(@, x), !.heights = Append(@, Current(g.height_stack)),
        !.outs = Append(@, outs_lvl),
        !.ins = [j \in 1 .. i |-> IF j \in ToSet(outs_lvl) THEN <<i>>
                                  ELSE IF j = i THEN <<>> ELSE @[j]]]
  IN IF AtRootLevel(g.outs_stack) THEN created
     ELSE [created EXCEPT
             !.height_stack = Front(SetParent(@, Max({Parent(@), Current(@) + 1}))),
             !.outs_stack = Front(SetParent(@, Append(Parent(@), i)))]

-----------------------------------------------------------------------------
(* visitor_for_reduction, for the number of nodes and the height: init gives a  *)
(* node alone, finish raises the parent and accumulate counts the child.        *)
ReductionPre(S) == Append(S, [size |-> 1, height |-> 0])
ReductionPost(S) ==
  IF AtRootLevel(S) THEN S
  ELSE SetParent(S, [Parent(S) EXCEPT !.height = Max({@, Current(S).height + 1})])
ReductionUp(S) ==
  IF AtRootLevel(S) THEN S
  ELSE Front(SetParent(S, [Parent(S) EXCEPT !.size = @ + Current(S).size]))

-----------------------------------------------------------------------------
VARIABLES algo, out_indices, root,  \* the function, the graph and its root
          answer,      \* what pre() answers for each node
          pc,          \* "root", "loop", "unwind", "done"
          graph_stack, \* the levels: the nodes of [first,last) and the place of first
          found,       \* the iterator that is returned: its place in each level
          heard,       \* the calls that the visitor has heard, as a recorder would
          built,       \*   and the state of the visitors:
          made,        \*   tree_builder, bidirectional_graph_builder
          reduction    \*   and visitor_for_reduction

visitorVars == <<heard, built, made, reduction>>
traversalVars == <<algo, out_indices, root, answer>>
graphVars == <<traversalVars, pc, graph_stack, found, visitorVars>>

Calls == [search |-> {"pre", "down", "up", "post"}, scan |-> {"pre", "post"},
          prune |-> {"pre", "post"}, find |-> {"pre"}]
Answers == [search |-> {"into", "over", "out"}, scan |-> {"into"},
            prune |-> {"into", "over"}, find |-> {"into", "out"}]

(* A call to the visitor: its name and the nodes.                               *)
Pre(v) == <<"pre", v>>
Post(v) == <<"post", v>>
Down(v, w) == <<"down", v, w>>
Up(w, v) == <<"up", w, v>>

(* The graphs of n nodes without cycles, the children before the parents.       *)
AdjacencyLists(n) ==
  {g \in [1 .. n -> BoundedSeq(1 .. n - 1, MaxDegree)] :
     \A v \in 1 .. n : \A k \in 1 .. Len(g[v]) : g[v][k] < v}
Reached(g, r) ==
  LET down[v \in 1 .. r] == {v} \cup UNION {down[g[v][k]] : k \in 1 .. Len(g[v])}
  IN down[r]
RootedGraphs == {g \in UNION {AdjacencyLists(n) : n \in 1 .. MaxNode} :
                   Reached(g, Len(g)) = 1 .. Len(g)}

(* build_bidirectional_graph is for trees.                                      *)
IsTree ==
  \A v \in 1 .. root - 1 :
    Cardinality({e \in (1 .. root) \X (1 .. MaxDegree) :
                   e[2] <= Len(out_indices[e[1]]) /\ out_indices[e[1]][e[2]] = v}) = 1

Range1(v) == [nodes |-> out_indices[v], at |-> 1]

GraphInit ==
  /\ algo \in DOMAIN Calls
  /\ out_indices \in RootedGraphs
  /\ root = Len(out_indices)
  /\ answer \in [1 .. root -> Answers[algo]]
  /\ pc = IF algo = "scan" THEN "root" ELSE "loop"
  /\ graph_stack = <<IF algo = "scan" THEN Range1(root) ELSE [nodes |-> <<root>>, at |-> 1]>>
  /\ found = <<>>
  /\ heard = <<>> /\ built = TreeEmpty /\ made = GraphEmpty /\ reduction = <<>>

(* Each of the visitors hears the calls.                                        *)
TreeHears(t, c) ==
  CASE c[1] = "pre" -> TreePre(t, c[2]) [] c[1] = "post" -> TreePost(t) [] OTHER -> t
GraphHears(g, c) ==
  CASE c[1] = "pre" -> GraphPre(g) [] c[1] = "post" -> GraphPost(g, c[2]) [] OTHER -> g
ReductionHears(S, c) ==
  CASE c[1] = "pre" -> ReductionPre(S) [] c[1] = "post" -> ReductionPost(S)
    [] c[1] = "up" -> ReductionUp(S) [] OTHER -> S

Call(made_calls) ==
  LET calls == SelectSeq(made_calls, LAMBDA c : c[1] \in Calls[algo]) IN
  /\ heard' = heard \o calls
  /\ built' = IF algo \in {"scan", "prune"} THEN FoldLeft(TreeHears, built, calls) ELSE built
  /\ made' = IF algo = "scan" /\ IsTree THEN FoldLeft(GraphHears, made, calls) ELSE made
  /\ reduction' = IF algo = "search" THEN FoldLeft(ReductionHears, reduction, calls) ELSE reduction

Level == graph_stack[Len(graph_stack)]
CurrentNode == Level.nodes[Level.at]
ParentNode == LET above == graph_stack[Len(graph_stack) - 1] IN above.nodes[above.at]
LevelIsDone == Level.at > Len(Level.nodes)
IsAtRootLevel == Len(graph_stack) = 1

Visits(a) == pc = "loop" /\ ~LevelIsDone /\ answer[CurrentNode] = a

(* Go down.                                                                     *)
StepInto ==
  LET v == CurrentNode
      children == out_indices[v]
  IN /\ Visits("into")
     /\ graph_stack' = Append(graph_stack, Range1(v))
     /\ Call(<<Pre(v)>> \o (IF children = <<>> THEN <<>> ELSE <<Down(v, children[1])>>))
     /\ UNCHANGED <<traversalVars, pc, found>>

(* Prune: the children are passed.                                              *)
StepOver ==
  LET v == CurrentNode
  IN /\ Visits("over")
     /\ graph_stack' = Append(graph_stack, [Range1(v) EXCEPT !.at = Len(out_indices[v]) + 1])
     /\ Call(<<Pre(v)>>)
     /\ UNCHANGED <<traversalVars, pc, found>>

(* Stop: find returns at once, search unwinds first.                            *)
StepOut ==
  /\ Visits("out")
  /\ found' = [l \in 1 .. Len(graph_stack) |-> graph_stack[l].at]
  /\ pc' = IF algo = "find" THEN "done" ELSE "unwind"
  /\ Call(<<Pre(CurrentNode)>>)
  /\ UNCHANGED <<traversalVars, graph_stack>>

(* Mutant: the levels are left without being closed.                            *)
UnwindAtOnce ==
  /\ pc = "unwind"
  /\ Call(<<Post(CurrentNode)>>)
  /\ pc' = "done"
  /\ UNCHANGED <<traversalVars, found, graph_stack>>
(* One turn of unwind, and what follows its loop.                               *)
Unwind ==
  /\ pc = "unwind"
  /\ IF IsAtRootLevel
       THEN /\ Call(<<Post(CurrentNode)>>)
            /\ pc' = "done"
            /\ UNCHANGED graph_stack
       ELSE /\ Call(<<Post(CurrentNode), Up(CurrentNode, ParentNode)>>)
            /\ graph_stack' = Front(graph_stack)
            /\ UNCHANGED pc
  /\ UNCHANGED <<traversalVars, found>>
(* The children are done: back to their parent, then its sibling.               *)
Sibling(above) == [above EXCEPT ![Len(above)].at = @ + 1]
PopLevel ==
  LET above == Front(graph_stack)
      v == Last(above).nodes[Last(above).at]
      next == Sibling(above)
  IN /\ pc = "loop" /\ LevelIsDone /\ ~IsAtRootLevel
     /\ graph_stack' = next
     /\ Call(<<Post(v)>> \o
             IF Len(above) = 1 THEN <<>>
             ELSE LET p == Last(Front(above)).nodes[Last(Front(above)).at]
                      level == Last(next)
                  IN <<Up(v, p)>> \o IF level.at > Len(level.nodes) THEN <<>>
                                     ELSE <<Down(p, level.nodes[level.at])>>)
     /\ UNCHANGED <<traversalVars, pc, found>>

(* The loop ends. The scans visit the root outside it.                          *)
LoopEnd ==
  /\ pc = "loop" /\ LevelIsDone /\ IsAtRootLevel
  /\ pc' = "done"
  /\ IF algo = "scan" THEN Call(<<Post(root)>>) ELSE UNCHANGED visitorVars
  /\ UNCHANGED <<traversalVars, graph_stack, found>>
RootFirst ==
  /\ pc = "root"
  /\ pc' = "loop"
  /\ Call(<<Pre(root)>>)
  /\ UNCHANGED <<traversalVars, graph_stack, found>>

GraphNext ==
  RootFirst \/ StepInto \/ StepOver \/ StepOut \/ Unwind \/ PopLevel \/ LoopEnd
GraphSpec == GraphInit /\ [][GraphNext]_graphVars

=============================================================================
