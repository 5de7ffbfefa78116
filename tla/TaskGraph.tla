----------------------------- MODULE TaskGraph -----------------------------
(***************************************************************************)
(* Construction of a task graph through futures (std_e/execution/task.hpp  *)
(* on top of std_e/graph/adjacency_graph).                                 *)
(*                                                                         *)
(* A task graph is an io_graph: one node per task, and for each node the   *)
(* list of the tasks it depends on (in_indices) and the list of the tasks  *)
(* that depend on it (out_indices).  A future is a handle on a node: its   *)
(* graph and its index.  The graph only grows: input_data appends a task   *)
(* with no dependency; then, then_comm and their join forms append a task  *)
(* and wire it, in both directions, to the tasks of the futures it takes.  *)
(*                                                                         *)
(* The same future may be given several times to one join: a future passed *)
(* as an lvalue is multi-shot (doc/user_manual/execution.rst:63).  The     *)
(* code then records the dependency as many times as it is given.          *)
(* RepeatedDeps says whether the callers do that.                          *)
(*                                                                         *)
(* Abstracted: the functions, arguments and results of the tasks.          *)
(***************************************************************************)
EXTENDS Integers, Sequences, FiniteSets, Functions

CONSTANTS
  MaxTasks,     \* bound: number of tasks a caller attaches to the graph
  MaxJoin,      \* bound: number of futures packed by one join
  RepeatedDeps  \* may one join hold the same future more than once?

ASSUME TaskGraphAssumption ==
  /\ MaxTasks \in Nat \ {0}
  /\ MaxJoin \in Nat \ {0}
  /\ RepeatedDeps \in BOOLEAN

TaskKind == {"no_op", "input", "computation", "communication"}

Id == 0 .. MaxTasks - 1

VARIABLES
  size,    \* number of nodes
  kind,    \* any_task::kind of each node
  inIdx,   \* in_indices:  what a task depends on, in argument order
  outIdx   \* out_indices: what depends on a task, in order of attachment

graphVars == <<size, kind, inIdx, outIdx>>

Tasks == 0 .. size - 1

\* The positions at which a list of indices holds i.
Positions(s, i) == {p \in DOMAIN s : s[p] = i}

----------------------------------------------------------------------------

\* A default-constructed any_task is a null_task, of kind no_op.
GraphInit ==
  /\ size = 0
  /\ kind = [i \in Id |-> "no_op"]
  /\ inIdx = [i \in Id |-> <<>>]
  /\ outIdx = [i \in Id |-> <<>>]

\* graph_base::emplace_back: a new node at position size, with empty lists.
EmplaceBack(tk) ==
  /\ size < MaxTasks
  /\ size' = size + 1
  /\ kind' = [kind EXCEPT ![size] = tk]

InputData ==
  /\ EmplaceBack("input")
  /\ UNCHANGED <<inIdx, outIdx>>

TellOnce(deps, i, n) == IF i \in Range(deps) THEN <<n>> ELSE <<>>

\* Index n pushed back once for each time task i is given in deps.
PushedBack(deps, i, n) == [p \in 1 .. Cardinality(Positions(deps, i)) |-> n]

SwappedDirections(tk, deps) ==
  /\ EmplaceBack(tk)
  /\ inIdx' = [i \in Id |-> inIdx[i] \o PushedBack(deps, i, size)]
  /\ outIdx' = [outIdx EXCEPT ![size] = deps]

\* generic_then_task: deps is the list of the tasks of the joined futures.
ThenTask(tk, deps) ==
  /\ EmplaceBack(tk)
  /\ outIdx' = [i \in Id |-> outIdx[i] \o PushedBack(deps, i, size)]
  /\ inIdx' = [inIdx EXCEPT ![size] = deps]

\* The lists of futures a caller can give: at least one, all of this graph.
JoinOf(n) ==
  {deps \in [1 .. n -> Tasks] : RepeatedDeps \/ IsInjective(deps)}

Then     == \E n \in 1 .. MaxJoin : \E deps \in JoinOf(n) : ThenTask("computation", deps)
ThenComm == \E n \in 1 .. MaxJoin : \E deps \in JoinOf(n) : ThenTask("communication", deps)

GraphNext == InputData \/ Then \/ ThenComm

GraphSpec == GraphInit /\ [][GraphNext]_graphVars

----------------------------------------------------------------------------

GraphTypeOK ==
  /\ size \in 0 .. MaxTasks
  /\ kind \in [Id -> TaskKind]
  /\ inIdx \in [Id -> Seq(Id)]
  /\ outIdx \in [Id -> Seq(Id)]

(* A task only depends on tasks attached before it: the indices are a      *)
(* topological order of the graph.  execute_seq runs the tasks in that     *)
(* order without looking at the dependencies.                              *)
TopologicalOrder ==
  \A n \in Id : \A p \in DOMAIN inIdx[n] : inIdx[n][p] < n /\ n < size

(* Both directions of the wiring agree: m is among the dependencies of n   *)
(* exactly when n is among the successors of m.  The asynchronous schedule *)
(* finds its next tasks through out_indices and decides whether they are   *)
(* ready through in_indices.                                               *)
WiredBothWays ==
  \A m, n \in Id :
    (\E p \in DOMAIN inIdx[n] : inIdx[n][p] = m)
      <=> (\E p \in DOMAIN outIdx[m] : outIdx[m][p] = n)

(* A dependency is recorded the same number of times in both directions.   *)
(* execute_async_comm queues a successor once per entry of out_indices.    *)
SameMultiplicity ==
  \A m, n \in Id :
    Cardinality(Positions(inIdx[n], m)) = Cardinality(Positions(outIdx[m], n))

(* The tasks without dependency are the input tasks                        *)
(* (asserted by execute_async_comm, async_comm.mpi.cpp:84).                *)
RootsAreInputs ==
  \A i \in Tasks : inIdx[i] = <<>> <=> kind[i] = "input"

(* When no join repeats a future, a task follows another one at most once. *)
NoRepeatedSuccessor ==
  RepeatedDeps \/ \A m \in Id : IsInjective(outIdx[m])

=============================================================================
