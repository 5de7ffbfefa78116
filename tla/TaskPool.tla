------------------------------ MODULE TaskPool ------------------------------
(***************************************************************************)
(* What thread_pool promises to the code that pushes tasks                 *)
(* (std_e/execution/thread_pool/thread_pool.hpp): the pool owns each       *)
(* pushed task, a thread executes it once, at most NThreads of them at a   *)
(* time and in no particular order; when the pool is destroyed, all the    *)
(* tasks pushed before have been executed.                                 *)
(*                                                                         *)
(* ThreadPool implements this specification. AsyncComm, which pushes its   *)
(* communication tasks to a pool, assumes as much of it.                   *)
(***************************************************************************)
EXTENDS Integers, FiniteSets

CONSTANTS
  Task,      \* the tasks pushed during the life of the pool
  NThreads   \* number of threads

VARIABLES
  owner,     \* who has each task: its caller, the pool, a thread, nobody
  destroyed  \* has the destructor of the pool returned?

poolVars == <<owner, destroyed>>

PoolInit ==
  /\ owner = [t \in Task |-> "caller"]
  /\ destroyed = FALSE

Moves(t, from, to) ==
  /\ owner[t] = from
  /\ owner' = [owner EXCEPT ![t] = to]
  /\ UNCHANGED destroyed

Push(t) == Moves(t, "caller", "pool") /\ ~ destroyed

Take(t) ==
  /\ Cardinality({u \in Task : owner[u] = "thread"}) < NThreads
  /\ Moves(t, "pool", "thread")

Finish(t) == Moves(t, "thread", "nobody")

Destroy ==
  /\ ~ destroyed
  /\ \A t \in Task : owner[t] \notin {"pool", "thread"}
  /\ destroyed' = TRUE
  /\ UNCHANGED owner

PoolNext ==
  \/ \E t \in Task : Push(t) \/ Take(t) \/ Finish(t)
  \/ Destroy

PoolSpec == PoolInit /\ [][PoolNext]_poolVars

=============================================================================
