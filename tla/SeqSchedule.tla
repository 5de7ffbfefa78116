---------------------------- MODULE SeqSchedule ----------------------------
(***************************************************************************)
(* execute_seq (std_e/execution/schedule/seq.hpp): execute the tasks one   *)
(* after the other, in the order of their indices, whatever their kind.    *)
(* The dependencies are never looked at: the order of the indices is a     *)
(* topological order.  Then move the result out of the last future.        *)
(*                                                                         *)
(* resultOf is the future given to execute_seq: any task of the graph.     *)
(* begun and ended count the executions of each task.                      *)
(***************************************************************************)
EXTENDS TaskGraph

VARIABLES
  pc,       \* where the caller is
  i,        \* loop index
  resultOf, \* task_id of the future whose result is wanted
  begun,
  ended

seqVars == <<graphVars, pc, i, resultOf, begun, ended>>

SeqInit ==
  /\ GraphInit
  /\ pc = "build"
  /\ i = 0
  /\ resultOf = 0
  /\ begun = [n \in Id |-> 0]
  /\ ended = [n \in Id |-> 0]

SeqBuild ==
  /\ pc = "build"
  /\ GraphNext
  /\ UNCHANGED <<pc, i, resultOf, begun, ended>>

SeqCall ==
  /\ pc = "build"
  /\ resultOf' \in Tasks
  /\ pc' = "loop"
  /\ UNCHANGED <<graphVars, i, begun, ended>>

LoopDown ==
  /\ pc = "loop"
  /\ i < size
  /\ begun' = [begun EXCEPT ![size - 1 - i] = @ + 1]
  /\ pc' = "execute"
  /\ UNCHANGED <<graphVars, i, resultOf, ended>>

ExecuteBegin ==
  /\ pc = "loop"
  /\ i < size
  /\ begun' = [begun EXCEPT ![i] = @ + 1]
  /\ pc' = "execute"
  /\ UNCHANGED <<graphVars, i, resultOf, ended>>

ExecuteEnd ==
  /\ pc = "execute"
  /\ ended' = [ended EXCEPT ![i] = @ + 1]
  /\ i' = i + 1
  /\ pc' = "loop"
  /\ UNCHANGED <<graphVars, resultOf, begun>>

\* Mutant: the exception is swallowed.
ThrowIgnored ==
  /\ pc = "execute"
  /\ i' = i + 1
  /\ pc' = "loop"
  /\ UNCHANGED <<graphVars, resultOf, begun, ended>>

ExecuteThrow ==
  /\ pc = "execute"
  /\ pc' = "thrown"
  /\ UNCHANGED <<graphVars, i, resultOf, begun, ended>>

SeqReturn ==
  /\ pc = "loop"
  /\ i = size
  /\ pc' = "done"
  /\ UNCHANGED <<graphVars, i, resultOf, begun, ended>>

SeqOver == pc \in {"done", "thrown"} /\ UNCHANGED seqVars

SeqNext ==
  \/ SeqBuild \/ SeqCall
  \/ ExecuteBegin \/ ExecuteEnd \/ ExecuteThrow
  \/ SeqReturn
  \/ SeqOver

SeqSpec == SeqInit /\ [][SeqNext]_seqVars

----------------------------------------------------------------------------

SeqTypeOK ==
  /\ GraphTypeOK
  /\ pc \in {"build", "loop", "execute", "done", "thrown"}
  /\ i \in 0 .. MaxTasks
  /\ resultOf \in Id
  /\ begun \in [Id -> Nat]
  /\ ended \in [Id -> Nat]

(* A task starts when the tasks it depends on have returned, although the  *)
(* loop does not check it.                                                 *)
DepsExecutedFirst ==
  \A n \in Id : begun[n] > 0 => \A p \in DOMAIN inIdx[n] : ended[inIdx[n][p]] > 0

(* The result moved out is the result of an executed task.                 *)
ResultIsComputed == pc = "done" => ended[resultOf] = 1

(* The sequential schedule implements TaskExecution, one task at a time.   *)
SeqStatus ==
  [n \in Id |->
    IF ended[n] > 0 THEN "done"
    ELSE IF begun[n] = 0 THEN "waiting"
    ELSE IF pc = "thrown" THEN "failed"
    ELSE "running"]

PhaseOf == [build |-> "build", loop |-> "run", execute |-> "run",
            done |-> "returned", thrown |-> "failed"]

SeqPhase == PhaseOf[pc]

Execution == INSTANCE TaskExecution
  WITH Width <- 1, phase <- SeqPhase, status <- SeqStatus

SeqImplementsExecution == Execution!ExecSpec

=============================================================================
