--------------------------- MODULE TaskExecution ---------------------------
(***************************************************************************)
(* What a schedule promises to the caller that executes a task graph,      *)
(* whatever its algorithm (doc/user_manual/execution.rst, "Tasks and task  *)
(* graphs"):                                                               *)
(*   - a task is executed after the tasks it depends on have completed;    *)
(*   - a task is executed at most once, at most Width at the same time;    *)
(*   - when the schedule returns, every task of the graph has completed.   *)
(* Once a task has failed the schedule does not return; communication      *)
(* tasks already handed over may still be executed.                        *)
(*                                                                         *)
(* SeqSchedule (Width = 1) and AsyncComm (Width = NWorkers + 1) implement  *)
(* this specification.                                                     *)
(***************************************************************************)
EXTENDS TaskGraph

CONSTANT Width  \* how many tasks may be executed at the same time

VARIABLES
  phase,  \* of the execution
  status  \* of each task

execVars == <<graphVars, phase, status>>

Phase == {"build", "run", "returned", "failed"}
Status == {"waiting", "running", "done", "failed"}

Running == {i \in Id : status[i] = "running"}

\* The tasks i depends on.
Deps(i) == Range(inIdx[i])

ExecInit ==
  /\ GraphInit
  /\ phase = "build"
  /\ status = [i \in Id |-> "waiting"]

Attach ==
  /\ phase = "build"
  /\ GraphNext
  /\ UNCHANGED <<phase, status>>

Execute ==
  /\ phase = "build"
  /\ size > 0
  /\ phase' = "run"
  /\ UNCHANGED <<graphVars, status>>

Start(i) ==
  /\ phase = "run" \/ (phase = "failed" /\ kind[i] = "communication")
  /\ i \in Tasks
  /\ status[i] = "waiting"
  /\ \A d \in Deps(i) : status[d] = "done"
  /\ Cardinality(Running) < Width
  /\ status' = [status EXCEPT ![i] = "running"]
  /\ UNCHANGED <<graphVars, phase>>

Complete(i) ==
  /\ status[i] = "running"
  /\ status' = [status EXCEPT ![i] = "done"]
  /\ UNCHANGED <<graphVars, phase>>

Fail(i) ==
  /\ phase = "run"
  /\ status[i] = "running"
  /\ status' = [status EXCEPT ![i] = "failed"]
  /\ phase' = "failed"
  /\ UNCHANGED graphVars

ReturnResult ==
  /\ phase = "run"
  /\ \A i \in Tasks : status[i] = "done"
  /\ phase' = "returned"
  /\ UNCHANGED <<graphVars, status>>

ExecNext ==
  \/ Attach \/ Execute \/ ReturnResult
  \/ \E i \in Id : Start(i) \/ Complete(i) \/ Fail(i)

ExecSpec == ExecInit /\ [][ExecNext]_execVars

=============================================================================
