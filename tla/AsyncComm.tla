----------------------------- MODULE AsyncComm -----------------------------
(***************************************************************************)
(* execute_async_comm (std_e/execution/schedule/async_comm.mpi.cpp): one   *)
(* thread, "main", runs a task graph.  It executes the input and           *)
(* computation tasks itself, and hands the communication tasks over to the *)
(* threads of a pool, so that they overlap with its computations.          *)
(*                                                                         *)
(* main learns that a communication task is over from two pieces of memory *)
(* shared with the pool: one done_flag per launched task, and the counter  *)
(* current_comm of the tasks that have completed, on which it waits        *)
(* (std::atomic::wait) when it has nothing else to do.  A job of the pool  *)
(* is the lambda of lines 98-103: execute the task, raise its done_flag,   *)
(* increment current_comm, notify.                                         *)
(*                                                                         *)
(* Of the thread pool it has what TaskPool promises and ThreadPool         *)
(* implements, written in JobBegin: the pushed jobs are taken in any       *)
(* order, at most NWorkers of them at a time.                              *)
(*                                                                         *)
(* Memory order: main waits on current_comm with a relaxed load, so seeing *)
(* a job's increment does not make the job's done_flag visible.  A raised  *)
(* flag becomes visible to main by a step of its own (Propagate).          *)
(*                                                                         *)
(* Abstracted: the value a task computes.  begun and ended count the times *)
(* its execute() was entered and left.                                     *)
(***************************************************************************)
EXTENDS TaskGraph, SequencesExt

CONSTANTS
  NWorkers,  \* number of threads of the pool
  CommMod    \* number of values of an unsigned: 2^32 in the code

ASSUME AsyncCommAssumption ==
  /\ NWorkers \in Nat \ {0}
  /\ CommMod \in Nat
  /\ MaxTasks < CommMod  \* the size of a graph is an int

VARIABLES
  pc,            \* where main is
  j,             \* loop index of main: roots, successors, flying tasks
  cur,           \* the task main is executing, or whose successors it visits
  q,             \* std::queue<int>: the tasks ready to be executed
  state,         \* state_of_tasks: what main knows to be finished
  nRemaining,    \* n_task_remaining
  flying,        \* flying_tasks: the jobs launched and not acknowledged
  lastRecorded,  \* last_recorded_comm
  currentComm,   \* current_comm
  jobs,          \* the jobs pushed to the pool so far: the task of each
  stage,         \* ... and how far the pool is with it
  visible,       \* the jobs whose raised done_flag main can see
  begun,         \* number of times each task has been entered
  ended          \* number of times each task has returned

mainVars == <<j, cur, q, state, nRemaining, flying, lastRecorded>>
jobVars == <<currentComm, jobs, stage, visible>>
asyncVars == <<graphVars, pc, mainVars, jobVars, begun, ended>>

MainAt == {"build", "roots", "loop", "compute", "push", "wait", "sleep",
           "scan", "done", "thrown"}

\* A job waits in the pool, executes its task, has raised its done_flag, has
\* incremented current_comm, has called notify_one.
Stage == {"queued", "running", "flagged", "counted", "notified"}
Active == {"running", "flagged", "counted"}

Jobs == DOMAIN jobs

Bumped(count, i) == [count EXCEPT ![i] = @ + 1]

----------------------------------------------------------------------------
(* main *)

AsyncInit ==
  /\ GraphInit
  /\ pc = "build"
  /\ j = 0
  /\ cur = 0
  /\ q = <<>>
  /\ state = [i \in Id |-> "not_started"]
  /\ nRemaining = 0
  /\ flying = <<>>
  /\ lastRecorded = 0
  /\ currentComm = 0
  /\ jobs = <<>>
  /\ stage = <<>>
  /\ visible = {}
  /\ begun = [i \in Id |-> 0]
  /\ ended = [i \in Id |-> 0]

\* The graph is entirely built before it is executed: a future is needed to
\* execute it, so it has at least a task.
Build ==
  /\ pc = "build"
  /\ GraphNext
  /\ UNCHANGED <<pc, mainVars, jobVars, begun, ended>>

Call ==
  /\ pc = "build"
  /\ size > 0
  /\ pc' = "roots"
  /\ UNCHANGED <<graphVars, mainVars, jobVars, begun, ended>>

\* Lines 82-87, one task at a time.
Root ==
  /\ pc = "roots"
  /\ j < size
  /\ q' = IF inIdx[j] = <<>> THEN Append(q, j) ELSE q
  /\ j' = j + 1
  /\ UNCHANGED <<graphVars, pc, cur, state, nRemaining, flying, lastRecorded,
                 jobVars, begun, ended>>

RootsEnd ==
  /\ pc = "roots"
  /\ j = size
  /\ nRemaining' = size
  /\ pc' = "loop"
  /\ UNCHANGED <<graphVars, j, cur, q, state, flying, lastRecorded,
                 jobVars, begun, ended>>

\* Mutant: the job is pushed but not added to flying_tasks.
LaunchUnrecorded ==
  /\ pc = "loop"
  /\ nRemaining # 0
  /\ q # <<>>
  /\ kind[Head(q)] = "communication"
  /\ q' = Tail(q)
  /\ jobs' = Append(jobs, Head(q))
  /\ stage' = Append(stage, "queued")
  /\ UNCHANGED <<graphVars, pc, j, cur, state, nRemaining, flying, lastRecorded,
                 currentComm, visible, begun, ended>>

\* The front of q is a communication task: to the pool.
Launch ==
  /\ pc = "loop"
  /\ nRemaining # 0
  /\ q # <<>>
  /\ kind[Head(q)] = "communication"
  /\ q' = Tail(q)
  /\ jobs' = Append(jobs, Head(q))
  /\ stage' = Append(stage, "queued")
  /\ flying' = Append(flying, Len(jobs) + 1)
  /\ UNCHANGED <<graphVars, pc, j, cur, state, nRemaining, lastRecorded,
                 currentComm, visible, begun, ended>>

\* The front of q is another task: main executes it.
Compute ==
  /\ pc = "loop"
  /\ nRemaining # 0
  /\ q # <<>>
  /\ kind[Head(q)] # "communication"
  /\ q' = Tail(q)
  /\ cur' = Head(q)
  /\ begun' = Bumped(begun, Head(q))
  /\ pc' = "compute"
  /\ UNCHANGED <<graphVars, j, state, nRemaining, flying, lastRecorded,
                 jobVars, ended>>

Finished(i) ==
  /\ state' = [state EXCEPT ![i] = "finished"]
  /\ nRemaining' = nRemaining - 1
  /\ cur' = i
  /\ j' = 1
  /\ pc' = "push"

ComputeEnd ==
  /\ pc = "compute"
  /\ ended' = Bumped(ended, cur)
  /\ Finished(cur)
  /\ UNCHANGED <<graphVars, q, flying, lastRecorded, jobVars, begun>>

\* The function of the task throws: execute_async_comm is left, whatever
\* the pool is doing with the jobs already pushed.
ComputeThrow ==
  /\ pc = "compute"
  /\ pc' = "thrown"
  /\ UNCHANGED <<graphVars, mainVars, jobVars, begun, ended>>

\* Mutant: any_of for all_of.
AnyDepIsSatisfied(i) ==
  \E p \in DOMAIN inIdx[i] : state[inIdx[i][p]] = "finished"

DepsAreSatisfied(i) ==
  \A p \in DOMAIN inIdx[i] : state[inIdx[i][p]] = "finished"

\* push_to_queue_if_deps_satisfied, one successor of cur at a time.
PushSuccessor ==
  /\ pc = "push"
  /\ j \in DOMAIN outIdx[cur]
  /\ q' = IF DepsAreSatisfied(outIdx[cur][j]) THEN Append(q, outIdx[cur][j]) ELSE q
  /\ j' = j + 1
  /\ UNCHANGED <<graphVars, pc, cur, state, nRemaining, flying, lastRecorded,
                 jobVars, begun, ended>>

PushEnd ==
  /\ pc = "push"
  /\ j \notin DOMAIN outIdx[cur]
  /\ pc' = "loop"
  /\ UNCHANGED <<graphVars, mainVars, jobVars, begun, ended>>

\* wait_one_comm_to_finish; its assertion is NeverWaitsForNothing below.
NothingReady ==
  /\ pc = "loop"
  /\ nRemaining # 0
  /\ q = <<>>
  /\ pc' = "wait"
  /\ UNCHANGED <<graphVars, mainVars, jobVars, begun, ended>>

\* Mutant: the done_flags are polled, whatever current_comm.
Poll ==
  /\ pc = "wait"
  /\ pc' = "scan"
  /\ j' = 1
  /\ UNCHANGED <<graphVars, cur, q, state, nRemaining, flying, lastRecorded,
                 jobVars, begun, ended>>

\* current_comm.wait(last_recorded_comm): block as long as they are equal.
Wait ==
  /\ pc = "wait"
  /\ pc' = IF currentComm = lastRecorded THEN "sleep" ELSE "scan"
  /\ j' = 1
  /\ UNCHANGED <<graphVars, cur, q, state, nRemaining, flying, lastRecorded,
                 jobVars, begun, ended>>

FlagIsSeen(p) == flying[p] \in visible

ScanSkip ==
  /\ pc = "scan"
  /\ j \in DOMAIN flying
  /\ ~ FlagIsSeen(j)
  /\ j' = j + 1
  /\ UNCHANGED <<graphVars, pc, cur, q, state, nRemaining, flying, lastRecorded,
                 jobVars, begun, ended>>

\* Take into account that one task is done, then return after its successors.
Acknowledge ==
  /\ pc = "scan"
  /\ j \in DOMAIN flying
  /\ FlagIsSeen(j)
  /\ Finished(jobs[flying[j]])
  /\ lastRecorded' = (lastRecorded + 1) % CommMod
  /\ flying' = RemoveAt(flying, j)
  /\ UNCHANGED <<graphVars, q, jobVars, begun, ended>>

ScanEnd ==
  /\ pc = "scan"
  /\ j \notin DOMAIN flying
  /\ pc' = "loop"
  /\ UNCHANGED <<graphVars, mainVars, jobVars, begun, ended>>

Return ==
  /\ pc = "loop"
  /\ nRemaining = 0
  /\ pc' = "done"
  /\ UNCHANGED <<graphVars, mainVars, jobVars, begun, ended>>

Main == \/ Build \/ Call \/ Root \/ RootsEnd
        \/ Launch \/ Compute \/ ComputeEnd \/ ComputeThrow
        \/ PushSuccessor \/ PushEnd
        \/ NothingReady \/ Wait \/ ScanSkip \/ Acknowledge \/ ScanEnd
        \/ Return

----------------------------------------------------------------------------
(* the jobs, on the threads of the pool *)

StageBecomes(t, from, to) ==
  /\ stage[t] = from
  /\ stage' = [stage EXCEPT ![t] = to]
  /\ UNCHANGED jobs

\* A free thread of the pool takes the job.
JobBegin(t) ==
  /\ Cardinality({u \in Jobs : stage[u] \in Active}) < NWorkers
  /\ StageBecomes(t, "queued", "running")
  /\ begun' = Bumped(begun, jobs[t])
  /\ UNCHANGED <<graphVars, pc, mainVars, currentComm, visible, ended>>

\* The task returns and done_flag is stored.
JobEnd(t) ==
  /\ StageBecomes(t, "running", "flagged")
  /\ ended' = Bumped(ended, jobs[t])
  /\ UNCHANGED <<graphVars, pc, mainVars, currentComm, visible, begun>>

JobCount(t) ==
  /\ StageBecomes(t, "flagged", "counted")
  /\ currentComm' = (currentComm + 1) % CommMod
  /\ UNCHANGED <<graphVars, pc, mainVars, visible, begun, ended>>

\* Mutant: notify_one is forgotten.
JobForgetsToNotify(t) ==
  /\ StageBecomes(t, "counted", "notified")
  /\ UNCHANGED <<graphVars, pc, mainVars, currentComm, visible, begun, ended>>

\* notify_one: main, the only waiter, wakes up and reads current_comm again.
JobNotify(t) ==
  /\ StageBecomes(t, "counted", "notified")
  /\ pc' = IF pc = "sleep" THEN "wait" ELSE pc
  /\ UNCHANGED <<graphVars, mainVars, currentComm, visible, begun, ended>>

\* Mutant: done_flag is raised before the task is executed.
FlagRaisedTooEarly(t) ==
  /\ stage[t] \in {"running", "flagged", "counted", "notified"}
  /\ t \notin visible
  /\ visible' = visible \cup {t}
  /\ UNCHANGED <<graphVars, pc, mainVars, currentComm, jobs, stage, begun, ended>>

Propagate(t) ==
  /\ stage[t] \in {"flagged", "counted", "notified"}
  /\ t \notin visible
  /\ visible' = visible \cup {t}
  /\ UNCHANGED <<graphVars, pc, mainVars, currentComm, jobs, stage, begun, ended>>

JobStep(t) == JobBegin(t) \/ JobEnd(t) \/ JobCount(t) \/ JobNotify(t)

\* main has left, and every job is over.
Over ==
  /\ pc \in {"done", "thrown"}
  /\ \A t \in Jobs : stage[t] = "notified"
  /\ UNCHANGED asyncVars

AsyncNext ==
  \/ Main
  \/ \E t \in Jobs : JobStep(t) \/ Propagate(t)
  \/ Over

AsyncSpec == AsyncInit /\ [][AsyncNext]_asyncVars

\* main and the threads of the pool keep running, a task returns or throws, a
\* store becomes visible in finite time ([intro.progress] of the standard).
\* Nothing obliges a caller to attach one more task or to call the schedule.
MainRuns == pc # "build" /\ Main

FairAsyncSpec ==
  /\ AsyncSpec
  /\ WF_asyncVars(MainRuns)
  /\ \A t \in 1 .. MaxTasks :
       /\ WF_asyncVars(t \in Jobs /\ JobStep(t))
       /\ WF_asyncVars(t \in Jobs /\ Propagate(t))

----------------------------------------------------------------------------

AsyncTypeOK ==
  /\ GraphTypeOK
  /\ pc \in MainAt
  /\ j \in Nat
  /\ cur \in Id
  /\ q \in Seq(Id)
  /\ state \in [Id -> {"not_started", "finished"}]
  /\ nRemaining \in Int
  /\ flying \in Seq(Jobs)
  /\ lastRecorded \in 0 .. CommMod - 1
  /\ currentComm \in 0 .. CommMod - 1
  /\ jobs \in Seq(Id)
  /\ stage \in Seq(Stage) /\ Len(stage) = Len(jobs)
  /\ visible \subseteq Jobs
  /\ begun \in [Id -> Nat]
  /\ ended \in [Id -> Nat]

(* A task is launched once its dependencies have completed                 *)
(* (execution.rst:19), and none of them is executed again afterwards: the  *)
(* values it reads are not being written.                                  *)
LaunchedAfterCompletion ==
  \A i \in Id : begun[i] > 0 =>
    \A p \in DOMAIN inIdx[i] :
      LET d == inIdx[i][p] IN ended[d] > 0 /\ begun[d] = ended[d]

(* No task is executed twice, whichever way it became ready.               *)
ExecutedOnce == \A i \in Id : begun[i] <= 1

(* What main takes for finished has returned, although it reads done_flag  *)
(* while the pool is still running the end of the job.                     *)
KnowledgeIsSound == \A i \in Id : state[i] = "finished" => ended[i] > 0

(* The assertion of wait_one_comm_to_finish (line 45): main never waits    *)
(* when no communication task could wake it up.                            *)
NeverWaitsForNothing == pc \in {"wait", "sleep", "scan"} => flying # <<>>

(* No lost wakeup: while main is blocked on current_comm, a job has not    *)
(* yet called notify_one.                                                  *)
NoLostWakeup == pc = "sleep" => \E t \in Jobs : stage[t] # "notified"

(* When execute_async_comm returns, the result it reads next is computed:  *)
(* every task of the graph has been executed.                              *)
AllExecutedAtReturn == pc = "done" => \A i \in Tasks : ended[i] > 0

(* ... and no job is still to write to done_flag or current_comm, which    *)
(* are freed.  (notify_one only uses the address of current_comm.)         *)
NothingWrittenAfterReturn ==
  pc = "done" => \A t \in Jobs : stage[t] \in {"counted", "notified"}

(* The asynchronous schedule implements TaskExecution: main executes a task *)
(* beside those the pool executes.  The task main was executing when it     *)
(* throws has failed.                                                       *)
AsyncStatus ==
  [i \in Id |->
    IF ended[i] > 0 THEN "done"
    ELSE IF begun[i] = 0 THEN "waiting"
    ELSE IF pc = "thrown" /\ i = cur THEN "failed"
    ELSE "running"]

AsyncPhase ==
  IF pc = "build" THEN "build"
  ELSE IF pc = "done" THEN "returned"
  ELSE IF pc = "thrown" THEN "failed"
  ELSE "run"

Execution == INSTANCE TaskExecution
  WITH Width <- NWorkers + 1, phase <- AsyncPhase, status <- AsyncStatus

AsyncImplementsExecution == Execution!ExecSpec

(* The schedule terminates: it neither blocks nor spins for ever.          *)
Terminates == (pc = "roots") ~> (pc \in {"done", "thrown"})

=============================================================================
