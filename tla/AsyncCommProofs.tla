-------------------------- MODULE AsyncCommProofs --------------------------
(* The asynchronous schedule is right for every graph, every number of     *)
(* threads and every interleaving, when no join repeats a future.          *)
EXTENDS AsyncComm, TaskGraphProofs, SeqLemmas

----------------------------------------------------------------------------
(* The inductive invariant. *)

\* Nothing has been done about task i yet.
Fresh(i) ==
  /\ state[i] = "not_started"
  /\ begun[i] = 0
  /\ i \notin Range(q)
  /\ \A t \in Jobs : jobs[t] # i

\* What is in the queue is ready and has not been started.
QueueInv ==
  /\ IsInjective(q)
  /\ \A i \in Range(q) :
       /\ i \in Tasks
       /\ state[i] = "not_started"
       /\ begun[i] = 0
       /\ DepsAreSatisfied(i)
       /\ \A t \in Jobs : jobs[t] # i

\* There is one job per launched task, and its stage tells the executions.
JobsInv ==
  /\ \A t, u \in Jobs : jobs[t] = jobs[u] => t = u
  /\ \A t \in Jobs :
       LET i == jobs[t] IN
         /\ i \in Tasks
         /\ kind[i] = "communication"
         /\ DepsAreSatisfied(i)
         /\ begun[i] = IF stage[t] = "queued" THEN 0 ELSE 1
         /\ ended[i] = IF stage[t] \in {"queued", "running"} THEN 0 ELSE 1
  /\ \A t \in visible : stage[t] \notin {"queued", "running"}

\* The flying jobs are those not acknowledged.
FlyingInv ==
  /\ IsInjective(flying)
  /\ \A t \in Jobs : t \in Range(flying) <=> state[jobs[t]] = "not_started"

TaskInv ==
  \A i \in Id :
    /\ begun[i] \in {0, 1} /\ ended[i] \in {0, 1} /\ ended[i] <= begun[i]
    /\ state[i] = "finished" => i \in Tasks /\ begun[i] = 1 /\ ended[i] = 1
    /\ begun[i] = 1 => i \in Tasks /\ DepsAreSatisfied(i)
    /\ begun[i] = 1 /\ state[i] = "not_started" =>
         \/ \E t \in Jobs : jobs[t] = i
         \/ pc \in {"compute", "thrown"} /\ i = cur

\* main is in the function of a task, or has left it by an exception.
ComputeInv ==
  pc \in {"compute", "thrown"} =>
    /\ cur \in Tasks
    /\ state[cur] = "not_started"
    /\ begun[cur] = 1 /\ ended[cur] = 0
    /\ kind[cur] # "communication"

\* While the successors of cur are visited, the next ones are untouched.
PushInv ==
  pc = "push" =>
    /\ state[cur] = "finished"
    /\ j >= 1
    /\ \A p \in DOMAIN outIdx[cur] : p >= j => Fresh(outIdx[cur][p])

RootsInv ==
  pc \in {"build", "roots"} =>
    /\ jobs = <<>> /\ flying = <<>>
    /\ lastRecorded = 0 /\ currentComm = 0
    /\ \A i \in Id : state[i] = "not_started" /\ begun[i] = 0 /\ ended[i] = 0
    /\ pc = "build" => q = <<>> /\ j = 0
    /\ j <= size
    /\ \A i \in Range(q) : i < j /\ inIdx[i] = <<>>
    /\ \A i \in Tasks : i < j /\ inIdx[i] = <<>> => i \in Range(q)

\* A ready task is never forgotten.
ReadyInv ==
  pc \notin {"build", "roots"} =>
    \A i \in Tasks : DepsAreSatisfied(i) /\ Fresh(i) =>
      pc = "push" /\ \E p \in DOMAIN outIdx[cur] : p >= j /\ outIdx[cur][p] = i

Unfinished == {i \in Tasks : state[i] # "finished"}

CountInv ==
  /\ pc \notin {"build", "roots"} => nRemaining = Cardinality(Unfinished)
  /\ pc = "done" => Unfinished = {}

\* current_comm counts the jobs past their increment, last_recorded_comm
\* the acknowledged ones, and main never runs ahead of the jobs.
CountedJobs == {t \in Jobs : stage[t] \in {"counted", "notified"}}

CommInv ==
  /\ currentComm = Cardinality(CountedJobs)
  /\ lastRecorded = Len(jobs) - Len(flying)
  /\ lastRecorded <= currentComm
  /\ pc = "scan" => lastRecorded < currentComm

AsyncInv ==
  /\ AsyncTypeOK /\ GraphInv
  /\ QueueInv /\ JobsInv /\ FlyingInv /\ TaskInv
  /\ ComputeInv /\ PushInv /\ RootsInv /\ ReadyInv
  /\ CountInv /\ NeverWaitsForNothing
  /\ CommInv /\ NoLostWakeup

----------------------------------------------------------------------------
(* Types *)

LEMMA AsyncTypes ==
  ASSUME AsyncTypeOK
  PROVE  /\ Jobs = 1 .. Len(jobs) /\ Len(jobs) \in Nat
         /\ \A t \in Jobs : jobs[t] \in Id /\ stage[t] \in Stage
         /\ DOMAIN stage = Jobs
         /\ DOMAIN q = 1 .. Len(q) /\ Len(q) \in Nat
         /\ Range(q) \subseteq Id
         /\ DOMAIN flying = 1 .. Len(flying) /\ Len(flying) \in Nat
         /\ Range(flying) \subseteq Jobs
         /\ \A i \in Id : DOMAIN inIdx[i] = 1 .. Len(inIdx[i]) /\ Len(inIdx[i]) \in Nat
         /\ \A i \in Id : \A p \in DOMAIN inIdx[i] : inIdx[i][p] \in Id
         /\ \A i \in Id : DOMAIN outIdx[i] = 1 .. Len(outIdx[i]) /\ Len(outIdx[i]) \in Nat
         /\ \A i \in Id : \A p \in DOMAIN outIdx[i] : outIdx[i][p] \in Id
<1> USE DEF AsyncTypeOK, GraphTypeOK
<1>1. Jobs = 1 .. Len(jobs) /\ Len(jobs) \in Nat
  BY DEF Jobs
<1>2. DOMAIN stage = Jobs /\ \A t \in Jobs : jobs[t] \in Id /\ stage[t] \in Stage
  <2>1. jobs \in Seq(Id) /\ stage \in Seq(Stage) /\ Len(stage) = Len(jobs)
    OBVIOUS
  <2>2. DOMAIN stage = Jobs
    BY <2>1 DEF Jobs
  <2>3. \A t \in Jobs : jobs[t] \in Id
    BY <2>1 DEF Jobs
  <2>4. \A t \in DOMAIN stage : stage[t] \in Stage
    BY <2>1
  <2> QED
    BY <2>2, <2>3, <2>4
<1>3. DOMAIN q = 1 .. Len(q) /\ Len(q) \in Nat /\ Range(q) \subseteq Id
  BY DEF Range
<1>4. DOMAIN flying = 1 .. Len(flying) /\ Len(flying) \in Nat /\ Range(flying) \subseteq Jobs
  BY DEF Range
<1>5. \A i \in Id : inIdx[i] \in Seq(Id) /\ outIdx[i] \in Seq(Id)
  OBVIOUS
<1> QED
  BY <1>1, <1>2, <1>3, <1>4, <1>5

LEMMA AsyncInitTypes == ASSUME AsyncInit PROVE AsyncTypeOK
<1>1. GraphTypeOK
  BY GraphInitInv DEF AsyncInit, GraphInv
<1> QED
  BY <1>1, AsyncCommAssumption, TaskGraphAssumption
  DEF AsyncInit, AsyncTypeOK, MainAt, Jobs, Id, Stage

LEMMA FinishedTypes ==
  ASSUME AsyncTypeOK, NEW i \in Id, Finished(i)
  PROVE  /\ state' \in [Id -> {"not_started", "finished"}]
         /\ nRemaining' \in Int /\ cur' \in Id /\ j' \in Nat /\ pc' \in MainAt
  BY DEF AsyncTypeOK, Finished, MainAt

\* What a step of a job does to the stages.
LEMMA StageFact ==
  ASSUME AsyncTypeOK, NEW t \in Jobs, NEW from \in Stage, NEW to \in Stage,
         StageBecomes(t, from, to)
  PROVE  /\ stage' \in Seq(Stage) /\ Len(stage') = Len(jobs) /\ jobs' = jobs
         /\ stage[t] = from /\ stage'[t] = to
         /\ \A u \in Jobs : u # t => stage'[u] = stage[u]
<1>1. /\ stage \in Seq(Stage) /\ stage' = [stage EXCEPT ![t] = to]
      /\ t \in 1 .. Len(stage) /\ Len(stage) \in Nat
      /\ Jobs = 1 .. Len(stage)
  BY DEF AsyncTypeOK, StageBecomes, Jobs
<1> QED
  BY <1>1 DEF AsyncTypeOK, StageBecomes

LEMMA TypeStep == ASSUME AsyncTypeOK, GraphInv, GraphInv', AsyncNext PROVE AsyncTypeOK'
<1> USE DEF AsyncTypeOK, mainVars, jobVars, graphVars
<1>g. GraphTypeOK'
  BY DEF GraphInv
<1>1. CASE Build
  BY <1>1, <1>g DEF Build, Jobs
<1>2. CASE Call
  BY <1>2, <1>g DEF Call, Jobs, MainAt
<1>3. CASE Root
  <2>1. j \in Id
    BY <1>3, TaskGraphAssumption DEF Root, GraphTypeOK, Id
  <2>2. q' \in Seq(Id)
    BY <1>3, <2>1, AppendFact DEF Root
  <2> QED
    BY <1>3, <1>g, <2>2 DEF Root, Jobs
<1>4. CASE RootsEnd
  <2>1. size \in Int
    BY TaskGraphAssumption DEF GraphTypeOK
  <2> QED
    BY <1>4, <1>g, <2>1 DEF RootsEnd, Jobs, MainAt
<1>5. CASE Launch
  <2>1. Head(q) \in Id /\ q' \in Seq(Id)
    BY <1>5, TailFact DEF Launch
  <2>2. /\ jobs' \in Seq(Id) /\ stage' \in Seq(Stage) /\ Len(stage') = Len(jobs')
        /\ Len(jobs') = Len(jobs) + 1 /\ Len(jobs) \in Nat
    BY <1>5, <2>1 DEF Launch, Stage
  <2>3. /\ Jobs = 1 .. Len(jobs) /\ Jobs' = 1 .. Len(jobs) + 1
        /\ Jobs \subseteq Jobs' /\ Len(jobs) + 1 \in Jobs'
    BY <2>2 DEF Jobs
  <2>4. flying \in Seq(Jobs')
    BY <2>3
  <2>5. flying' \in Seq(Jobs')
    BY <1>5, <2>3, <2>4 DEF Launch
  <2> QED
    BY <1>5, <1>g, <2>1, <2>2, <2>3, <2>5 DEF Launch
<1>6. CASE Compute
  <2>1. Head(q) \in Id /\ q' \in Seq(Id)
    BY <1>6, TailFact DEF Compute
  <2>2. begun' \in [Id -> Nat]
    BY SMTT(30), <1>6, <2>1 DEF Compute, Bumped
  <2> QED
    BY <1>6, <1>g, <2>1, <2>2 DEF Compute, Jobs, MainAt
<1>7. CASE ComputeEnd
  <2>1. ended' \in [Id -> Nat]
    BY <1>7 DEF ComputeEnd, Bumped
  <2> QED
    BY <1>7, <1>g, <2>1, FinishedTypes DEF ComputeEnd, Jobs
<1>8. CASE ComputeThrow
  BY <1>8, <1>g DEF ComputeThrow, Jobs, MainAt
<1>9. CASE PushSuccessor
  <2>1. outIdx[cur][j] \in Id
    BY <1>9, AsyncTypes DEF PushSuccessor
  <2>2. q' \in Seq(Id)
    BY <1>9, <2>1, AppendFact DEF PushSuccessor
  <2> QED
    BY <1>9, <1>g, <2>2 DEF PushSuccessor, Jobs
<1>10. CASE PushEnd \/ NothingReady \/ ScanEnd \/ Return
  BY <1>10, <1>g DEF PushEnd, NothingReady, ScanEnd, Return, Jobs, MainAt
<1>11. CASE Wait
  BY <1>11, <1>g DEF Wait, Jobs, MainAt
<1>12. CASE ScanSkip
  BY SMTT(30), <1>12, <1>g DEF ScanSkip, Jobs
<1>13. CASE Acknowledge
  <2>1. j \in 1 .. Len(flying) /\ flying[j] \in Jobs
    BY <1>13, AsyncTypes DEF Acknowledge
  <2>2. jobs[flying[j]] \in Id
    BY <2>1, AsyncTypes
  <2>3. flying' \in Seq(Jobs)
    BY <1>13, <2>1, RemoveAtFact DEF Acknowledge
  <2>4. lastRecorded' \in 0 .. CommMod - 1
    BY <1>13, AsyncCommAssumption, TaskGraphAssumption DEF Acknowledge
  <2> QED
    BY <1>13, <1>g, <2>2, <2>3, <2>4, FinishedTypes DEF Acknowledge, Jobs
<1>14. ASSUME NEW t \in Jobs, JobBegin(t) PROVE AsyncTypeOK'
  <2>1. jobs[t] \in Id
    BY AsyncTypes
  <2>2. begun' \in [Id -> Nat]
    BY SMTT(30), <1>14, <2>1 DEF JobBegin, Bumped
  <2> QED
    BY <1>14, <1>g, <2>2, StageFact DEF JobBegin, Jobs, Stage
<1>15. ASSUME NEW t \in Jobs, JobEnd(t) PROVE AsyncTypeOK'
  <2>1. jobs[t] \in Id
    BY AsyncTypes
  <2>2. ended' \in [Id -> Nat]
    BY <1>15, <2>1 DEF JobEnd, Bumped
  <2> QED
    BY <1>15, <1>g, <2>2, StageFact DEF JobEnd, Jobs, Stage
<1>16. ASSUME NEW t \in Jobs, JobCount(t) PROVE AsyncTypeOK'
  <2>1. currentComm' \in 0 .. CommMod - 1
    BY <1>16, AsyncCommAssumption, TaskGraphAssumption DEF JobCount
  <2> QED
    BY <1>16, <1>g, <2>1, StageFact DEF JobCount, Jobs, Stage
<1>17. ASSUME NEW t \in Jobs, JobNotify(t) PROVE AsyncTypeOK'
  BY <1>17, <1>g, StageFact DEF JobNotify, Jobs, Stage, MainAt
<1>18. ASSUME NEW t \in Jobs, Propagate(t) PROVE AsyncTypeOK'
  BY <1>18, <1>g DEF Propagate, Jobs
<1>19. CASE Over
  BY <1>19, <1>g DEF Over, asyncVars, Jobs
<1> QED
  BY <1>1, <1>2, <1>3, <1>4, <1>5, <1>6, <1>7, <1>8, <1>9, <1>10, <1>11, <1>12,
     <1>13, <1>14, <1>15, <1>16, <1>17, <1>18, <1>19
  DEF AsyncNext, Main, JobStep

----------------------------------------------------------------------------
(* The steps preserve each part of the invariant. *)

\* The steps that only move main, and those of the jobs that only main's wait
\* depends on, leave most of the state alone.
Quiet ==
  /\ UNCHANGED <<graphVars, cur, q, state, flying, jobs, begun, ended>>
  /\ \A t \in Jobs : stage'[t] = stage[t] \/ {stage[t], stage'[t]} \subseteq
                                                {"flagged", "counted", "notified"}
  /\ \A t \in visible' : t \in visible \/ stage[t] \in {"flagged", "counted", "notified"}
  /\ \/ pc' = pc
     \/ pc = "compute" /\ pc' = "thrown"
     \/ {pc, pc'} \cap {"compute", "thrown"} = {}
  /\ pc' = "push" => pc = "push" /\ j' = j

LEMMA QuietSteps ==
  ASSUME AsyncTypeOK,
         \/ Call \/ RootsEnd \/ ComputeThrow \/ PushEnd \/ NothingReady
         \/ Wait \/ ScanSkip \/ ScanEnd \/ Return \/ Over \/ UNCHANGED asyncVars
         \/ \E t \in Jobs : JobCount(t) \/ JobNotify(t) \/ Propagate(t)
  PROVE  Quiet
<1>1. CASE \/ Call \/ RootsEnd \/ ComputeThrow \/ PushEnd \/ NothingReady
           \/ Wait \/ ScanSkip \/ ScanEnd \/ Return \/ Over \/ UNCHANGED asyncVars
  BY <1>1 DEF Quiet, Call, RootsEnd, ComputeThrow, PushEnd, NothingReady, Wait,
              ScanSkip, ScanEnd, Return, Over, asyncVars, mainVars, jobVars, graphVars
<1>2. ASSUME NEW t \in Jobs, JobCount(t) PROVE Quiet
  BY <1>2, StageFact DEF JobCount, Quiet, Stage, graphVars, mainVars
<1>3. ASSUME NEW t \in Jobs, JobNotify(t) PROVE Quiet
  BY <1>3, StageFact DEF JobNotify, Quiet, Stage, graphVars, mainVars
<1>4. ASSUME NEW t \in Jobs, Propagate(t) PROVE Quiet
  BY <1>4 DEF Propagate, Quiet, graphVars, mainVars
<1> QED
  BY <1>1, <1>2, <1>3, <1>4

\* The other steps.
Busy == \/ Build \/ Root \/ Launch \/ Compute \/ ComputeEnd \/ PushSuccessor
        \/ Acknowledge \/ \E t \in Jobs : JobBegin(t) \/ JobEnd(t)

LEMMA QuietOrBusy ==
  ASSUME AsyncTypeOK, [AsyncNext]_asyncVars PROVE Quiet \/ Busy
  BY QuietSteps DEF AsyncNext, Main, JobStep, Busy

LEMMA GraphStep ==
  ASSUME AsyncTypeOK, [AsyncNext]_asyncVars, GraphInv PROVE GraphInv'
<1>1. CASE Build
  BY <1>1, GraphStepInv DEF Build
<1>2. CASE Quiet \/ Root \/ Launch \/ Compute \/ ComputeEnd \/ PushSuccessor
           \/ Acknowledge \/ \E t \in Jobs : JobBegin(t) \/ JobEnd(t)
  BY <1>2, GraphStutterInv
  DEF Quiet, Root, Launch, Compute, ComputeEnd, PushSuccessor, Acknowledge,
      JobBegin, JobEnd
<1> QED
  BY <1>1, <1>2, QuietOrBusy DEF Busy

LEMMA TypePrimed ==
  ASSUME AsyncInv, [AsyncNext]_asyncVars PROVE AsyncTypeOK' /\ GraphInv'
<1>1. GraphInv'
  BY GraphStep DEF AsyncInv
<1>2. CASE UNCHANGED asyncVars
  <2>1. GraphTypeOK'
    BY <1>1 DEF GraphInv
  <2> QED
    BY <1>1, <1>2, <2>1 DEF AsyncInv, AsyncTypeOK, asyncVars, mainVars, jobVars, Jobs
<1> QED
  BY <1>1, <1>2, TypeStep DEF AsyncInv

\* What main finishes: the task it computes, or that of a flying job.
LEMMA FinishedFact ==
  ASSUME AsyncInv, ComputeEnd \/ Acknowledge
  PROVE  \E i \in Tasks :
           /\ i \in Id /\ cur' = i /\ Finished(i)
           /\ state[i] = "not_started" /\ begun[i] = 1 /\ ended'[i] = 1
           /\ DepsAreSatisfied(i)
           /\ ComputeEnd => i = cur /\ pc = "compute"
           /\ Acknowledge => i = jobs[flying[j]] /\ ended' = ended
<1>1. CASE ComputeEnd
  <2>1. /\ cur \in Tasks /\ cur \in Id /\ state[cur] = "not_started"
        /\ begun[cur] = 1 /\ ended[cur] = 0 /\ pc = "compute"
    BY <1>1 DEF ComputeEnd, AsyncInv, ComputeInv, AsyncTypeOK
  <2>2. DepsAreSatisfied(cur)
    BY <2>1 DEF AsyncInv, TaskInv
  <2>3. ended'[cur] = 1
    BY <1>1, <2>1 DEF ComputeEnd, Bumped, AsyncInv, AsyncTypeOK
  <2>4. ~ Acknowledge
    BY <1>1 DEF ComputeEnd, Acknowledge
  <2>5. cur' = cur /\ Finished(cur)
    BY <1>1 DEF ComputeEnd, Finished
  <2> QED
    BY <2>1, <2>2, <2>3, <2>4, <2>5
<1>2. CASE Acknowledge
  <2> DEFINE t == flying[j]
  <2>1. j \in DOMAIN flying /\ t \in Jobs /\ t \in Range(flying) /\ t \in visible
    BY <1>2, AsyncTypes DEF Acknowledge, FlagIsSeen, AsyncInv, Range
  <2>2. jobs[t] \in Id /\ jobs[t] \in Tasks /\ state[jobs[t]] = "not_started"
    BY <2>1, AsyncTypes DEF AsyncInv, FlyingInv, JobsInv
  <2>3. begun[jobs[t]] = 1 /\ ended[jobs[t]] = 1 /\ DepsAreSatisfied(jobs[t])
    BY <2>1 DEF AsyncInv, JobsInv
  <2>4. ended' = ended /\ ~ ComputeEnd
    BY <1>2 DEF Acknowledge, ComputeEnd
  <2>5. Finished(jobs[t]) /\ cur' = jobs[t]
    BY <1>2 DEF Acknowledge, Finished
  <2> QED
    BY <2>2, <2>3, <2>4, <2>5
<1> QED
  BY <1>1, <1>2

\* What is finished stays finished: satisfied dependencies stay so.
LEMMA DepsStable ==
  ASSUME AsyncInv, Busy, ~ Build, NEW i \in Id, DepsAreSatisfied(i)
  PROVE  DepsAreSatisfied(i)'
<1>1. inIdx' = inIdx
  BY DEF Busy, Root, Launch, Compute, ComputeEnd, PushSuccessor, Acknowledge,
         JobBegin, JobEnd, graphVars
<1>2. \A n \in Id : state[n] = "finished" => state'[n] = "finished"
  BY DEF Busy, Root, Launch, Compute, ComputeEnd, PushSuccessor, Acknowledge, Finished,
         JobBegin, JobEnd, mainVars, AsyncInv, AsyncTypeOK
<1>3. \A p \in DOMAIN inIdx[i] : inIdx[i][p] \in Id
  BY AsyncTypes DEF AsyncInv
<1> QED
  BY <1>1, <1>2, <1>3 DEF DepsAreSatisfied

\* The invariant gives main a fresh task when it pushes one.
LEMMA PushedIsFresh ==
  ASSUME AsyncInv, NEW i, \/ Root /\ i = j /\ inIdx[j] = <<>>
                          \/ PushSuccessor /\ i = outIdx[cur][j] /\ DepsAreSatisfied(i)
  PROVE  /\ i \in Id /\ i \in Tasks /\ Fresh(i) /\ DepsAreSatisfied(i)
         /\ q' = Append(q, i)
<1>1. CASE Root /\ i = j /\ inIdx[j] = <<>>
  <2>1. i \in Tasks /\ i \in Id
    BY <1>1, TasksAreIds DEF Root, Tasks, AsyncInv, AsyncTypeOK, GraphTypeOK
  <2>2. state[i] = "not_started" /\ begun[i] = 0 /\ jobs = <<>>
    BY <1>1, <2>1 DEF Root, AsyncInv, RootsInv
  <2>3. i \notin Range(q)
    BY <1>1, <2>1 DEF Root, AsyncInv, RootsInv, Id
  <2>4. DepsAreSatisfied(i)
    BY <1>1 DEF DepsAreSatisfied
  <2>5. Jobs = {}
    BY <2>2 DEF Jobs
  <2> QED
    BY <1>1, <2>1, <2>2, <2>3, <2>4, <2>5 DEF Root, Fresh
<1>2. CASE PushSuccessor /\ i = outIdx[cur][j] /\ DepsAreSatisfied(i)
  <2>1. Fresh(i)
    <3>1. j \in Nat /\ j >= j /\ j \in DOMAIN outIdx[cur] /\ pc = "push"
      BY <1>2 DEF PushSuccessor, AsyncInv, AsyncTypeOK
    <3>2. \A p \in DOMAIN outIdx[cur] : p >= j => Fresh(outIdx[cur][p])
      BY <3>1 DEF AsyncInv, PushInv
    <3> QED
      BY <1>2, <3>1, <3>2
  <2>2. cur \in Id /\ j \in DOMAIN outIdx[cur]
    BY <1>2 DEF PushSuccessor, AsyncInv, AsyncTypeOK
  <2>3. i \in Id /\ i < size
    BY <1>2, <2>2, SuccessorsAttached DEF AsyncInv
  <2>4. i \in Tasks
    BY <2>3, TaskGraphAssumption DEF Id, Tasks, AsyncInv, AsyncTypeOK, GraphTypeOK
  <2> QED
    BY <1>2, <2>1, <2>3, <2>4 DEF PushSuccessor
<1> QED
  BY <1>1, <1>2

LEMMA QueueStep ==
  ASSUME AsyncInv, [AsyncNext]_asyncVars PROVE QueueInv'
<1>q. q \in Seq(Id) /\ Range(q) \subseteq Id
  BY AsyncTypes DEF AsyncInv, AsyncTypeOK
<1>0. IsInjective(q) /\ \A i \in Range(q) :
        /\ i \in Id /\ i \in Tasks /\ state[i] = "not_started" /\ begun[i] = 0
        /\ DepsAreSatisfied(i) /\ \A t \in Jobs : jobs[t] # i
  BY <1>q DEF AsyncInv, QueueInv
<1>1. CASE Quiet
  BY <1>1 DEF Quiet, AsyncInv, QueueInv, Tasks, DepsAreSatisfied, Jobs, graphVars
<1>2. CASE Build
  <2>1. q' = <<>>
    BY <1>2 DEF Build, mainVars, AsyncInv, RootsInv
  <2> QED
    BY <2>1 DEF QueueInv, Range, IsInjective
<1>3. CASE Root \/ PushSuccessor
  <2>1. UNCHANGED <<size, inIdx, state, begun, jobs>>
    BY <1>3 DEF Root, PushSuccessor, graphVars, jobVars
  <2>2. CASE q' = q
    BY <1>0, <2>1, <2>2 DEF QueueInv, Tasks, DepsAreSatisfied, Jobs
  <2>3. CASE q' # q
    <3>1. PICK i : \/ Root /\ i = j /\ inIdx[j] = <<>>
                   \/ PushSuccessor /\ i = outIdx[cur][j] /\ DepsAreSatisfied(i)
      BY <1>3, <2>3 DEF Root, PushSuccessor
    <3>2. i \in Id /\ i \in Tasks /\ Fresh(i) /\ DepsAreSatisfied(i) /\ q' = Append(q, i)
      BY <3>1, PushedIsFresh
    <3>3. IsInjective(q') /\ Range(q') = Range(q) \cup {i}
      BY <1>q, <1>0, <3>2, AppendFact DEF Fresh
    <3> QED
      BY <1>0, <2>1, <3>2, <3>3 DEF QueueInv, Fresh, Tasks, DepsAreSatisfied, Jobs
  <2> QED
    BY <2>2, <2>3
<1>4. CASE Launch \/ Compute
  <2>1. /\ q # <<>> /\ q' = Tail(q) /\ UNCHANGED <<size, inIdx, state>>
        /\ \/ begun' = begun /\ jobs' = Append(jobs, Head(q))
           \/ begun' = Bumped(begun, Head(q)) /\ jobs' = jobs
    BY <1>4 DEF Launch, Compute, graphVars, jobVars
  <2>2. /\ Head(q) \in Id /\ Range(q') \subseteq Range(q) /\ Head(q) \notin Range(q')
        /\ IsInjective(q')
    BY <1>q, <1>0, <2>1, TailFact
  <2>3. \A i \in Range(q') : begun'[i] = begun[i]
    BY <1>q, <2>1, <2>2 DEF Bumped, AsyncInv, AsyncTypeOK
  <2>4. \A i \in Range(q') : \A t \in Jobs' : jobs'[t] # i
    <3>1. CASE jobs' = jobs
      BY <1>0, <2>2, <3>1 DEF Jobs
    <3>2. CASE jobs' = Append(jobs, Head(q))
      <4>1. jobs \in Seq(Id)
        BY <1>0 DEF AsyncInv, AsyncTypeOK
      <4>2. \A t \in Jobs' : (t \in Jobs /\ jobs'[t] = jobs[t]) \/ jobs'[t] = Head(q)
        BY <3>2, <4>1, <2>2 DEF Jobs
      <4> QED
        BY <4>2, <1>0, <2>2
    <3> QED
      BY <2>1, <3>1, <3>2
  <2> QED
    BY <1>0, <2>1, <2>2, <2>3, <2>4 DEF QueueInv, Tasks, DepsAreSatisfied
<1>5. CASE ComputeEnd \/ Acknowledge
  <2>1. PICK i \in Tasks : i \in Id /\ Finished(i) /\ begun[i] = 1
    BY <1>5, FinishedFact
  <2>2. UNCHANGED <<size, q, begun, jobs>> /\ ~ Build
    BY <1>5 DEF ComputeEnd, Acknowledge, Build, graphVars, jobVars
  <2>3. \A n \in Range(q) : n # i /\ state'[n] = state[n]
    BY <1>0, <2>1 DEF Finished, AsyncInv, AsyncTypeOK
  <2>4. \A n \in Range(q) : DepsAreSatisfied(n)'
    BY <1>0, <1>5, <2>2, DepsStable DEF Busy
  <2> QED
    BY <1>0, <2>2, <2>3, <2>4 DEF QueueInv, Tasks, Jobs
<1>6. CASE \E t \in Jobs : JobBegin(t) \/ JobEnd(t)
  <2>1. PICK t \in Jobs : JobBegin(t) \/ JobEnd(t)
    BY <1>6
  <2>2. /\ UNCHANGED <<size, inIdx, state, q, jobs>>
        /\ begun' = begun \/ begun' = Bumped(begun, jobs[t])
    BY <2>1 DEF JobBegin, JobEnd, StageBecomes, graphVars, mainVars
  <2>3. \A i \in Range(q) : begun'[i] = begun[i]
    BY <1>0, <2>2, AsyncTypes DEF Bumped, AsyncInv, AsyncTypeOK
  <2> QED
    BY <1>0, <2>2, <2>3 DEF QueueInv, Tasks, DepsAreSatisfied, Jobs
<1> QED
  BY <1>1, <1>2, <1>3, <1>4, <1>5, <1>6, QuietOrBusy DEF Busy, AsyncInv

\* A new job is that of a task main has just taken from the queue.
LEMMA LaunchFact ==
  ASSUME AsyncInv, Launch
  PROVE  \E i \in Id :
           /\ i = Head(q) /\ i \in Range(q) /\ i \in Tasks /\ kind[i] = "communication"
           /\ state[i] = "not_started" /\ begun[i] = 0 /\ DepsAreSatisfied(i)
           /\ \A t \in Jobs : jobs[t] # i
           /\ Jobs' = Jobs \cup {Len(jobs) + 1} /\ Len(jobs) + 1 \notin Jobs
           /\ jobs'[Len(jobs) + 1] = i /\ stage'[Len(jobs) + 1] = "queued"
           /\ \A t \in Jobs : jobs'[t] = jobs[t] /\ stage'[t] = stage[t]
           /\ Range(q) = Range(q') \cup {i}
<1>1. /\ q # <<>> /\ q \in Seq(Id) /\ Head(q) \in Id
      /\ Head(q) \in Range(q) /\ Range(q) = Range(Tail(q)) \cup {Head(q)}
  BY TailFact DEF Launch, AsyncInv, AsyncTypeOK
<1>2. /\ jobs' = Append(jobs, Head(q)) /\ stage' = Append(stage, "queued")
      /\ jobs \in Seq(Id) /\ stage \in Seq(Stage) /\ Len(stage) = Len(jobs)
      /\ Len(jobs) \in Nat
  BY DEF Launch, AsyncInv, AsyncTypeOK
<1>3. /\ Jobs = 1 .. Len(jobs) /\ Jobs' = 1 .. Len(jobs) + 1
      /\ jobs'[Len(jobs) + 1] = Head(q)
      /\ \A t \in 1 .. Len(jobs) : jobs'[t] = jobs[t]
  BY <1>1, <1>2 DEF Jobs
<1>4. /\ stage'[Len(jobs) + 1] = "queued"
      /\ \A t \in 1 .. Len(jobs) : stage'[t] = stage[t]
  BY <1>2 DEF Stage
<1>5. Jobs' = Jobs \cup {Len(jobs) + 1} /\ Len(jobs) + 1 \notin Jobs
  BY <1>2, <1>3
<1>6. /\ Head(q) \in Tasks /\ kind[Head(q)] = "communication"
      /\ state[Head(q)] = "not_started" /\ begun[Head(q)] = 0 /\ DepsAreSatisfied(Head(q))
      /\ \A t \in Jobs : jobs[t] # Head(q)
  BY <1>1 DEF Launch, AsyncInv, QueueInv
<1> QED
  BY <1>1, <1>3, <1>4, <1>5, <1>6 DEF Launch

LEMMA JobsStep ==
  ASSUME AsyncInv, [AsyncNext]_asyncVars PROVE JobsInv'
<1>t. /\ \A t \in Jobs : jobs[t] \in Id /\ jobs[t] \in Tasks /\ kind[jobs[t]] = "communication"
      /\ visible \subseteq Jobs
  BY AsyncTypes DEF AsyncInv, AsyncTypeOK, JobsInv
<1>1. CASE Quiet
  <2>1. UNCHANGED <<size, kind, inIdx, state, jobs, begun, ended>>
    BY <1>1 DEF Quiet, graphVars
  <2>2. ASSUME NEW t \in Jobs
        PROVE  /\ stage'[t] = "queued" <=> stage[t] = "queued"
               /\ stage'[t] = "running" <=> stage[t] = "running"
    BY <1>1 DEF Quiet
  <2>3. \A t \in visible' : stage'[t] \notin {"queued", "running"}
    <3> SUFFICES ASSUME NEW t \in visible' PROVE stage'[t] \notin {"queued", "running"}
      OBVIOUS
    <3>1. stage[t] \notin {"queued", "running"}
      BY <1>1 DEF Quiet, AsyncInv, JobsInv
    <3>2. t \in Jobs
      BY TypePrimed, <2>1 DEF AsyncTypeOK, Jobs
    <3> QED
      BY <2>2, <3>1, <3>2
  <2> QED
    BY <2>1, <2>2, <2>3 DEF AsyncInv, JobsInv, Tasks, Jobs, DepsAreSatisfied
<1>2. CASE Build \/ Root \/ PushSuccessor
  <2>1. UNCHANGED <<jobs, stage, visible, state, begun, ended>>
    BY <1>2 DEF Build, Root, PushSuccessor, mainVars, jobVars
  <2>2. CASE Build
    <3>1. jobs = <<>>
      BY <2>2 DEF Build, AsyncInv, RootsInv
    <3>2. Jobs' = {} /\ Jobs = {}
      BY <2>1, <3>1 DEF Jobs
    <3> QED
      BY <2>1, <3>2, <1>t DEF JobsInv
  <2>3. CASE Root \/ PushSuccessor
    <3>1. UNCHANGED <<size, kind, inIdx>>
      BY <2>3 DEF Root, PushSuccessor, graphVars
    <3> QED
      BY <2>1, <3>1 DEF AsyncInv, JobsInv, Tasks, Jobs, DepsAreSatisfied
  <2> QED
    BY <1>2, <2>2, <2>3
<1>3. CASE Launch
  <2>1. PICK i \in Id :
           /\ i = Head(q) /\ i \in Range(q) /\ i \in Tasks /\ kind[i] = "communication"
           /\ state[i] = "not_started" /\ begun[i] = 0 /\ DepsAreSatisfied(i)
           /\ \A t \in Jobs : jobs[t] # i
           /\ Jobs' = Jobs \cup {Len(jobs) + 1} /\ Len(jobs) + 1 \notin Jobs
           /\ jobs'[Len(jobs) + 1] = i /\ stage'[Len(jobs) + 1] = "queued"
           /\ \A t \in Jobs : jobs'[t] = jobs[t] /\ stage'[t] = stage[t]
    BY <1>3, LaunchFact
  <2>2. UNCHANGED <<size, kind, inIdx, state, visible, begun, ended>>
    BY <1>3 DEF Launch, graphVars
  <2>3. ended[i] = 0
    BY <2>1 DEF AsyncInv, TaskInv
  <2>4. \A t, u \in Jobs' : jobs'[t] = jobs'[u] => t = u
    BY <2>1 DEF AsyncInv, JobsInv
  <2>5. ASSUME NEW t \in Jobs'
        PROVE  /\ jobs'[t] \in Tasks
               /\ kind[jobs'[t]] = "communication"
               /\ DepsAreSatisfied(jobs'[t])
               /\ begun[jobs'[t]] = IF stage'[t] = "queued" THEN 0 ELSE 1
               /\ ended[jobs'[t]] = IF stage'[t] \in {"queued", "running"} THEN 0 ELSE 1
    <3>1. CASE t \in Jobs
      <4>1. jobs'[t] = jobs[t] /\ stage'[t] = stage[t]
        BY <2>1, <3>1
      <4> QED
        BY <3>1, <4>1 DEF AsyncInv, JobsInv
    <3>2. CASE t = Len(jobs) + 1
      BY <2>1, <2>3, <3>2
    <3> QED
      BY <2>1, <3>1, <3>2
  <2>6. \A t \in visible : stage'[t] \notin {"queued", "running"}
    BY <1>t, <2>1 DEF AsyncInv, JobsInv
  <2> QED
    BY <2>2, <2>4, <2>5, <2>6 DEF JobsInv, Tasks, DepsAreSatisfied
<1>4. CASE Compute
  <2>1. /\ UNCHANGED <<size, kind, inIdx, state, jobs, stage, visible, ended>>
        /\ begun' = Bumped(begun, Head(q)) /\ q # <<>>
    BY <1>4 DEF Compute, graphVars, jobVars
  <2>2. Head(q) \in Range(q) /\ Head(q) \in Id
    BY <2>1, TailFact DEF AsyncInv, AsyncTypeOK
  <2>3. \A t \in Jobs : begun'[jobs[t]] = begun[jobs[t]]
    BY <1>t, <2>1, <2>2 DEF Bumped, AsyncInv, AsyncTypeOK, QueueInv
  <2> QED
    BY <2>1, <2>3 DEF AsyncInv, JobsInv, Tasks, Jobs, DepsAreSatisfied
<1>5. CASE ComputeEnd \/ Acknowledge
  <2>1. UNCHANGED <<size, kind, inIdx, jobs, stage, visible, begun>> /\ ~ Build
    BY <1>5 DEF ComputeEnd, Acknowledge, Build, graphVars, jobVars
  <2>2. \A t \in Jobs : ended'[jobs[t]] = ended[jobs[t]]
    <3>1. CASE ComputeEnd
      <4>1. kind[cur] # "communication" /\ ended' = Bumped(ended, cur)
        BY <3>1 DEF ComputeEnd, AsyncInv, ComputeInv
      <4> QED
        BY <1>t, <4>1 DEF Bumped, AsyncInv, AsyncTypeOK
    <3>2. CASE Acknowledge
      BY <3>2 DEF Acknowledge
    <3> QED
      BY <1>5, <3>1, <3>2
  <2>3. \A t \in Jobs : DepsAreSatisfied(jobs[t])'
    BY <1>t, <1>5, <2>1, DepsStable DEF Busy, AsyncInv, JobsInv
  <2> QED
    BY <2>1, <2>2, <2>3 DEF AsyncInv, JobsInv, Tasks, Jobs
<1>6. ASSUME NEW t \in Jobs, JobBegin(t) \/ JobEnd(t) PROVE JobsInv'
  <2>1. /\ UNCHANGED <<size, kind, inIdx, state, jobs, visible>>
        /\ \/ /\ stage[t] = "queued" /\ stage'[t] = "running"
              /\ begun' = Bumped(begun, jobs[t]) /\ ended' = ended
           \/ /\ stage[t] = "running" /\ stage'[t] = "flagged"
              /\ begun' = begun /\ ended' = Bumped(ended, jobs[t])
        /\ \A u \in Jobs : u # t => stage'[u] = stage[u]
    <3>1. CASE JobBegin(t)
      <4>1. StageBecomes(t, "queued", "running")
        BY <3>1 DEF JobBegin
      <4> QED
        BY <3>1, <4>1, StageFact DEF JobBegin, AsyncInv, graphVars, mainVars, Stage
    <3>2. CASE JobEnd(t)
      <4>1. StageBecomes(t, "running", "flagged")
        BY <3>2 DEF JobEnd
      <4> QED
        BY <3>2, <4>1, StageFact DEF JobEnd, AsyncInv, graphVars, mainVars, Stage
    <3> QED
      BY <1>6, <3>1, <3>2
  <2>2. \A u \in Jobs : u # t => jobs[u] # jobs[t]
    BY DEF AsyncInv, JobsInv
  <2>3. \A u \in Jobs : u # t => begun'[jobs[u]] = begun[jobs[u]] /\ ended'[jobs[u]] = ended[jobs[u]]
    BY <1>t, <2>1, <2>2 DEF Bumped, AsyncInv, AsyncTypeOK
  <2>4. /\ begun'[jobs[t]] = IF stage'[t] = "queued" THEN 0 ELSE 1
        /\ ended'[jobs[t]] = IF stage'[t] \in {"queued", "running"} THEN 0 ELSE 1
    <3>1. /\ begun[jobs[t]] = IF stage[t] = "queued" THEN 0 ELSE 1
          /\ ended[jobs[t]] = IF stage[t] \in {"queued", "running"} THEN 0 ELSE 1
      BY DEF AsyncInv, JobsInv
    <3> QED
      BY <1>t, <2>1, <3>1 DEF Bumped, AsyncInv, AsyncTypeOK
  <2>5. t \notin visible
    BY <2>1 DEF AsyncInv, JobsInv
  <2>6. ASSUME NEW u \in Jobs
        PROVE  /\ begun'[jobs[u]] = IF stage'[u] = "queued" THEN 0 ELSE 1
               /\ ended'[jobs[u]] = IF stage'[u] \in {"queued", "running"} THEN 0 ELSE 1
    <3>1. CASE u = t
      BY <2>4, <3>1
    <3>2. CASE u # t
      BY <2>1, <2>3, <3>2 DEF AsyncInv, JobsInv
    <3> QED
      BY <3>1, <3>2
  <2>7. \A u \in visible : stage'[u] \notin {"queued", "running"}
    BY <1>t, <2>1, <2>5 DEF AsyncInv, JobsInv
  <2> QED
    BY <2>1, <2>6, <2>7 DEF AsyncInv, JobsInv, Tasks, Jobs, DepsAreSatisfied
<1> QED
  BY <1>1, <1>2, <1>3, <1>4, <1>5, <1>6, QuietOrBusy DEF Busy, AsyncInv

LEMMA FlyingStep ==
  ASSUME AsyncInv, [AsyncNext]_asyncVars PROVE FlyingInv'
<1>t. /\ \A t \in Jobs : jobs[t] \in Id
      /\ flying \in Seq(Jobs) /\ Range(flying) \subseteq Jobs
      /\ DOMAIN flying = 1 .. Len(flying)
  BY AsyncTypes DEF AsyncInv, AsyncTypeOK
<1>1. CASE UNCHANGED <<flying, state, jobs>>
  BY <1>1 DEF AsyncInv, FlyingInv, Jobs
<1>2. CASE Launch
  <2>1. PICK i \in Id :
           /\ state[i] = "not_started"
           /\ Jobs' = Jobs \cup {Len(jobs) + 1} /\ Len(jobs) + 1 \notin Jobs
           /\ jobs'[Len(jobs) + 1] = i
           /\ \A t \in Jobs : jobs'[t] = jobs[t]
    BY <1>2, LaunchFact
  <2>2. state' = state /\ flying' = Append(flying, Len(jobs) + 1)
    BY <1>2 DEF Launch
  <2>3. flying \in Seq(Jobs') /\ Len(jobs) + 1 \in Jobs'
    BY <1>t, <2>1
  <2>4. /\ Range(flying') = Range(flying) \cup {Len(jobs) + 1}
        /\ IsInjective(flying')
    BY <1>t, <2>1, <2>2, <2>3, AppendFact DEF AsyncInv, FlyingInv
  <2> QED
    BY <1>t, <2>1, <2>2, <2>4 DEF AsyncInv, FlyingInv
<1>3. CASE ComputeEnd
  <2>1. /\ UNCHANGED <<flying, jobs>>
        /\ kind[cur] # "communication"
        /\ state' = [state EXCEPT ![cur] = "finished"]
    BY <1>3 DEF ComputeEnd, Finished, jobVars, AsyncInv, ComputeInv
  <2>2. \A t \in Jobs : state'[jobs[t]] = state[jobs[t]]
    BY <1>t, <2>1 DEF AsyncInv, JobsInv, AsyncTypeOK
  <2> QED
    BY <2>1, <2>2 DEF AsyncInv, FlyingInv, Jobs
<1>4. CASE Acknowledge
  <2>1. /\ j \in 1 .. Len(flying) /\ flying[j] \in Jobs
        /\ flying' = RemoveAt(flying, j) /\ jobs' = jobs
        /\ state' = [state EXCEPT ![jobs[flying[j]]] = "finished"]
    BY <1>4, <1>t DEF Acknowledge, Finished, jobVars
  <2>2. IsInjective(flying') /\ Range(flying') = Range(flying) \ {flying[j]}
    BY <1>t, <2>1, RemoveAtInjective DEF AsyncInv, FlyingInv
  <2>3. \A t \in Jobs : t # flying[j] => jobs[t] # jobs[flying[j]]
    BY <2>1 DEF AsyncInv, JobsInv
  <2>4. ASSUME NEW t \in Jobs
        PROVE  t \in Range(flying') <=> state'[jobs[t]] = "not_started"
    <3>1. CASE t = flying[j]
      BY <1>t, <2>1, <2>2, <3>1 DEF AsyncInv, AsyncTypeOK
    <3>2. CASE t # flying[j]
      <4>1. state'[jobs[t]] = state[jobs[t]]
        BY <1>t, <2>1, <2>3, <3>2 DEF AsyncInv, AsyncTypeOK
      <4> QED
        BY <2>2, <3>2, <4>1 DEF AsyncInv, FlyingInv
    <3> QED
      BY <3>1, <3>2
  <2> QED
    BY <2>1, <2>2, <2>4 DEF FlyingInv, Jobs
<1> QED
  <2>1. CASE Quiet \/ Build \/ Root \/ PushSuccessor \/ Compute
             \/ \E t \in Jobs : JobBegin(t) \/ JobEnd(t)
    BY <1>1, <2>1 DEF Quiet, Build, Root, PushSuccessor, Compute, JobBegin, JobEnd,
                      StageBecomes, mainVars, jobVars
  <2> QED
    BY <1>2, <1>3, <1>4, <2>1, QuietOrBusy DEF Busy, AsyncInv

LEMMA TaskStep ==
  ASSUME AsyncInv, [AsyncNext]_asyncVars PROVE TaskInv'
<1>t. /\ \A t \in Jobs : jobs[t] \in Id
      /\ begun \in [Id -> Nat] /\ ended \in [Id -> Nat]
      /\ state \in [Id -> {"not_started", "finished"}]
  BY AsyncTypes DEF AsyncInv, AsyncTypeOK
<1>1. CASE Build
  <2>1. state' = state /\ begun' = begun /\ ended' = ended
        /\ \A i \in Id : state[i] = "not_started" /\ begun[i] = 0 /\ ended[i] = 0
    BY <1>1 DEF Build, mainVars, AsyncInv, RootsInv
  <2> QED
    BY <2>1 DEF TaskInv
<1>2. CASE Quiet \/ Root \/ PushSuccessor
  <2>1. UNCHANGED <<size, inIdx, cur, state, jobs, begun, ended>>
    BY <1>2 DEF Quiet, Root, PushSuccessor, graphVars, jobVars
  <2>2. pc' = pc \/ pc' = "thrown" \/ {pc, pc'} \cap {"compute", "thrown"} = {}
    BY <1>2 DEF Quiet, Root, PushSuccessor
  <2> QED
    BY <2>1, <2>2 DEF AsyncInv, TaskInv, Tasks, Jobs, DepsAreSatisfied
<1>3. CASE Launch
  <2>1. PICK i \in Id :
           /\ Jobs' = Jobs \cup {Len(jobs) + 1}
           /\ \A t \in Jobs : jobs'[t] = jobs[t]
    BY <1>3, LaunchFact
  <2>2. UNCHANGED <<size, inIdx, pc, cur, state, begun, ended>>
    BY <1>3 DEF Launch, graphVars
  <2> QED
    BY <2>1, <2>2 DEF AsyncInv, TaskInv, Tasks, DepsAreSatisfied
<1>4. CASE Compute
  <2>1. /\ UNCHANGED <<size, inIdx, state, jobs, ended>> /\ q # <<>> /\ pc = "loop"
        /\ begun' = Bumped(begun, Head(q)) /\ pc' = "compute" /\ cur' = Head(q)
    BY <1>4 DEF Compute, graphVars, jobVars
  <2>2. Head(q) \in Range(q) /\ Head(q) \in Id
    BY <2>1, TailFact DEF AsyncInv, AsyncTypeOK
  <2>3. /\ Head(q) \in Tasks /\ begun[Head(q)] = 0 /\ DepsAreSatisfied(Head(q))
        /\ state[Head(q)] = "not_started" /\ ended[Head(q)] = 0
    BY <1>t, <2>2 DEF AsyncInv, QueueInv, TaskInv
  <2>4. begun'[Head(q)] = 1 /\ \A i \in Id : i # Head(q) => begun'[i] = begun[i]
    BY <1>t, <2>1, <2>2, <2>3 DEF Bumped
  <2>5. \A i \in Id : DepsAreSatisfied(i)' <=> DepsAreSatisfied(i)
    BY <2>1 DEF DepsAreSatisfied
  <2> SUFFICES ASSUME NEW i \in Id
               PROVE  /\ begun'[i] \in {0, 1} /\ ended[i] \in {0, 1} /\ ended[i] <= begun'[i]
                      /\ state[i] = "finished" => i \in Tasks /\ begun'[i] = 1 /\ ended[i] = 1
                      /\ begun'[i] = 1 => i \in Tasks /\ DepsAreSatisfied(i)
                      /\ begun'[i] = 1 /\ state[i] = "not_started" =>
                           \/ \E t \in Jobs : jobs[t] = i
                           \/ i = Head(q)
    BY <2>1, <2>5 DEF TaskInv, Tasks, Jobs
  <2>6. CASE i = Head(q)
    BY <2>3, <2>4, <2>6
  <2>7. CASE i # Head(q)
    BY <2>1, <2>4, <2>7 DEF AsyncInv, TaskInv
  <2> QED
    BY <2>6, <2>7
<1>5. CASE ComputeEnd \/ Acknowledge
  <2>1. PICK i \in Tasks :
           /\ i \in Id /\ Finished(i) /\ begun[i] = 1 /\ ended'[i] = 1
           /\ ComputeEnd => i = cur /\ pc = "compute"
           /\ Acknowledge => ended' = ended
           /\ DepsAreSatisfied(i)
    BY <1>5, FinishedFact
  <2>2. UNCHANGED <<size, inIdx, begun, jobs>> /\ ~ Build
    BY <1>5 DEF ComputeEnd, Acknowledge, Build, graphVars, jobVars
  <2>3. \A n \in Id : n # i => state'[n] = state[n] /\ ended'[n] = ended[n]
    BY <1>t, <1>5, <2>1 DEF Finished, ComputeEnd, Bumped
  <2>4. \A n \in Id : DepsAreSatisfied(n) => DepsAreSatisfied(n)'
    BY <1>5, <2>2, DepsStable DEF Busy
  <2>5. state'[i] = "finished"
    BY <1>t, <2>1 DEF Finished
  <2>6. pc \notin {"compute", "thrown"} \/ i = cur
    BY <1>5, <2>1 DEF Acknowledge
  <2> SUFFICES ASSUME NEW n \in Id
               PROVE  /\ begun[n] \in {0, 1} /\ ended'[n] \in {0, 1} /\ ended'[n] <= begun[n]
                      /\ state'[n] = "finished" => n \in Tasks /\ begun[n] = 1 /\ ended'[n] = 1
                      /\ begun[n] = 1 => n \in Tasks /\ DepsAreSatisfied(n)
                      /\ begun[n] = 1 /\ state'[n] = "not_started" =>
                           \E t \in Jobs : jobs[t] = n
    BY <2>2, <2>4 DEF TaskInv, Tasks, Jobs
  <2>7. CASE n = i
    BY <2>1, <2>5, <2>7
  <2>8. CASE n # i
    BY <2>3, <2>6, <2>8 DEF AsyncInv, TaskInv
  <2> QED
    BY <2>7, <2>8
<1>6. ASSUME NEW t \in Jobs, JobBegin(t) \/ JobEnd(t) PROVE TaskInv'
  <2>1. /\ UNCHANGED <<size, inIdx, pc, cur, state, jobs>>
        /\ \/ stage[t] = "queued" /\ begun' = Bumped(begun, jobs[t]) /\ ended' = ended
           \/ stage[t] = "running" /\ begun' = begun /\ ended' = Bumped(ended, jobs[t])
    BY <1>6 DEF JobBegin, JobEnd, StageBecomes, graphVars, mainVars
  <2>2. /\ jobs[t] \in Tasks /\ jobs[t] \in Id /\ DepsAreSatisfied(jobs[t])
        /\ begun[jobs[t]] = IF stage[t] = "queued" THEN 0 ELSE 1
        /\ ended[jobs[t]] = IF stage[t] \in {"queued", "running"} THEN 0 ELSE 1
    BY <1>t DEF AsyncInv, JobsInv
  <2>3. /\ \A n \in Id : n # jobs[t] => begun'[n] = begun[n] /\ ended'[n] = ended[n]
        /\ begun'[jobs[t]] = 1 /\ ended'[jobs[t]] \in {0, 1}
    BY <1>t, <2>1, <2>2 DEF Bumped
  <2>4. state[jobs[t]] = "not_started"
    BY <1>t, <2>1, <2>2 DEF AsyncInv, TaskInv
  <2>5. \A i \in Id : DepsAreSatisfied(i)' <=> DepsAreSatisfied(i)
    BY <2>1 DEF DepsAreSatisfied
  <2> SUFFICES ASSUME NEW n \in Id
               PROVE  /\ begun'[n] \in {0, 1} /\ ended'[n] \in {0, 1} /\ ended'[n] <= begun'[n]
                      /\ state[n] = "finished" => n \in Tasks /\ begun'[n] = 1 /\ ended'[n] = 1
                      /\ begun'[n] = 1 => n \in Tasks /\ DepsAreSatisfied(n)
                      /\ begun'[n] = 1 /\ state[n] = "not_started" =>
                           \/ \E u \in Jobs : jobs[u] = n
                           \/ pc \in {"compute", "thrown"} /\ n = cur
    BY <2>1, <2>5 DEF TaskInv, Tasks, Jobs
  <2>6. CASE n = jobs[t]
    BY <2>2, <2>3, <2>4, <2>6
  <2>7. CASE n # jobs[t]
    BY <2>3, <2>7 DEF AsyncInv, TaskInv
  <2> QED
    BY <2>6, <2>7
<1> QED
  BY <1>1, <1>2, <1>3, <1>4, <1>5, <1>6, QuietOrBusy DEF Busy, AsyncInv

LEMMA ComputeStep ==
  ASSUME AsyncInv, [AsyncNext]_asyncVars PROVE ComputeInv'
<1>t. /\ \A t \in Jobs : jobs[t] \in Id /\ kind[jobs[t]] = "communication"
      /\ begun \in [Id -> Nat] /\ ended \in [Id -> Nat] /\ cur \in Id
  BY AsyncTypes DEF AsyncInv, AsyncTypeOK, JobsInv
<1>1. CASE Compute
  <2>1. /\ UNCHANGED <<size, kind, state, ended>> /\ q # <<>>
        /\ kind[Head(q)] # "communication"
        /\ begun' = Bumped(begun, Head(q)) /\ cur' = Head(q)
    BY <1>1 DEF Compute, graphVars
  <2>2. Head(q) \in Range(q) /\ Head(q) \in Id
    BY <2>1, TailFact DEF AsyncInv, AsyncTypeOK
  <2>3. /\ Head(q) \in Tasks /\ begun[Head(q)] = 0
        /\ state[Head(q)] = "not_started" /\ ended[Head(q)] = 0
    BY <1>t, <2>2 DEF AsyncInv, QueueInv, TaskInv
  <2>4. begun'[Head(q)] = 1
    BY <1>t, <2>1, <2>2, <2>3 DEF Bumped
  <2> QED
    BY <2>1, <2>3, <2>4 DEF ComputeInv, Tasks
<1>2. CASE Quiet
  <2>1. UNCHANGED <<size, kind, cur, state, begun, ended>>
    BY <1>2 DEF Quiet, graphVars
  <2>2. pc' \in {"compute", "thrown"} => pc \in {"compute", "thrown"}
    BY <1>2 DEF Quiet
  <2> QED
    BY <2>1, <2>2 DEF AsyncInv, ComputeInv, Tasks
<1>3. ASSUME NEW t \in Jobs, JobBegin(t) \/ JobEnd(t) PROVE ComputeInv'
  <2>1. /\ UNCHANGED <<size, kind, pc, cur, state>>
        /\ begun' = begun \/ begun' = Bumped(begun, jobs[t])
        /\ ended' = ended \/ ended' = Bumped(ended, jobs[t])
    BY <1>3 DEF JobBegin, JobEnd, graphVars, mainVars
  <2>2. pc \in {"compute", "thrown"} => cur # jobs[t]
    BY <1>t DEF AsyncInv, ComputeInv
  <2>3. pc \in {"compute", "thrown"} => begun'[cur] = begun[cur] /\ ended'[cur] = ended[cur]
    BY <1>t, <2>1, <2>2 DEF Bumped
  <2> QED
    BY <2>1, <2>3 DEF AsyncInv, ComputeInv, Tasks
<1>4. CASE Build \/ Root \/ Launch \/ ComputeEnd \/ PushSuccessor \/ Acknowledge
  BY <1>4 DEF Build, Root, Launch, ComputeEnd, PushSuccessor, Acknowledge, Finished, ComputeInv
<1> QED
  BY <1>1, <1>2, <1>3, <1>4, QuietOrBusy DEF Busy, AsyncInv

\* A successor of an unfinished task is fresh: it needs that task.
LEMMA SuccessorsFresh ==
  ASSUME AsyncInv, NEW i \in Id, state[i] = "not_started", NEW p \in DOMAIN outIdx[i]
  PROVE  /\ outIdx[i][p] \in Id /\ outIdx[i][p] # i
         /\ ~ DepsAreSatisfied(outIdx[i][p]) /\ Fresh(outIdx[i][p])
<1> DEFINE n == outIdx[i][p]
<1>1. n \in Id /\ i < n
  BY SuccessorsAttached DEF AsyncInv
<1>2. n # i
  BY <1>1 DEF Id
<1>3. ~ DepsAreSatisfied(n)
  <2>1. PICK r \in DOMAIN inIdx[n] : inIdx[n][r] = i
    BY <1>1 DEF AsyncInv, GraphInv, WiredBothWays
  <2> QED
    BY <2>1 DEF DepsAreSatisfied
<1>4. begun[n] = 0 /\ state[n] = "not_started"
  BY <1>1, <1>3 DEF AsyncInv, TaskInv, AsyncTypeOK
<1>5. n \notin Range(q) /\ \A t \in Jobs : jobs[t] # n
  BY <1>3 DEF AsyncInv, QueueInv, JobsInv
<1> QED
  BY <1>1, <1>2, <1>3, <1>4, <1>5 DEF Fresh

LEMMA PushStep ==
  ASSUME AsyncInv, ~ RepeatedDeps, [AsyncNext]_asyncVars PROVE PushInv'
<1>t. /\ \A t \in Jobs : jobs[t] \in Id
      /\ begun \in [Id -> Nat] /\ cur \in Id /\ j \in Nat
      /\ state \in [Id -> {"not_started", "finished"}] /\ q \in Seq(Id)
      /\ DOMAIN outIdx[cur] \subseteq Nat
      /\ \A p \in DOMAIN outIdx[cur] : outIdx[cur][p] \in Id
  BY AsyncTypes DEF AsyncInv, AsyncTypeOK
<1>1. CASE Quiet
  <2>1. UNCHANGED <<outIdx, cur, q, state, jobs, begun>>
    BY <1>1 DEF Quiet, graphVars
  <2>2. pc' = "push" => pc = "push" /\ j' = j
    BY <1>1 DEF Quiet
  <2> QED
    BY <2>1, <2>2 DEF AsyncInv, PushInv, Fresh, Jobs
<1>2. CASE ComputeEnd \/ Acknowledge
  <2>1. PICK i \in Tasks : i \in Id /\ cur' = i /\ Finished(i) /\ state[i] = "not_started"
    BY <1>2, FinishedFact
  <2>2. UNCHANGED <<outIdx, q, begun, jobs>>
    BY <1>2 DEF ComputeEnd, Acknowledge, graphVars, jobVars
  <2>3. state'[i] = "finished" /\ \A n \in Id : n # i => state'[n] = state[n]
    BY <1>t, <2>1 DEF Finished
  <2>4. \A p \in DOMAIN outIdx[i] : Fresh(outIdx[i][p])'
    BY <2>1, <2>2, <2>3, SuccessorsFresh DEF Fresh, Jobs
  <2> QED
    BY <2>1, <2>2, <2>3, <2>4 DEF PushInv, Finished
<1>3. CASE PushSuccessor
  <2> DEFINE n == outIdx[cur][j]
  <2>1. /\ UNCHANGED <<outIdx, cur, state, begun, jobs>> /\ j' = j + 1
        /\ pc = "push" /\ j \in DOMAIN outIdx[cur]
        /\ q' = q \/ q' = Append(q, n)
    BY <1>3 DEF PushSuccessor, graphVars, jobVars
  <2>2. Range(q') \subseteq Range(q) \cup {n}
    <3>1. n \in Id
      BY <1>t, <2>1
    <3>2. Range(Append(q, n)) = Range(q) \cup {n}
      BY <1>t, <3>1, AppendFact
    <3> QED
      BY <2>1, <3>2
  <2>3. \A p \in DOMAIN outIdx[cur] : p >= j + 1 => Fresh(outIdx[cur][p]) /\ outIdx[cur][p] # n
    <3>1. IsInjective(outIdx[cur])
      BY <1>t DEF AsyncInv, GraphInv, NoRepeatedSuccessor
    <3>2. \A p \in DOMAIN outIdx[cur] : p >= j + 1 => p >= j /\ p # j
      BY <1>t
    <3> QED
      BY <2>1, <3>1, <3>2 DEF IsInjective, AsyncInv, PushInv
  <2>4. \A p \in DOMAIN outIdx[cur] : p >= j + 1 => Fresh(outIdx[cur][p])'
    BY <2>1, <2>2, <2>3 DEF Fresh, Jobs
  <2>5. j + 1 >= 1 /\ state[cur] = "finished"
    BY <1>t, <2>1 DEF AsyncInv, PushInv
  <2> QED
    BY <2>1, <2>4, <2>5 DEF PushInv
<1>4. ASSUME NEW t \in Jobs, JobBegin(t) \/ JobEnd(t) PROVE PushInv'
  <2>1. /\ UNCHANGED <<outIdx, pc, j, cur, q, state, jobs>>
        /\ begun' = begun \/ begun' = Bumped(begun, jobs[t])
    BY <1>4 DEF JobBegin, JobEnd, StageBecomes, graphVars, mainVars
  <2>2. \A n \in Id : Fresh(n) => Fresh(n)'
    BY <1>t, <2>1 DEF Fresh, Jobs, Bumped
  <2> QED
    BY <1>t, <2>1, <2>2 DEF AsyncInv, PushInv
<1>5. CASE Build \/ Root \/ Launch \/ Compute
  BY <1>5 DEF Build, Root, Launch, Compute, PushInv
<1> QED
  BY <1>1, <1>2, <1>3, <1>4, <1>5, QuietOrBusy DEF Busy, AsyncInv

LEMMA RootsStep ==
  ASSUME AsyncInv, [AsyncNext]_asyncVars PROVE RootsInv'
<1>t. size \in Nat /\ size' \in Nat /\ j \in Nat /\ q \in Seq(Id)
  BY TypePrimed, TaskGraphAssumption DEF AsyncInv, AsyncTypeOK, GraphTypeOK
<1>1. ASSUME pc \in {"build", "roots"}
      PROVE  /\ jobs = <<>> /\ flying = <<>> /\ Jobs = {}
             /\ lastRecorded = 0 /\ currentComm = 0
             /\ \A i \in Id : state[i] = "not_started" /\ begun[i] = 0 /\ ended[i] = 0
             /\ pc = "build" => q = <<>> /\ j = 0
             /\ j <= size
             /\ \A i \in Range(q) : i < j /\ inIdx[i] = <<>>
             /\ \A i \in Tasks : i < j /\ inIdx[i] = <<>> => i \in Range(q)
  BY <1>1 DEF AsyncInv, RootsInv, Jobs
<1>2. CASE Build \/ Call
  <2>1. /\ UNCHANGED <<jobs, flying, lastRecorded, currentComm, state, begun, ended, q, j>>
        /\ pc = "build"
    BY <1>2 DEF Build, Call, mainVars, jobVars
  <2>2. q = <<>> /\ j = 0 /\ Range(q) = {}
    BY <1>1, <2>1 DEF Range
  <2>3. \A i \in Tasks' : ~ (i < j)
    BY <1>t, <2>2 DEF Tasks
  <2> QED
    BY <1>1, <1>t, <2>1, <2>2, <2>3 DEF RootsInv
<1>3. CASE Root
  <2>1. /\ UNCHANGED <<size, inIdx, pc, jobs, flying, lastRecorded, currentComm, state, begun, ended>>
        /\ j < size /\ j' = j + 1 /\ pc = "roots"
        /\ q' = IF inIdx[j] = <<>> THEN Append(q, j) ELSE q
    BY <1>3 DEF Root, graphVars, jobVars
  <2>2. j \in Id
    BY <1>t, <2>1, TaskGraphAssumption DEF AsyncInv, AsyncTypeOK, GraphTypeOK, Id
  <2>3. Range(q') = IF inIdx[j] = <<>> THEN Range(q) \cup {j} ELSE Range(q)
    <3>1. Range(Append(q, j)) = Range(q) \cup {j}
      BY <1>t, <2>2, AppendFact
    <3> QED
      BY <2>1, <3>1
  <2>4. Range(q) \subseteq Id
    BY AsyncTypes DEF AsyncInv
  <2>5. \A i \in Range(q') : i < j + 1 /\ inIdx[i] = <<>>
    BY <1>1, <1>t, <2>1, <2>2, <2>3, <2>4 DEF Id
  <2>6. \A i \in Tasks : i < j + 1 /\ inIdx[i] = <<>> => i \in Range(q')
    <3> SUFFICES ASSUME NEW i \in Tasks, i < j + 1, inIdx[i] = <<>> PROVE i \in Range(q')
      OBVIOUS
    <3>1. i = j \/ i < j
      BY <1>t DEF Tasks
    <3> QED
      BY <1>1, <2>1, <2>3, <3>1
  <2>7. j + 1 <= size
    BY <1>t, <2>1
  <2> QED
    BY <1>1, <2>1, <2>5, <2>6, <2>7 DEF RootsInv, Tasks
<1>4. CASE UNCHANGED asyncVars
  BY <1>4 DEF asyncVars, graphVars, mainVars, jobVars, AsyncInv, RootsInv, Tasks
<1>5. CASE \/ RootsEnd \/ Launch \/ Compute \/ ComputeEnd \/ ComputeThrow
           \/ PushSuccessor \/ PushEnd \/ NothingReady \/ Wait \/ ScanSkip
           \/ Acknowledge \/ ScanEnd \/ Return \/ Over
  BY <1>5 DEF RootsEnd, Launch, Compute, ComputeEnd, ComputeThrow, PushSuccessor, PushEnd,
              NothingReady, Wait, ScanSkip, Acknowledge, ScanEnd, Return, Over, Finished,
              asyncVars, RootsInv
<1>6. ASSUME NEW t \in Jobs, JobStep(t) \/ Propagate(t) PROVE RootsInv'
  <2>1. pc \notin {"build", "roots"}
    BY <1>1
  <2>2. pc' \notin {"build", "roots"}
    BY <1>6, <2>1 DEF JobStep, JobBegin, JobEnd, JobCount, JobNotify, Propagate
  <2> QED
    BY <2>2 DEF RootsInv
<1> QED
  BY <1>2, <1>3, <1>4, <1>5, <1>6 DEF AsyncNext, Main

LEMMA ReadyStep ==
  ASSUME AsyncInv, [AsyncNext]_asyncVars PROVE ReadyInv'
<1>t. /\ \A t \in Jobs : jobs[t] \in Id
      /\ begun \in [Id -> Nat] /\ cur \in Id /\ j \in Nat /\ q \in Seq(Id)
      /\ state \in [Id -> {"not_started", "finished"}]
      /\ Tasks \subseteq Id
      /\ DOMAIN outIdx[cur] \subseteq Nat
      /\ \A p \in DOMAIN outIdx[cur] : outIdx[cur][p] \in Id
      /\ size \in Nat
  <2>1. AsyncTypeOK
    BY DEF AsyncInv
  <2>2. size \in Nat /\ size <= MaxTasks
    BY <2>1, TaskGraphAssumption DEF AsyncTypeOK, GraphTypeOK
  <2>3. Tasks \subseteq Id
    BY <2>2, TaskGraphAssumption DEF Tasks, Id
  <2>4. cur \in Id /\ outIdx[cur] \in Seq(Id)
    BY <2>1 DEF AsyncTypeOK, GraphTypeOK
  <2>5. /\ DOMAIN outIdx[cur] \subseteq Nat
        /\ \A p \in DOMAIN outIdx[cur] : outIdx[cur][p] \in Id
    BY <2>4
  <2>6. \A t \in Jobs : jobs[t] \in Id
    BY <2>1 DEF AsyncTypeOK, Jobs
  <2> QED
    BY <2>1, <2>2, <2>3, <2>4, <2>5, <2>6 DEF AsyncTypeOK
<1>1. CASE RootsEnd
  <2>1. UNCHANGED <<size, inIdx, q, state, jobs, begun>> /\ pc = "roots" /\ j = size
    BY <1>1 DEF RootsEnd, graphVars, jobVars
  <2>2. \A i \in Id : state[i] = "not_started"
    BY <2>1 DEF AsyncInv, RootsInv
  <2>3. \A i \in Tasks : DepsAreSatisfied(i) => inIdx[i] = <<>>
    <3> SUFFICES ASSUME NEW i \in Tasks, DepsAreSatisfied(i) PROVE inIdx[i] = <<>>
      OBVIOUS
    <3>0. i \in Id
      BY <1>t
    <3>1. inIdx[i] \in Seq(Id)
      BY <3>0 DEF AsyncInv, AsyncTypeOK, GraphTypeOK
    <3>2. \A p \in DOMAIN inIdx[i] : inIdx[i][p] \in Id
      BY <3>1
    <3>3. \A p \in DOMAIN inIdx[i] : FALSE
      BY <2>2, <3>2 DEF DepsAreSatisfied
    <3>4. Len(inIdx[i]) \in Nat /\ DOMAIN inIdx[i] = 1 .. Len(inIdx[i])
      BY <3>1
    <3>5. 1 \notin DOMAIN inIdx[i]
      BY <3>3
    <3>6. Len(inIdx[i]) = 0
      BY <3>4, <3>5
    <3> QED
      BY <3>1, <3>6, EmptySeq
  <2>4. \A i \in Tasks : DepsAreSatisfied(i) => i \in Range(q)
    BY <1>t, <2>1, <2>3 DEF AsyncInv, RootsInv, Tasks
  <2> QED
    BY <2>1, <2>4 DEF ReadyInv, Fresh, Tasks, DepsAreSatisfied
<1>2. CASE \/ ComputeThrow \/ NothingReady \/ Wait \/ ScanSkip \/ ScanEnd \/ Return
           \/ Over \/ UNCHANGED asyncVars
           \/ \E t \in Jobs : JobCount(t) \/ JobNotify(t) \/ Propagate(t)
  <2>1. UNCHANGED <<size, inIdx, outIdx, cur, q, state, jobs, begun>>
    BY <1>2, QuietSteps DEF Quiet, graphVars, AsyncInv
  <2>2. /\ pc' \notin {"build", "roots"} => pc \notin {"build", "roots"}
        /\ pc = "push" => pc' = "push" /\ j' = j
    BY <1>2 DEF ComputeThrow, NothingReady, Wait, ScanSkip, ScanEnd, Return, Over,
                JobCount, JobNotify, Propagate, asyncVars, mainVars
  <2> QED
    BY <2>1, <2>2 DEF AsyncInv, ReadyInv, Fresh, Tasks, Jobs, DepsAreSatisfied
<1>3. CASE PushEnd
  <2>1. /\ UNCHANGED <<size, inIdx, q, state, jobs, begun>>
        /\ pc = "push" /\ j \notin DOMAIN outIdx[cur]
    BY <1>3 DEF PushEnd, graphVars, mainVars, jobVars
  <2>2. \A p \in DOMAIN outIdx[cur] : ~ (p >= j)
    <3>1. outIdx[cur] \in Seq(Id) /\ j >= 1
      BY <1>t, <2>1 DEF AsyncInv, AsyncTypeOK, GraphTypeOK, PushInv
    <3> QED
      BY <1>t, <2>1, <3>1
  <2> QED
    BY <2>1, <2>2 DEF AsyncInv, ReadyInv, Fresh, Tasks, Jobs, DepsAreSatisfied
<1>4. CASE Build \/ Call \/ Root
  BY <1>4 DEF Build, Call, Root, ReadyInv
<1>5. CASE Launch
  <2>1. PICK i \in Id :
           /\ i = Head(q)
           /\ Jobs' = Jobs \cup {Len(jobs) + 1}
           /\ jobs'[Len(jobs) + 1] = i
           /\ \A t \in Jobs : jobs'[t] = jobs[t]
           /\ Range(q) = Range(q') \cup {i}
    BY <1>5, LaunchFact
  <2>2. UNCHANGED <<size, inIdx, pc, state, begun>> /\ pc = "loop"
    BY <1>5 DEF Launch, graphVars
  <2>3. \A n \in Id : Fresh(n)' => Fresh(n)
    BY <2>1, <2>2 DEF Fresh
  <2> QED
    BY <1>t, <2>2, <2>3 DEF AsyncInv, ReadyInv, Tasks, DepsAreSatisfied
<1>6. CASE Compute
  <2>1. /\ UNCHANGED <<size, inIdx, state, jobs>> /\ pc = "loop" /\ q # <<>> /\ q' = Tail(q)
        /\ begun' = Bumped(begun, Head(q))
    BY <1>6 DEF Compute, graphVars, jobVars
  <2>2. Head(q) \in Id /\ Range(q) = Range(q') \cup {Head(q)}
    BY <1>t, <2>1, TailFact
  <2>3. begun'[Head(q)] > 0
    BY <1>t, <2>1, <2>2 DEF Bumped
  <2>4. \A n \in Id : n # Head(q) => begun'[n] = begun[n]
    BY <1>t, <2>1, <2>2 DEF Bumped
  <2>5. \A n \in Id : Fresh(n)' => Fresh(n)
    BY <2>1, <2>2, <2>3, <2>4 DEF Fresh, Jobs
  <2> QED
    BY <1>t, <2>1, <2>5 DEF AsyncInv, ReadyInv, Tasks, DepsAreSatisfied
<1>7. CASE ComputeEnd \/ Acknowledge
  <2>1. PICK i \in Tasks : i \in Id /\ cur' = i /\ Finished(i) /\ state[i] = "not_started"
    BY <1>7, FinishedFact
  <2>2. UNCHANGED <<size, inIdx, outIdx, q, begun, jobs>> /\ pc \in {"compute", "scan"}
    BY <1>7 DEF ComputeEnd, Acknowledge, graphVars, jobVars
  <2>3. state'[i] = "finished" /\ \A n \in Id : n # i => state'[n] = state[n]
    BY <1>t, <2>1 DEF Finished
  <2> SUFFICES ASSUME NEW n \in Tasks, DepsAreSatisfied(n)', Fresh(n)'
               PROVE  \E p \in DOMAIN outIdx[i] : p >= 1 /\ outIdx[i][p] = n
    BY <2>1, <2>2 DEF ReadyInv, Tasks, Finished
  <2>4. n # i
    BY <2>3 DEF Fresh
  <2>5. Fresh(n)
    BY <1>t, <2>2, <2>3, <2>4 DEF Fresh, Jobs
  <2>6. ~ DepsAreSatisfied(n)
    BY <2>2, <2>5 DEF AsyncInv, ReadyInv
  <2>7. PICK r \in DOMAIN inIdx[n] : inIdx[n][r] = i
    <3>1. PICK r \in DOMAIN inIdx[n] : state[inIdx[n][r]] # "finished"
      BY <2>6 DEF DepsAreSatisfied
    <3>2. state'[inIdx[n][r]] = "finished" /\ inIdx[n][r] \in Id
      BY <1>t, <2>2, AsyncTypes DEF DepsAreSatisfied, AsyncInv
    <3> QED
      BY <2>3, <3>1, <3>2
  <2>8. \E p \in DOMAIN outIdx[i] : outIdx[i][p] = n
    BY <1>t, <2>1, <2>7 DEF AsyncInv, GraphInv, WiredBothWays
  <2>9. outIdx[i] \in Seq(Id)
    BY <2>1 DEF AsyncInv, AsyncTypeOK, GraphTypeOK
  <2> QED
    BY <2>8, <2>9
<1>8. CASE PushSuccessor
  <2> DEFINE s == outIdx[cur][j]
  <2>1. /\ UNCHANGED <<size, inIdx, outIdx, pc, cur, state, begun, jobs>> /\ j' = j + 1
        /\ pc = "push" /\ j \in DOMAIN outIdx[cur]
        /\ q' = IF DepsAreSatisfied(s) THEN Append(q, s) ELSE q
    BY <1>8 DEF PushSuccessor, graphVars, jobVars
  <2>2. s \in Id
    BY <1>t, <2>1
  <2>3. Range(q') = IF DepsAreSatisfied(s) THEN Range(q) \cup {s} ELSE Range(q)
    <3>1. Range(Append(q, s)) = Range(q) \cup {s}
      BY <1>t, <2>2, AppendFact
    <3> QED
      BY <2>1, <3>1
  <2> SUFFICES ASSUME NEW n \in Tasks, DepsAreSatisfied(n)', Fresh(n)'
               PROVE  \E p \in DOMAIN outIdx[cur] : p >= j + 1 /\ outIdx[cur][p] = n
    BY <2>1 DEF ReadyInv, Tasks
  <2>4. DepsAreSatisfied(n)
    BY <2>1 DEF DepsAreSatisfied
  <2>5. Fresh(n) /\ n # s
    BY <2>1, <2>3, <2>4 DEF Fresh, Jobs
  <2>6. PICK p \in DOMAIN outIdx[cur] : p >= j /\ outIdx[cur][p] = n
    BY <2>1, <2>4, <2>5 DEF AsyncInv, ReadyInv
  <2>7. p >= j + 1
    BY <1>t, <2>5, <2>6
  <2> QED
    BY <2>6, <2>7
<1>9. ASSUME NEW t \in Jobs, JobBegin(t) \/ JobEnd(t) PROVE ReadyInv'
  <2>1. /\ UNCHANGED <<size, inIdx, outIdx, pc, j, cur, q, state, jobs>>
        /\ begun' = begun \/ begun' = Bumped(begun, jobs[t])
    BY <1>9 DEF JobBegin, JobEnd, StageBecomes, graphVars, mainVars
  <2>2. \A n \in Id : Fresh(n)' => Fresh(n)
    BY <1>t, <2>1 DEF Fresh, Jobs, Bumped
  <2> QED
    BY <1>t, <2>1, <2>2 DEF AsyncInv, ReadyInv, Tasks, DepsAreSatisfied
<1> QED
  BY <1>1, <1>2, <1>3, <1>4, <1>5, <1>6, <1>7, <1>8, <1>9 DEF AsyncNext, Main, JobStep

----------------------------------------------------------------------------
(* What main waits for. *)

\* The least element of a finite set of naturals.
LEMMA LeastElement ==
  ASSUME NEW S, S \subseteq Nat, IsFiniteSet(S), S # {}
  PROVE  \E n \in S : \A m \in S : n <= m
<1> DEFINE Below(n) == {m \in S : m <= n}
           T == {Below(n) : n \in S}
<1>1. T \subseteq FiniteSubsetsOf(S) /\ T # {}
  <2>1. \A n \in S : IsFiniteSet(Below(n)) /\ Below(n) \subseteq S
    BY FS_Subset
  <2> QED
    BY <2>1 DEF FiniteSubsetsOf
<1>2. PICK n \in S : \A m \in S : <<Below(m), Below(n)>> \notin StrictSubsetOrdering(S)
  <2> HIDE DEF T
  <2>1. \E x \in T : \A y \in T : ~ (<<y, x>> \in StrictSubsetOrdering(S))
    BY <1>1, FS_StrictSubsetOrderingWellFounded, WFMin
  <2> QED
    BY <2>1 DEF T
<1>3. SUFFICES ASSUME NEW m \in S, ~ (n <= m) PROVE FALSE
  BY <1>2
<1>4. n \in Nat /\ m \in Nat /\ m < n
  BY <1>3
<1>5. Below(m) \subseteq Below(n)
  <2> SUFFICES ASSUME NEW k \in S, k <= m PROVE k <= n
    OBVIOUS
  <2> QED
    BY <1>4
<1>6. n \in Below(n) /\ n \notin Below(m)
  BY <1>4
<1>7. <<Below(m), Below(n)>> \in StrictSubsetOrdering(S)
  BY <1>5, <1>6 DEF StrictSubsetOrdering
<1> QED
  BY <1>2, <1>7

LEMMA UnfinishedFact ==
  ASSUME AsyncTypeOK
  PROVE  /\ size \in Nat /\ Tasks \subseteq Nat /\ Tasks \subseteq Id
         /\ IsFiniteSet(Tasks) /\ Cardinality(Tasks) = size
         /\ Unfinished \subseteq Tasks
         /\ IsFiniteSet(Unfinished) /\ Cardinality(Unfinished) \in Nat
         /\ Cardinality(Unfinished) = 0 <=> Unfinished = {}
<1>1. size \in Nat
  BY TaskGraphAssumption DEF AsyncTypeOK, GraphTypeOK
<1>2. IsFiniteSet(Tasks) /\ Cardinality(Tasks) = size
  <2>1. size - 1 \in Int /\ 0 \in Int
    BY <1>1
  <2>2. IsFiniteSet(0 .. size - 1)
    BY <2>1, FS_Interval
  <2>3. Cardinality(0 .. size - 1) = IF 0 > size - 1 THEN 0 ELSE size - 1 - 0 + 1
    BY <2>1, FS_Interval
  <2> QED
    BY <1>1, <2>2, <2>3 DEF Tasks
<1>3. Unfinished \subseteq Tasks
  BY DEF Unfinished
<1>4. IsFiniteSet(Unfinished)
  BY <1>2, <1>3, FS_Subset
<1>5. Tasks \subseteq Nat /\ Tasks \subseteq Id
  BY <1>1, TasksAreIds DEF Tasks, AsyncTypeOK
<1> QED
  BY <1>1, <1>2, <1>3, <1>4, <1>5, FS_CardinalityType, FS_EmptySet

LEMMA CountStep ==
  ASSUME AsyncInv, [AsyncNext]_asyncVars PROVE CountInv'
<1>t. AsyncTypeOK /\ CountInv
  BY DEF AsyncInv
<1>1. CASE RootsEnd
  <2>1. /\ size' = size /\ state' = state /\ nRemaining' = size /\ pc' = "loop"
        /\ pc = "roots"
    BY <1>1 DEF RootsEnd, graphVars
  <2>2. \A i \in Tasks : state[i] # "finished"
    BY <1>t, <2>1, UnfinishedFact DEF AsyncInv, RootsInv
  <2>3. Unfinished' = Tasks
    BY <2>1, <2>2 DEF Unfinished, Tasks
  <2> QED
    BY <1>t, <2>1, <2>3, UnfinishedFact DEF CountInv
<1>2. CASE ComputeEnd \/ Acknowledge
  <2>1. PICK i \in Tasks : i \in Id /\ Finished(i) /\ state[i] = "not_started"
    BY <1>2, FinishedFact
  <2>2. size' = size /\ pc' = "push" /\ pc \in {"compute", "scan"}
    BY <1>2 DEF ComputeEnd, Acknowledge, Finished, graphVars
  <2>3. i \in Unfinished
    BY <2>1 DEF Unfinished
  <2>4. Unfinished' = Unfinished \ {i}
    BY <1>t, <2>1, <2>2 DEF Unfinished, Finished, Tasks, AsyncTypeOK
  <2>5. Cardinality(Unfinished') = Cardinality(Unfinished) - 1
    BY <1>t, <2>3, <2>4, UnfinishedFact, FS_RemoveElement
  <2> QED
    BY <1>t, <2>1, <2>2, <2>5 DEF CountInv, Finished
<1>3. CASE Return
  <2>1. size' = size /\ state' = state /\ nRemaining' = nRemaining /\ pc = "loop" /\ nRemaining = 0
    BY <1>3 DEF Return, graphVars, mainVars
  <2>2. Unfinished = {} /\ Unfinished' = Unfinished
    BY <1>t, <2>1, UnfinishedFact DEF CountInv, Unfinished, Tasks
  <2> QED
    BY <1>t, <2>1, <2>2 DEF CountInv
<1>4. CASE Build \/ Call \/ Root
  BY <1>4 DEF Build, Call, Root, CountInv
<1>5. CASE \/ Launch \/ Compute \/ ComputeThrow \/ PushSuccessor \/ PushEnd
           \/ NothingReady \/ Wait \/ ScanSkip \/ ScanEnd \/ Over \/ UNCHANGED asyncVars
           \/ \E t \in Jobs : JobStep(t) \/ Propagate(t)
  <2>1. /\ size' = size /\ state' = state /\ nRemaining' = nRemaining
        /\ pc' = "done" => pc = "done"
        /\ pc' \notin {"build", "roots"} => pc \notin {"build", "roots"}
    BY <1>5 DEF Launch, Compute, ComputeThrow, PushSuccessor, PushEnd, NothingReady,
                Wait, ScanSkip, ScanEnd, Over, JobStep, JobBegin, JobEnd, JobCount,
                JobNotify, Propagate, asyncVars, mainVars, graphVars
  <2> QED
    BY <1>t, <2>1 DEF CountInv, Unfinished, Tasks
<1> QED
  BY <1>1, <1>2, <1>3, <1>4, <1>5 DEF AsyncNext, Main

\* The least unfinished task has been launched when main has nothing to do.
LEMMA SomeJobIsFlying ==
  ASSUME AsyncInv, pc = "loop", nRemaining # 0, q = <<>> PROVE flying # <<>>
<1>t. AsyncTypeOK
  BY DEF AsyncInv
<1>1. Unfinished # {}
  BY <1>t, UnfinishedFact DEF AsyncInv, CountInv
<1>2. PICK i \in Unfinished : \A m \in Unfinished : i <= m
  <2>1. Unfinished \subseteq Nat /\ IsFiniteSet(Unfinished)
    BY <1>t, UnfinishedFact
  <2> QED
    BY <1>1, <2>1, LeastElement
<1>3. i \in Tasks /\ i \in Id /\ i \in Nat /\ size \in Nat /\ state[i] = "not_started"
  BY <1>t, UnfinishedFact DEF Unfinished, AsyncTypeOK
<1>4. DepsAreSatisfied(i)
  <2> SUFFICES ASSUME NEW p \in DOMAIN inIdx[i] PROVE state[inIdx[i][p]] = "finished"
    BY DEF DepsAreSatisfied
  <2> DEFINE d == inIdx[i][p]
  <2>1. d \in Id /\ d < i /\ i < size
    BY <1>t, <1>3, AsyncTypes DEF AsyncInv, GraphInv, TopologicalOrder
  <2>2. d \in Nat /\ d \in Tasks
    BY <1>3, <2>1, TaskGraphAssumption DEF Id, Tasks
  <2>3. d \notin Unfinished
    BY <1>2, <1>3, <2>1, <2>2
  <2> QED
    BY <2>2, <2>3 DEF Unfinished
<1>5. ~ Fresh(i)
  BY <1>3, <1>4 DEF AsyncInv, ReadyInv
<1>6. Range(q) = {}
  BY DEF Range
<1>7. \E t \in Jobs : jobs[t] = i
  <2>1. CASE begun[i] = 0
    BY <1>3, <1>5, <1>6, <2>1 DEF Fresh
  <2>2. CASE begun[i] = 1
    BY <1>3, <2>2 DEF AsyncInv, TaskInv
  <2> QED
    BY <1>3, <2>1, <2>2 DEF AsyncInv, TaskInv
<1>8. Range(flying) # {}
  BY <1>3, <1>7 DEF AsyncInv, FlyingInv
<1> QED
  BY <1>8 DEF Range

LEMMA WaitStep ==
  ASSUME AsyncInv, [AsyncNext]_asyncVars PROVE NeverWaitsForNothing'
<1>t. NeverWaitsForNothing
  BY DEF AsyncInv
<1>1. CASE NothingReady
  BY <1>1, SomeJobIsFlying DEF NothingReady, mainVars, NeverWaitsForNothing
<1>2. CASE \/ Build \/ Call \/ Root \/ RootsEnd \/ Launch \/ Compute \/ ComputeEnd
           \/ ComputeThrow \/ PushSuccessor \/ PushEnd \/ Acknowledge \/ ScanEnd \/ Return
  BY <1>2 DEF Build, Call, Root, RootsEnd, Launch, Compute, ComputeEnd, ComputeThrow,
              PushSuccessor, PushEnd, Acknowledge, ScanEnd, Return, Finished,
              NeverWaitsForNothing
<1>3. CASE \/ Wait \/ ScanSkip \/ Over \/ UNCHANGED asyncVars
           \/ \E t \in Jobs : JobStep(t) \/ Propagate(t)
  <2>1. /\ flying' = flying
        /\ pc' \in {"wait", "sleep", "scan"} => pc \in {"wait", "sleep", "scan"}
    BY <1>3 DEF Wait, ScanSkip, Over, JobStep, JobBegin, JobEnd, JobCount,
                JobNotify, Propagate, asyncVars, mainVars
  <2> QED
    BY <1>t, <2>1 DEF NeverWaitsForNothing
<1> QED
  BY <1>1, <1>2, <1>3 DEF AsyncNext, Main

----------------------------------------------------------------------------
(* The counters of completed and of acknowledged jobs. *)

\* There are no more jobs than tasks, and the counters do not wrap around.
LEMMA JobsFact ==
  ASSUME AsyncInv
  PROVE  /\ Len(jobs) \in Nat /\ Len(flying) \in Nat /\ Len(jobs) < CommMod
         /\ CommMod \in Nat
         /\ IsFiniteSet(Jobs) /\ Cardinality(Jobs) = Len(jobs)
         /\ CountedJobs \subseteq Jobs /\ IsFiniteSet(CountedJobs)
         /\ Cardinality(CountedJobs) \in Nat /\ Cardinality(CountedJobs) <= Len(jobs)
         /\ Cardinality(CountedJobs) = Len(jobs) => CountedJobs = Jobs
<1>t. AsyncTypeOK
  BY DEF AsyncInv
<1>1. Len(jobs) \in Nat /\ Len(flying) \in Nat /\ Jobs = 1 .. Len(jobs)
  BY <1>t, AsyncTypes
<1>2. IsFiniteSet(Jobs) /\ Cardinality(Jobs) = Len(jobs)
  <2> DEFINE last == Len(jobs)
  <2>1. 1 \in Int /\ last \in Int /\ last \in Nat
    BY <1>1
  <2> HIDE DEF last
  <2>2. /\ IsFiniteSet(1 .. last)
        /\ Cardinality(1 .. last) = IF 1 > last THEN 0 ELSE last - 1 + 1
    BY <2>1, FS_Interval
  <2>3. Cardinality(1 .. last) = last
    BY <2>1, <2>2
  <2> QED
    BY <1>1, <2>2, <2>3 DEF last
<1>3. Cardinality(Jobs) <= Cardinality(Tasks)
  <2>1. jobs \in [Jobs -> Tasks]
    <3>1. jobs = [t \in Jobs |-> jobs[t]]
      BY <1>t DEF AsyncTypeOK, Jobs
    <3>2. \A t \in Jobs : jobs[t] \in Tasks
      BY DEF AsyncInv, JobsInv
    <3> QED
      BY <3>1, <3>2
  <2>2. \A t, u \in Jobs : jobs[t] = jobs[u] => t = u
    BY DEF AsyncInv, JobsInv
  <2>3. jobs \in Injection(Jobs, Tasks)
    BY <2>1, <2>2 DEF Injection, IsInjective
  <2> QED
    BY <1>t, <2>3, UnfinishedFact, FS_Injection
<1>4. Len(jobs) < CommMod /\ CommMod \in Nat
  <2>1. size <= MaxTasks /\ size \in Nat
    BY <1>t, TaskGraphAssumption DEF AsyncTypeOK, GraphTypeOK
  <2>2. Len(jobs) <= size
    BY <1>t, <1>2, <1>3, UnfinishedFact
  <2> QED
    BY <1>1, <2>1, <2>2, AsyncCommAssumption, TaskGraphAssumption
<1>5. CountedJobs \subseteq Jobs
  BY DEF CountedJobs
<1>6. /\ IsFiniteSet(CountedJobs) /\ Cardinality(CountedJobs) <= Cardinality(Jobs)
      /\ Cardinality(Jobs) = Cardinality(CountedJobs) => Jobs = CountedJobs
  BY <1>2, <1>5, FS_Subset
<1> QED
  BY <1>1, <1>2, <1>4, <1>5, <1>6, FS_CardinalityType

LEMMA CommStep ==
  ASSUME AsyncInv, [AsyncNext]_asyncVars PROVE CommInv'
<1>t. AsyncTypeOK /\ CommInv
  BY DEF AsyncInv
<1>n. /\ Len(jobs) \in Nat /\ Len(flying) \in Nat /\ currentComm \in Nat
      /\ lastRecorded \in Int /\ CommMod \in Nat /\ Len(jobs) < CommMod
      /\ currentComm <= Len(jobs)
  BY <1>t, JobsFact DEF CommInv
<1>1. CASE Launch
  <2>1. /\ UNCHANGED <<currentComm, lastRecorded>> /\ pc' = pc /\ pc = "loop"
    BY <1>1 DEF Launch
  <2>2. Len(jobs') = Len(jobs) + 1 /\ Len(flying') = Len(flying) + 1
    BY <1>t, <1>1 DEF Launch, AsyncTypeOK
  <2>3. CountedJobs' = CountedJobs
    BY <1>1, LaunchFact DEF CountedJobs
  <2> QED
    BY <1>t, <1>n, <2>1, <2>2, <2>3 DEF CommInv
<1>2. CASE Acknowledge
  <2>1. /\ UNCHANGED <<currentComm, jobs, stage>> /\ pc = "scan" /\ pc' = "push"
        /\ lastRecorded' = (lastRecorded + 1) % CommMod
        /\ flying' = RemoveAt(flying, j) /\ j \in DOMAIN flying
    BY <1>2 DEF Acknowledge, Finished, jobVars
  <2>2. flying \in Seq(Jobs) /\ j \in 1 .. Len(flying)
    BY <1>t, <2>1, AsyncTypes DEF AsyncTypeOK
  <2>3. Len(flying') = Len(flying) - 1
    BY <2>1, <2>2, RemoveAtFact
  <2>4. lastRecorded < currentComm /\ lastRecorded >= 0
    BY <1>t, <2>1 DEF CommInv, AsyncTypeOK
  <2>5. lastRecorded' = lastRecorded + 1
    BY <1>n, <2>1, <2>4
  <2>6. CountedJobs' = CountedJobs
    BY <2>1 DEF CountedJobs, Jobs
  <2> QED
    BY <1>t, <1>n, <2>1, <2>3, <2>4, <2>5, <2>6 DEF CommInv
<1>3. ASSUME NEW t \in Jobs, JobCount(t) PROVE CommInv'
  <2>1. /\ stage'[t] = "counted" /\ stage[t] = "flagged" /\ jobs' = jobs
        /\ \A u \in Jobs : u # t => stage'[u] = stage[u]
    BY <1>t, <1>3, StageFact DEF JobCount, Stage
  <2>2. /\ UNCHANGED <<pc, flying, lastRecorded>>
        /\ currentComm' = (currentComm + 1) % CommMod
    BY <1>3 DEF JobCount, mainVars
  <2>3. CountedJobs' = CountedJobs \cup {t} /\ t \notin CountedJobs
    BY <2>1 DEF CountedJobs, Jobs
  <2>4. Cardinality(CountedJobs') = Cardinality(CountedJobs) + 1
    BY <2>3, JobsFact, FS_AddElement
  <2>5. currentComm < Len(jobs)
    <3>1. CountedJobs # Jobs
      BY <2>3
    <3> QED
      BY <1>t, <1>n, <3>1, JobsFact DEF CommInv
  <2>6. currentComm' = currentComm + 1
    BY <1>n, <2>2, <2>5
  <2> QED
    BY <1>t, <1>n, <2>1, <2>2, <2>4, <2>6 DEF CommInv
<1>4. ASSUME NEW t \in Jobs, JobBegin(t) \/ JobEnd(t) \/ JobNotify(t) PROVE CommInv'
  <2>1. /\ jobs' = jobs
        /\ stage'[t] \in {"counted", "notified"} <=> stage[t] \in {"counted", "notified"}
        /\ \A u \in Jobs : u # t => stage'[u] = stage[u]
    BY <1>t, <1>4, StageFact DEF JobBegin, JobEnd, JobNotify, Stage
  <2>2. /\ UNCHANGED <<currentComm, flying, lastRecorded>>
        /\ pc' = "scan" => pc = "scan"
    BY <1>4 DEF JobBegin, JobEnd, JobNotify, mainVars
  <2>3. CountedJobs' = CountedJobs
    BY <2>1 DEF CountedJobs, Jobs
  <2> QED
    BY <1>t, <2>1, <2>2, <2>3 DEF CommInv
<1>5. CASE Wait
  <2>1. /\ UNCHANGED <<currentComm, lastRecorded, jobs, stage, flying>>
        /\ pc' = "scan" => currentComm # lastRecorded
    BY <1>5 DEF Wait, jobVars
  <2>2. CountedJobs' = CountedJobs
    BY <2>1 DEF CountedJobs, Jobs
  <2> QED
    BY <1>t, <1>n, <2>1, <2>2 DEF CommInv
<1>6. CASE \/ Build \/ Call \/ Root \/ RootsEnd \/ Compute \/ ComputeEnd
           \/ ComputeThrow \/ PushSuccessor \/ PushEnd \/ NothingReady \/ ScanSkip
           \/ ScanEnd \/ Return \/ Over \/ UNCHANGED asyncVars
           \/ \E t \in Jobs : Propagate(t)
  <2>1. /\ UNCHANGED <<currentComm, lastRecorded, jobs, stage, flying>>
        /\ pc' = "scan" => pc = "scan"
    BY <1>6 DEF Build, Call, Root, RootsEnd, Compute, ComputeEnd, ComputeThrow,
                PushSuccessor, PushEnd, NothingReady, ScanSkip, ScanEnd, Return, Over,
                Propagate, Finished, asyncVars, mainVars, jobVars
  <2>2. CountedJobs' = CountedJobs
    BY <2>1 DEF CountedJobs, Jobs
  <2> QED
    BY <1>t, <2>1, <2>2 DEF CommInv
<1> QED
  BY <1>1, <1>2, <1>3, <1>4, <1>5, <1>6 DEF AsyncNext, Main, JobStep

\* main goes to sleep when the counters are equal; as a job is flying, not
\* all of them are counted, and the one that is not will notify main.
LEMMA WakeupStep ==
  ASSUME AsyncInv, [AsyncNext]_asyncVars PROVE NoLostWakeup'
<1>t. AsyncTypeOK /\ NoLostWakeup
  BY DEF AsyncInv
<1>1. CASE Wait
  <2>1. /\ UNCHANGED <<jobs, stage>> /\ pc = "wait"
        /\ pc' = "sleep" => currentComm = lastRecorded
    BY <1>1 DEF Wait, jobVars
  <2>2. Len(flying) # 0
    BY <1>t, <2>1, EmptySeq DEF AsyncInv, NeverWaitsForNothing, AsyncTypeOK
  <2>3. pc' = "sleep" => Cardinality(CountedJobs) # Len(jobs)
    BY <2>1, <2>2, JobsFact DEF AsyncInv, CommInv
  <2>4. pc' = "sleep" => CountedJobs # Jobs
    BY <2>3, JobsFact
  <2>5. pc' = "sleep" => \E t \in Jobs : stage[t] # "notified"
    BY <2>4 DEF CountedJobs
  <2> QED
    BY <2>1, <2>5 DEF NoLostWakeup, Jobs
<1>2. ASSUME NEW t \in Jobs, JobBegin(t) \/ JobEnd(t) \/ JobCount(t) PROVE NoLostWakeup'
  <2>1. jobs' = jobs /\ stage'[t] # "notified"
    BY <1>t, <1>2, StageFact DEF JobBegin, JobEnd, JobCount, Stage
  <2> QED
    BY <2>1 DEF NoLostWakeup, Jobs
<1>3. ASSUME NEW t \in Jobs, JobNotify(t) PROVE NoLostWakeup'
  BY <1>3 DEF JobNotify, NoLostWakeup
<1>4. CASE \/ ComputeThrow \/ PushEnd \/ NothingReady \/ ScanSkip \/ ScanEnd \/ Return
           \/ Over \/ UNCHANGED asyncVars \/ \E t \in Jobs : Propagate(t)
  <2>1. /\ UNCHANGED <<jobs, stage>>
        /\ pc' = "sleep" => pc = "sleep"
    BY <1>4 DEF ComputeThrow, PushEnd, NothingReady, ScanSkip, ScanEnd, Return, Over,
                Propagate, asyncVars, jobVars
  <2> QED
    BY <1>t, <2>1 DEF NoLostWakeup, Jobs
<1>5. CASE \/ Build \/ Call \/ Root \/ RootsEnd \/ Launch \/ Compute \/ ComputeEnd
           \/ PushSuccessor \/ Acknowledge
  BY <1>5 DEF Build, Call, Root, RootsEnd, Launch, Compute, ComputeEnd, PushSuccessor,
              Acknowledge, Finished, NoLostWakeup
<1> QED
  BY <1>1, <1>2, <1>3, <1>4, <1>5 DEF AsyncNext, Main, JobStep

----------------------------------------------------------------------------

LEMMA AsyncInitInv == ASSUME AsyncInit PROVE AsyncInv
<1>1. AsyncTypeOK /\ GraphInv
  BY AsyncInitTypes, GraphInitInv DEF AsyncInit
<1>2. /\ Jobs = {} /\ Range(q) = {} /\ Range(flying) = {} /\ pc = "build" /\ q = <<>>
      /\ jobs = <<>> /\ flying = <<>> /\ Len(jobs) = 0 /\ Len(flying) = 0 /\ visible = {}
      /\ lastRecorded = 0 /\ currentComm = 0 /\ size = 0 /\ j = 0
      /\ \A i \in Id : state[i] = "not_started" /\ begun[i] = 0 /\ ended[i] = 0
  BY DEF AsyncInit, GraphInit, Jobs, Range
<1>3. Tasks = {} /\ CountedJobs = {}
  BY <1>2 DEF Tasks, CountedJobs
<1>4. Cardinality(CountedJobs) = 0
  BY <1>3, FS_EmptySet
<1>5. QueueInv /\ FlyingInv
  BY <1>2 DEF QueueInv, FlyingInv, IsInjective
<1>6. JobsInv /\ TaskInv /\ ComputeInv /\ PushInv /\ ReadyInv
  BY <1>2 DEF JobsInv, TaskInv, ComputeInv, PushInv, ReadyInv
<1>7. RootsInv
  BY <1>2, <1>3 DEF RootsInv
<1>8. CountInv /\ NeverWaitsForNothing /\ CommInv /\ NoLostWakeup
  BY <1>2, <1>4 DEF CountInv, NeverWaitsForNothing, CommInv, NoLostWakeup
<1> QED
  BY <1>1, <1>5, <1>6, <1>7, <1>8 DEF AsyncInv

LEMMA AsyncStepInv ==
  ASSUME ~ RepeatedDeps, AsyncInv, [AsyncNext]_asyncVars PROVE AsyncInv'
<1>1. AsyncTypeOK' /\ GraphInv'
  BY TypePrimed
<1>2. QueueInv' /\ JobsInv' /\ FlyingInv' /\ TaskInv'
  BY QueueStep, JobsStep, FlyingStep, TaskStep
<1>3. ComputeInv' /\ PushInv' /\ RootsInv' /\ ReadyInv'
  BY ComputeStep, PushStep, RootsStep, ReadyStep
<1>4. CountInv' /\ NeverWaitsForNothing' /\ CommInv' /\ NoLostWakeup'
  BY CountStep, WaitStep, CommStep, WakeupStep
<1> QED
  BY <1>1, <1>2, <1>3, <1>4 DEF AsyncInv

(* The inductive invariant of the asynchronous schedule holds, when no     *)
(* join repeats a future.                                                  *)
THEOREM AsyncCorrect == ASSUME ~ RepeatedDeps PROVE AsyncSpec => []AsyncInv
<1>1. AsyncInit => AsyncInv
  BY AsyncInitInv
<1>2. AsyncInv /\ [AsyncNext]_asyncVars => AsyncInv'
  BY AsyncStepInv
<1> QED
  BY <1>1, <1>2, PTL DEF AsyncSpec

\* What the inductive invariant says of the tasks and of the jobs.
LEMMA AsyncInvImplies ==
  ASSUME AsyncInv
  PROVE  /\ LaunchedAfterCompletion /\ ExecutedOnce /\ KnowledgeIsSound
         /\ AllExecutedAtReturn /\ NothingWrittenAfterReturn
<1>t. AsyncTypeOK
  BY DEF AsyncInv
<1>1. LaunchedAfterCompletion
  <2> SUFFICES ASSUME NEW i \in Id, begun[i] > 0, NEW p \in DOMAIN inIdx[i]
               PROVE  ended[inIdx[i][p]] > 0 /\ begun[inIdx[i][p]] = ended[inIdx[i][p]]
    BY DEF LaunchedAfterCompletion
  <2>1. inIdx[i][p] \in Id
    BY <1>t, AsyncTypes
  <2>2. begun[i] = 1
    BY DEF AsyncInv, TaskInv
  <2>3. state[inIdx[i][p]] = "finished"
    BY <2>2 DEF AsyncInv, TaskInv, DepsAreSatisfied
  <2> QED
    BY <2>1, <2>3 DEF AsyncInv, TaskInv
<1>2. ExecutedOnce /\ KnowledgeIsSound
  BY DEF ExecutedOnce, KnowledgeIsSound, AsyncInv, TaskInv
<1>3. ASSUME pc = "done" PROVE \A i \in Tasks : i \in Id /\ state[i] = "finished"
  BY <1>t, <1>3, UnfinishedFact DEF AsyncInv, CountInv, Unfinished
<1>4. AllExecutedAtReturn
  BY <1>3 DEF AllExecutedAtReturn, AsyncInv, TaskInv
<1>5. ASSUME pc = "done" PROVE CountedJobs = Jobs
  <2>1. Range(flying) = {}
    <3> SUFFICES ASSUME NEW t \in Range(flying) PROVE FALSE
      OBVIOUS
    <3>1. t \in Jobs /\ state[jobs[t]] = "not_started" /\ jobs[t] \in Tasks
      BY <1>t, AsyncTypes DEF AsyncInv, FlyingInv, JobsInv
    <3> QED
      BY <1>3, <1>5, <3>1
  <2>2. Len(flying) = 0
    <3>1. DOMAIN flying = 1 .. Len(flying) /\ Len(flying) \in Nat
      BY <1>t, AsyncTypes
    <3>2. 1 \notin DOMAIN flying
      BY <2>1 DEF Range
    <3> QED
      BY <3>1, <3>2
  <2>3. Len(jobs) <= Cardinality(CountedJobs)
    BY <2>2, JobsFact DEF AsyncInv, CommInv
  <2>4. Cardinality(CountedJobs) = Len(jobs)
    BY <2>3, JobsFact
  <2> QED
    BY <2>4, JobsFact
<1>6. NothingWrittenAfterReturn
  BY <1>5 DEF NothingWrittenAfterReturn, CountedJobs
<1> QED
  BY <1>1, <1>2, <1>4, <1>6

(* No task is launched before those it depends on have completed, none of  *)
(* which is ever executed again, and no task is executed twice: the check  *)
(* of state_of_tasks in push_to_queue_if_deps_satisfied is enough.         *)
THEOREM LaunchOrder ==
  ASSUME ~ RepeatedDeps PROVE AsyncSpec => [](LaunchedAfterCompletion /\ ExecutedOnce)
<1>1. AsyncInv => LaunchedAfterCompletion /\ ExecutedOnce
  BY AsyncInvImplies
<1> QED
  BY <1>1, AsyncCorrect, PTL

(* What execute_async_comm takes for finished has returned, although its   *)
(* wait on current_comm orders nothing.                                    *)
THEOREM SoundKnowledge == ASSUME ~ RepeatedDeps PROVE AsyncSpec => []KnowledgeIsSound
<1>1. AsyncInv => KnowledgeIsSound
  BY AsyncInvImplies
<1> QED
  BY <1>1, AsyncCorrect, PTL

(* The wait of execute_async_comm is safe: a communication is in flight    *)
(* when it begins (the assertion of wait_one_comm_to_finish), and as long  *)
(* as main is blocked one of them is still to notify it.                   *)
THEOREM SafeWait ==
  ASSUME ~ RepeatedDeps PROVE AsyncSpec => [](NeverWaitsForNothing /\ NoLostWakeup)
<1>1. AsyncInv => NeverWaitsForNothing /\ NoLostWakeup
  BY DEF AsyncInv
<1> QED
  BY <1>1, AsyncCorrect, PTL

(* When execute_async_comm returns, every task has been executed, and no   *)
(* job of the pool will write to the variables it frees.                   *)
THEOREM CleanReturn ==
  ASSUME ~ RepeatedDeps
  PROVE  AsyncSpec => [](AllExecutedAtReturn /\ NothingWrittenAfterReturn)
<1>1. AsyncInv => AllExecutedAtReturn /\ NothingWrittenAfterReturn
  BY AsyncInvImplies
<1> QED
  BY <1>1, AsyncCorrect, PTL

(* Type correctness of the asynchronous schedule. *)
THEOREM AsyncTypeCorrect == ASSUME ~ RepeatedDeps PROVE AsyncSpec => []AsyncTypeOK
<1>1. AsyncInv => AsyncTypeOK
  BY DEF AsyncInv
<1> QED
  BY <1>1, AsyncCorrect, PTL

----------------------------------------------------------------------------
(* How many jobs are under way. *)

ActiveJobs == {t \in Jobs : stage[t] \in Active}

\* The pool has NWorkers threads.
WidthInv == AsyncInv /\ Cardinality(ActiveJobs) <= NWorkers

LEMMA ActiveFact ==
  ASSUME AsyncInv
  PROVE  IsFiniteSet(ActiveJobs) /\ Cardinality(ActiveJobs) \in Nat
<1>1. ActiveJobs \subseteq Jobs
  BY DEF ActiveJobs
<1> QED
  BY <1>1, JobsFact, FS_Subset, FS_CardinalityType

\* The stage of the jobs changes one at a time, as far as the pool can tell.
LEMMA StageSteps ==
  ASSUME AsyncInv, [AsyncNext]_asyncVars
  PROVE  \/ Launch
         \/ \E t \in Jobs : JobBegin(t)
         \/ \E t \in Jobs : JobNotify(t)
         \/ /\ Jobs' = Jobs
            /\ \A t \in Jobs : stage'[t] = stage[t] \/ {stage[t], stage'[t]} \subseteq Active
<1>t. AsyncTypeOK
  BY DEF AsyncInv
<1>1. ASSUME NEW t \in Jobs, JobEnd(t) \/ JobCount(t)
      PROVE  /\ Jobs' = Jobs
             /\ \A u \in Jobs : stage'[u] = stage[u] \/ {stage[u], stage'[u]} \subseteq Active
  BY <1>t, <1>1, StageFact DEF JobEnd, JobCount, Stage, Active, Jobs
<1>2. CASE \/ Build \/ Call \/ Root \/ RootsEnd \/ Compute \/ ComputeEnd \/ ComputeThrow
           \/ PushSuccessor \/ PushEnd \/ NothingReady \/ Wait \/ ScanSkip \/ Acknowledge
           \/ ScanEnd \/ Return \/ Over \/ UNCHANGED asyncVars
           \/ \E t \in Jobs : Propagate(t)
  BY <1>2 DEF Build, Call, Root, RootsEnd, Compute, ComputeEnd, ComputeThrow,
      PushSuccessor, PushEnd, NothingReady, Wait, ScanSkip, Acknowledge, ScanEnd, Return,
      Over, Propagate, asyncVars, jobVars, Jobs
<1> QED
  BY <1>1, <1>2 DEF AsyncNext, Main, JobStep

LEMMA WidthStep == ASSUME WidthInv, AsyncInv', [AsyncNext]_asyncVars PROVE WidthInv'
<1>t. AsyncInv /\ AsyncTypeOK /\ NWorkers \in Nat
  BY AsyncCommAssumption DEF WidthInv, AsyncInv
<1>f. IsFiniteSet(ActiveJobs) /\ Cardinality(ActiveJobs) \in Nat /\ Cardinality(ActiveJobs) <= NWorkers
  BY <1>t, ActiveFact DEF WidthInv
<1>s. ASSUME ActiveJobs' \subseteq ActiveJobs PROVE Cardinality(ActiveJobs') <= NWorkers
  <2>1. Cardinality(ActiveJobs') <= Cardinality(ActiveJobs) /\ Cardinality(ActiveJobs') \in Nat
    BY <1>f, <1>s, FS_Subset, FS_CardinalityType
  <2> QED
    BY <1>f, <1>t, <2>1
<1>1. CASE Launch
  <2>1. ActiveJobs' \subseteq ActiveJobs
    BY <1>1, <1>t, LaunchFact DEF ActiveJobs, Active
  <2> QED
    BY <1>s, <2>1 DEF WidthInv
<1>2. ASSUME NEW t \in Jobs, JobBegin(t) PROVE WidthInv'
  <2>1. Cardinality(ActiveJobs) < NWorkers
    BY <1>2 DEF JobBegin, ActiveJobs
  <2>2. Jobs' = Jobs /\ stage'[t] = "running" /\ \A u \in Jobs : u # t => stage'[u] = stage[u]
    BY <1>2, <1>t, StageFact DEF JobBegin, Stage, Jobs
  <2>3. ActiveJobs' = ActiveJobs \cup {t}
    BY <2>2 DEF ActiveJobs, Active
  <2>4. t \notin ActiveJobs
    BY <1>2, <1>t, StageFact DEF JobBegin, Stage, ActiveJobs, Active
  <2>5. Cardinality(ActiveJobs \cup {t}) = Cardinality(ActiveJobs) + 1
    BY <1>f, <2>4, FS_AddElement
  <2> QED
    BY <1>t, <1>f, <2>1, <2>3, <2>5 DEF WidthInv
<1>3. ASSUME NEW t \in Jobs, JobNotify(t) PROVE WidthInv'
  <2>1. Jobs' = Jobs /\ stage'[t] = "notified" /\ \A u \in Jobs : u # t => stage'[u] = stage[u]
    BY <1>3, <1>t, StageFact DEF JobNotify, Stage, Jobs
  <2>2. ActiveJobs' \subseteq ActiveJobs
    BY <2>1 DEF ActiveJobs, Active
  <2> QED
    BY <1>s, <2>2 DEF WidthInv
<1>4. CASE /\ Jobs' = Jobs
           /\ \A t \in Jobs : stage'[t] = stage[t] \/ {stage[t], stage'[t]} \subseteq Active
  <2>1. ActiveJobs' \subseteq ActiveJobs
    BY <1>4 DEF ActiveJobs
  <2> QED
    BY <1>s, <2>1 DEF WidthInv
<1> QED
  BY <1>t, <1>1, <1>2, <1>3, <1>4, StageSteps

(* No more jobs are under way at any time than the pool has threads.       *)
THEOREM AsyncWidth == ASSUME ~ RepeatedDeps PROVE AsyncSpec => []WidthInv
<1>1. AsyncInit => WidthInv
  <2> SUFFICES ASSUME AsyncInit PROVE WidthInv
    OBVIOUS
  <2>1. ActiveJobs = {}
    BY DEF AsyncInit, ActiveJobs, Jobs
  <2>2. Cardinality(ActiveJobs) = 0
    BY <2>1, FS_EmptySet
  <2> QED
    BY <2>2, AsyncInitInv, AsyncCommAssumption DEF WidthInv
<1>2. WidthInv /\ AsyncInv' /\ [AsyncNext]_asyncVars => WidthInv'
  BY WidthStep
<1> QED
  BY <1>1, <1>2, AsyncCorrect, PTL DEF AsyncSpec

----------------------------------------------------------------------------
(* The refinement of TaskExecution. *)

\* The same operators on both sides.
LEMMA SameOperators ==
  /\ \A S : Execution!Cardinality(S) = Cardinality(S)
  /\ \A f : Execution!IsInjective(f) <=> IsInjective(f)
  /\ \A f : Execution!Range(f) = Range(f)
<1>1. \A S : Execution!Cardinality(S) = Cardinality(S)
  BY DEF Execution!Cardinality, Cardinality
<1>2. \A f : Execution!IsInjective(f) <=> IsInjective(f)
  BY DEF Execution!IsInjective, IsInjective
<1>3. \A f : Execution!Range(f) = Range(f)
  BY DEF Execution!Range, Range
<1> QED
  BY <1>1, <1>2, <1>3

\* The graph is the same on both sides.
LEMMA SameGraph ==
  /\ Execution!Tasks = Tasks /\ Execution!Id = Id
  /\ UNCHANGED graphVars => UNCHANGED Execution!graphVars
  /\ UNCHANGED Execution!graphVars => UNCHANGED graphVars
  /\ \A n \in Id : Execution!Deps(n) = Range(inIdx[n])
  BY SameOperators DEF Id, Tasks, graphVars,
         Execution!Id, Execution!Tasks, Execution!graphVars, Execution!Deps

LEMMA SameGraphStep == ASSUME GraphNext PROVE Execution!GraphNext
<1>1. ASSUME NEW tk, NEW deps, ThenTask(tk, deps) PROVE Execution!ThenTask(tk, deps)
  BY <1>1, SameOperators DEF ThenTask, EmplaceBack, PushedBack, Positions, Id,
              Execution!ThenTask, Execution!EmplaceBack, Execution!PushedBack,
              Execution!Positions, Execution!Id
<1>2. \A n : JoinOf(n) = Execution!JoinOf(n)
  BY SameOperators DEF JoinOf, Tasks, Execution!JoinOf, Execution!Tasks
<1>3. CASE InputData
  BY <1>3 DEF InputData, EmplaceBack, Execution!InputData, Execution!EmplaceBack,
              Execution!GraphNext
<1>4. CASE Then
  BY <1>1, <1>2, <1>4 DEF Then, Execution!Then, Execution!GraphNext
<1>5. CASE ThenComm
  BY <1>1, <1>2, <1>5 DEF ThenComm, Execution!ThenComm, Execution!GraphNext
<1> QED
  BY <1>3, <1>4, <1>5 DEF GraphNext

LEMMA StatusStays ==
  ASSUME \A i \in Id : AsyncStatus'[i] = AsyncStatus[i]
  PROVE  AsyncStatus' = AsyncStatus
<1>1. AsyncStatus = [i \in Id |-> AsyncStatus[i]] /\ AsyncStatus' = [i \in Id |-> AsyncStatus'[i]]
  BY DEF AsyncStatus
<1> QED
  BY <1>1

LEMMA StatusMoves ==
  ASSUME NEW i \in Id, NEW s, AsyncStatus'[i] = s,
         \A n \in Id : n # i => AsyncStatus'[n] = AsyncStatus[n]
  PROVE  AsyncStatus' = [AsyncStatus EXCEPT ![i] = s]
<1>1. AsyncStatus = [n \in Id |-> AsyncStatus[n]] /\ AsyncStatus' = [n \in Id |-> AsyncStatus'[n]]
  BY DEF AsyncStatus
<1> QED
  BY <1>1

\* The tasks that are being executed: those of active jobs, and that of main.
LEMMA RunningFact ==
  ASSUME AsyncInv, NEW i \in Id, AsyncStatus[i] = "running"
  PROVE  \/ \E t \in ActiveJobs : jobs[t] = i
         \/ pc = "compute" /\ i = cur
<1>1. begun[i] = 1 /\ ended[i] = 0 /\ state[i] = "not_started" /\ ~ (pc = "thrown" /\ i = cur)
  BY DEF AsyncStatus, AsyncInv, AsyncTypeOK, TaskInv
<1>2. CASE \E t \in Jobs : jobs[t] = i
  <2>1. PICK t \in Jobs : jobs[t] = i
    BY <1>2
  <2>2. stage[t] = "running"
    BY <1>1, <2>1 DEF AsyncInv, JobsInv
  <2> QED
    BY <2>1, <2>2 DEF ActiveJobs, Active
<1>3. CASE pc \in {"compute", "thrown"} /\ i = cur
  BY <1>1, <1>3
<1> QED
  BY <1>1, <1>2, <1>3 DEF AsyncInv, TaskInv

\* The width of the execution.
LEMMA RunningIsBounded ==
  ASSUME WidthInv
  PROVE  /\ Cardinality(Execution!Running) <= Cardinality(ActiveJobs) + 1
         /\ pc # "compute" => Cardinality(Execution!Running) <= Cardinality(ActiveJobs)
         /\ Cardinality(Execution!Running) \in Nat
<1> DEFINE R == {i \in Id : AsyncStatus[i] = "running"}
           P == R \ (IF pc = "compute" THEN {cur} ELSE {})
           A == {t \in ActiveJobs : jobs[t] \in P}
           exec == [t \in A |-> jobs[t]]
<1>t. AsyncInv
  BY DEF WidthInv
<1>1. Execution!Running = R
  BY SameGraph DEF Execution!Running
<1>2. IsFiniteSet(ActiveJobs) /\ Cardinality(ActiveJobs) \in Nat
  BY <1>t, ActiveFact
<1>3. IsFiniteSet(A) /\ Cardinality(A) <= Cardinality(ActiveJobs) /\ Cardinality(A) \in Nat
  <2>1. A \subseteq ActiveJobs
    OBVIOUS
  <2> HIDE DEF A
  <2> QED
    BY <1>2, <2>1, FS_Subset, FS_CardinalityType
<1>4. exec \in Surjection(A, P)
  <2>1. \A i \in P : \E t \in ActiveJobs : jobs[t] = i
    BY <1>t, RunningFact
  <2> QED
    BY <2>1 DEF Surjection
<1>5. IsFiniteSet(P) /\ Cardinality(P) <= Cardinality(A) /\ Cardinality(P) \in Nat
  <2> HIDE DEF P, A, exec
  <2> QED
    BY <1>3, <1>4, FS_Surjection, FS_CardinalityType
<1>6. CASE pc # "compute"
  <2>1. P = R
    BY <1>6
  <2> HIDE DEF P, A, R
  <2> QED
    BY <1>1, <1>2, <1>3, <1>5, <1>6, <2>1
<1>7. CASE pc = "compute"
  <2>1. R \subseteq P \cup {cur}
    BY <1>7
  <2> HIDE DEF P, A, R
  <2>2. /\ IsFiniteSet(P \cup {cur}) /\ Cardinality(P \cup {cur}) \in Nat
        /\ Cardinality(P \cup {cur}) <= Cardinality(P) + 1
    <3>1. /\ IsFiniteSet(P \cup {cur})
          /\ Cardinality(P \cup {cur}) = IF cur \in P THEN Cardinality(P) ELSE Cardinality(P) + 1
      BY <1>5, FS_AddElement
    <3> QED
      BY <1>5, <3>1
  <2>3. IsFiniteSet(R) /\ Cardinality(R) <= Cardinality(P \cup {cur}) /\ Cardinality(R) \in Nat
    BY <2>1, <2>2, FS_Subset, FS_CardinalityType
  <2> QED
    BY <1>1, <1>2, <1>3, <1>5, <1>7, <2>2, <2>3
<1> QED
  BY <1>6, <1>7

\* A task whose dependencies are satisfied may start.
LEMMA DepsAreDone ==
  ASSUME AsyncInv, NEW i \in Id, DepsAreSatisfied(i)
  PROVE  \A e \in Execution!Deps(i) : AsyncStatus[e] = "done"
<1> SUFFICES ASSUME NEW p \in DOMAIN inIdx[i] PROVE AsyncStatus[inIdx[i][p]] = "done"
  BY SameGraph DEF Range
<1>1. inIdx[i][p] \in Id /\ state[inIdx[i][p]] = "finished"
  BY AsyncTypes DEF AsyncInv, DepsAreSatisfied
<1>2. ended[inIdx[i][p]] = 1
  BY <1>1 DEF AsyncInv, TaskInv
<1> QED
  BY <1>1, <1>2 DEF AsyncStatus

\* A task is executed: main begins it, or a job does.
LEMMA StartFact ==
  ASSUME WidthInv, UNCHANGED graphVars, AsyncPhase' = AsyncPhase, NEW i \in Tasks,
         \/ AsyncPhase = "run"
         \/ AsyncPhase = "failed" /\ kind[i] = "communication",
         DepsAreSatisfied(i), begun[i] = 0,
         begun' = Bumped(begun, i), ended' = ended,
         \A n \in Id : pc' = "thrown" /\ n = cur' <=> pc = "thrown" /\ n = cur,
         ~ (pc = "thrown" /\ i = cur),
         Cardinality(Execution!Running) < NWorkers + 1
  PROVE  Execution!Start(i)
<1>t. AsyncInv /\ AsyncTypeOK /\ i \in Id
  BY UnfinishedFact DEF WidthInv, AsyncInv
<1>1. ended[i] = 0
  BY <1>t DEF AsyncInv, TaskInv
<1>2. \A n \in Id : begun'[n] = IF n = i THEN 1 ELSE begun[n]
  BY <1>t DEF Bumped, AsyncTypeOK
<1>3. AsyncStatus[i] = "waiting" /\ AsyncStatus'[i] = "running"
  BY <1>t, <1>1, <1>2 DEF AsyncStatus
<1>4. \A n \in Id : n # i => AsyncStatus'[n] = AsyncStatus[n]
  BY <1>2 DEF AsyncStatus
<1>5. AsyncStatus' = [AsyncStatus EXCEPT ![i] = "running"]
  BY <1>t, <1>3, <1>4, StatusMoves
<1>6. \A e \in Execution!Deps(i) : AsyncStatus[e] = "done"
  BY <1>t, DepsAreDone
<1> QED
  BY <1>3, <1>5, <1>6, SameGraph, SameOperators DEF Execution!Start

\* A task returns: to main, or in a job.
LEMMA CompleteFact ==
  ASSUME AsyncInv, UNCHANGED graphVars, AsyncPhase' = AsyncPhase, NEW i \in Id,
         begun[i] = 1, ended[i] = 0, begun' = begun, ended' = Bumped(ended, i),
         \A n \in Id : pc' = "thrown" /\ n = cur' <=> pc = "thrown" /\ n = cur,
         ~ (pc = "thrown" /\ i = cur)
  PROVE  Execution!Complete(i)
<1>2. \A n \in Id : ended'[n] = IF n = i THEN 1 ELSE ended[n]
  BY DEF Bumped, AsyncInv, AsyncTypeOK
<1>3. AsyncStatus[i] = "running" /\ AsyncStatus'[i] = "done"
  BY <1>2 DEF AsyncStatus
<1>4. \A n \in Id : n # i => AsyncStatus'[n] = AsyncStatus[n]
  BY <1>2 DEF AsyncStatus
<1>5. AsyncStatus' = [AsyncStatus EXCEPT ![i] = "done"]
  BY <1>3, <1>4, StatusMoves
<1> QED
  BY <1>3, <1>5, SameGraph DEF Execution!Complete

\* No other step is seen.
LEMMA ExecutionStutters ==
  ASSUME UNCHANGED <<graphVars, begun, ended>>, AsyncPhase' = AsyncPhase,
         \A n \in Id : pc' = "thrown" /\ n = cur' <=> pc = "thrown" /\ n = cur
  PROVE  UNCHANGED Execution!execVars
<1>1. \A n \in Id : AsyncStatus'[n] = AsyncStatus[n]
  BY DEF AsyncStatus
<1>2. AsyncStatus' = AsyncStatus
  BY <1>1, StatusStays
<1> QED
  BY <1>2, SameGraph DEF Execution!execVars

LEMMA ExecutionStep ==
  ASSUME WidthInv, [AsyncNext]_asyncVars
  PROVE  [Execution!ExecNext]_Execution!execVars
<1>t. /\ AsyncInv /\ AsyncTypeOK /\ NWorkers \in Nat /\ cur \in Id
      /\ Cardinality(ActiveJobs) <= NWorkers /\ Cardinality(ActiveJobs) \in Nat
      /\ Tasks \subseteq Id
  BY AsyncCommAssumption, ActiveFact, UnfinishedFact DEF WidthInv, AsyncInv, AsyncTypeOK
<1>1. CASE Build
  <2>1. Execution!GraphNext
    BY <1>1, SameGraphStep DEF Build
  <2>2. AsyncPhase = "build" /\ AsyncPhase' = AsyncPhase
    BY <1>1 DEF Build, AsyncPhase
  <2>3. AsyncStatus' = AsyncStatus
    <3>1. \A n \in Id : AsyncStatus'[n] = AsyncStatus[n]
      BY <1>1 DEF Build, AsyncStatus
    <3> QED
      BY <3>1, StatusStays
  <2> QED
    BY <2>1, <2>2, <2>3 DEF Execution!ExecNext, Execution!Attach
<1>2. CASE Call
  <2>1. UNCHANGED graphVars /\ size > 0 /\ AsyncPhase = "build" /\ AsyncPhase' = "run"
    BY <1>2 DEF Call, AsyncPhase
  <2>2. AsyncStatus' = AsyncStatus
    <3>1. \A n \in Id : AsyncStatus'[n] = AsyncStatus[n]
      BY <1>2 DEF Call, AsyncStatus, mainVars
    <3> QED
      BY <3>1, StatusStays
  <2> QED
    BY <2>1, <2>2, SameGraph DEF Execution!ExecNext, Execution!Execute
<1>3. CASE Compute
  <2>1. Head(q) \in Range(q)
    BY <1>3, <1>t, TailFact DEF Compute, AsyncTypeOK
  <2>2. PICK i \in Tasks : i = Head(q) /\ DepsAreSatisfied(i) /\ begun[i] = 0
    BY <1>t, <2>1 DEF AsyncInv, QueueInv
  <2>3. /\ UNCHANGED graphVars /\ pc = "loop" /\ pc' = "compute"
        /\ begun' = Bumped(begun, i) /\ ended' = ended
    BY <1>3, <2>2 DEF Compute
  <2>4. AsyncPhase = "run" /\ AsyncPhase' = AsyncPhase
    BY <2>3 DEF AsyncPhase
  <2>5. Cardinality(Execution!Running) < NWorkers + 1
    <3>1. /\ Cardinality(Execution!Running) <= Cardinality(ActiveJobs)
          /\ Cardinality(Execution!Running) \in Nat
      BY <2>3, RunningIsBounded
    <3> QED
      BY <1>t, <3>1
  <2>6. Execution!Start(i)
    BY <2>2, <2>3, <2>4, <2>5, StartFact
  <2> QED
    BY <1>t, <2>6, SameGraph DEF Execution!ExecNext
<1>4. CASE ComputeEnd
  <2>1. PICK i \in Tasks : cur' = i /\ i = cur /\ pc = "compute" /\ begun[i] = 1
    BY <1>t, <1>4, FinishedFact
  <2>2. /\ UNCHANGED graphVars /\ pc' = "push" /\ begun' = begun /\ ended' = Bumped(ended, i)
    BY <1>4, <2>1 DEF ComputeEnd, Finished
  <2>3. ended[i] = 0
    BY <1>t, <2>1 DEF AsyncInv, ComputeInv
  <2>4. AsyncPhase' = AsyncPhase
    BY <2>1, <2>2 DEF AsyncPhase
  <2>5. Execution!Complete(i)
    BY <1>t, <2>1, <2>2, <2>3, <2>4, CompleteFact
  <2> QED
    BY <1>t, <2>1, <2>5, SameGraph DEF Execution!ExecNext
<1>5. CASE ComputeThrow
  <2>1. UNCHANGED <<graphVars, cur, begun, ended>> /\ pc = "compute" /\ pc' = "thrown"
    BY <1>5 DEF ComputeThrow, mainVars
  <2>2. begun[cur] = 1 /\ ended[cur] = 0
    BY <1>t, <2>1 DEF AsyncInv, ComputeInv
  <2>3. AsyncPhase = "run" /\ AsyncPhase' = "failed"
    BY <2>1 DEF AsyncPhase
  <2>4. AsyncStatus[cur] = "running" /\ AsyncStatus'[cur] = "failed"
    BY <1>t, <2>1, <2>2 DEF AsyncStatus
  <2>5. \A n \in Id : n # cur => AsyncStatus'[n] = AsyncStatus[n]
    BY <2>1 DEF AsyncStatus
  <2>6. AsyncStatus' = [AsyncStatus EXCEPT ![cur] = "failed"]
    <3>1. PICK i \in Id : i = cur
      BY <1>t
    <3> QED
      BY <2>4, <2>5, <3>1, StatusMoves
  <2>7. Execution!Fail(cur)
    BY <2>1, <2>3, <2>4, <2>6, SameGraph DEF Execution!Fail
  <2> QED
    BY <1>t, <2>7, SameGraph DEF Execution!ExecNext
<1>6. CASE Return
  <2>1. /\ UNCHANGED <<graphVars, cur, begun, ended>> /\ pc = "loop" /\ pc' = "done"
        /\ nRemaining = 0
    BY <1>6 DEF Return, mainVars
  <2>2. AsyncPhase = "run" /\ AsyncPhase' = "returned"
    BY <2>1 DEF AsyncPhase
  <2>3. \A i \in Tasks : AsyncStatus[i] = "done"
    <3> SUFFICES ASSUME NEW i \in Tasks PROVE AsyncStatus[i] = "done"
      OBVIOUS
    <3>1. Unfinished = {}
      BY <1>t, <2>1, UnfinishedFact DEF AsyncInv, CountInv
    <3>2. i \in Id /\ ended[i] = 1
      BY <1>t, <3>1 DEF Unfinished, AsyncInv, TaskInv
    <3> QED
      BY <3>2 DEF AsyncStatus
  <2>4. AsyncStatus' = AsyncStatus
    <3>1. \A n \in Id : AsyncStatus'[n] = AsyncStatus[n]
      BY <2>1 DEF AsyncStatus
    <3> QED
      BY <3>1, StatusStays
  <2> QED
    BY <2>1, <2>2, <2>3, <2>4, SameGraph DEF Execution!ExecNext, Execution!ReturnResult
<1>7. ASSUME NEW t \in Jobs, JobBegin(t) PROVE Execution!ExecNext
  <2>1. stage[t] = "queued" /\ Cardinality(ActiveJobs) < NWorkers
    BY <1>t, <1>7, StageFact DEF JobBegin, Stage, ActiveJobs
  <2>2. PICK i \in Tasks : /\ i = jobs[t] /\ DepsAreSatisfied(i) /\ begun[i] = 0
                           /\ kind[i] = "communication"
    BY <1>t, <2>1 DEF AsyncInv, JobsInv
  <2>3. UNCHANGED <<graphVars, pc, cur>> /\ begun' = Bumped(begun, i) /\ ended' = ended
    BY <1>7, <2>2 DEF JobBegin, mainVars
  <2>4. AsyncPhase' = AsyncPhase /\ AsyncPhase \in {"run", "failed"}
    <3>1. pc # "build"
      BY <1>t DEF AsyncInv, RootsInv, Jobs
    <3>2. pc # "done"
      BY <1>t, <2>1, AsyncInvImplies DEF NothingWrittenAfterReturn
    <3> QED
      BY <2>3, <3>1, <3>2 DEF AsyncPhase
  <2>5. ~ (pc = "thrown" /\ i = cur)
    <3>1. pc = "thrown" => begun[cur] = 1
      BY <1>t DEF AsyncInv, ComputeInv
    <3> QED
      BY <2>2, <3>1
  <2>6. Cardinality(Execution!Running) < NWorkers + 1
    <3>1. /\ Cardinality(Execution!Running) <= Cardinality(ActiveJobs) + 1
          /\ Cardinality(Execution!Running) \in Nat
      BY RunningIsBounded
    <3> QED
      BY <1>t, <2>1, <3>1
  <2>7. Execution!Start(i)
    BY <2>2, <2>3, <2>4, <2>5, <2>6, StartFact
  <2> QED
    BY <1>t, <2>7, SameGraph DEF Execution!ExecNext
<1>8. ASSUME NEW t \in Jobs, JobEnd(t) PROVE Execution!ExecNext
  <2>1. stage[t] = "running"
    BY <1>t, <1>8, StageFact DEF JobEnd, Stage
  <2>2. PICK i \in Tasks : i = jobs[t] /\ begun[i] = 1 /\ ended[i] = 0 /\ kind[i] = "communication"
    BY <1>t, <2>1 DEF AsyncInv, JobsInv
  <2>3. UNCHANGED <<graphVars, pc, cur>> /\ begun' = begun /\ ended' = Bumped(ended, i)
    BY <1>8, <2>2 DEF JobEnd, mainVars
  <2>4. AsyncPhase' = AsyncPhase
    BY <2>3 DEF AsyncPhase
  <2>5. ~ (pc = "thrown" /\ i = cur)
    BY <1>t, <2>2 DEF AsyncInv, ComputeInv
  <2>6. Execution!Complete(i)
    BY <1>t, <2>2, <2>3, <2>4, <2>5, CompleteFact
  <2> QED
    BY <1>t, <2>2, <2>6, SameGraph DEF Execution!ExecNext
<1>9. ASSUME NEW t \in Jobs, JobCount(t) \/ JobNotify(t) \/ Propagate(t)
      PROVE  UNCHANGED Execution!execVars
  <2>1. UNCHANGED <<graphVars, cur, begun, ended>> /\ (pc' = pc \/ (pc = "sleep" /\ pc' = "wait"))
    BY <1>9 DEF JobCount, JobNotify, Propagate, mainVars
  <2> QED
    BY <2>1, ExecutionStutters DEF AsyncPhase
<1>10. CASE \/ Root \/ RootsEnd \/ Launch \/ PushSuccessor \/ PushEnd \/ NothingReady
            \/ Wait \/ ScanSkip \/ Acknowledge \/ ScanEnd \/ Over \/ UNCHANGED asyncVars
  <2>1. /\ UNCHANGED <<graphVars, begun, ended>>
        /\ \/ {pc, pc'} \subseteq {"roots", "loop", "push", "wait", "sleep", "scan"}
           \/ pc' = pc /\ cur' = cur
    BY <1>10 DEF Root, RootsEnd, Launch, PushSuccessor, PushEnd, NothingReady, Wait,
        ScanSkip, Acknowledge, ScanEnd, Over, Finished, asyncVars, mainVars
  <2>2. AsyncPhase' = AsyncPhase
    BY <2>1 DEF AsyncPhase
  <2> QED
    BY <2>1, <2>2, ExecutionStutters
<1> QED
  BY <1>1, <1>2, <1>3, <1>4, <1>5, <1>6, <1>7, <1>8, <1>9, <1>10 DEF AsyncNext, Main, JobStep

(* Every behaviour of execute_async_comm is one of TaskExecution: a task   *)
(* is executed once those it depends on have completed, at most            *)
(* NWorkers + 1 are at the same time, and the schedule returns when they   *)
(* all have completed.                                                     *)
THEOREM AsyncRefinement == ASSUME ~ RepeatedDeps PROVE AsyncSpec => AsyncImplementsExecution
<1>1. AsyncInit => Execution!ExecInit
  <2> SUFFICES ASSUME AsyncInit PROVE Execution!ExecInit
    OBVIOUS
  <2>1. AsyncStatus = [i \in Id |-> "waiting"] /\ AsyncPhase = "build"
    BY DEF AsyncInit, AsyncStatus, AsyncPhase
  <2> QED
    BY <2>1 DEF AsyncInit, Execution!ExecInit, Execution!GraphInit, GraphInit, Id, Execution!Id
<1>2. WidthInv /\ [AsyncNext]_asyncVars => [Execution!ExecNext]_Execution!execVars
  BY ExecutionStep
<1> QED
  BY <1>1, <1>2, AsyncWidth, PTL DEF AsyncSpec, AsyncImplementsExecution, Execution!ExecSpec

=============================================================================
