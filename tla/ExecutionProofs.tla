--------------------------- MODULE ExecutionProofs ---------------------------
(* The sequential schedule is right for every graph, repeated dependencies      *)
(* included, and implements TaskExecution; the thread pool executes each task   *)
(* once, whatever the numbers of threads and of callers, and implements         *)
(* TaskPool.                                                                    *)
EXTENDS SeqSchedule, ThreadPool, TaskGraphProofs, SeqLemmas


\* The loop index splits the tasks in those executed and those to come.
SeqInv ==
  /\ SeqTypeOK
  /\ GraphInv
  /\ i <= size
  /\ pc = "build" => i = 0
  /\ pc \in {"execute", "thrown"} => i < size
  /\ pc = "done" => i = size
  /\ pc # "build" => resultOf \in Tasks
  /\ \A n \in Id :
       /\ begun[n] = IF n < i \/ (n = i /\ pc \in {"execute", "thrown"}) THEN 1 ELSE 0
       /\ ended[n] = IF n < i THEN 1 ELSE 0

LEMMA SeqInitInv == ASSUME SeqInit PROVE SeqInv
<1>1. GraphInv /\ GraphTypeOK
  BY GraphInitInv DEF SeqInit, GraphInv
<1>2. \A n \in Id : n \in Nat
  BY TaskGraphAssumption DEF Id
<1> QED
  BY <1>1, <1>2, TaskGraphAssumption DEF SeqInit, GraphInit, SeqInv, SeqTypeOK, Id

LEMMA SeqStepInv == ASSUME SeqInv, [SeqNext]_seqVars PROVE SeqInv'
<1>t. /\ i \in Nat /\ size \in Nat /\ size <= MaxTasks /\ i <= size
      /\ MaxTasks \in Nat /\ Tasks \subseteq Id /\ Id = 0 .. MaxTasks - 1
  BY TaskGraphAssumption, TasksAreIds DEF SeqInv, SeqTypeOK, GraphTypeOK, Id
<1>g. ASSUME UNCHANGED graphVars PROVE GraphInv' /\ GraphTypeOK' /\ size' = size /\ Tasks' = Tasks
  BY <1>g, GraphStutterInv DEF SeqInv, GraphInv, graphVars, Tasks
<1>1. CASE SeqBuild
  <2>1. GraphInv' /\ GraphTypeOK'
    BY <1>1, GraphStepInv DEF SeqBuild, SeqInv, GraphInv
  <2>2. size' \in Nat
    BY <2>1, <1>t DEF GraphTypeOK
  <2> QED
    BY <1>1, <1>t, <2>1, <2>2 DEF SeqBuild, SeqInv, SeqTypeOK
<1>2. CASE SeqCall
  <2>1. UNCHANGED graphVars
    BY <1>2 DEF SeqCall
  <2>2. i = 0 /\ i' = i /\ pc = "build" /\ pc' = "loop" /\ resultOf' \in Tasks
    BY <1>2 DEF SeqCall, SeqInv
  <2> QED
    BY <1>2, <1>t, <1>g, <2>1, <2>2 DEF SeqCall, SeqInv, SeqTypeOK
<1>3. CASE ExecuteBegin
  <2>1. UNCHANGED graphVars
    BY <1>3 DEF ExecuteBegin
  <2>2. /\ i \in Id /\ i < size /\ i' = i /\ pc = "loop" /\ pc' = "execute"
        /\ begun' = [begun EXCEPT ![i] = @ + 1] /\ UNCHANGED <<ended, resultOf>>
    BY <1>3, <1>t DEF ExecuteBegin
  <2>3. begun' \in [Id -> Nat] /\ begun'[i] = 1 /\ \A n \in Id : n # i => begun'[n] = begun[n]
    BY <2>2 DEF SeqInv, SeqTypeOK
  <2> QED
    BY <1>t, <1>g, <2>1, <2>2, <2>3 DEF SeqInv, SeqTypeOK
<1>4. CASE ExecuteEnd
  <2>1. UNCHANGED graphVars
    BY <1>4 DEF ExecuteEnd
  <2>2. /\ i < size /\ i' = i + 1 /\ pc = "execute" /\ pc' = "loop"
        /\ ended' = [ended EXCEPT ![i] = @ + 1] /\ UNCHANGED <<begun, resultOf>>
    BY <1>4, <1>t DEF ExecuteEnd, SeqInv
  <2>3. i \in Id /\ i' \in 0 .. MaxTasks
    BY <1>t, <2>2
  <2>4. ended' \in [Id -> Nat] /\ ended'[i] = 1 /\ \A n \in Id : n # i => ended'[n] = ended[n]
    BY <1>t, <2>2, <2>3 DEF SeqInv, SeqTypeOK
  <2>5. \A n \in Id : n < i + 1 <=> n < i \/ n = i
    BY <1>t
  <2> QED
    BY <1>t, <1>g, <2>1, <2>2, <2>3, <2>4, <2>5 DEF SeqInv, SeqTypeOK
<1>5. CASE ExecuteThrow \/ SeqReturn
  <2>1. UNCHANGED graphVars
    BY <1>5 DEF ExecuteThrow, SeqReturn
  <2> QED
    BY <1>5, <1>t, <1>g, <2>1 DEF ExecuteThrow, SeqReturn, SeqInv, SeqTypeOK
<1>6. CASE SeqOver \/ UNCHANGED seqVars
  <2>1. UNCHANGED seqVars /\ UNCHANGED graphVars
    BY <1>6 DEF SeqOver, seqVars
  <2> QED
    BY <1>g, <2>1 DEF seqVars, SeqInv, SeqTypeOK
<1> QED
  BY <1>1, <1>2, <1>3, <1>4, <1>5, <1>6 DEF SeqNext

(* The inductive invariant of the sequential schedule. *)
THEOREM SeqCorrect == SeqSpec => []SeqInv
<1>1. SeqInit => SeqInv
  BY SeqInitInv
<1>2. SeqInv /\ [SeqNext]_seqVars => SeqInv'
  BY SeqStepInv
<1> QED
  BY <1>1, <1>2, PTL DEF SeqSpec

(* execute_seq never looks at the dependencies, and yet a task starts when *)
(* those it depends on have returned; the result moved out is computed.    *)
THEOREM SeqOrder == SeqSpec => [](DepsExecutedFirst /\ ResultIsComputed)
<1>1. ASSUME SeqInv PROVE DepsExecutedFirst
  <2> SUFFICES ASSUME NEW n \in Id, begun[n] > 0, NEW p \in DOMAIN inIdx[n]
               PROVE  ended[inIdx[n][p]] > 0
    BY DEF DepsExecutedFirst
  <2>1. n \in Nat /\ i \in Nat /\ n <= i
    BY <1>1, TaskGraphAssumption DEF SeqInv, SeqTypeOK, Id
  <2>2. inIdx[n] \in Seq(Id)
    BY <1>1 DEF SeqInv, SeqTypeOK, GraphTypeOK
  <2>3. inIdx[n][p] \in Id /\ inIdx[n][p] < n
    BY <1>1, <2>2 DEF SeqInv, GraphInv, TopologicalOrder
  <2>4. inIdx[n][p] < i
    BY <2>1, <2>3, TaskGraphAssumption DEF Id
  <2> QED
    BY <1>1, <2>3, <2>4 DEF SeqInv
<1>2. ASSUME SeqInv PROVE ResultIsComputed
  BY <1>2, TasksAreIds DEF SeqInv, SeqTypeOK, ResultIsComputed, Tasks
<1> QED
  BY <1>1, <1>2, SeqCorrect, PTL

----------------------------------------------------------------------------
(* The refinement of TaskExecution. *)

\* The status of the tasks, told from the loop index.
SplitStatus(status) ==
  \A n \in Id :
    status[n] = IF n < i THEN "done"
                ELSE IF n = i /\ pc = "execute" THEN "running"
                ELSE IF n = i /\ pc = "thrown" THEN "failed"
                ELSE "waiting"

LEMMA SeqStatusFact == ASSUME SeqInv PROVE SplitStatus(SeqStatus)
<1>1. i \in Nat /\ \A n \in Id : n \in Nat
  BY TaskGraphAssumption DEF SeqInv, SeqTypeOK, Id
<1> QED
  BY <1>1 DEF SeqStatus, SplitStatus, SeqInv

LEMMA SeqStatusNext == ASSUME SeqInv' PROVE SplitStatus(SeqStatus)'
<1>1. i' \in Nat /\ \A n \in Id : n \in Nat
  BY TaskGraphAssumption DEF SeqInv, SeqTypeOK, Id
<1> QED
  BY <1>1 DEF SeqStatus, SplitStatus, SeqInv

LEMMA SeqPhaseFact ==
  /\ pc = "build" => SeqPhase = "build"
  /\ pc \in {"loop", "execute"} => SeqPhase = "run"
  /\ pc = "done" => SeqPhase = "returned"
  /\ pc = "thrown" => SeqPhase = "failed"
  BY DEF SeqPhase, PhaseOf

LEMMA SeqPhaseNext ==
  /\ pc' = "build" => SeqPhase' = "build"
  /\ pc' \in {"loop", "execute"} => SeqPhase' = "run"
  /\ pc' = "done" => SeqPhase' = "returned"
  /\ pc' = "thrown" => SeqPhase' = "failed"
  BY DEF SeqPhase, PhaseOf

\* The same operators on both sides.
LEMMA SameOperators ==
  /\ \A S : Execution!Cardinality(S) = Cardinality(S)
  /\ \A g : Execution!IsInjective(g) <=> IsInjective(g)
  /\ \A g : Execution!Range(g) = Range(g)
<1>1. \A S : Execution!Cardinality(S) = Cardinality(S)
  BY DEF Execution!Cardinality, Cardinality
<1>2. \A g : Execution!IsInjective(g) <=> IsInjective(g)
  BY DEF Execution!IsInjective, IsInjective
<1>3. \A g : Execution!Range(g) = Range(g)
  BY DEF Execution!Range, Range
<1> QED
  BY <1>1, <1>2, <1>3

\* The graph is the same on both sides.
LEMMA SameGraph ==
  /\ Execution!Tasks = Tasks /\ Execution!Id = Id
  /\ UNCHANGED graphVars => UNCHANGED Execution!graphVars
  /\ UNCHANGED Execution!graphVars => UNCHANGED graphVars
  /\ \A n \in Id : Execution!Deps(n) = Range(inIdx[n])
  BY SameOperators DEF Id, Tasks, graphVars,
         Execution!Id, Execution!Tasks, Execution!graphVars, Execution!Deps

LEMMA SameGraphStep == ASSUME GraphNext PROVE Execution!GraphNext
<1>1. ASSUME NEW tk, NEW deps, ThenTask(tk, deps) PROVE Execution!ThenTask(tk, deps)
  BY <1>1, SameOperators DEF ThenTask, EmplaceBack, PushedBack, Positions, Id,
              Execution!ThenTask, Execution!EmplaceBack, Execution!PushedBack,
              Execution!Positions, Execution!Id
<1>2. \A n : JoinOf(n) = Execution!JoinOf(n)
  BY SameOperators DEF JoinOf, Tasks, Execution!JoinOf, Execution!Tasks
<1>3. CASE InputData
  BY <1>3 DEF InputData, EmplaceBack, Execution!InputData, Execution!EmplaceBack,
              Execution!GraphNext
<1>4. CASE Then
  BY <1>1, <1>2, <1>4 DEF Then, Execution!Then, Execution!GraphNext
<1>5. CASE ThenComm
  BY <1>1, <1>2, <1>5 DEF ThenComm, Execution!ThenComm, Execution!GraphNext
<1> QED
  BY <1>3, <1>4, <1>5 DEF GraphNext

LEMMA SeqRefinementStep ==
  ASSUME SeqInv, SeqInv', [SeqNext]_seqVars
  PROVE  [Execution!ExecNext]_Execution!execVars
<1>t. /\ i \in Nat /\ size \in Nat /\ MaxTasks \in Nat /\ Id = 0 .. MaxTasks - 1
      /\ Tasks \subseteq Id /\ i <= size /\ size <= MaxTasks
  <2>1. SeqTypeOK /\ GraphTypeOK /\ i <= size
    BY DEF SeqInv, SeqTypeOK
  <2> QED
    BY <2>1, TaskGraphAssumption, TasksAreIds DEF SeqTypeOK, GraphTypeOK, Id
<1>s. SplitStatus(SeqStatus) /\ SplitStatus(SeqStatus)'
  BY SeqStatusFact, SeqStatusNext
<1>f. SeqStatus = [n \in Id |-> SeqStatus[n]] /\ SeqStatus' = [n \in Id |-> SeqStatus'[n]]
  BY DEF SeqStatus
<1>1. CASE SeqBuild
  <2>1. Execution!GraphNext
    BY <1>1, SameGraphStep DEF SeqBuild
  <2>2. SeqPhase = "build" /\ SeqPhase' = SeqPhase
    BY <1>1, SeqPhaseFact, SeqPhaseNext DEF SeqBuild
  <2>3. SeqStatus' = SeqStatus
    BY <1>1 DEF SeqBuild, SeqStatus
  <2> QED
    BY <2>1, <2>2, <2>3 DEF Execution!ExecNext, Execution!Attach
<1>2. CASE SeqCall
  <2>1. UNCHANGED graphVars /\ size > 0
    BY <1>2, <1>t DEF SeqCall, Tasks
  <2>2. SeqPhase = "build" /\ SeqPhase' = "run"
    BY <1>2, SeqPhaseFact, SeqPhaseNext DEF SeqCall
  <2>3. SeqStatus' = SeqStatus
    BY <1>2 DEF SeqCall, SeqStatus
  <2> QED
    BY <2>1, <2>2, <2>3, SameGraph DEF Execution!ExecNext, Execution!Execute
<1>3. CASE ExecuteBegin
  <2>1. UNCHANGED graphVars /\ i' = i /\ i \in Tasks /\ i \in Id /\ pc = "loop" /\ pc' = "execute"
    BY <1>3, <1>t DEF ExecuteBegin, Tasks
  <2>2. SeqPhase = "run" /\ SeqPhase' = "run"
    BY <2>1, SeqPhaseFact, SeqPhaseNext
  <2>3. SeqStatus[i] = "waiting" /\ \A n \in Id : SeqStatus[n] # "running"
    BY <1>s, <1>t, <2>1 DEF SplitStatus
  <2>4. \A n \in Id : SeqStatus'[n] = IF n = i THEN "running" ELSE SeqStatus[n]
    BY <1>s, <1>t, <2>1 DEF SplitStatus
  <2>5. SeqStatus' = [SeqStatus EXCEPT ![i] = "running"]
    BY <1>f, <2>1, <2>4
  <2>6. Cardinality(Execution!Running) < 1
    <3>1. Execution!Running = {}
      BY <2>3, SameGraph DEF Execution!Running
    <3> QED
      BY <3>1, FS_EmptySet
  <2>7. \A dep \in Execution!Deps(i) : SeqStatus[dep] = "done"
    <3> SUFFICES ASSUME NEW p \in DOMAIN inIdx[i] PROVE SeqStatus[inIdx[i][p]] = "done"
      BY <2>1, SameGraph DEF Range
    <3>1. inIdx[i] \in Seq(Id)
      BY <2>1 DEF SeqInv, SeqTypeOK, GraphTypeOK
    <3>2. inIdx[i][p] \in Id /\ inIdx[i][p] < i
      BY <2>1, <3>1 DEF SeqInv, GraphInv, TopologicalOrder
    <3> QED
      BY <1>s, <3>2 DEF SplitStatus
  <2>8. Execution!Start(i)
    BY <2>1, <2>2, <2>3, <2>5, <2>6, <2>7, SameGraph, SameOperators DEF Execution!Start
  <2> QED
    BY <2>1, <2>8, SameGraph DEF Execution!ExecNext
<1>4. CASE ExecuteEnd
  <2>1. /\ UNCHANGED graphVars /\ i' = i + 1 /\ i \in Id /\ pc = "execute" /\ pc' = "loop"
    BY <1>4, <1>t DEF ExecuteEnd, SeqInv
  <2>2. SeqPhase = "run" /\ SeqPhase' = "run"
    BY <2>1, SeqPhaseFact, SeqPhaseNext
  <2>3. SeqStatus[i] = "running"
    BY <1>s, <1>t, <2>1 DEF SplitStatus
  <2>4. \A n \in Id : SeqStatus'[n] = IF n = i THEN "done" ELSE SeqStatus[n]
    BY <1>s, <1>t, <2>1 DEF SplitStatus
  <2>5. SeqStatus' = [SeqStatus EXCEPT ![i] = "done"]
    BY <1>f, <2>1, <2>4
  <2>6. Execution!Complete(i)
    BY <2>1, <2>2, <2>3, <2>5, SameGraph DEF Execution!Complete
  <2> QED
    BY <2>1, <2>6, SameGraph DEF Execution!ExecNext
<1>5. CASE ExecuteThrow
  <2>1. /\ UNCHANGED graphVars /\ i' = i /\ i \in Id /\ pc = "execute" /\ pc' = "thrown"
    BY <1>5, <1>t DEF ExecuteThrow, SeqInv
  <2>2. SeqPhase = "run" /\ SeqPhase' = "failed"
    BY <2>1, SeqPhaseFact, SeqPhaseNext
  <2>3. SeqStatus[i] = "running"
    BY <1>s, <1>t, <2>1 DEF SplitStatus
  <2>4. \A n \in Id : SeqStatus'[n] = IF n = i THEN "failed" ELSE SeqStatus[n]
    BY <1>s, <1>t, <2>1 DEF SplitStatus
  <2>5. SeqStatus' = [SeqStatus EXCEPT ![i] = "failed"]
    BY <1>f, <2>1, <2>4
  <2>6. Execution!Fail(i)
    BY <2>1, <2>2, <2>3, <2>5, SameGraph DEF Execution!Fail
  <2> QED
    BY <2>1, <2>6, SameGraph DEF Execution!ExecNext
<1>6. CASE SeqReturn
  <2>1. UNCHANGED graphVars /\ i' = i /\ i = size /\ pc = "loop" /\ pc' = "done"
    BY <1>6 DEF SeqReturn
  <2>2. SeqPhase = "run" /\ SeqPhase' = "returned"
    BY <2>1, SeqPhaseFact, SeqPhaseNext
  <2>3. \A n \in Tasks : SeqStatus[n] = "done"
    BY <1>s, <1>t, <2>1 DEF SplitStatus, Tasks
  <2>4. \A n \in Id : SeqStatus'[n] = SeqStatus[n]
    BY <1>s, <1>t, <2>1 DEF SplitStatus
  <2>5. SeqStatus' = SeqStatus
    BY <1>f, <2>4
  <2> QED
    BY <2>1, <2>2, <2>3, <2>5, SameGraph DEF Execution!ExecNext, Execution!ReturnResult
<1>7. CASE SeqOver \/ UNCHANGED seqVars
  <2>1. UNCHANGED seqVars
    BY <1>7 DEF SeqOver
  <2>2. UNCHANGED <<graphVars, SeqPhase, SeqStatus>>
    BY <2>1 DEF seqVars, SeqPhase, SeqStatus
  <2> QED
    BY <2>2, SameGraph DEF Execution!execVars
<1> QED
  BY <1>1, <1>2, <1>3, <1>4, <1>5, <1>6, <1>7 DEF SeqNext

(* Every behaviour of execute_seq is one of TaskExecution, in which no two *)
(* tasks are executed at the same time.                                    *)
THEOREM SeqRefinement == SeqSpec => SeqImplementsExecution
<1>1. SeqInit => Execution!ExecInit
  <2> SUFFICES ASSUME SeqInit PROVE Execution!ExecInit
    OBVIOUS
  <2>1. SeqStatus = [n \in Id |-> "waiting"]
    BY DEF SeqInit, SeqStatus
  <2> QED
    BY <2>1, SeqPhaseFact
    DEF SeqInit, Execution!ExecInit, Execution!GraphInit, GraphInit, Id, Execution!Id
<1>2. SeqInv /\ SeqInv' /\ [SeqNext]_seqVars => [Execution!ExecNext]_Execution!execVars
  BY SeqRefinementStep
<1> QED
  BY <1>1, <1>2, SeqCorrect, PTL DEF SeqSpec, SeqImplementsExecution, Execution!ExecSpec

-----------------------------------------------------------------------------

Queued(w) == Range(queue[w])

\* A std::function that waits for its task is empty.
HoldInv ==
  /\ \A c \in Caller : arg[c] # NoTask <=> callerAt[c] = "try"
  /\ \A w \in Thread : f[w] # NoTask <=> at[w] = "call"

\* A task is in one place at most: with a caller, in a queue, with a thread.
OnceQueued ==
  /\ \A w \in Thread : IsInjective(queue[w])
  /\ \A v, w \in Thread : \A t \in Queued(v) : t \in Queued(w) => v = w

OnceTaken ==
  /\ \A v, w \in Thread : f[v] \notin Queued(w)
  /\ \A v, w \in Thread : f[v] = f[w] => v = w \/ f[v] = NoTask

OnceGiven ==
  /\ \A b, c \in Caller : arg[b] = arg[c] => b = c \/ arg[b] = NoTask
  /\ \A c \in Caller, w \in Thread : arg[c] \notin Queued(w)
  /\ \A c \in Caller, w \in Thread : arg[c] = f[w] => arg[c] = NoTask

PlaceInv == OnceQueued /\ OnceTaken /\ OnceGiven

InPool(t) ==
  \/ \E c \in Caller : arg[c] = t
  \/ \E w \in Thread : t \in Queued(w) \/ f[w] = t

\* A task that has been given is in the pool or has been called once.
OnceInv ==
  \A t \in Task :
    /\ runs[t] = IF t \in given /\ ~ InPool(t) THEN 1 ELSE 0
    /\ InPool(t) => t \in given

\* How far the destructor is; a thread that has exited has an empty queue,
\* that nobody fills any more.
DtorInv ==
  /\ dtor = "alive" => d = 0
  /\ dtor # "alive" => \A c \in Caller : callerAt[c] = "idle"
  /\ dtor = "notify_all" => d < N
  /\ \A w \in Thread : done[w] <=>
       \/ dtor = "set_done" /\ w < d
       \/ dtor = "notify_all" /\ w <= d
       \/ dtor \in {"join", "destroyed"}
  /\ dtor = "join" => \A w \in Thread : w < d => at[w] = "exited"
  /\ dtor = "destroyed" => \A w \in Thread : at[w] = "exited"
  /\ \A w \in Thread : at[w] = "exited" => done[w] /\ queue[w] = <<>>

ThreadPoolInv ==
  /\ ThreadPoolTypeOK
  /\ HoldInv
  /\ PlaceInv
  /\ OnceInv
  /\ DtorInv
  /\ NoLostNotification

----------------------------------------------------------------------------
(* The positions in the queues. *)

LEMMA SlotIsThread == ASSUME NEW n \in Nat, NEW j \in Nat PROVE Slot(n, j) \in Thread
  BY ThreadPoolAssumption DEF Slot, Thread

LEMMA StealIsThread ==
  ASSUME NEW w \in Thread, NEW j \in Nat PROVE (w + j) % N \in Thread
  BY ThreadPoolAssumption DEF Thread

LEMMA PoolInitInv == ASSUME PInit PROVE ThreadPoolInv
<1>1. N \in Nat /\ N > 0 /\ IdxMod \in Nat /\ IdxMod > 0 /\ NoTask \notin Task /\ 0 \in Thread
  BY ThreadPoolAssumption DEF Thread
<1>2. \A w \in Thread : queue[w] = <<>> /\ Queued(w) = {} /\ IsInjective(queue[w])
  BY DEF PInit, Queued, Range, IsInjective
<1>3. ThreadPoolTypeOK
  BY <1>1 DEF PInit, ThreadPoolTypeOK, ThreadAt, CallerAt, DtorAt
<1>4. HoldInv /\ PlaceInv
  BY <1>1, <1>2 DEF PInit, HoldInv, PlaceInv, OnceQueued, OnceTaken, OnceGiven
<1>5. OnceInv
  BY <1>1, <1>2 DEF PInit, OnceInv, InPool
<1>6. DtorInv /\ NoLostNotification
  BY <1>1, <1>2 DEF PInit, DtorInv, NoLostNotification, Thread
<1> QED
  BY <1>3, <1>4, <1>5, <1>6 DEF ThreadPoolInv

----------------------------------------------------------------------------
(* The moves of a task. *)

\* TakeFront(w, v): from queue v to thread w.
LEMMA TakeFrontInv ==
  ASSUME ThreadPoolInv, NEW w \in Thread, NEW v \in Thread,
         f[w] = NoTask, queue[v] # <<>>, TakeFront(w, v),
         UNCHANGED <<arg, callerAt, given, runs>>
  PROVE  /\ queue' \in [Thread -> Seq(Task)] /\ f' \in [Thread -> Task \cup {NoTask}]
         /\ at' \in [Thread -> ThreadAt]
         /\ HoldInv' /\ PlaceInv' /\ OnceInv'
<1>1. /\ queue \in [Thread -> Seq(Task)] /\ f \in [Thread -> Task \cup {NoTask}]
      /\ at \in [Thread -> ThreadAt] /\ NoTask \notin Task
  BY ThreadPoolAssumption DEF ThreadPoolInv, ThreadPoolTypeOK
<1>t. PICK t : t = Head(queue[v])
  OBVIOUS
<1>2. /\ Tail(queue[v]) \in Seq(Task) /\ t \in Task /\ t \in Queued(v) /\ IsInjective(Tail(queue[v]))
      /\ Range(Tail(queue[v])) = Queued(v) \ {t}
  <2>1. queue[v] \in Seq(Task) /\ IsInjective(queue[v])
    BY <1>1 DEF ThreadPoolInv, PlaceInv, OnceQueued
  <2> QED
    BY <1>t, <2>1, TailFact DEF Queued
<1>3. /\ queue' = [queue EXCEPT ![v] = Tail(queue[v])] /\ f' = [f EXCEPT ![w] = t]
      /\ at' = [at EXCEPT ![w] = "call"]
  BY <1>t DEF TakeFront
<1>4. /\ queue' \in [Thread -> Seq(Task)] /\ f' \in [Thread -> Task \cup {NoTask}]
      /\ at' \in [Thread -> ThreadAt]
  BY <1>1, <1>2, <1>3 DEF ThreadAt
<1>5. /\ \A u \in Thread : Queued(u)' = IF u = v THEN Queued(v) \ {t} ELSE Queued(u)
      /\ \A u \in Thread : IsInjective(queue[u])'
      /\ \A u \in Thread : f'[u] = IF u = w THEN t ELSE f[u]
  BY <1>1, <1>2, <1>3 DEF Queued, ThreadPoolInv, PlaceInv, OnceQueued
<1>6. HoldInv'
  BY <1>1, <1>2, <1>3, <1>5 DEF ThreadPoolInv, HoldInv
<1>7. PlaceInv'
  <2>1. \A u \in Thread : t # f[u]
    BY <1>2 DEF ThreadPoolInv, PlaceInv, OnceTaken
  <2>2. \A b \in Caller : t # arg[b]
    BY <1>2 DEF ThreadPoolInv, PlaceInv, OnceGiven
  <2>3. \A u \in Thread : t \in Queued(u) => u = v
    BY <1>2 DEF ThreadPoolInv, PlaceInv, OnceQueued
  <2>4. OnceQueued'
    BY <1>5 DEF ThreadPoolInv, PlaceInv, OnceQueued
  <2>5. OnceTaken'
    <3>1. \A x, u \in Thread : f'[x] \notin Queued(u)'
      BY <1>5, <2>3 DEF ThreadPoolInv, PlaceInv, OnceTaken
    <3>2. \A x, u \in Thread : f'[x] = f'[u] => x = u \/ f'[x] = NoTask
      BY <1>5, <2>1 DEF ThreadPoolInv, PlaceInv, OnceTaken
    <3> QED
      BY <3>1, <3>2 DEF OnceTaken
  <2>6. OnceGiven'
    <3>1. \A b \in Caller, u \in Thread : arg'[b] \notin Queued(u)'
      BY <1>5 DEF ThreadPoolInv, PlaceInv, OnceGiven
    <3>2. \A b \in Caller, u \in Thread : arg'[b] = f'[u] => arg'[b] = NoTask
      BY <1>5, <2>2 DEF ThreadPoolInv, PlaceInv, OnceGiven
    <3> QED
      BY <3>1, <3>2 DEF ThreadPoolInv, PlaceInv, OnceGiven
  <2> QED
    BY <2>4, <2>5, <2>6 DEF PlaceInv
<1>8. \A e \in Task : InPool(e)' <=> InPool(e)
  BY <1>1, <1>2, <1>5 DEF InPool
<1>9. OnceInv'
  BY <1>8 DEF ThreadPoolInv, OnceInv
<1> QED
  BY <1>4, <1>6, <1>7, <1>9

\* QueuePush(c, w): from caller c to queue w.
LEMMA QueuePushInv ==
  ASSUME ThreadPoolInv, NEW c \in Caller, NEW w \in Thread,
         callerAt[c] = "try", QueuePush(c, w),
         UNCHANGED <<f, at, given, runs>>
  PROVE  /\ queue' \in [Thread -> Seq(Task)] /\ arg' \in [Caller -> Task \cup {NoTask}]
         /\ callerAt' \in [Caller -> CallerAt] /\ notify' \in [Caller -> Thread]
         /\ HoldInv' /\ PlaceInv' /\ OnceInv'
<1>1. /\ queue \in [Thread -> Seq(Task)] /\ arg \in [Caller -> Task \cup {NoTask}]
      /\ callerAt \in [Caller -> CallerAt] /\ notify \in [Caller -> Thread]
      /\ f \in [Thread -> Task \cup {NoTask}] /\ NoTask \notin Task
  BY ThreadPoolAssumption DEF ThreadPoolInv, ThreadPoolTypeOK
<1>t. PICK t \in Task : t = arg[c]
  BY <1>1 DEF ThreadPoolInv, HoldInv
<1>n. \A u \in Thread : t \notin Queued(u) /\ t # f[u]
  BY <1>1, <1>t DEF ThreadPoolInv, PlaceInv, OnceGiven
<1>2. /\ Append(queue[w], t) \in Seq(Task) /\ IsInjective(Append(queue[w], t))
      /\ Range(Append(queue[w], t)) = Queued(w) \cup {t}
  <2>1. queue[w] \in Seq(Task) /\ IsInjective(queue[w]) /\ t \notin Range(queue[w])
    BY <1>1, <1>n DEF ThreadPoolInv, PlaceInv, OnceQueued, Queued
  <2> QED
    BY <2>1, <1>t, AppendFact DEF Queued
<1>3. /\ queue' = [queue EXCEPT ![w] = Append(queue[w], t)] /\ arg' = [arg EXCEPT ![c] = NoTask]
      /\ callerAt' = [callerAt EXCEPT ![c] = "notify"] /\ notify' = [notify EXCEPT ![c] = w]
  BY <1>t DEF QueuePush
<1>4. /\ queue' \in [Thread -> Seq(Task)] /\ arg' \in [Caller -> Task \cup {NoTask}]
      /\ callerAt' \in [Caller -> CallerAt] /\ notify' \in [Caller -> Thread]
  BY <1>1, <1>2, <1>3 DEF CallerAt
<1>5. /\ \A u \in Thread : Queued(u)' = IF u = w THEN Queued(w) \cup {t} ELSE Queued(u)
      /\ \A u \in Thread : IsInjective(queue[u])'
      /\ \A b \in Caller : arg'[b] = IF b = c THEN NoTask ELSE arg[b]
  BY <1>1, <1>2, <1>3 DEF Queued, ThreadPoolInv, PlaceInv, OnceQueued
<1>q. \A u \in Thread : NoTask \notin Queued(u)'
  <2>1. \A u \in Thread : queue'[u] \in Seq(Task)
    BY <1>4
  <2>2. \A x \in Seq(Task) : Range(x) \subseteq Task
    BY DEF Range
  <2> QED
    BY <2>1, <2>2, <1>1 DEF Queued
<1>6. HoldInv'
  BY <1>1, <1>3, <1>5 DEF ThreadPoolInv, HoldInv
<1>7. PlaceInv'
  <2>1. OnceQueued'
    BY <1>n, <1>5 DEF ThreadPoolInv, PlaceInv, OnceQueued
  <2>2. OnceTaken'
    BY <1>n, <1>5 DEF ThreadPoolInv, PlaceInv, OnceTaken
  <2>3. \A b \in Caller : b # c => arg[b] # t
    BY <1>t, <1>1 DEF ThreadPoolInv, PlaceInv, OnceGiven
  <2>4. OnceGiven'
    <3>1. \A b, x \in Caller : arg'[b] = arg'[x] => b = x \/ arg'[b] = NoTask
      BY <1>5 DEF ThreadPoolInv, PlaceInv, OnceGiven
    <3>2. \A b \in Caller, u \in Thread : arg'[b] \notin Queued(u)'
      BY <1>5, <1>q, <2>3 DEF ThreadPoolInv, PlaceInv, OnceGiven
    <3>3. \A b \in Caller, u \in Thread : arg'[b] = f'[u] => arg'[b] = NoTask
      BY <1>5 DEF ThreadPoolInv, PlaceInv, OnceGiven
    <3> QED
      BY <3>1, <3>2, <3>3 DEF OnceGiven
  <2> QED
    BY <2>1, <2>2, <2>4 DEF PlaceInv
<1>8. \A e \in Task : InPool(e)' <=> InPool(e)
  BY <1>1, <1>t, <1>5 DEF InPool
<1>9. OnceInv'
  BY <1>8 DEF ThreadPoolInv, OnceInv
<1> QED
  BY <1>4, <1>6, <1>7, <1>9

\* PushTask(c, t): from outside to caller c.
LEMMA PushTaskInv ==
  ASSUME ThreadPoolInv, NEW c \in Caller, NEW t \in Task, PushTask(c, t)
  PROVE  /\ arg' \in [Caller -> Task \cup {NoTask}] /\ callerAt' \in [Caller -> CallerAt]
         /\ HoldInv' /\ PlaceInv' /\ OnceInv'
<1>1. /\ queue \in [Thread -> Seq(Task)] /\ arg \in [Caller -> Task \cup {NoTask}]
      /\ callerAt \in [Caller -> CallerAt] /\ NoTask \notin Task
  BY ThreadPoolAssumption DEF ThreadPoolInv, ThreadPoolTypeOK
<1>2. /\ arg' = [arg EXCEPT ![c] = t] /\ callerAt' = [callerAt EXCEPT ![c] = "try"]
      /\ given' = given \cup {t} /\ t \notin given /\ callerAt[c] = "idle"
      /\ UNCHANGED <<queue, f, at, runs>>
  BY DEF PushTask, threadVars
<1>3. ~ InPool(t) /\ runs[t] = 0 /\ arg[c] = NoTask
  BY <1>2 DEF ThreadPoolInv, OnceInv, HoldInv
<1>4. \A b \in Caller : arg'[b] = IF b = c THEN t ELSE arg[b]
  BY <1>1, <1>2
<1>5. \A u \in Thread : Queued(u)' = Queued(u)
  BY <1>2 DEF Queued
<1>6. HoldInv'
  BY <1>1, <1>2 DEF ThreadPoolInv, HoldInv
<1>7. PlaceInv'
  <2>1. \A b \in Caller : arg[b] # t
    BY <1>3 DEF InPool
  <2>2. \A u \in Thread : t \notin Queued(u) /\ t # f[u]
    BY <1>3 DEF InPool
  <2>3. OnceQueued' /\ OnceTaken'
    BY <1>2, <1>5 DEF ThreadPoolInv, PlaceInv, OnceQueued, OnceTaken
  <2>4. OnceGiven'
    BY <1>1, <1>2, <1>4, <1>5, <2>1, <2>2 DEF ThreadPoolInv, PlaceInv, OnceGiven
  <2> QED
    BY <2>3, <2>4 DEF PlaceInv
<1>8. \A e \in Task : InPool(e)' <=> InPool(e) \/ e = t
  BY <1>1, <1>2, <1>3, <1>4, <1>5 DEF InPool
<1>9. OnceInv'
  BY <1>2, <1>3, <1>8 DEF ThreadPoolInv, OnceInv
<1> QED
  BY <1>1, <1>2, <1>6, <1>7, <1>9 DEF CallerAt

\* CallTask(w): from thread w to nobody.
LEMMA CallTaskInv ==
  ASSUME ThreadPoolInv, NEW w \in Thread, CallTask(w)
  PROVE  /\ f' \in [Thread -> Task \cup {NoTask}] /\ at' \in [Thread -> ThreadAt]
         /\ runs' \in [Task -> Nat]
         /\ HoldInv' /\ PlaceInv' /\ OnceInv'
<1>1. /\ queue \in [Thread -> Seq(Task)] /\ f \in [Thread -> Task \cup {NoTask}]
      /\ at \in [Thread -> ThreadAt] /\ NoTask \notin Task
      /\ runs \in [Task -> Nat]
  BY ThreadPoolAssumption DEF ThreadPoolInv, ThreadPoolTypeOK
<1>2. /\ f' = [f EXCEPT ![w] = NoTask] /\ at' = [at EXCEPT ![w] = "steal"]
      /\ runs' = [runs EXCEPT ![f[w]] = @ + 1] /\ at[w] = "call"
      /\ UNCHANGED <<queue, arg, callerAt, given>>
  BY DEF CallTask, callerVars
<1>t. PICK t \in Task : t = f[w]
  BY <1>1, <1>2 DEF ThreadPoolInv, HoldInv
<1>3. InPool(t) /\ t \in given /\ runs[t] = 0
  BY <1>t DEF ThreadPoolInv, InPool, OnceInv
<1>4. \A u \in Thread : f'[u] = IF u = w THEN NoTask ELSE f[u]
  BY <1>1, <1>2
<1>5. \A u \in Thread : Queued(u)' = Queued(u) /\ NoTask \notin Queued(u)
  <2>1. \A x \in Seq(Task) : Range(x) \subseteq Task
    BY DEF Range
  <2> QED
    BY <2>1, <1>1, <1>2 DEF Queued
<1>6. HoldInv'
  BY <1>1, <1>2, <1>4 DEF ThreadPoolInv, HoldInv
<1>7. PlaceInv'
  BY <1>1, <1>2, <1>4, <1>5 DEF ThreadPoolInv, PlaceInv, OnceQueued, OnceTaken, OnceGiven
<1>8. ~ InPool(t)'
  BY <1>1, <1>t, <1>2, <1>4, <1>5 
  DEF InPool, ThreadPoolInv, PlaceInv, OnceTaken, OnceGiven
<1>9. \A e \in Task : e # t => (InPool(e)' <=> InPool(e))
  BY <1>1, <1>t, <1>2, <1>4, <1>5 DEF InPool
<1>10. runs' \in [Task -> Nat] /\ \A e \in Task : runs'[e] = IF e = t THEN 1 ELSE runs[e]
  BY <1>1, <1>t, <1>2, <1>3
<1>11. OnceInv'
  BY <1>2, <1>3, <1>8, <1>9, <1>10 DEF ThreadPoolInv, OnceInv
<1> QED
  BY <1>1, <1>2, <1>6, <1>7, <1>10, <1>11 DEF ThreadAt

\* The other steps move no task.
LEMMA NoMoveInv ==
  ASSUME ThreadPoolInv, UNCHANGED <<queue, arg, f, given, runs>>,
         \A c \in Caller : callerAt'[c] = "try" <=> callerAt[c] = "try",
         \A w \in Thread : at'[w] = "call" <=> at[w] = "call"
  PROVE  HoldInv' /\ PlaceInv' /\ OnceInv'
<1>1. HoldInv'
  BY DEF ThreadPoolInv, HoldInv
<1>2. PlaceInv'
  BY DEF ThreadPoolInv, PlaceInv, OnceQueued, OnceTaken, OnceGiven, Queued
<1>3. OnceInv'
  BY DEF ThreadPoolInv, OnceInv, InPool, Queued
<1> QED
  BY <1>1, <1>2, <1>3

----------------------------------------------------------------------------
(* One step of the pool. *)

\* A step of a thread.
LEMMA RunStepInv ==
  ASSUME ThreadPoolInv, NEW w \in Thread, RunStep(w) \/ SpuriousWakeup(w)
  PROVE  ThreadPoolInv'
<1>t. /\ queue \in [Thread -> Seq(Task)] /\ at \in [Thread -> ThreadAt]
      /\ k \in [Thread -> 0 .. N] /\ N \in Nat
      /\ HoldInv /\ DtorInv /\ NoLostNotification
  BY ThreadPoolAssumption DEF ThreadPoolInv, ThreadPoolTypeOK
<1>c. UNCHANGED <<callerAt, arg, given, notify, done, dtor, d>>
  BY DEF RunStep, TryPop, TryPopFails, NothingStolen, Pop, PopWaits, Exit, CallTask,
         SpuriousWakeup, callerVars, dtorVars
<1>o. UNCHANGED <<idx, first, tries>>
  BY DEF RunStep, TryPop, TryPopFails, NothingStolen, Pop, PopWaits, Exit, CallTask,
         SpuriousWakeup, callerVars
\* The rest of the invariant, when no queue is filled and at most w changes place.
<1>r. ASSUME NEW p \in ThreadAt, at' = [at EXCEPT ![w] = p],
             \A u \in Thread : queue'[u] # <<>> => queue[u] # <<>>,
             p = "exited" => done[w] /\ queue[w] = <<>>,
             p = "blocked" => queue[w] = <<>> /\ ~ done[w],
             at[w] # "exited"
      PROVE  DtorInv' /\ NoLostNotification'
  <2>1. \A u \in Thread : at'[u] = IF u = w THEN p ELSE at[u]
    BY <1>t, <1>r
  <2>2. DtorInv'
    BY <1>t, <1>c, <1>r, <2>1 DEF DtorInv
  <2>3. NoLostNotification'
    BY <1>t, <1>c, <1>r, <2>1 DEF NoLostNotification
  <2> QED
    BY <2>2, <2>3
<1>1. ASSUME NEW v \in Thread, at[w] \in {"steal", "pop"}, queue[v] # <<>>, TakeFront(w, v),
             UNCHANGED <<k, callerVars, dtorVars, runs>>
      PROVE  ThreadPoolInv'
  <2>1. f[w] = NoTask
    BY <1>1, <1>t DEF HoldInv
  <2>2. /\ queue' \in [Thread -> Seq(Task)] /\ f' \in [Thread -> Task \cup {NoTask}]
        /\ at' \in [Thread -> ThreadAt] /\ HoldInv' /\ PlaceInv' /\ OnceInv'
    BY <1>1, <2>1, TakeFrontInv DEF callerVars
  <2>3. ThreadPoolTypeOK'
    BY <1>1, <1>c, <1>o, <2>2 DEF ThreadPoolInv, ThreadPoolTypeOK
  <2>4. at' = [at EXCEPT ![w] = "call"] /\ queue' = [queue EXCEPT ![v] = Tail(@)]
    BY <1>1 DEF TakeFront
  <2>5. \A u \in Thread : queue'[u] # <<>> => queue[u] # <<>>
    BY <1>1, <1>t, <2>4
  <2>6. DtorInv' /\ NoLostNotification'
    BY <1>1, <1>r, <2>4, <2>5 DEF ThreadAt
  <2> QED
    BY <2>2, <2>3, <2>6 DEF ThreadPoolInv
<1>2. CASE TryPop(w)
  <2>1. (w + k[w]) % N \in Thread
    BY <1>t, StealIsThread
  <2> QED
    BY <1>1, <1>2, <2>1 DEF TryPop
<1>3. CASE Pop(w)
  BY <1>1, <1>3 DEF Pop
<1>4. CASE TryPopFails(w)
  <2>1. /\ UNCHANGED <<queue, at, f, runs>> /\ k' = [k EXCEPT ![w] = @ + 1] /\ k[w] < N
    BY <1>4 DEF TryPopFails
  <2>2. HoldInv' /\ PlaceInv' /\ OnceInv'
    BY <1>c, <2>1, NoMoveInv
  <2>3. k' \in [Thread -> 0 .. N]
    BY <1>t, <2>1
  <2>4. ThreadPoolTypeOK'
    BY <1>c, <1>o, <2>1, <2>3 DEF ThreadPoolInv, ThreadPoolTypeOK
  <2>5. DtorInv' /\ NoLostNotification'
    BY <1>t, <1>c, <2>1 DEF DtorInv, NoLostNotification
  <2> QED
    BY <2>2, <2>4, <2>5 DEF ThreadPoolInv
<1>5. CASE NothingStolen(w) \/ PopWaits(w) \/ Exit(w) \/ SpuriousWakeup(w)
  <2>1. UNCHANGED <<queue, k, f, runs>>
    BY <1>5 DEF NothingStolen, PopWaits, Exit, SpuriousWakeup
  <2>2. PICK p \in {"pop", "blocked", "exited"} :
          /\ at' = [at EXCEPT ![w] = p] /\ at[w] \in {"steal", "pop", "blocked"}
          /\ p = "exited" => done[w] /\ queue[w] = <<>>
          /\ p = "blocked" => queue[w] = <<>> /\ ~ done[w]
    BY <1>5 DEF NothingStolen, PopWaits, Exit, SpuriousWakeup
  <2>3. at' \in [Thread -> ThreadAt] /\ \A u \in Thread : at'[u] = "call" <=> at[u] = "call"
    BY <1>t, <2>2 DEF ThreadAt
  <2>4. HoldInv' /\ PlaceInv' /\ OnceInv'
    BY <1>c, <2>1, <2>3, NoMoveInv
  <2>5. ThreadPoolTypeOK'
    BY <1>c, <1>o, <2>1, <2>3 DEF ThreadPoolInv, ThreadPoolTypeOK
  <2>6. DtorInv' /\ NoLostNotification'
    BY <1>r, <2>1, <2>2 DEF ThreadAt
  <2> QED
    BY <2>4, <2>5, <2>6 DEF ThreadPoolInv
<1>6. CASE CallTask(w)
  <2>1. /\ f' \in [Thread -> Task \cup {NoTask}] /\ at' \in [Thread -> ThreadAt]
        /\ runs' \in [Task -> Nat] /\ HoldInv' /\ PlaceInv' /\ OnceInv'
    BY <1>6, CallTaskInv
  <2>2. /\ UNCHANGED queue /\ k' = [k EXCEPT ![w] = 0]
        /\ at' = [at EXCEPT ![w] = "steal"] /\ at[w] = "call"
    BY <1>6 DEF CallTask
  <2>3. k' \in [Thread -> 0 .. N]
    BY <1>t, <2>2
  <2>4. ThreadPoolTypeOK'
    BY <1>c, <1>o, <2>1, <2>2, <2>3 DEF ThreadPoolInv, ThreadPoolTypeOK
  <2>5. DtorInv' /\ NoLostNotification'
    BY <1>r, <2>2 DEF ThreadAt
  <2> QED
    BY <2>1, <2>4, <2>5 DEF ThreadPoolInv
<1> QED
  BY <1>2, <1>3, <1>4, <1>5, <1>6 DEF RunStep

\* The pool is alive and its threads too as long as a caller is in push_task.
LEMMA BusyCaller ==
  ASSUME ThreadPoolInv, NEW c \in Caller, callerAt[c] # "idle"
  PROVE  /\ dtor = "alive" /\ d = 0
         /\ \A w \in Thread : ~ done[w] /\ at[w] # "exited"
<1>1. dtor = "alive" /\ d = 0
  BY DEF ThreadPoolInv, DtorInv
<1>2. \A w \in Thread : ~ done[w]
  BY <1>1 DEF ThreadPoolInv, DtorInv
<1> QED
  BY <1>1, <1>2 DEF ThreadPoolInv, DtorInv

LEMMA WokenFact ==
  ASSUME ThreadPoolInv, NEW v \in Thread, at' = Woken(v)
  PROVE  /\ at' \in [Thread -> ThreadAt]
         /\ \A w \in Thread : at'[w] = IF w = v /\ at[w] = "blocked" THEN "pop" ELSE at[w]
<1>1. at \in [Thread -> ThreadAt]
  BY DEF ThreadPoolInv, ThreadPoolTypeOK
<1> QED
  BY <1>1 DEF Woken, ThreadAt

\* A step of a caller.
LEMMA CallerStepInv ==
  ASSUME ThreadPoolInv, NEW c \in Caller, PushStep(c) \/ \E t \in Task : PushTask(c, t)
  PROVE  ThreadPoolInv'
<1>t. /\ queue \in [Thread -> Seq(Task)] /\ at \in [Thread -> ThreadAt]
      /\ callerAt \in [Caller -> CallerAt] /\ notify \in [Caller -> Thread]
      /\ tries \in [Caller -> 0 .. N] /\ first \in [Caller -> 0 .. IdxMod - 1]
      /\ idx \in 0 .. IdxMod - 1 /\ given \subseteq Task
      /\ N \in Nat \ {0} /\ IdxMod \in Nat \ {0}
      /\ HoldInv /\ DtorInv /\ NoLostNotification
  BY ThreadPoolAssumption DEF ThreadPoolInv, ThreadPoolTypeOK
<1>c. UNCHANGED <<k, f, runs, done, dtor, d>>
  BY DEF PushStep, TryPush, TryPushFails, BlockingPush, NotifyOne, PushTask,
         threadVars, dtorVars
<1>1. ASSUME NEW t \in Task, PushTask(c, t) PROVE ThreadPoolInv'
  <2>1. /\ arg' \in [Caller -> Task \cup {NoTask}] /\ callerAt' \in [Caller -> CallerAt]
        /\ HoldInv' /\ PlaceInv' /\ OnceInv'
    BY <1>1, PushTaskInv
  <2>2. /\ UNCHANGED <<queue, at, notify>> /\ callerAt[c] = "idle" /\ dtor = "alive"
        /\ callerAt' = [callerAt EXCEPT ![c] = "try"]
        /\ first' = [first EXCEPT ![c] = idx] /\ tries' = [tries EXCEPT ![c] = 0]
        /\ idx' = (idx + 1) % IdxMod /\ given' = given \cup {t}
    BY <1>1 DEF PushTask, threadVars
  <2>3. /\ first' \in [Caller -> 0 .. IdxMod - 1] /\ tries' \in [Caller -> 0 .. N]
        /\ idx' \in 0 .. IdxMod - 1
    BY <1>t, <2>2
  <2>4. ThreadPoolTypeOK'
    BY <1>c, <2>1, <2>2, <2>3 DEF ThreadPoolInv, ThreadPoolTypeOK
  <2>5. DtorInv'
    BY <1>t, <1>c, <2>2 DEF DtorInv
  <2>6. \A b \in Caller : callerAt[b] = "notify" => callerAt'[b] = "notify"
    BY <1>t, <2>2
  <2>7. NoLostNotification'
    BY <1>t, <1>c, <2>2, <2>6 DEF NoLostNotification
  <2> QED
    BY <2>1, <2>4, <2>5, <2>7 DEF ThreadPoolInv
<1>2. ASSUME NEW w \in Thread, callerAt[c] = "try", QueuePush(c, w),
             UNCHANGED <<idx, first, tries, given, threadVars, dtorVars, runs>>
      PROVE  ThreadPoolInv'
  <2>0. UNCHANGED <<f, at>>
    BY <1>2 DEF threadVars
  <2>1. /\ queue' \in [Thread -> Seq(Task)] /\ arg' \in [Caller -> Task \cup {NoTask}]
        /\ callerAt' \in [Caller -> CallerAt] /\ notify' \in [Caller -> Thread]
        /\ HoldInv' /\ PlaceInv' /\ OnceInv'
    BY <1>2, <2>0, QueuePushInv
  <2>2. ThreadPoolTypeOK'
    BY <1>c, <1>2, <2>0, <2>1 DEF ThreadPoolInv, ThreadPoolTypeOK
  <2>3. dtor = "alive" /\ d = 0 /\ \A u \in Thread : ~ done[u] /\ at[u] # "exited"
    BY <1>2, BusyCaller
  <2>4. DtorInv'
    BY <1>c, <2>0, <2>3 DEF DtorInv
  <2>5. /\ \A b \in Caller : callerAt'[b] = IF b = c THEN "notify" ELSE callerAt[b]
        /\ \A b \in Caller : notify'[b] = IF b = c THEN w ELSE notify[b]
        /\ \A u \in Thread : u # w => queue'[u] = queue[u]
    BY <1>2, <1>t DEF QueuePush
  <2>6. NoLostNotification'
    <3> SUFFICES ASSUME NEW u \in Thread, at[u] = "blocked", queue'[u] # <<>>
                 PROVE  \E b \in Caller : callerAt'[b] = "notify" /\ notify'[b] = u
      BY <1>c, <2>0, <2>3 DEF NoLostNotification
    <3>1. CASE u = w
      BY <2>5, <3>1
    <3>2. CASE u # w
      <4>1. PICK b \in Caller : callerAt[b] = "notify" /\ notify[b] = u
        BY <1>t, <2>5, <3>2 DEF NoLostNotification
      <4> QED
        BY <1>2, <2>5, <4>1
    <3> QED
      BY <3>1, <3>2
  <2> QED
    BY <2>1, <2>2, <2>4, <2>6 DEF ThreadPoolInv
<1>3. CASE TryPush(c)
  <2>1. Slot(first[c], tries[c]) \in Thread
    BY <1>t, SlotIsThread
  <2> QED
    BY <1>2, <1>3, <2>1 DEF TryPush
<1>4. CASE BlockingPush(c)
  <2>1. Slot(first[c], 0) \in Thread
    BY <1>t, SlotIsThread
  <2> QED
    BY <1>2, <1>4, <2>1 DEF BlockingPush
<1>5. CASE TryPushFails(c)
  <2>1. /\ UNCHANGED <<queue, idx, callerAt, first, arg, notify, given, at>>
        /\ tries' = [tries EXCEPT ![c] = @ + 1] /\ tries[c] < N
    BY <1>5 DEF TryPushFails, threadVars
  <2>2. HoldInv' /\ PlaceInv' /\ OnceInv'
    BY <1>c, <2>1, NoMoveInv
  <2>3. tries' \in [Caller -> 0 .. N]
    BY <1>t, <2>1
  <2>4. ThreadPoolTypeOK'
    BY <1>c, <2>1, <2>3 DEF ThreadPoolInv, ThreadPoolTypeOK
  <2>5. DtorInv' /\ NoLostNotification'
    BY <1>t, <1>c, <2>1 DEF DtorInv, NoLostNotification
  <2> QED
    BY <2>2, <2>4, <2>5 DEF ThreadPoolInv
<1>6. CASE NotifyOne(c)
  <2>1. /\ UNCHANGED <<queue, idx, first, tries, arg, notify, given>>
        /\ callerAt' = [callerAt EXCEPT ![c] = "idle"] /\ callerAt[c] = "notify"
        /\ at' = Woken(notify[c])
    BY <1>6 DEF NotifyOne
  <2>2. /\ at' \in [Thread -> ThreadAt]
        /\ \A w \in Thread : at'[w] = IF w = notify[c] /\ at[w] = "blocked" THEN "pop" ELSE at[w]
    BY <1>t, <2>1, WokenFact
  <2>3. callerAt' \in [Caller -> CallerAt]
        /\ \A b \in Caller : callerAt'[b] = IF b = c THEN "idle" ELSE callerAt[b]
    BY <1>t, <2>1 DEF CallerAt
  <2>4. HoldInv' /\ PlaceInv' /\ OnceInv'
    BY <1>c, <2>1, <2>2, <2>3, NoMoveInv
  <2>5. ThreadPoolTypeOK'
    BY <1>c, <2>1, <2>2, <2>3 DEF ThreadPoolInv, ThreadPoolTypeOK
  <2>6. dtor = "alive" /\ d = 0 /\ \A u \in Thread : ~ done[u] /\ at[u] # "exited"
    BY <2>1, BusyCaller
  <2>7. DtorInv'
    BY <1>c, <2>2, <2>6 DEF DtorInv
  <2>8. NoLostNotification'
    BY <1>t, <1>c, <2>1, <2>2, <2>3, <2>6 DEF NoLostNotification
  <2> QED
    BY <2>4, <2>5, <2>7, <2>8 DEF ThreadPoolInv
<1> QED
  BY <1>1, <1>3, <1>4, <1>5, <1>6 DEF PushStep

\* A step of the destructor.
LEMMA DestructorStepInv ==
  ASSUME ThreadPoolInv, Destructor \/ DestructorStep
  PROVE  ThreadPoolInv'
<1>t. /\ at \in [Thread -> ThreadAt] /\ done \in [Thread -> BOOLEAN]
      /\ dtor \in DtorAt /\ d \in 0 .. N /\ N \in Nat \ {0}
      /\ Thread = 0 .. N - 1
      /\ HoldInv /\ DtorInv /\ NoLostNotification
  BY ThreadPoolAssumption DEF ThreadPoolInv, ThreadPoolTypeOK, Thread
<1>c. UNCHANGED <<queue, k, f, idx, callerAt, first, tries, arg, notify, given, runs>>
  BY DEF Destructor, DestructorStep, SetDone, NotifyAll, AllDone, Join, Destroyed,
         threadVars, callerVars
<1>s. ASSUME at' \in [Thread -> ThreadAt], done' \in [Thread -> BOOLEAN],
             dtor' \in DtorAt, d' \in 0 .. N,
             \A w \in Thread : at'[w] = "call" <=> at[w] = "call",
             DtorInv', NoLostNotification'
      PROVE  ThreadPoolInv'
  <2>1. HoldInv' /\ PlaceInv' /\ OnceInv'
    BY <1>c, <1>s, NoMoveInv
  <2>2. ThreadPoolTypeOK'
    BY <1>c, <1>s DEF ThreadPoolInv, ThreadPoolTypeOK
  <2> QED
    BY <1>s, <2>1, <2>2 DEF ThreadPoolInv
<1>1. CASE Destructor
  <2>1. /\ dtor = "alive" /\ \A c \in Caller : callerAt[c] = "idle"
        /\ dtor' = "set_done" /\ UNCHANGED <<d, done, at>>
    BY <1>1 DEF Destructor, threadVars
  <2>2. d = 0 /\ \A w \in Thread : ~ done[w]
    BY <1>t, <2>1 DEF DtorInv
  <2>3. DtorInv'
    BY <1>t, <1>c, <2>1, <2>2 DEF DtorInv
  <2>4. NoLostNotification'
    BY <1>t, <1>c, <2>1, <2>2 DEF NoLostNotification
  <2> QED
    BY <1>t, <1>s, <2>1, <2>3, <2>4 DEF DtorAt
<1>2. CASE SetDone
  <2>1. /\ dtor = "set_done" /\ d < N /\ dtor' = "notify_all"
        /\ done' = [done EXCEPT ![d] = TRUE] /\ UNCHANGED <<d, at>>
    BY <1>2 DEF SetDone, threadVars
  <2>2. done' \in [Thread -> BOOLEAN] /\ \A w \in Thread : done'[w] <=> w = d \/ done[w]
    BY <1>t, <2>1
  <2>3. DtorInv'
    BY <1>t, <1>c, <2>1, <2>2 DEF DtorInv
  <2>4. NoLostNotification'
    BY <1>t, <1>c, <2>1, <2>2 DEF NoLostNotification
  <2> QED
    BY <1>t, <1>s, <2>1, <2>2, <2>3, <2>4 DEF DtorAt
<1>3. CASE NotifyAll
  <2>1. /\ dtor = "notify_all" /\ dtor' = "set_done" /\ d' = d + 1
        /\ at' = Woken(d) /\ UNCHANGED done
    BY <1>3 DEF NotifyAll
  <2>2. d \in Thread /\ d < N
    BY <1>t, <2>1 DEF DtorInv
  <2>3. /\ at' \in [Thread -> ThreadAt]
        /\ \A w \in Thread : at'[w] = IF w = d /\ at[w] = "blocked" THEN "pop" ELSE at[w]
    BY <2>1, <2>2, WokenFact
  <2>4. DtorInv'
    BY <1>t, <1>c, <2>1, <2>2, <2>3 DEF DtorInv
  <2>5. NoLostNotification'
    BY <1>t, <1>c, <2>1, <2>3 DEF NoLostNotification
  <2> QED
    BY <1>t, <1>s, <2>1, <2>2, <2>3, <2>4, <2>5 DEF DtorAt
<1>4. CASE AllDone
  <2>1. /\ dtor = "set_done" /\ dtor' = "join" /\ d = N /\ d' = 0 /\ UNCHANGED <<done, at>>
    BY <1>4 DEF AllDone, threadVars
  <2>2. DtorInv'
    BY <1>t, <1>c, <2>1 DEF DtorInv
  <2>3. NoLostNotification'
    BY <1>t, <1>c, <2>1 DEF NoLostNotification
  <2> QED
    BY <1>t, <1>s, <2>1, <2>2, <2>3 DEF DtorAt
<1>5. CASE Join
  <2>1. /\ dtor = "join" /\ d < N /\ at[d] = "exited" /\ d' = d + 1
        /\ UNCHANGED <<dtor, done, at>>
    BY <1>5 DEF Join, threadVars
  <2>2. DtorInv'
    BY <1>t, <1>c, <2>1 DEF DtorInv
  <2>3. NoLostNotification'
    BY <1>t, <1>c, <2>1 DEF NoLostNotification
  <2> QED
    BY <1>t, <1>s, <2>1, <2>2, <2>3
<1>6. CASE Destroyed
  <2>1. /\ dtor = "join" /\ d = N /\ dtor' = "destroyed" /\ UNCHANGED <<d, done, at>>
    BY <1>6 DEF Destroyed, threadVars
  <2>2. DtorInv'
    BY <1>t, <1>c, <2>1 DEF DtorInv
  <2>3. NoLostNotification'
    BY <1>t, <1>c, <2>1 DEF NoLostNotification
  <2> QED
    BY <1>t, <1>s, <2>1, <2>2, <2>3 DEF DtorAt
<1> QED
  BY <1>1, <1>2, <1>3, <1>4, <1>5, <1>6 DEF DestructorStep

LEMMA PoolStepInv == ASSUME ThreadPoolInv, [ThreadPoolNext]_allVars PROVE ThreadPoolInv'
<1>1. CASE Gone \/ UNCHANGED allVars
  <2>1. UNCHANGED allVars
    BY <1>1 DEF Gone
  <2>2. ThreadPoolTypeOK'
    BY <2>1 DEF allVars, threadVars, callerVars, dtorVars, ThreadPoolInv, ThreadPoolTypeOK
  <2>3. HoldInv' /\ PlaceInv' /\ OnceInv'
    BY <2>1, NoMoveInv DEF allVars, threadVars, callerVars
  <2>4. DtorInv' /\ NoLostNotification'
    BY <2>1 DEF allVars, threadVars, callerVars, dtorVars, ThreadPoolInv, DtorInv,
                NoLostNotification
  <2> QED
    BY <2>2, <2>3, <2>4 DEF ThreadPoolInv
<1> QED
  BY <1>1, RunStepInv, CallerStepInv, DestructorStepInv DEF ThreadPoolNext

(* The inductive invariant of the pool. *)
THEOREM PoolCorrect == ThreadPoolSpec => []ThreadPoolInv
<1>1. PInit => ThreadPoolInv
  BY PoolInitInv
<1>2. ThreadPoolInv /\ [ThreadPoolNext]_allVars => ThreadPoolInv'
  BY PoolStepInv
<1> QED
  BY <1>1, <1>2, PTL DEF ThreadPoolSpec

(* No wakeup is lost: while a thread is blocked on a queue that holds a    *)
(* task, or that is done, the notification that wakes it up is coming.     *)
THEOREM PoolNotifies == ThreadPoolSpec => []NoLostNotification
<1>1. ThreadPoolInv => NoLostNotification
  BY DEF ThreadPoolInv
<1> QED
  BY <1>1, PoolCorrect, PTL

\* Threads that have all exited leave no task in the pool.
LEMMA LeavesNothing ==
  ASSUME ThreadPoolInv, dtor # "alive", \A w \in Thread : at[w] = "exited", NEW t \in given
  PROVE  t \in Task /\ runs[t] = 1
<1>1. t \in Task /\ NoTask \notin Task
  BY ThreadPoolAssumption DEF ThreadPoolInv, ThreadPoolTypeOK
<1>2. \A w \in Thread : queue[w] = <<>>
  BY DEF ThreadPoolInv, DtorInv
<1>3. \A w \in Thread : t \notin Queued(w)
  BY <1>2 DEF Queued, Range
<1>4. \A w \in Thread : f[w] = NoTask
  BY DEF ThreadPoolInv, HoldInv
<1>5. \A c \in Caller : arg[c] = NoTask
  BY DEF ThreadPoolInv, DtorInv, HoldInv
<1>6. ~ InPool(t)
  BY <1>1, <1>3, <1>4, <1>5 DEF InPool
<1> QED
  BY <1>1, <1>6 DEF ThreadPoolInv, OnceInv

(* A task is executed at most once, and the destructor returns after all   *)
(* of them have been executed.                                             *)
THEOREM PoolRunsOnce == ThreadPoolSpec => [](RunsOnce /\ NothingLeftBehind)
<1>1. ASSUME ThreadPoolInv PROVE RunsOnce
  BY <1>1 DEF ThreadPoolInv, OnceInv, RunsOnce
<1>2. ASSUME ThreadPoolInv PROVE NothingLeftBehind
  <2>1. dtor = "destroyed" => \A w \in Thread : at[w] = "exited"
    BY <1>2 DEF ThreadPoolInv, DtorInv
  <2> QED
    BY <1>2, <2>1, LeavesNothing DEF NothingLeftBehind
<1> QED
  BY <1>1, <1>2, PoolCorrect, PTL

----------------------------------------------------------------------------
(* The refinement of TaskPool. *)

\* Who has each task.
OwnerSplit(own) ==
  \A t \in Task :
    own[t] = IF t \notin given THEN "caller"
             ELSE IF \E w \in Thread : f[w] = t THEN "thread"
             ELSE IF InPool(t) THEN "pool"
             ELSE "nobody"

LEMMA OwnerFact == ASSUME ThreadPoolInv PROVE OwnerSplit(Owner)
<1> SUFFICES ASSUME NEW t \in Task
             PROVE  Owner[t] = IF t \notin given THEN "caller"
                               ELSE IF \E w \in Thread : f[w] = t THEN "thread"
                               ELSE IF InPool(t) THEN "pool"
                               ELSE "nobody"
  BY DEF OwnerSplit
<1>1. runs[t] > 0 <=> t \in given /\ ~ InPool(t)
  BY DEF ThreadPoolInv, OnceInv
<1>2. (\E w \in Thread : f[w] = t) => InPool(t)
  BY DEF InPool
<1> QED
  BY <1>1, <1>2 DEF Owner

LEMMA OwnerNext == ASSUME ThreadPoolInv' PROVE OwnerSplit(Owner)'
<1> SUFFICES ASSUME NEW t \in Task
             PROVE  Owner'[t] = IF t \notin given' THEN "caller"
                                ELSE IF \E w \in Thread : f'[w] = t THEN "thread"
                                ELSE IF InPool(t)' THEN "pool"
                                ELSE "nobody"
  BY DEF OwnerSplit
<1>1. runs'[t] > 0 <=> t \in given' /\ ~ InPool(t)'
  BY DEF ThreadPoolInv, OnceInv
<1>2. (\E w \in Thread : f'[w] = t) => InPool(t)'
  BY DEF InPool
<1> QED
  BY <1>1, <1>2 DEF Owner

\* As long as a thread holds no task, fewer than N tasks are with a thread.
LEMMA ThreadsAreFew ==
  ASSUME ThreadPoolTypeOK, NEW w \in Thread, f[w] = NoTask
  PROVE  Cardinality({t \in Task : \E v \in Thread : f[v] = t}) < N
<1> DEFINE Taken == {t \in Task : \E v \in Thread : f[v] = t}
           Busy == {v \in Thread : f[v] \in Task}
           taken == [v \in Busy |-> f[v]]
<1>1. N \in Nat /\ N > 0 /\ NoTask \notin Task
  BY ThreadPoolAssumption
<1>2. IsFiniteSet(Thread) /\ Cardinality(Thread) = N
  BY <1>1, FS_Interval DEF Thread
<1>3. IsFiniteSet(Thread \ {w}) /\ Cardinality(Thread \ {w}) = N - 1
  BY <1>2, FS_RemoveElement
<1>4. Busy \subseteq Thread \ {w}
  BY <1>1
<1>5. IsFiniteSet(Busy) /\ Cardinality(Busy) <= N - 1
  BY <1>3, <1>4, FS_Subset
<1>6. taken \in Surjection(Busy, Taken)
  BY DEF Surjection
<1>7. IsFiniteSet(Taken) /\ Cardinality(Taken) <= Cardinality(Busy)
  BY <1>5, <1>6, FS_Surjection
<1>8. Cardinality(Taken) \in Nat /\ Cardinality(Busy) \in Nat
  BY <1>5, <1>7, FS_CardinalityType
<1> QED
  BY <1>1, <1>5, <1>7, <1>8

LEMMA SameCardinality == \A S : Abstract!Cardinality(S) = Cardinality(S)
  BY DEF Abstract!Cardinality, Cardinality

\* One task changes hands, the others stay where they are.
LEMMA OwnerMoves ==
  ASSUME OwnerSplit(Owner), OwnerSplit(Owner)', NEW t \in Task, NEW to,
         Owner'[t] = to,
         \A e \in Task : e # t => Owner'[e] = Owner[e]
  PROVE  Owner' = [Owner EXCEPT ![t] = to]
<1>1. Owner = [e \in Task |-> Owner[e]] /\ Owner' = [e \in Task |-> Owner'[e]]
  BY DEF Owner
<1> QED
  BY <1>1

LEMMA OwnerStays ==
  ASSUME \A e \in Task : Owner'[e] = Owner[e]
  PROVE  Owner' = Owner
<1>1. Owner = [e \in Task |-> Owner[e]] /\ Owner' = [e \in Task |-> Owner'[e]]
  BY DEF Owner
<1> QED
  BY <1>1

\* A task goes from queue v to thread w: Take.
LEMMA TakeFrontRefines ==
  ASSUME ThreadPoolInv, ThreadPoolInv', NEW w \in Thread, NEW v \in Thread,
         at[w] \in {"steal", "pop"}, queue[v] # <<>>, TakeFront(w, v),
         UNCHANGED <<arg, given, dtor>>
  PROVE  \E t \in Task : Abstract!Take(t)
<1>t. /\ queue \in [Thread -> Seq(Task)] /\ f \in [Thread -> Task \cup {NoTask}]
      /\ ThreadPoolTypeOK /\ NoTask \notin Task
      /\ f[w] = NoTask
  BY ThreadPoolAssumption DEF ThreadPoolInv, ThreadPoolTypeOK, HoldInv
<1>s. OwnerSplit(Owner) /\ OwnerSplit(Owner)'
  BY OwnerFact, OwnerNext
<1>1. PICK t \in Task : t = Head(queue[v])
  BY <1>t, TailFact
<1>2. /\ t \in Queued(v) /\ Queued(v) = Range(Tail(queue[v])) \cup {t}
  BY <1>t, <1>1, TailFact DEF Queued
<1>3. /\ \A u \in Thread : f'[u] = IF u = w THEN t ELSE f[u]
      /\ \A u \in Thread : Queued(u)' = IF u = v THEN Range(Tail(queue[v])) ELSE Queued(u)
  BY <1>t, <1>1 DEF TakeFront, Queued
<1>4. t \in given /\ ~ \E u \in Thread : f[u] = t
  BY <1>2 DEF ThreadPoolInv, OnceInv, InPool, PlaceInv, OnceTaken
<1>5. Owner[t] = "pool"
  BY <1>s, <1>2, <1>4 DEF OwnerSplit, InPool
<1>6. Owner'[t] = "thread"
  BY <1>s, <1>3, <1>4 DEF OwnerSplit
<1>7. \A e \in Task : e # t => Owner'[e] = Owner[e]
  <2> SUFFICES ASSUME NEW e \in Task, e # t PROVE Owner'[e] = Owner[e]
    OBVIOUS
  <2>1. (\E u \in Thread : f'[u] = e) <=> (\E u \in Thread : f[u] = e)
    BY <1>t, <1>3
  <2>2. InPool(e)' <=> InPool(e)
    BY <1>2, <1>3, <2>1 DEF InPool
  <2> QED
    BY <1>s, <2>1, <2>2 DEF OwnerSplit
<1>8. Owner' = [Owner EXCEPT ![t] = "thread"]
  BY <1>s, <1>6, <1>7, OwnerMoves
<1>9. Cardinality({u \in Task : Owner[u] = "thread"}) < N
  <2>1. {u \in Task : Owner[u] = "thread"} = {u \in Task : \E x \in Thread : f[x] = u}
    <3>1. \A u \in Task : (\E x \in Thread : f[x] = u) => u \in given
      BY DEF ThreadPoolInv, OnceInv, InPool
    <3> QED
      BY <1>s, <3>1 DEF OwnerSplit
  <2> QED
    BY <1>t, <2>1, ThreadsAreFew
<1> QED
  BY <1>5, <1>8, <1>9, SameCardinality DEF Abstract!Take, Abstract!Moves

\* PushTask(c, t): Push.
LEMMA PushTaskRefines ==
  ASSUME ThreadPoolInv, ThreadPoolInv', NEW c \in Caller, NEW t \in Task, PushTask(c, t)
  PROVE  Abstract!Push(t)
<1>s. OwnerSplit(Owner) /\ OwnerSplit(Owner)'
  BY OwnerFact, OwnerNext
<1>t. arg \in [Caller -> Task \cup {NoTask}] /\ NoTask \notin Task /\ f \in [Thread -> Task \cup {NoTask}]
  BY ThreadPoolAssumption DEF ThreadPoolInv, ThreadPoolTypeOK
<1>1. /\ dtor = "alive" /\ UNCHANGED <<queue, f, dtor>>
      /\ t \notin given /\ given' = given \cup {t} /\ callerAt[c] = "idle"
      /\ \A b \in Caller : arg'[b] = IF b = c THEN t ELSE arg[b]
  BY <1>t DEF PushTask, threadVars, dtorVars
<1>2. ~ InPool(t) /\ arg[c] = NoTask
  BY <1>1 DEF ThreadPoolInv, OnceInv, HoldInv
<1>3. Owner[t] = "caller"
  BY <1>s, <1>1 DEF OwnerSplit
<1>4. Owner'[t] = "pool"
  <2>1. InPool(t)'
    BY <1>1 DEF InPool
  <2>2. ~ \E w \in Thread : f'[w] = t
    BY <1>1, <1>2 DEF InPool
  <2> QED
    BY <1>s, <1>1, <2>1, <2>2 DEF OwnerSplit
<1>5. \A e \in Task : e # t => Owner'[e] = Owner[e]
  <2> SUFFICES ASSUME NEW e \in Task, e # t PROVE Owner'[e] = Owner[e]
    OBVIOUS
  <2>1. InPool(e)' <=> InPool(e)
    BY <1>t, <1>1, <1>2 DEF InPool, Queued
  <2> QED
    BY <1>s, <1>1, <2>1 DEF OwnerSplit
<1>6. Owner' = [Owner EXCEPT ![t] = "pool"]
  BY <1>s, <1>4, <1>5, OwnerMoves
<1> QED
  BY <1>1, <1>3, <1>6 DEF Abstract!Push, Abstract!Moves

\* CallTask(w): Finish.
LEMMA CallTaskRefines ==
  ASSUME ThreadPoolInv, ThreadPoolInv', NEW w \in Thread, CallTask(w)
  PROVE  \E t \in Task : Abstract!Finish(t)
<1>s. OwnerSplit(Owner) /\ OwnerSplit(Owner)'
  BY OwnerFact, OwnerNext
<1>t. f \in [Thread -> Task \cup {NoTask}] /\ NoTask \notin Task /\ runs \in [Task -> Nat]
  BY ThreadPoolAssumption DEF ThreadPoolInv, ThreadPoolTypeOK
<1>1. /\ at[w] = "call" /\ UNCHANGED <<queue, arg, given, dtor>>
      /\ runs' = [runs EXCEPT ![f[w]] = @ + 1]
      /\ \A u \in Thread : f'[u] = IF u = w THEN NoTask ELSE f[u]
  BY <1>t DEF CallTask, callerVars, dtorVars
<1>2. PICK t \in Task : t = f[w]
  BY <1>t, <1>1 DEF ThreadPoolInv, HoldInv
<1>3. t \in given /\ runs'[t] > 0
  BY <1>t, <1>1, <1>2 DEF ThreadPoolInv, OnceInv, InPool
<1>4. Owner[t] = "thread"
  BY <1>s, <1>2, <1>3 DEF OwnerSplit
<1>5. Owner'[t] = "nobody"
  BY <1>1, <1>3 DEF Owner
<1>6. \A e \in Task : e # t => Owner'[e] = Owner[e]
  <2> SUFFICES ASSUME NEW e \in Task, e # t PROVE Owner'[e] = Owner[e]
    OBVIOUS
  <2>1. (\E u \in Thread : f'[u] = e) <=> (\E u \in Thread : f[u] = e)
    BY <1>t, <1>1, <1>2
  <2>2. InPool(e)' <=> InPool(e)
    BY <1>1, <2>1 DEF InPool, Queued
  <2> QED
    BY <1>s, <1>1, <2>1, <2>2 DEF OwnerSplit
<1>7. Owner' = [Owner EXCEPT ![t] = "nobody"]
  BY <1>s, <1>5, <1>6, OwnerMoves
<1> QED
  BY <1>1, <1>2, <1>4, <1>7 DEF Abstract!Finish, Abstract!Moves

\* QueuePush(c, w): the task stays in the pool.
LEMMA QueuePushRefines ==
  ASSUME ThreadPoolInv, ThreadPoolInv', NEW c \in Caller, NEW w \in Thread,
         callerAt[c] = "try", QueuePush(c, w), UNCHANGED <<f, given>>
  PROVE  Owner' = Owner
<1>s. OwnerSplit(Owner) /\ OwnerSplit(Owner)'
  BY OwnerFact, OwnerNext
<1>t. /\ queue \in [Thread -> Seq(Task)] /\ arg \in [Caller -> Task \cup {NoTask}]
      /\ NoTask \notin Task
  BY ThreadPoolAssumption DEF ThreadPoolInv, ThreadPoolTypeOK
<1>1. PICK t \in Task : t = arg[c]
  BY <1>t DEF ThreadPoolInv, HoldInv
<1>2. Range(Append(queue[w], t)) = Queued(w) \cup {t}
  BY <1>t, AppendFact DEF Queued
<1>3. /\ \A u \in Thread : Queued(u)' = IF u = w THEN Queued(w) \cup {t} ELSE Queued(u)
      /\ \A b \in Caller : arg'[b] = IF b = c THEN NoTask ELSE arg[b]
  BY <1>t, <1>1, <1>2 DEF QueuePush, Queued
<1>4. \A e \in Task : InPool(e)' <=> InPool(e)
  BY <1>t, <1>1, <1>3 DEF InPool
<1> QED
  BY <1>s, <1>4, OwnerStays DEF OwnerSplit

LEMMA PoolRefinementStep ==
  ASSUME ThreadPoolInv, ThreadPoolInv', [ThreadPoolNext]_allVars
  PROVE  [Abstract!PoolNext]_Abstract!poolVars
<1>q. ASSUME UNCHANGED <<f, given, runs, dtor>> PROVE UNCHANGED Abstract!poolVars
  BY <1>q DEF Abstract!poolVars, Owner
<1>t. /\ k \in [Thread -> 0 .. N] /\ N \in Nat /\ IdxMod \in Nat
      /\ tries \in [Caller -> 0 .. N] /\ first \in [Caller -> 0 .. IdxMod - 1]
  BY ThreadPoolAssumption DEF ThreadPoolInv, ThreadPoolTypeOK
<1>1. ASSUME NEW w \in Thread, RunStep(w) \/ SpuriousWakeup(w)
      PROVE  [Abstract!PoolNext]_Abstract!poolVars
  <2>1. CASE TryPop(w)
    <3>1. (w + k[w]) % N \in Thread
      BY <1>t, StealIsThread
    <3>2. \E t \in Task : Abstract!Take(t)
      BY <2>1, <3>1, TakeFrontRefines DEF TryPop, callerVars, dtorVars
    <3> QED
      BY <3>2 DEF Abstract!PoolNext
  <2>2. CASE Pop(w)
    <3>1. \E t \in Task : Abstract!Take(t)
      BY <2>2, TakeFrontRefines DEF Pop, callerVars, dtorVars
    <3> QED
      BY <3>1 DEF Abstract!PoolNext
  <2>3. CASE CallTask(w)
    BY <2>3, CallTaskRefines DEF Abstract!PoolNext
  <2>4. CASE TryPopFails(w) \/ NothingStolen(w) \/ PopWaits(w) \/ Exit(w) \/ SpuriousWakeup(w)
    BY <1>q, <2>4 DEF TryPopFails, NothingStolen, PopWaits, Exit, SpuriousWakeup,
                      callerVars, dtorVars
  <2> QED
    BY <1>1, <2>1, <2>2, <2>3, <2>4 DEF RunStep
<1>2. ASSUME NEW c \in Caller, PushStep(c) \/ \E t \in Task : PushTask(c, t)
      PROVE  [Abstract!PoolNext]_Abstract!poolVars
  <2>1. ASSUME NEW t \in Task, PushTask(c, t) PROVE Abstract!PoolNext
    BY <2>1, PushTaskRefines DEF Abstract!PoolNext
  <2>2. CASE TryPush(c) \/ BlockingPush(c)
    <3>1. PICK w \in Thread : QueuePush(c, w)
      BY <1>t, <2>2, SlotIsThread DEF TryPush, BlockingPush
    <3>2. callerAt[c] = "try" /\ UNCHANGED <<f, given, dtor>>
      BY <2>2 DEF TryPush, BlockingPush, threadVars, dtorVars
    <3> QED
      BY <3>1, <3>2, QueuePushRefines DEF Abstract!poolVars
  <2>3. CASE TryPushFails(c) \/ NotifyOne(c)
    BY <1>q, <2>3 DEF TryPushFails, NotifyOne, threadVars, dtorVars
  <2> QED
    BY <1>2, <2>1, <2>2, <2>3 DEF PushStep
<1>3. CASE Destroyed
  <2>1. dtor = "join" /\ d = N /\ dtor' = "destroyed" /\ UNCHANGED <<f, given, runs>>
    BY <1>3 DEF Destroyed, threadVars, callerVars
  <2>2. Owner' = Owner
    BY <2>1 DEF Owner
  <2>3. \A t \in Task : Owner[t] \notin {"pool", "thread"}
    <3> SUFFICES ASSUME NEW t \in Task PROVE Owner[t] \notin {"pool", "thread"}
      OBVIOUS
    <3>1. \A w \in Thread : at[w] = "exited"
      BY <1>t, <2>1 DEF ThreadPoolInv, DtorInv, Thread
    <3>2. t \in given => runs[t] = 1
      BY <2>1, <3>1, LeavesNothing
    <3> QED
      BY <3>2 DEF Owner
  <2> QED
    BY <2>1, <2>2, <2>3 DEF Abstract!PoolNext, Abstract!Destroy
<1>4. CASE Destructor \/ SetDone \/ NotifyAll \/ AllDone \/ Join
  <2>1. UNCHANGED <<f, given, runs>> /\ dtor # "destroyed" /\ dtor' # "destroyed"
    BY <1>4 DEF Destructor, SetDone, NotifyAll, AllDone, Join, threadVars, callerVars
  <2> QED
    BY <2>1 DEF Abstract!poolVars, Owner
<1>5. CASE Gone \/ UNCHANGED allVars
  BY <1>q, <1>5 DEF Gone, allVars, threadVars, callerVars, dtorVars
<1> QED
  BY <1>1, <1>2, <1>3, <1>4, <1>5 DEF ThreadPoolNext, DestructorStep

(* Every behaviour of the pool is one of TaskPool: it owns each pushed     *)
(* task, at most N of them are with a thread, each is executed once, and   *)
(* when the pool is destroyed it owns none.                                *)
THEOREM PoolRefinement == ThreadPoolSpec => ImplementsTaskPool
<1>1. PInit => Abstract!PoolInit
  <2> SUFFICES ASSUME PInit PROVE Abstract!PoolInit
    OBVIOUS
  <2>1. Owner = [t \in Task |-> "caller"]
    BY DEF PInit, Owner
  <2> QED
    BY <2>1 DEF PInit, Abstract!PoolInit
<1>2. ThreadPoolInv /\ ThreadPoolInv' /\ [ThreadPoolNext]_allVars
        => [Abstract!PoolNext]_Abstract!poolVars
  BY PoolRefinementStep
<1> QED
  BY <1>1, <1>2, PoolCorrect, PTL DEF ThreadPoolSpec, ImplementsTaskPool, Abstract!PoolSpec

=============================================================================
