----------------------------- MODULE ThreadPool -----------------------------
(***************************************************************************)
(* thread_pool and its notification_queues                                 *)
(* (std_e/execution/thread_pool/thread_pool.hpp).                          *)
(*                                                                         *)
(* There is one queue per thread.  A thread first tries the n queues,      *)
(* beginning with its own, without blocking; if it gets nothing it blocks  *)
(* on its own queue until a task or the end arrives.  push_task tries the  *)
(* queues in turn from a position idx shared by all the callers, without   *)
(* blocking; if it finds no free lock it blocks on the first one.  The     *)
(* destructor marks each queue as done, then joins each thread.            *)
(*                                                                         *)
(* A critical section is one step: everything that a queue's mutex         *)
(* protects is read and written under it.  A try_lock may fail: another    *)
(* thread holds the mutex, or no reason at all ([thread.mutex.requirements *)
(* .mutex]).  The notifications come after the unlock, as steps of their   *)
(* own.  A thread blocked on a condition variable may wake up without any  *)
(* notification ([thread.condition]).                                      *)
(*                                                                         *)
(* Callers push tasks concurrently; the pool is destroyed once they are    *)
(* all back from push_task.  The tasks do not push tasks themselves.       *)
(***************************************************************************)
EXTENDS Integers, Sequences, FiniteSets, Functions

CONSTANTS
  N,        \* n: number of threads and of queues
  Task,     \* the tasks pushed during the life of the pool
  Caller,   \* the threads that push them
  NoTask,   \* an empty std::function
  IdxMod    \* number of values of an unsigned: 2^32 in the code

ASSUME ThreadPoolAssumption ==
  /\ N \in Nat \ {0}
  /\ IdxMod \in Nat \ {0}
  /\ NoTask \notin Task

Thread == 0 .. N - 1

VARIABLES
  queue,    \* notification_queue::q of each thread
  done,     \* notification_queue::done
  at,       \* where each thread is in run
  k,        \* loop index of run
  f,        \* the std::function of run
  idx,      \* where the next push_task begins
  callerAt, \* where each caller is in push_task
  first,    \* i of push_task
  tries,    \* k of push_task
  arg,      \* f of push_task
  notify,   \* the queue a caller has just filled
  dtor,     \* where the destructor is
  d,        \* loop index of the destructor
  given,    \* the tasks given to push_task so far
  runs      \* number of times each task has been called

threadVars == <<at, k, f>>
callerVars == <<idx, callerAt, first, tries, arg, notify, given>>
dtorVars == <<dtor, d, done>>
allVars == <<queue, threadVars, callerVars, dtorVars, runs>>

ThreadAt == {"steal", "pop", "blocked", "call", "exited"}
CallerAt == {"idle", "try", "push", "notify"}
DtorAt == {"alive", "set_done", "notify_all", "join", "destroyed"}

\* qs[(i+k)%n], where i+k is unsigned.
Slot(i, kk) == ((i + kk) % IdxMod) % N

PInit ==
  /\ queue = [w \in Thread |-> <<>>]
  /\ done = [w \in Thread |-> FALSE]
  /\ at = [w \in Thread |-> "steal"]
  /\ k = [w \in Thread |-> 0]
  /\ f = [w \in Thread |-> NoTask]
  /\ idx = 0
  /\ callerAt = [c \in Caller |-> "idle"]
  /\ first = [c \in Caller |-> 0]
  /\ tries = [c \in Caller |-> 0]
  /\ arg = [c \in Caller |-> NoTask]
  /\ notify = [c \in Caller |-> 0]
  /\ dtor = "alive"
  /\ d = 0
  /\ given = {}
  /\ runs = [t \in Task |-> 0]

----------------------------------------------------------------------------
(* run(w) *)

\* x = std::move(q.front()); q.pop_front()
TakeFront(w, v) ==
  /\ f' = [f EXCEPT ![w] = Head(queue[v])]
  /\ queue' = [queue EXCEPT ![v] = Tail(@)]
  /\ at' = [at EXCEPT ![w] = "call"]

TryPop(w) ==
  LET v == (w + k[w]) % N IN
  /\ at[w] = "steal"
  /\ k[w] < N
  /\ queue[v] # <<>>
  /\ TakeFront(w, v)
  /\ UNCHANGED <<k, callerVars, dtorVars, runs>>

\* The queue is empty, or try_lock fails.
TryPopFails(w) ==
  /\ at[w] = "steal"
  /\ k[w] < N
  /\ k' = [k EXCEPT ![w] = @ + 1]
  /\ UNCHANGED <<queue, at, f, callerVars, dtorVars, runs>>

NothingStolen(w) ==
  /\ at[w] = "steal"
  /\ k[w] = N
  /\ at' = [at EXCEPT ![w] = "pop"]
  /\ UNCHANGED <<queue, k, f, callerVars, dtorVars, runs>>

\* pop, from a lock to an unlock: by its end, or by ready.wait.
Pop(w) ==
  /\ at[w] = "pop"
  /\ queue[w] # <<>>
  /\ TakeFront(w, w)
  /\ UNCHANGED <<k, callerVars, dtorVars, runs>>

\* Mutant: the queue is not tested before waiting.
PopAlwaysWaits(w) ==
  /\ at[w] = "pop"
  /\ ~ done[w]
  /\ at' = [at EXCEPT ![w] = "blocked"]
  /\ UNCHANGED <<queue, k, f, callerVars, dtorVars, runs>>

PopWaits(w) ==
  /\ at[w] = "pop"
  /\ queue[w] = <<>>
  /\ ~ done[w]
  /\ at' = [at EXCEPT ![w] = "blocked"]
  /\ UNCHANGED <<queue, k, f, callerVars, dtorVars, runs>>

\* Mutant: the thread leaves as soon as its queue is done.
ExitWhenDone(w) ==
  /\ at[w] = "pop"
  /\ done[w]
  /\ at' = [at EXCEPT ![w] = "exited"]
  /\ UNCHANGED <<queue, k, f, callerVars, dtorVars, runs>>

Exit(w) ==
  /\ at[w] = "pop"
  /\ queue[w] = <<>>
  /\ done[w]
  /\ at' = [at EXCEPT ![w] = "exited"]
  /\ UNCHANGED <<queue, k, f, callerVars, dtorVars, runs>>

SpuriousWakeup(w) ==
  /\ at[w] = "blocked"
  /\ at' = [at EXCEPT ![w] = "pop"]
  /\ UNCHANGED <<queue, k, f, callerVars, dtorVars, runs>>

\* f(), then the next iteration.
CallTask(w) ==
  /\ at[w] = "call"
  /\ runs' = [runs EXCEPT ![f[w]] = @ + 1]
  /\ f' = [f EXCEPT ![w] = NoTask]
  /\ k' = [k EXCEPT ![w] = 0]
  /\ at' = [at EXCEPT ![w] = "steal"]
  /\ UNCHANGED <<queue, callerVars, dtorVars>>

RunStep(w) ==
  \/ TryPop(w) \/ TryPopFails(w) \/ NothingStolen(w)
  \/ Pop(w) \/ PopWaits(w) \/ Exit(w)
  \/ CallTask(w)

\* Only thread w waits for queue w.
Woken(w) == [at EXCEPT ![w] = IF @ = "blocked" THEN "pop" ELSE @]

----------------------------------------------------------------------------
(* push_task, by caller c *)

PushTask(c, t) ==
  /\ dtor = "alive"
  /\ callerAt[c] = "idle"
  /\ t \in Task \ given
  /\ given' = given \cup {t}
  /\ arg' = [arg EXCEPT ![c] = t]
  /\ first' = [first EXCEPT ![c] = idx]
  /\ idx' = (idx + 1) % IdxMod
  /\ tries' = [tries EXCEPT ![c] = 0]
  /\ callerAt' = [callerAt EXCEPT ![c] = "try"]
  /\ UNCHANGED <<queue, notify, threadVars, dtorVars, runs>>

QueuePush(c, w) ==
  /\ queue' = [queue EXCEPT ![w] = Append(@, arg[c])]
  /\ arg' = [arg EXCEPT ![c] = NoTask]
  /\ notify' = [notify EXCEPT ![c] = w]
  /\ callerAt' = [callerAt EXCEPT ![c] = "notify"]

TryPush(c) ==
  /\ callerAt[c] = "try"
  /\ tries[c] < N
  /\ QueuePush(c, Slot(first[c], tries[c]))
  /\ UNCHANGED <<idx, first, tries, given, threadVars, dtorVars, runs>>

TryPushFails(c) ==
  /\ callerAt[c] = "try"
  /\ tries[c] < N
  /\ tries' = [tries EXCEPT ![c] = @ + 1]
  /\ UNCHANGED <<queue, idx, callerAt, first, arg, notify, given, threadVars, dtorVars, runs>>

BlockingPush(c) ==
  /\ callerAt[c] = "try"
  /\ tries[c] = N
  /\ QueuePush(c, Slot(first[c], 0))
  /\ UNCHANGED <<idx, first, tries, given, threadVars, dtorVars, runs>>

\* Mutant: ready.notify_one() is forgotten.
NotifyNobody(c) ==
  /\ callerAt[c] = "notify"
  /\ callerAt' = [callerAt EXCEPT ![c] = "idle"]
  /\ UNCHANGED <<queue, at, k, f, idx, first, tries, arg, notify, given, dtorVars, runs>>

NotifyOne(c) ==
  /\ callerAt[c] = "notify"
  /\ at' = Woken(notify[c])
  /\ callerAt' = [callerAt EXCEPT ![c] = "idle"]
  /\ UNCHANGED <<queue, k, f, idx, first, tries, arg, notify, given, dtorVars, runs>>

PushStep(c) == TryPush(c) \/ TryPushFails(c) \/ BlockingPush(c) \/ NotifyOne(c)

----------------------------------------------------------------------------
(* ~thread_pool *)

Destructor ==
  /\ dtor = "alive"
  /\ \A c \in Caller : callerAt[c] = "idle"
  /\ dtor' = "set_done"
  /\ UNCHANGED <<queue, d, done, threadVars, callerVars, runs>>

\* set_done of queue d, under its lock ...
SetDone ==
  /\ dtor = "set_done"
  /\ d < N
  /\ done' = [done EXCEPT ![d] = TRUE]
  /\ dtor' = "notify_all"
  /\ UNCHANGED <<queue, d, threadVars, callerVars, runs>>

\* Mutant: ready.notify_all() is forgotten.
NotifyAllForgotten ==
  /\ dtor = "notify_all"
  /\ d' = d + 1
  /\ dtor' = "set_done"
  /\ UNCHANGED <<queue, at, k, f, done, callerVars, runs>>

\* ... then without it.
NotifyAll ==
  /\ dtor = "notify_all"
  /\ at' = Woken(d)
  /\ d' = d + 1
  /\ dtor' = "set_done"
  /\ UNCHANGED <<queue, k, f, done, callerVars, runs>>

AllDone ==
  /\ dtor = "set_done"
  /\ d = N
  /\ d' = 0
  /\ dtor' = "join"
  /\ UNCHANGED <<queue, done, threadVars, callerVars, runs>>

Join ==
  /\ dtor = "join"
  /\ d < N
  /\ at[d] = "exited"
  /\ d' = d + 1
  /\ UNCHANGED <<queue, dtor, done, threadVars, callerVars, runs>>

Destroyed ==
  /\ dtor = "join"
  /\ d = N
  /\ dtor' = "destroyed"
  /\ UNCHANGED <<queue, d, done, threadVars, callerVars, runs>>

DestructorStep == SetDone \/ NotifyAll \/ AllDone \/ Join \/ Destroyed

Gone == dtor = "destroyed" /\ UNCHANGED allVars

ThreadPoolNext ==
  \/ \E w \in Thread : RunStep(w) \/ SpuriousWakeup(w)
  \/ \E c \in Caller : PushStep(c) \/ \E t \in Task : PushTask(c, t)
  \/ Destructor \/ DestructorStep
  \/ Gone

ThreadPoolSpec == PInit /\ [][ThreadPoolNext]_allVars

\* The scheduler of the system runs every thread; a task returns.  Nothing
\* obliges a caller to push one more task or to destroy the pool, and a
\* thread blocked on a condition variable may count on no spurious wakeup.
FairThreadPoolSpec ==
  /\ ThreadPoolSpec
  /\ \A w \in Thread : WF_allVars(RunStep(w))
  /\ \A c \in Caller : WF_allVars(PushStep(c))
  /\ WF_allVars(DestructorStep)

----------------------------------------------------------------------------

ThreadPoolTypeOK ==
  /\ queue \in [Thread -> Seq(Task)]
  /\ done \in [Thread -> BOOLEAN]
  /\ at \in [Thread -> ThreadAt]
  /\ k \in [Thread -> 0 .. N]
  /\ f \in [Thread -> Task \cup {NoTask}]
  /\ idx \in 0 .. IdxMod - 1
  /\ callerAt \in [Caller -> CallerAt]
  /\ first \in [Caller -> 0 .. IdxMod - 1]
  /\ tries \in [Caller -> 0 .. N]
  /\ arg \in [Caller -> Task \cup {NoTask}]
  /\ notify \in [Caller -> Thread]
  /\ dtor \in DtorAt
  /\ d \in 0 .. N
  /\ given \subseteq Task
  /\ runs \in [Task -> Nat]

(* A task is executed at most once, although several threads try to take   *)
(* it from the same queue.                                                 *)
RunsOnce == \A t \in Task : runs[t] <= 1

(* No lost wakeup: a thread is blocked on its queue while there is a task  *)
(* in it, or after the queue is done, only if a notification is coming.    *)
NoLostNotification ==
  \A w \in Thread : at[w] = "blocked" =>
    /\ queue[w] # <<>> => \E c \in Caller : callerAt[c] = "notify" /\ notify[c] = w
    /\ done[w] => dtor = "notify_all" /\ d = w

(* Joining the threads leaves no task behind, in particular not in the     *)
(* queue of a thread that has exited before another one.                   *)
NothingLeftBehind ==
  dtor = "destroyed" => \A t \in given : runs[t] = 1

(* A task that has been pushed is executed.                                *)
EveryTaskRuns == \A t \in Task : (t \in given) ~> (runs[t] = 1)

(* The destructor returns.                                                 *)
DestructorReturns == (dtor = "set_done") ~> (dtor = "destroyed")

(* The pool implements TaskPool.                                           *)
Owner ==
  [t \in Task |->
    IF t \notin given THEN "caller"
    ELSE IF runs[t] > 0 THEN "nobody"
    ELSE IF \E w \in Thread : f[w] = t THEN "thread"
    ELSE "pool"]

Abstract == INSTANCE TaskPool
  WITH NThreads <- N, owner <- Owner, destroyed <- (dtor = "destroyed")

ImplementsTaskPool == Abstract!PoolSpec

=============================================================================
