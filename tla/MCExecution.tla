----------------------------- MODULE MCExecution -----------------------------
(* Instances of the two parts of the execution that do without each other: the  *)
(* sequential schedule, and the thread pool with tasks that are not in a graph. *)
EXTENDS SeqSchedule, ThreadPool

VARIABLE ran  \* "schedule" or "pool": the other one is left as it starts

ExecutionInit ==
  /\ ran \in {"schedule", "pool"}
  /\ SeqInit
  /\ PInit

ExecutionNext ==
  /\ UNCHANGED ran
  /\ \/ ran = "schedule" /\ SeqNext /\ UNCHANGED allVars
     \/ ran = "pool" /\ ThreadPoolNext /\ UNCHANGED seqVars

(* As FairThreadPoolSpec, as long as there is a pool. The sequential schedule   *)
(* is not asked to go on.                                                       *)
FairExecutionSpec ==
  /\ ExecutionInit /\ [][ExecutionNext]_<<ran, seqVars, allVars>>
  /\ \A w \in Thread : WF_allVars(ran = "pool" /\ RunStep(w))
  /\ \A c \in Caller : WF_allVars(ran = "pool" /\ PushStep(c))
  /\ WF_allVars(ran = "pool" /\ DestructorStep)
=============================================================================
