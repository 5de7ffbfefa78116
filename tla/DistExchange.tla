---------------------------- MODULE DistExchange -----------------------------
(* The gather and the scatter of a distributed array by one-sided               *)
(* communication. Each rank builds a task graph and runs its tasks in any order *)
(* that the dependencies allow (TaskExecution), then, for a scatter, waits for  *)
(* the others. The MPI_Get and MPI_Put that a task launches happen at any time  *)
(* before MPI_Win_unlock_all returns.                                           *)
(* Every rank runs the same Program: "assign" writes the local part under a     *)
(* dist_guard, "scatter" and "gather" are the eager functions.                  *)
EXTENDS PermutationOps, Functions

CONSTANTS NRank, NElt,  \* the ranks, and the size of the array
          Wanted,       \* Wanted[r]: the ids that rank r may gather
          Program       \* the operations, in order

ASSUME ExchangeAssumption ==
  /\ NRank \in Nat \ {0} /\ NElt \in Nat \ {0}
  /\ Wanted \in [0 .. NRank - 1 -> SUBSET Seq(0 .. NElt - 1)]
  /\ Program \in Seq({"assign", "scatter", "gather"})

Ranks == 0 .. NRank - 1
Elts == 0 .. NElt - 1
Tasks == {"input", "open", "protocol", "alloc", "perm_values", "get", "put", "close", "perm", "extract"}

VARIABLES distri,
          memory,    \* memory[r]: the local part of rank r
          sent,      \* sent[r]: the ids that rank r scatters
          ids,       \* ids[r]: what rank r exchanges in its operation
          op,        \* op[r]: the number of the operation rank r is in
          done,      \* done[r]: the tasks of it that are executed
          protocol,  \* the results of the tasks
          buffer,    \* buffer[r]: the gathered, or the permuted values
          pending,   \* pending[r]: the elements whose communication is not done
          locked,    \* locked[r]: how many times rank r has the window locked
          arrived,   \* the ranks in a barrier
          result     \* result[r]: what the gathers of rank r have returned

exchVars == <<distri, sent, memory, ids, op, done, protocol, buffer, pending, locked, arrived, result>>

Each(v) == [r \in Ranks |-> v]
Garbage == -1
PartSize(d, r) == d[r + 2] - d[r + 1]
(* The value of element i after the n-th operation.                             *)
Value(i, n) == n * NElt + i

IdsUpto(S, n) == UNION {[1 .. m -> S] : m \in 0 .. n}
(* A scatter gives a value to every element, and only once.                     *)
Scattered(to) ==
  /\ \A r \in Ranks : IsInjective(to[r])
  /\ \A r, q \in Ranks : r # q => Range(to[r]) \cap Range(to[q]) = {}
  /\ UNION {Range(to[r]) : r \in Ranks} = Elts

ExchInit ==
  /\ distri \in {d \in [1 .. NRank + 1 -> 0 .. NElt] :
                   /\ d[1] = 0 /\ d[NRank + 1] = NElt
                   /\ \A k \in 1 .. NRank : d[k] <= d[k + 1]}
  /\ memory = [r \in Ranks |-> [k \in 1 .. PartSize(distri, r) |-> Garbage]]
  /\ IF "scatter" \in Range(Program)
       THEN sent \in {s \in [Ranks -> IdsUpto(Elts, NElt)] : Scattered(s)}
       ELSE sent = Each(<<>>)
  /\ ids = Each(<<>>)
  /\ op = Each(1)
  /\ done = Each({})
  /\ protocol = Each(<<>>) /\ buffer = Each(<<>>) /\ pending = Each({})
  /\ locked = Each(0)
  /\ arrived = {}
  /\ result = Each(<<>>)

-----------------------------------------------------------------------------
Op(r) == IF op[r] <= Len(Program) THEN Program[op[r]] ELSE "end"
Places(r) == protocol[r].places

(* The graph of a gather and that of a scatter: what each task is attached to.  *)
(* "input" is all the input_data of the call; local_array_fn does nothing.      *)
GraphOf(kind) ==
  IF kind = "gather" THEN {"input", "open", "protocol", "alloc", "get", "close", "perm", "extract"}
  ELSE IF kind = "scatter" THEN {"input", "open", "protocol", "perm_values", "put", "close"}
  ELSE {}
Attached ==
  ({"open", "protocol", "alloc"} \X {"input"})
  \cup ({"get"} \X {"open", "protocol", "alloc"})
  \cup {<<"perm_values", "protocol">>}
  \cup ({"put"} \X {"open", "protocol", "perm_values"})
  \cup ({"close"} \X {"get", "put"})
  \cup ({"perm"} \X {"close", "alloc", "protocol"})
  \cup {<<"extract", "perm">>}
(* Mutant: the permutation does not wait for the end of the epoch.              *)
DepsNoClose(task) ==
  {t \in Tasks : <<task, t>> \in (Attached \ {<<"perm", "close">>}) \cup {<<"perm", "get">>}}
Deps(task) == {t \in Tasks : <<task, t>> \in Attached}

Runs(r, task) ==
  /\ task \in GraphOf(Op(r)) \ done[r]
  /\ Deps(task) \cap GraphOf(Op(r)) \subseteq done[r]
  /\ done' = [done EXCEPT ![r] = @ \cup {task}]

(* input_data: a gather is given some ids, a scatter its own.                   *)
Input(r) ==
  /\ Runs(r, "input")
  /\ \E given \in IF Op(r) = "gather" THEN Wanted[r] ELSE {sent[r]} :
       ids' = [ids EXCEPT ![r] = given]
  /\ UNCHANGED <<distri, sent, memory, op, protocol, buffer, pending, locked, arrived, result>>

(* open_epoch: MPI_Win_lock_all. The locks are shared.                          *)
Open(r) ==
  /\ Runs(r, "open")
  /\ locked' = [locked EXCEPT ![r] = @ + 1]
  /\ UNCHANGED <<distri, sent, memory, ids, op, protocol, buffer, pending, arrived, result>>

(* create_gather_protocol, create_exchange_protocol.                            *)
CreateProtocol(r) ==
  /\ Runs(r, "protocol")
  /\ \E new_to_old \in NewToOlds(distri, ids[r]) :
       protocol' = [protocol EXCEPT ![r] = Protocol(distri, ids[r], new_to_old)]
  /\ UNCHANGED <<distri, sent, memory, ids, op, buffer, pending, locked, arrived, result>>

(* alloc_result_fn, permute_values_fn.                                          *)
Alloc(r) ==
  /\ Runs(r, "alloc")
  /\ buffer' = [buffer EXCEPT ![r] = [n \in 1 .. Len(ids[r]) |-> Garbage]]
  /\ UNCHANGED <<distri, sent, memory, ids, op, protocol, pending, locked, arrived, result>>
PermValues(r) ==
  LET values == [n \in 1 .. Len(ids[r]) |-> Value(ids[r][n], op[r])]
  IN  /\ Runs(r, "perm_values")
      /\ buffer' = [buffer EXCEPT ![r] = Permuted(values, protocol[r].new_to_old)]
      /\ UNCHANGED <<distri, sent, memory, ids, op, protocol, pending, locked, arrived, result>>

(* get_protocol_indexed, put_protocol_indexed: for each rank, one MPI_Get or    *)
(* MPI_Put of the elements at the positions of the protocol. The lambdas that   *)
(* call get_protocol_indexed return the buffer by value, while the MPI_Gets are *)
(* pending on it: that copy is read by nobody, and the model has one buffer, the*)
(* result of the task that has allocated it.                                    *)
Launch(r) ==
  /\ Runs(r, "get") \/ Runs(r, "put")
  /\ pending' = [pending EXCEPT ![r] = 1 .. Len(Places(r))]
  /\ UNCHANGED <<distri, sent, memory, ids, op, protocol, buffer, locked, arrived, result>>

(* MPI: the communication of one element.                                       *)
Communicate(r, n) ==
  LET owner == Places(r)[n][1]
      place == Places(r)[n][2] + 1
  IN  /\ n \in pending[r]
      /\ pending' = [pending EXCEPT ![r] = @ \ {n}]
      /\ IF Op(r) = "gather"
           THEN buffer' = [buffer EXCEPT ![r][n] = memory[owner][place]] /\ UNCHANGED memory
           ELSE memory' = [memory EXCEPT ![owner][place] = buffer[r][n]] /\ UNCHANGED buffer
      /\ UNCHANGED <<distri, sent, ids, op, done, protocol, locked, arrived, result>>

(* close_epoch: MPI_Win_unlock_all returns when the communications of this rank *)
(* are complete.                                                                *)
Close(r) ==
  /\ pending[r] = {}
  /\ Runs(r, "close")
  /\ locked' = [locked EXCEPT ![r] = @ - 1]
  /\ UNCHANGED <<distri, sent, memory, ids, op, protocol, buffer, pending, arrived, result>>

PermutedBack(r) == InvPermuted(buffer[r], protocol[r].new_to_old)
Perm(r) ==
  /\ Runs(r, "perm")
  /\ buffer' = [buffer EXCEPT ![r] = PermutedBack(r)]
  /\ UNCHANGED <<distri, sent, memory, ids, op, protocol, pending, locked, arrived, result>>

Extract(r) ==
  /\ Runs(r, "extract")
  /\ result' = [result EXCEPT ![r] = Append(@, [op |-> op[r], ids |-> ids[r], values |-> buffer[r]])]
  /\ UNCHANGED <<distri, sent, memory, ids, op, protocol, buffer, pending, locked, arrived>>

(* Under a dist_guard the local part is written and unlocked.                   *)
Assign(r) ==
  /\ Op(r) = "assign" /\ done[r] = {}
  /\ memory' = [memory EXCEPT ![r] = [k \in 1 .. Len(@) |-> Value(distri[r + 1] + k - 1, op[r])]]
  /\ done' = [done EXCEPT ![r] = {"close"}]
  /\ UNCHANGED <<distri, sent, ids, op, protocol, buffer, pending, locked, arrived, result>>

Finished(r) == Op(r) # "end" /\ done[r] = IF Op(r) = "assign" THEN {"close"} ELSE GraphOf(Op(r))
NextOp(r) == op' = [op EXCEPT ![r] = @ + 1] /\ done' = [done EXCEPT ![r] = {}]

(* A gather returns at once.                                                    *)
ReturnGather(r) ==
  /\ Op(r) = "gather" /\ Finished(r)
  /\ NextOp(r)
  /\ UNCHANGED <<distri, sent, memory, ids, protocol, buffer, pending, locked, arrived, result>>

NeedsBarrier(r) == Op(r) # "gather"
(* MPI_Barrier at the end of an eager scatter and of a dist_guard.              *)
Arrive(r) ==
  /\ Finished(r) /\ NeedsBarrier(r)
  /\ r \notin arrived
  /\ arrived' = arrived \cup {r}
  /\ UNCHANGED <<distri, sent, memory, ids, op, done, protocol, buffer, pending, locked, result>>
(* Mutant: the first rank that arrives goes on.                                 *)
LeaveAlone ==
  /\ arrived # {}
  /\ arrived' = {}
  /\ op' = [r \in Ranks |-> IF r \in arrived THEN op[r] + 1 ELSE op[r]]
  /\ done' = [r \in Ranks |-> IF r \in arrived THEN {} ELSE done[r]]
  /\ UNCHANGED <<distri, sent, memory, ids, protocol, buffer, pending, locked, result>>
Leave ==
  /\ arrived = Ranks
  /\ arrived' = {}
  /\ op' = [r \in Ranks |-> op[r] + 1]
  /\ done' = Each({})
  /\ UNCHANGED <<distri, sent, memory, ids, protocol, buffer, pending, locked, result>>

AllEnded == (\A r \in Ranks : Op(r) = "end") /\ UNCHANGED exchVars

RankNext(r) ==
  \/ Input(r) \/ Open(r) \/ CreateProtocol(r) \/ Alloc(r) \/ PermValues(r) \/ Launch(r)
  \/ \E n \in pending[r] : Communicate(r, n)
  \/ Close(r) \/ Perm(r) \/ Extract(r) \/ Assign(r) \/ ReturnGather(r) \/ Arrive(r)

ExchNext == (\E r \in Ranks : RankNext(r)) \/ Leave \/ AllEnded

ExchSpec == ExchInit /\ [][ExchNext]_exchVars

-----------------------------------------------------------------------------
(* The n-th gather returns, in the order of the ids it was given, the values of *)
(* the elements after the last assignment or scatter before it.                 *)
LastWrite(n) ==
  CHOOSE m \in 1 .. n : Program[m] # "gather" /\ \A k \in m + 1 .. n : Program[k] = "gather"
GatherReturnsArray ==
  \A r \in Ranks : \A k \in 1 .. Len(result[r]) :
    LET res == result[r][k]
    IN  res.values = [n \in 1 .. Len(res.ids) |-> Value(res.ids[n], LastWrite(res.op))]

(* When a rank has returned from a scatter, its part has all the values that    *)
(* the ranks have sent to it.                                                   *)
ScatterIsVisible ==
  \A r \in Ranks :
    op[r] > 1 /\ done[r] = {} /\ Program[op[r] - 1] # "gather" =>
      \A k \in 1 .. Len(memory[r]) : memory[r][k] >= Value(distri[r + 1] + k - 1, op[r] - 1)

(* No element is communicated out of an epoch, to a place that is not in the    *)
(* part of its rank, or when its buffer is used or given back; the parts and    *)
(* rank_offset agree on the place of each element.                              *)
CommunicationIsCovered ==
  \A r \in Ranks : pending[r] # {} =>
    /\ locked[r] = 1
    /\ done[r] \cap {"close", "perm", "extract"} = {}
    /\ \A n \in pending[r] :
         /\ Places(r)[n] = RankOffset(Permuted(ids[r], protocol[r].new_to_old)[n], distri)
         /\ Places(r)[n][2] \in 0 .. PartSize(distri, Places(r)[n][1]) - 1
=============================================================================
