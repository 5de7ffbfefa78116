--------------------------- MODULE ExchangeProofs ----------------------------
(* The proofs about DistExchange, for every number of ranks, distribution,      *)
(* choice of ids and program, and every order of the tasks and communications:  *)
(* the arithmetic of the protocols, then three invariants, each over the one    *)
(* before. ControlInv: the tasks, the epochs and the barriers. DataInv: what is *)
(* in the parts of the array. GatherInv, ResultInv: what the gathers return.    *)
EXTENDS DistExchange, SeqLemmas

----------------------------------------------------------------------------
(* Distributions, and the protocol of a communication. *)

IsDistribution(d) == IsDistributionOf(d, NRank, NElt)

LEMMA DistributionSorted ==
  ASSUME NEW d, IsDistribution(d)
  PROVE  \A j, k \in 1 .. NRank + 1 : j <= k => d[j] <= d[k]
  BY PartsSorted, ExchangeAssumption DEF IsDistribution

\* rank_offset gives the rank that has the element, and where it is in its part.
LEMMA PlaceFact ==
  ASSUME NEW d, IsDistribution(d), NEW i \in Elts
  PROVE  /\ RankOffset(i, d)[1] \in Ranks
         /\ RankOffset(i, d)[2] \in 0 .. PartSize(d, RankOffset(i, d)[1]) - 1
         /\ i = d[RankOffset(i, d)[1] + 1] + RankOffset(i, d)[2]
  BY OffsetFact, ExchangeAssumption DEF IsDistribution, Ranks, Elts, PartSize

LEMMA PlaceUnique ==
  ASSUME NEW d, IsDistribution(d), NEW q \in Ranks, NEW k \in 1 .. PartSize(d, q)
  PROVE  d[q + 1] + k - 1 \in Elts /\ RankOffset(d[q + 1] + k - 1, d) = <<q, k - 1>>
<1> DEFINE i == d[q + 1] + k - 1
           rho == RankOffset(i, d)[1]
           o == RankOffset(i, d)[2]
<1>1. /\ NRank \in Nat /\ q + 1 \in 1 .. NRank + 1 /\ q + 2 \in 1 .. NRank + 1
      /\ \A j \in 1 .. NRank + 1 : d[j] \in 0 .. NElt
      /\ k \in Int /\ 1 <= k /\ k <= d[q + 2] - d[q + 1]
  BY ExchangeAssumption DEF IsDistribution, IsDistributionOf, Ranks, PartSize
<1>2. i \in Elts /\ d[q + 1] <= i /\ i < d[q + 2]
  <2>1. d[q + 1] \in 0 .. NElt /\ d[q + 2] \in 0 .. NElt
    BY <1>1
  <2>2. NElt \in Nat /\ k \in Int /\ 1 <= k /\ k <= d[q + 2] - d[q + 1]
    BY <1>1, ExchangeAssumption
  <2>3. i \in 0 .. NElt - 1 /\ d[q + 1] <= i /\ i < d[q + 2]
    <3> HIDE DEF rho, o
    <3> QED
      BY <2>1, <2>2
  <2> QED
    BY <2>3 DEF Elts
<1>3. /\ rho \in Ranks /\ rho + 1 \in 1 .. NRank + 1 /\ rho + 2 \in 1 .. NRank + 1
      /\ o \in Int /\ 0 <= o /\ o < d[rho + 2] - d[rho + 1] /\ i = d[rho + 1] + o
  <2>1. rho \in Ranks /\ o \in 0 .. PartSize(d, rho) - 1 /\ i = d[rho + 1] + o
    BY <1>2, PlaceFact
  <2>2. rho \in Int /\ rho + 1 \in 1 .. NRank + 1 /\ rho + 2 \in 1 .. NRank + 1
    BY <2>1, ExchangeAssumption DEF Ranks
  <2> QED
    BY <1>1, <2>1, <2>2 DEF PartSize
<1>4. RankOffset(i, d) = <<rho, o>>
  BY DEF RankOffset
<1> HIDE DEF i, rho, o
<1>5. rho = q
  <2>1. CASE rho < q
    <3>1. d[rho + 2] <= d[q + 1]
      BY <1>1, <1>3, <2>1, DistributionSorted DEF Ranks
    <3> QED
      BY <1>1, <1>2, <1>3, <3>1
  <2>2. CASE q < rho
    <3>1. d[q + 2] <= d[rho + 1]
      BY <1>1, <1>3, <2>2, DistributionSorted DEF Ranks
    <3> QED
      BY <1>1, <1>2, <1>3, <3>1
  <2> QED
    BY <1>1, <1>3, <2>1, <2>2 DEF Ranks
<1>6. o = k - 1
  BY <1>1, <1>3, <1>5 DEF i
<1> QED
  BY <1>2, <1>4, <1>5, <1>6 DEF i

\* The exchanged ids are the given ones.
LEMMA SortedFact ==
  ASSUME NEW d, NEW s \in Seq(Elts), NEW p \in NewToOlds(d, s)
  PROVE  /\ Len(s) \in Nat /\ p \in [1 .. Len(s) -> 0 .. Len(s) - 1]
         /\ \A a, b \in 1 .. Len(s) : a # b => p[a] # p[b]
         /\ Permuted(s, p) = [n \in 1 .. Len(s) |-> s[p[n] + 1]]
         /\ \A n \in 1 .. Len(s) : p[n] + 1 \in 1 .. Len(s) /\ Permuted(s, p)[n] \in Elts
         /\ \A m \in 1 .. Len(s) : \E n \in 1 .. Len(s) : Permuted(s, p)[n] = s[m]
  BY GroupedFact

LEMMA SortedOnto ==
  ASSUME NEW d, NEW s \in Seq(Elts), NEW p \in NewToOlds(d, s), NEW m \in 1 .. Len(s)
  PROVE  \E n \in 1 .. Len(s) : Permuted(s, p)[n] = s[m]
  BY SortedFact

\* The protocol finds each element where rank_offset says it is.
LEMMA ProtocolFact ==
  ASSUME NEW d, IsDistribution(d), NEW s \in Seq(Elts), NEW p \in NewToOlds(d, s)
  PROVE  Protocol(d, s, p) =
           [places |-> [n \in 1 .. Len(s) |-> RankOffset(Permuted(s, p)[n], d)], new_to_old |-> p]
  BY GroupedProtocol, ExchangeAssumption DEF IsDistribution, Elts

----------------------------------------------------------------------------
(* The control: the tasks, the epochs and the barriers. *)

ControlTypeOK ==
  /\ IsDistribution(distri)
  /\ sent \in [Ranks -> Seq(Elts)] /\ ids \in [Ranks -> Seq(Elts)]
  /\ op \in [Ranks -> 1 .. Len(Program) + 1]
  /\ done \in [Ranks -> SUBSET Tasks]
  /\ DOMAIN protocol = Ranks
  /\ pending \in [Ranks -> SUBSET Nat]
  /\ locked \in [Ranks -> Nat]
  /\ arrived \subseteq Ranks

\* The tasks are executed in the order of their graph.
GraphInv ==
  \A r \in Ranks :
    /\ done[r] \subseteq IF Op(r) = "assign" THEN {"close"} ELSE GraphOf(Op(r))
    /\ \A t \in done[r] : Deps(t) \cap GraphOf(Op(r)) \subseteq done[r]

\* Between two ranks that are not in the same operation, there is no barrier.
SyncInv == \A r, q \in Ranks : \A n \in op[r] .. op[q] - 1 : Program[n] = "gather"
BarrierInv == \A r \in arrived : Finished(r) /\ NeedsBarrier(r)

\* The elements are communicated within the epoch.
EpochInv ==
  \A r \in Ranks :
    /\ locked[r] = IF "open" \in done[r] /\ "close" \notin done[r] THEN 1 ELSE 0
    /\ pending[r] # {} => ("get" \in done[r] \/ "put" \in done[r]) /\ "close" \notin done[r]
    /\ pending[r] \subseteq 1 .. Len(ids[r])

ProtocolInv ==
  \A r \in Ranks :
    /\ "protocol" \in done[r] =>
         \E p \in NewToOlds(distri, ids[r]) : protocol[r] = Protocol(distri, ids[r], p)
    /\ Op(r) = "scatter" /\ "input" \in done[r] => ids[r] = sent[r]

ControlInv ==
  ControlTypeOK /\ GraphInv /\ SyncInv /\ BarrierInv /\ EpochInv /\ ProtocolInv

LEMMA DepsFact ==
  /\ "input" \in Deps("open") /\ "input" \in Deps("protocol") /\ "input" \in Deps("alloc")
  /\ "open" \in Deps("get") /\ "protocol" \in Deps("get") /\ "alloc" \in Deps("get")
  /\ "protocol" \in Deps("perm_values")
  /\ "open" \in Deps("put") /\ "protocol" \in Deps("put") /\ "perm_values" \in Deps("put")
  /\ "get" \in Deps("close") /\ "put" \in Deps("close")
  /\ "close" \in Deps("perm") /\ "perm" \in Deps("extract")
  BY DEF Deps, Attached, Tasks

LEMMA GraphFact ==
  ASSUME GraphInv, NEW r \in Ranks
  PROVE  /\ Op(r) = "assign" => done[r] \subseteq {"close"}
         /\ Op(r) \notin {"assign", "gather", "scatter"} => done[r] = {}
         /\ Op(r) = "gather" =>
              /\ done[r] \subseteq GraphOf("gather")
              /\ "put" \notin done[r] /\ "perm_values" \notin done[r]
              /\ "protocol" \in done[r] => "input" \in done[r]
              /\ "open" \in done[r] => "input" \in done[r]
              /\ "alloc" \in done[r] => "input" \in done[r]
              /\ "get" \in done[r] =>
                   "open" \in done[r] /\ "protocol" \in done[r] /\ "alloc" \in done[r]
              /\ "close" \in done[r] => "get" \in done[r]
              /\ "perm" \in done[r] => "close" \in done[r]
              /\ "extract" \in done[r] => "perm" \in done[r]
         /\ Op(r) = "scatter" =>
              /\ done[r] \subseteq GraphOf("scatter")
              /\ {"alloc", "get", "perm", "extract"} \cap done[r] = {}
              /\ "protocol" \in done[r] => "input" \in done[r]
              /\ "open" \in done[r] => "input" \in done[r]
              /\ "perm_values" \in done[r] => "protocol" \in done[r]
              /\ "put" \in done[r] =>
                   "open" \in done[r] /\ "protocol" \in done[r] /\ "perm_values" \in done[r]
              /\ "close" \in done[r] => "put" \in done[r]
<1>1. CASE Op(r) = "gather"
  <2>1. /\ done[r] \subseteq GraphOf("gather")
        /\ \A t \in done[r] : Deps(t) \cap GraphOf("gather") \subseteq done[r]
    BY <1>1 DEF GraphInv
  <2>2. GraphOf("gather")
          = {"input", "open", "protocol", "alloc", "get", "close", "perm", "extract"}
    BY DEF GraphOf
  <2> HIDE DEF GraphOf
  <2>3. \A t \in done[r], u \in GraphOf("gather") : u \in Deps(t) => u \in done[r]
    BY <2>1
  <2> QED
    BY <1>1, <2>1, <2>2, <2>3, DepsFact
<1>2. CASE Op(r) = "scatter"
  <2>1. /\ done[r] \subseteq GraphOf("scatter")
        /\ \A t \in done[r] : Deps(t) \cap GraphOf("scatter") \subseteq done[r]
    BY <1>2 DEF GraphInv
  <2>2. GraphOf("scatter") = {"input", "open", "protocol", "perm_values", "put", "close"}
    BY DEF GraphOf
  <2>3. \A t \in done[r], u \in GraphOf("scatter") : u \in Deps(t) => u \in done[r]
    BY <2>1
  <2> QED
    BY <1>2, <2>1, <2>2, <2>3, DepsFact
<1>3. CASE Op(r) \notin {"gather", "scatter"}
  BY <1>3 DEF GraphInv, GraphOf
<1> QED
  BY <1>1, <1>2, <1>3

\* A task: what does not depend on what it does.
LEMMA RunsKeeps ==
  ASSUME ControlInv, NEW r \in Ranks, NEW task, Runs(r, task),
         UNCHANGED <<distri, sent, op, arrived>>
  PROVE  /\ done' \in [Ranks -> SUBSET Tasks]
         /\ GraphInv' /\ SyncInv' /\ BarrierInv'
         /\ Op(r) \in {"gather", "scatter"} /\ task \in GraphOf(Op(r)) /\ task \notin done[r]
         /\ done'[r] = done[r] \cup {task}
         /\ \A q \in Ranks : q # r => done'[q] = done[q]
         /\ \A q \in Ranks : Op(q)' = Op(q)
         /\ \A q \in Ranks : \A t : t \in done'[q] <=> t \in done[q] \/ (q = r /\ t = task)
<1> USE DEF ControlInv, ControlTypeOK
<1>1. /\ Op(r) \in {"gather", "scatter"} /\ task \in GraphOf(Op(r)) /\ task \notin done[r]
      /\ task \in Tasks /\ Deps(task) \cap GraphOf(Op(r)) \subseteq done[r]
  BY DEF Runs, GraphOf, Tasks
<1>2. /\ done'[r] = done[r] \cup {task} /\ \A q \in Ranks : q # r => done'[q] = done[q]
      /\ DOMAIN done' = Ranks /\ done' = [q \in Ranks |-> done'[q]]
  BY DEF Runs
<1>3. done' \in [Ranks -> SUBSET Tasks]
  BY <1>1, <1>2
<1>4. \A q \in Ranks : Op(q)' = Op(q)
  BY DEF Op
<1>5. GraphInv'
  <2> SUFFICES ASSUME NEW q \in Ranks
               PROVE  /\ done'[q] \subseteq IF Op(q) = "assign" THEN {"close"} ELSE GraphOf(Op(q))
                      /\ \A t \in done'[q] : Deps(t) \cap GraphOf(Op(q)) \subseteq done'[q]
    BY <1>4 DEF GraphInv
  <2>1. CASE q = r
    BY <1>1, <1>2, <2>1 DEF GraphInv
  <2>2. CASE q # r
    BY <1>2, <2>2 DEF GraphInv
  <2> QED
    BY <2>1, <2>2
<1>6. SyncInv'
  BY DEF SyncInv
<1>7. BarrierInv'
  <2>1. ~ Finished(r)
    BY <1>1 DEF Finished
  <2>2. \A q \in arrived : q # r /\ q \in Ranks
    BY <2>1 DEF BarrierInv
  <2>3. \A q \in arrived : Finished(q)' /\ NeedsBarrier(q)'
    BY <1>2, <1>4, <2>2 DEF BarrierInv, Finished, NeedsBarrier
  <2> QED
    BY <2>3 DEF BarrierInv
<1>8. \A q \in Ranks : \A t : t \in done'[q] <=> t \in done[q] \/ (q = r /\ t = task)
  BY <1>2
<1> QED
  BY <1>1, <1>2, <1>3, <1>4, <1>5, <1>6, <1>7, <1>8

LEMMA RunsKeepsEpoch ==
  ASSUME ControlInv, NEW r \in Ranks, NEW task, Runs(r, task),
         UNCHANGED <<distri, sent, op, arrived, ids, pending, locked>>,
         task \notin {"open", "get", "put", "close"}
  PROVE  EpochInv'
<1>1. \A q \in Ranks : \A t \in {"open", "get", "put", "close"} : t \in done'[q] <=> t \in done[q]
  BY RunsKeeps
<1> QED
  BY <1>1 DEF ControlInv, EpochInv

LEMMA RunsKeepsProtocol ==
  ASSUME ControlInv, NEW r \in Ranks, NEW task, Runs(r, task),
         UNCHANGED <<distri, sent, op, arrived, ids, protocol>>,
         task \notin {"input", "protocol"}
  PROVE  ProtocolInv'
<1>1. \A q \in Ranks : \A t \in {"input", "protocol"} : t \in done'[q] <=> t \in done[q]
  BY RunsKeeps
<1>2. \A q \in Ranks : Op(q)' = Op(q)
  BY RunsKeeps
<1> QED
  BY <1>1, <1>2 DEF ControlInv, ProtocolInv

LEMMA ControlInit == ExchInit => ControlInv
<1> SUFFICES ASSUME ExchInit PROVE ControlInv
  OBVIOUS
<1> USE ExchangeAssumption
<1>1. IsDistribution(distri)
  BY DEF ExchInit, IsDistribution, IsDistributionOf
<1>2. sent \in [Ranks -> Seq(Elts)]
  <2>1. IdsUpto(Elts, NElt) \subseteq Seq(Elts)
    BY DEF IdsUpto
  <2>2. <<>> \in Seq(Elts)
    OBVIOUS
  <2> QED
    BY <2>1, <2>2 DEF ExchInit, Each
<1>3. /\ ids = [r \in Ranks |-> <<>>] /\ op = [r \in Ranks |-> 1] /\ done = [r \in Ranks |-> {}]
      /\ DOMAIN protocol = Ranks /\ pending = [r \in Ranks |-> {}]
      /\ locked = [r \in Ranks |-> 0] /\ arrived = {}
  BY DEF ExchInit, Each
<1>4. Len(Program) \in Nat
  OBVIOUS
<1>5. <<>> \in Seq(Elts)
  OBVIOUS
<1>6. ControlTypeOK
  <2>1. ids \in [Ranks -> Seq(Elts)]
    BY <1>3, <1>5
  <2>2. op \in [Ranks -> 1 .. Len(Program) + 1]
    BY <1>3, <1>4
  <2>3. done \in [Ranks -> SUBSET Tasks] /\ pending \in [Ranks -> SUBSET Nat] /\ locked \in [Ranks -> Nat]
    BY <1>3
  <2> QED
    BY <1>1, <1>2, <1>3, <2>1, <2>2, <2>3 DEF ControlTypeOK
<1>7. GraphInv /\ BarrierInv /\ ProtocolInv
  BY <1>3 DEF GraphInv, BarrierInv, ProtocolInv
<1>8. SyncInv
  BY <1>3 DEF SyncInv
<1>9. EpochInv
  BY <1>3 DEF EpochInv
<1> QED
  BY <1>6, <1>7, <1>8, <1>9 DEF ControlInv

LEMMA ControlInput ==
  ASSUME ControlInv, NEW r \in Ranks, Input(r) PROVE ControlInv'
<1> USE DEF ControlInv, ControlTypeOK
<1>1. /\ Runs(r, "input")
      /\ UNCHANGED <<distri, sent, memory, op, protocol, buffer, pending, locked, arrived, result>>
  BY DEF Input
<1>2. PICK given \in Seq(Elts) : /\ ids' = [ids EXCEPT ![r] = given]
                                 /\ Op(r) = "scatter" => given = sent[r]
  <2>1. PICK given \in IF Op(r) = "gather" THEN Wanted[r] ELSE {sent[r]} :
          ids' = [ids EXCEPT ![r] = given]
    BY DEF Input
  <2>2. CASE Op(r) = "gather"
    BY <2>1, <2>2, ExchangeAssumption DEF Ranks, Elts
  <2>3. CASE Op(r) # "gather"
    BY <2>1, <2>3
  <2> QED
    BY <2>2, <2>3
<1>3. /\ done' \in [Ranks -> SUBSET Tasks]
      /\ GraphInv' /\ SyncInv' /\ BarrierInv'
      /\ Op(r) \in {"gather", "scatter"} /\ "input" \notin done[r]
      /\ done'[r] = done[r] \cup {"input"}
      /\ \A q \in Ranks : q # r => done'[q] = done[q]
      /\ \A q \in Ranks : Op(q)' = Op(q)
  BY <1>1, RunsKeeps
<1>4. ids' \in [Ranks -> Seq(Elts)] /\ ids'[r] = given /\ \A q \in Ranks : q # r => ids'[q] = ids[q]
  BY <1>2
<1>5. /\ "protocol" \notin done[r] /\ "get" \notin done[r] /\ "put" \notin done[r]
      /\ pending[r] = {}
  BY <1>3, GraphFact DEF EpochInv
<1>6. EpochInv'
  <2>1. \A q \in Ranks : \A t \in {"open", "get", "put", "close"} : t \in done'[q] <=> t \in done[q]
    BY <1>3
  <2>2. \A q \in Ranks : pending[q] \subseteq 1 .. Len(ids'[q])
    BY <1>4, <1>5 DEF EpochInv
  <2> QED
    BY <1>1, <2>1, <2>2 DEF EpochInv
<1>7. ProtocolInv'
  <2> SUFFICES ASSUME NEW q \in Ranks
               PROVE  /\ "protocol" \in done'[q] =>
                           \E n \in NewToOlds(distri, ids'[q]) : protocol[q] = Protocol(distri, ids'[q], n)
                      /\ Op(q) = "scatter" /\ "input" \in done'[q] => ids'[q] = sent[q]
    BY <1>1, <1>3 DEF ProtocolInv
  <2>1. CASE q = r
    BY <1>2, <1>3, <1>4, <1>5, <2>1
  <2>2. CASE q # r
    BY <1>3, <1>4, <2>2 DEF ProtocolInv
  <2> QED
    BY <2>1, <2>2
<1> QED
  BY <1>1, <1>3, <1>4, <1>6, <1>7

LEMMA ControlOpen ==
  ASSUME ControlInv, NEW r \in Ranks, Open(r) PROVE ControlInv'
<1> USE DEF ControlInv, ControlTypeOK
<1>1. /\ Runs(r, "open") /\ locked' = [locked EXCEPT ![r] = @ + 1]
      /\ UNCHANGED <<distri, sent, memory, ids, op, protocol, buffer, pending, arrived, result>>
  BY DEF Open
<1>2. /\ done' \in [Ranks -> SUBSET Tasks]
      /\ GraphInv' /\ SyncInv' /\ BarrierInv'
      /\ Op(r) \in {"gather", "scatter"} /\ "open" \notin done[r]
      /\ done'[r] = done[r] \cup {"open"}
      /\ \A q \in Ranks : q # r => done'[q] = done[q]
      /\ \A q \in Ranks : Op(q)' = Op(q)
  BY <1>1, RunsKeeps
<1>3. "close" \notin done[r]
  BY <1>2, GraphFact
<1>4. /\ locked' \in [Ranks -> Nat] /\ locked'[r] = 1
      /\ \A q \in Ranks : q # r => locked'[q] = locked[q]
  BY <1>1, <1>2 DEF EpochInv
<1>5. EpochInv'
  BY <1>1, <1>2, <1>3, <1>4 DEF EpochInv
<1>6. ProtocolInv'
  BY <1>1, RunsKeepsProtocol
<1> QED
  BY <1>1, <1>2, <1>4, <1>5, <1>6

LEMMA ControlProtocol ==
  ASSUME ControlInv, NEW r \in Ranks, CreateProtocol(r) PROVE ControlInv'
<1> USE DEF ControlInv, ControlTypeOK
<1>1. /\ Runs(r, "protocol")
      /\ UNCHANGED <<distri, sent, memory, ids, op, buffer, pending, locked, arrived, result>>
  BY DEF CreateProtocol
<1>2. PICK p \in NewToOlds(distri, ids[r]) :
        protocol' = [protocol EXCEPT ![r] = Protocol(distri, ids[r], p)]
  BY DEF CreateProtocol
<1>3. /\ done' \in [Ranks -> SUBSET Tasks]
      /\ GraphInv' /\ SyncInv' /\ BarrierInv'
      /\ Op(r) \in {"gather", "scatter"} /\ "protocol" \notin done[r]
      /\ done'[r] = done[r] \cup {"protocol"}
      /\ \A q \in Ranks : q # r => done'[q] = done[q]
      /\ \A q \in Ranks : Op(q)' = Op(q)
  BY <1>1, RunsKeeps
<1>4. /\ DOMAIN protocol' = Ranks /\ protocol'[r] = Protocol(distri, ids[r], p)
      /\ \A q \in Ranks : q # r => protocol'[q] = protocol[q]
  BY <1>2
<1>5. ProtocolInv'
  <2> SUFFICES ASSUME NEW q \in Ranks
               PROVE  /\ "protocol" \in done'[q] =>
                           \E n \in NewToOlds(distri, ids[q]) : protocol'[q] = Protocol(distri, ids[q], n)
                      /\ Op(q) = "scatter" /\ "input" \in done'[q] => ids[q] = sent[q]
    BY <1>1, <1>3 DEF ProtocolInv
  <2>1. CASE q = r
    BY <1>2, <1>3, <1>4, <2>1 DEF ProtocolInv
  <2>2. CASE q # r
    BY <1>3, <1>4, <2>2 DEF ProtocolInv
  <2> QED
    BY <2>1, <2>2
<1>6. EpochInv'
  BY <1>1, RunsKeepsEpoch
<1> QED
  BY <1>1, <1>3, <1>4, <1>5, <1>6

\* The tasks that only change the data.
LEMMA ControlData ==
  ASSUME ControlInv, NEW r \in Ranks, NEW task \in {"alloc", "perm_values", "perm", "extract"},
         Runs(r, task), UNCHANGED <<distri, sent, ids, op, protocol, pending, locked, arrived>>
  PROVE  ControlInv'
<1>1. /\ done' \in [Ranks -> SUBSET Tasks]
      /\ GraphInv' /\ SyncInv' /\ BarrierInv'
  BY RunsKeeps
<1>2. EpochInv'
  BY RunsKeepsEpoch
<1>3. ProtocolInv'
  BY RunsKeepsProtocol
<1> QED
  BY <1>1, <1>2, <1>3 DEF ControlInv, ControlTypeOK

LEMMA ControlLaunch ==
  ASSUME ControlInv, NEW r \in Ranks, Launch(r) PROVE ControlInv'
<1> USE DEF ControlInv, ControlTypeOK
<1>1. /\ pending' = [pending EXCEPT ![r] = 1 .. Len(Places(r))]
      /\ UNCHANGED <<distri, sent, memory, ids, op, protocol, buffer, locked, arrived, result>>
  BY DEF Launch
<1>2. PICK task \in {"get", "put"} : Runs(r, task)
  BY DEF Launch
<1>3. /\ done' \in [Ranks -> SUBSET Tasks]
      /\ GraphInv' /\ SyncInv' /\ BarrierInv'
      /\ Op(r) \in {"gather", "scatter"} /\ task \in GraphOf(Op(r)) /\ task \notin done[r]
      /\ done'[r] = done[r] \cup {task}
      /\ \A q \in Ranks : q # r => done'[q] = done[q]
      /\ \A q \in Ranks : Op(q)' = Op(q)
  BY <1>1, <1>2, RunsKeeps
<1>4. ProtocolInv'
  BY <1>1, <1>2, RunsKeepsProtocol
<1>5. "close" \notin done[r]
  BY <1>2, <1>3, GraphFact DEF GraphOf
<1>6. "protocol" \in done[r]
  BY <1>2, <1>3, DepsFact DEF Runs, GraphOf
<1>7. Len(Places(r)) = Len(ids[r]) /\ Len(ids[r]) \in Nat
  <2>1. PICK p \in NewToOlds(distri, ids[r]) : protocol[r] = Protocol(distri, ids[r], p)
    BY <1>6 DEF ProtocolInv
  <2>2. ids[r] \in Seq(Elts)
    OBVIOUS
  <2>3. protocol[r] = [places |-> [n \in 1 .. Len(ids[r]) |-> RankOffset(Permuted(ids[r], p)[n], distri)],
                        new_to_old |-> p]
    BY <2>1, <2>2, ProtocolFact
  <2>4. Places(r) = [n \in 1 .. Len(ids[r]) |-> RankOffset(Permuted(ids[r], p)[n], distri)]
    BY <2>3 DEF Places
  <2> QED
    BY <2>2, <2>4
<1>8. /\ pending' \in [Ranks -> SUBSET Nat] /\ pending'[r] = 1 .. Len(ids[r])
      /\ \A q \in Ranks : q # r => pending'[q] = pending[q]
  BY <1>1, <1>7
<1>9. EpochInv'
  <2> SUFFICES ASSUME NEW q \in Ranks
               PROVE  /\ locked[q] = IF "open" \in done'[q] /\ "close" \notin done'[q] THEN 1 ELSE 0
                      /\ pending'[q] # {} =>
                           ("get" \in done'[q] \/ "put" \in done'[q]) /\ "close" \notin done'[q]
                      /\ pending'[q] \subseteq 1 .. Len(ids[q])
    BY <1>1 DEF EpochInv
  <2>1. CASE q = r
    <3>1. ("open" \in done'[r] <=> "open" \in done[r]) /\ ("close" \in done'[r] <=> "close" \in done[r])
      BY <1>2, <1>3
    <3>2. "get" \in done'[r] \/ "put" \in done'[r]
      BY <1>2, <1>3
    <3> QED
      BY <1>5, <1>8, <2>1, <3>1, <3>2 DEF EpochInv
  <2>2. CASE q # r
    BY <1>3, <1>8, <2>2 DEF EpochInv
  <2> QED
    BY <2>1, <2>2
<1> QED
  BY <1>1, <1>3, <1>4, <1>8, <1>9

LEMMA ControlCommunicate ==
  ASSUME ControlInv, NEW r \in Ranks, NEW n \in pending[r], Communicate(r, n) PROVE ControlInv'
<1> USE DEF ControlInv, ControlTypeOK
<1>1. /\ pending' = [pending EXCEPT ![r] = @ \ {n}]
      /\ UNCHANGED <<distri, sent, ids, op, done, protocol, locked, arrived, result>>
  BY DEF Communicate
<1>2. pending' \in [Ranks -> SUBSET Nat] /\ \A q \in Ranks : pending'[q] \subseteq pending[q]
  BY <1>1
<1>3. \A q \in Ranks : Op(q)' = Op(q)
  BY <1>1 DEF Op
<1>4. GraphInv' /\ ProtocolInv'
  BY <1>1, <1>3 DEF GraphInv, ProtocolInv
<1>5. SyncInv' /\ BarrierInv'
  BY <1>1, <1>3 DEF SyncInv, BarrierInv, Finished, NeedsBarrier
<1>6. EpochInv'
  BY <1>1, <1>2 DEF EpochInv
<1> QED
  BY <1>1, <1>2, <1>4, <1>5, <1>6

LEMMA ControlClose ==
  ASSUME ControlInv, NEW r \in Ranks, Close(r) PROVE ControlInv'
<1> USE DEF ControlInv, ControlTypeOK
<1>1. /\ pending[r] = {} /\ Runs(r, "close") /\ locked' = [locked EXCEPT ![r] = @ - 1]
      /\ UNCHANGED <<distri, sent, memory, ids, op, protocol, buffer, pending, arrived, result>>
  BY DEF Close
<1>2. /\ done' \in [Ranks -> SUBSET Tasks]
      /\ GraphInv' /\ SyncInv' /\ BarrierInv'
      /\ Op(r) \in {"gather", "scatter"} /\ "close" \notin done[r]
      /\ done'[r] = done[r] \cup {"close"}
      /\ \A q \in Ranks : q # r => done'[q] = done[q]
      /\ \A q \in Ranks : Op(q)' = Op(q)
  BY <1>1, RunsKeeps
<1>3. ProtocolInv'
  BY <1>1, RunsKeepsProtocol
<1>4. "get" \in done[r] \/ "put" \in done[r]
  BY <1>1, <1>2, DepsFact DEF Runs, GraphOf
<1>5. "open" \in done[r]
  BY <1>2, <1>4, GraphFact
<1>6. locked[r] = 1
  BY <1>2, <1>5 DEF EpochInv
<1>7. /\ locked' \in [Ranks -> Nat] /\ locked'[r] = 0
      /\ \A q \in Ranks : q # r => locked'[q] = locked[q]
  BY <1>1, <1>6
<1>8. EpochInv'
  BY <1>1, <1>2, <1>7 DEF EpochInv
<1> QED
  BY <1>1, <1>2, <1>3, <1>7, <1>8

LEMMA ControlAssign ==
  ASSUME ControlInv, NEW r \in Ranks, Assign(r) PROVE ControlInv'
<1> USE DEF ControlInv, ControlTypeOK
<1>1. /\ Op(r) = "assign" /\ done[r] = {} /\ done' = [done EXCEPT ![r] = {"close"}]
      /\ UNCHANGED <<distri, sent, ids, op, protocol, buffer, pending, locked, arrived, result>>
  BY DEF Assign
<1>2. /\ done' \in [Ranks -> SUBSET Tasks] /\ done'[r] = {"close"}
      /\ \A q \in Ranks : q # r => done'[q] = done[q]
  BY <1>1 DEF Tasks
<1>3. \A q \in Ranks : Op(q)' = Op(q)
  BY <1>1 DEF Op
<1>4. GraphInv'
  <2>1. GraphOf("assign") = {}
    BY DEF GraphOf
  <2> QED
    BY <1>1, <1>2, <1>3, <2>1 DEF GraphInv
<1>5. SyncInv'
  BY <1>1 DEF SyncInv
<1>6. BarrierInv'
  <2>1. \A q \in arrived : q # r /\ q \in Ranks
    BY <1>1 DEF BarrierInv, Finished
  <2> QED
    BY <1>1, <1>2, <1>3, <2>1 DEF BarrierInv, Finished, NeedsBarrier
<1>7. EpochInv'
  <2>1. pending[r] = {} /\ locked[r] = 0
    BY <1>1 DEF EpochInv
  <2> QED
    BY <1>1, <1>2, <2>1 DEF EpochInv
<1>8. ProtocolInv'
  <2>1. "protocol" \notin done'[r] /\ "input" \notin done'[r]
    BY <1>2
  <2> QED
    BY <1>1, <1>2, <1>3, <2>1 DEF ProtocolInv
<1> QED
  BY <1>1, <1>2, <1>4, <1>5, <1>6, <1>7, <1>8

\* At the end of an operation.
LEMMA FinishedFact ==
  ASSUME ControlInv, NEW r \in Ranks, Finished(r)
  PROVE  /\ op[r] \in 1 .. Len(Program) /\ Program[op[r]] = Op(r)
         /\ Op(r) \in {"assign", "scatter", "gather"}
         /\ "close" \in done[r] /\ pending[r] = {} /\ locked[r] = 0
<1>1. op[r] \in 1 .. Len(Program) /\ Program[op[r]] = Op(r)
  BY ExchangeAssumption DEF Finished, Op, ControlInv, ControlTypeOK
<1>2. Op(r) \in {"assign", "scatter", "gather"}
  BY <1>1, ExchangeAssumption
<1>3. "close" \in done[r]
  BY <1>2 DEF Finished, GraphOf
<1> QED
  BY <1>1, <1>2, <1>3 DEF ControlInv, EpochInv

LEMMA ControlReturn ==
  ASSUME ControlInv, NEW r \in Ranks, ReturnGather(r) PROVE ControlInv'
<1>1. /\ Op(r) = "gather" /\ Finished(r)
      /\ op' = [op EXCEPT ![r] = @ + 1] /\ done' = [done EXCEPT ![r] = {}]
      /\ UNCHANGED <<distri, sent, memory, ids, protocol, buffer, pending, locked, arrived, result>>
  BY DEF ReturnGather, NextOp
<1>2. /\ op[r] \in 1 .. Len(Program) /\ Program[op[r]] = "gather"
      /\ pending[r] = {} /\ locked[r] = 0
  BY <1>1, FinishedFact
<1> USE DEF ControlInv, ControlTypeOK
<1>3. /\ op' \in [Ranks -> 1 .. Len(Program) + 1] /\ op'[r] = op[r] + 1
      /\ \A q \in Ranks : q # r => op'[q] = op[q]
  BY <1>1, <1>2
<1>4. /\ done' \in [Ranks -> SUBSET Tasks] /\ done'[r] = {}
      /\ \A q \in Ranks : q # r => done'[q] = done[q]
  BY <1>1
<1>5. \A q \in Ranks : q # r => Op(q)' = Op(q)
  BY <1>3 DEF Op
<1>6. GraphInv'
  BY <1>4, <1>5 DEF GraphInv
<1>7. ProtocolInv'
  BY <1>1, <1>4, <1>5 DEF ProtocolInv
<1>8. EpochInv'
  BY <1>1, <1>2, <1>4 DEF EpochInv
<1>9. BarrierInv'
  <2>1. \A q \in arrived : q # r /\ q \in Ranks
    BY <1>1 DEF BarrierInv, NeedsBarrier
  <2> QED
    BY <1>1, <1>4, <1>5, <2>1 DEF BarrierInv, Finished, NeedsBarrier
<1>10. SyncInv'
  <2> SUFFICES ASSUME NEW x \in Ranks, NEW q \in Ranks, NEW n \in op'[x] .. op'[q] - 1
               PROVE  Program[n] = "gather"
    BY DEF SyncInv
  <2>1. /\ op[x] \in Int /\ op[q] \in Int /\ op[r] \in Int
        /\ op'[x] = IF x = r THEN op[r] + 1 ELSE op[x]
        /\ op'[q] = IF q = r THEN op[r] + 1 ELSE op[q]
    BY <1>3
  <2>2. CASE n = op[r]
    BY <1>2, <2>2
  <2>3. CASE n # op[r]
    <3>1. n \in op[x] .. op[q] - 1
      BY <2>1, <2>3
    <3> QED
      BY <3>1 DEF SyncInv
  <2> QED
    BY <2>2, <2>3
<1> QED
  BY <1>1, <1>3, <1>4, <1>6, <1>7, <1>8, <1>9, <1>10

LEMMA ControlArrive ==
  ASSUME ControlInv, NEW r \in Ranks, Arrive(r) PROVE ControlInv'
<1> USE DEF ControlInv, ControlTypeOK
<1>1. /\ Finished(r) /\ NeedsBarrier(r) /\ arrived' = arrived \cup {r}
      /\ UNCHANGED <<distri, sent, memory, ids, op, done, protocol, buffer, pending, locked, result>>
  BY DEF Arrive
<1>2. \A q \in Ranks : Op(q)' = Op(q) /\ (Finished(q)' <=> Finished(q))
  BY <1>1 DEF Op, Finished
<1>3. GraphInv' /\ ProtocolInv' /\ EpochInv' /\ SyncInv'
  BY <1>1, <1>2 DEF GraphInv, ProtocolInv, EpochInv, SyncInv
<1>4. BarrierInv'
  BY <1>1, <1>2 DEF BarrierInv, NeedsBarrier
<1> QED
  BY <1>1, <1>3, <1>4

\* The ranks in a barrier are in the same operation.
LEMMA ArrivedTogether ==
  ASSUME ControlInv, arrived = Ranks
  PROVE  \A r, q \in Ranks : op[r] = op[q]
<1> SUFFICES ASSUME NEW r \in Ranks, NEW q \in Ranks, op[r] < op[q] PROVE FALSE
  BY DEF ControlInv, ControlTypeOK
<1>1. Finished(r) /\ NeedsBarrier(r)
  BY DEF ControlInv, BarrierInv
<1>2. Program[op[r]] # "gather" /\ op[r] \in Int /\ op[q] \in Int
  BY <1>1, FinishedFact DEF NeedsBarrier, ControlInv, ControlTypeOK
<1>3. op[r] \in op[r] .. op[q] - 1
  BY <1>2
<1> QED
  BY <1>2, <1>3 DEF ControlInv, SyncInv

LEMMA ControlLeave ==
  ASSUME ControlInv, Leave PROVE ControlInv'
<1>1. /\ arrived = Ranks /\ arrived' = {}
      /\ op' = [r \in Ranks |-> op[r] + 1] /\ done' = [r \in Ranks |-> {}]
      /\ UNCHANGED <<distri, sent, memory, ids, protocol, buffer, pending, locked, result>>
  BY DEF Leave, Each
<1>2. \A r \in Ranks : op[r] \in 1 .. Len(Program) /\ pending[r] = {} /\ locked[r] = 0
  BY <1>1, FinishedFact DEF ControlInv, BarrierInv
<1>3. \A r, q \in Ranks : op[r] = op[q]
  BY <1>1, ArrivedTogether
<1> USE DEF ControlInv, ControlTypeOK
<1>4. op' \in [Ranks -> 1 .. Len(Program) + 1]
  BY <1>1, <1>2, ExchangeAssumption
<1>5. done' \in [Ranks -> SUBSET Tasks]
  BY <1>1
<1>6. GraphInv' /\ ProtocolInv' /\ BarrierInv'
  BY <1>1 DEF GraphInv, ProtocolInv, BarrierInv
<1>7. EpochInv'
  BY <1>1, <1>2 DEF EpochInv
<1>8. SyncInv'
  <2> SUFFICES ASSUME NEW x \in Ranks, NEW q \in Ranks PROVE op'[x] .. op'[q] - 1 = {}
    BY DEF SyncInv
  <2> QED
    BY <1>1, <1>2, <1>3
<1> QED
  BY <1>1, <1>4, <1>5, <1>6, <1>7, <1>8

LEMMA ControlNext == ControlInv /\ [ExchNext]_exchVars => ControlInv'
<1> SUFFICES ASSUME ControlInv, [ExchNext]_exchVars PROVE ControlInv'
  OBVIOUS
<1>1. ASSUME NEW r \in Ranks, RankNext(r) PROVE ControlInv'
  <2>1. CASE Alloc(r)
    BY <2>1, ControlData DEF Alloc
  <2>2. CASE PermValues(r)
    BY <2>2, ControlData DEF PermValues
  <2>3. CASE Perm(r)
    BY <2>3, ControlData DEF Perm
  <2>4. CASE Extract(r)
    BY <2>4, ControlData DEF Extract
  <2> QED
    BY <1>1, <2>1, <2>2, <2>3, <2>4, ControlInput, ControlOpen, ControlProtocol, ControlLaunch,
       ControlCommunicate, ControlClose, ControlAssign, ControlReturn, ControlArrive DEF RankNext
<1>2. CASE UNCHANGED exchVars
  <2>1. UNCHANGED <<distri, sent, ids, op, done, protocol, pending, locked, arrived>>
    BY <1>2 DEF exchVars
  <2>2. \A q \in Ranks : Op(q)' = Op(q) /\ (Finished(q)' <=> Finished(q))
    BY <2>1 DEF Op, Finished
  <2> QED
    BY <2>1, <2>2 DEF ControlInv, ControlTypeOK, GraphInv, SyncInv, BarrierInv, EpochInv,
       ProtocolInv, NeedsBarrier
<1> QED
  BY <1>1, <1>2, ControlLeave DEF ExchNext, AllEnded

LEMMA ControlAlways == ExchSpec => []ControlInv
  BY ControlInit, ControlNext, PTL DEF ExchSpec

\* A communication is in its epoch, and at the place that rank_offset gives.
THEOREM ExchangeCovered == ExchSpec => []CommunicationIsCovered
<1>1. ASSUME ControlInv, NEW r \in Ranks, pending[r] # {}
      PROVE  /\ locked[r] = 1
             /\ done[r] \cap {"close", "perm", "extract"} = {}
             /\ \A n \in pending[r] :
                  /\ Places(r)[n] = RankOffset(Permuted(ids[r], protocol[r].new_to_old)[n], distri)
                  /\ Places(r)[n][2] \in 0 .. PartSize(distri, Places(r)[n][1]) - 1
  <2>1. /\ "get" \in done[r] \/ "put" \in done[r]
        /\ "close" \notin done[r] /\ pending[r] \subseteq 1 .. Len(ids[r])
    BY <1>1 DEF ControlInv, EpochInv
  <2>2. /\ "open" \in done[r] /\ "protocol" \in done[r]
        /\ "perm" \notin done[r] /\ "extract" \notin done[r]
    BY <1>1, <2>1, GraphFact DEF ControlInv
  <2>3. locked[r] = 1
    BY <1>1, <2>1, <2>2 DEF ControlInv, EpochInv
  <2>4. PICK p \in NewToOlds(distri, ids[r]) : protocol[r] = Protocol(distri, ids[r], p)
    BY <1>1, <2>2 DEF ControlInv, ProtocolInv
  <2>5. IsDistribution(distri) /\ ids[r] \in Seq(Elts)
    BY <1>1 DEF ControlInv, ControlTypeOK
  <2>6. /\ protocol[r].new_to_old = p
        /\ Places(r) = [n \in 1 .. Len(ids[r]) |-> RankOffset(Permuted(ids[r], p)[n], distri)]
    BY <2>4, <2>5, ProtocolFact DEF Places
  <2>7. ASSUME NEW n \in pending[r]
        PROVE  /\ Places(r)[n] = RankOffset(Permuted(ids[r], p)[n], distri)
               /\ Places(r)[n][2] \in 0 .. PartSize(distri, Places(r)[n][1]) - 1
    <3>1. n \in 1 .. Len(ids[r]) /\ Permuted(ids[r], p)[n] \in Elts
      BY <2>1, <2>5, SortedFact
    <3> QED
      BY <2>5, <2>6, <3>1, PlaceFact
  <2> QED
    BY <2>1, <2>2, <2>3, <2>6, <2>7
<1>2. ControlInv => CommunicationIsCovered
  BY <1>1 DEF CommunicationIsCovered
<1> QED
  BY <1>2, ControlAlways, PTL

----------------------------------------------------------------------------
(* What has been written. *)

\* Element k of the part of q is from operation n, or from a later one.
Reached(d, mem, q, k, n) ==
  \E m \in n .. Len(Program) :
    Program[m] # "gather" /\ mem[q][k] = Value(d[q + 1] + k - 1, m)

MemoryTypeOK ==
  /\ DOMAIN memory = Ranks
  /\ \A r \in Ranks : memory[r] \in [1 .. PartSize(distri, r) -> Int]
  /\ DOMAIN buffer = Ranks

AssignInv ==
  \A r \in Ranks : Op(r) = "assign" /\ done[r] # {} =>
    \A k \in 1 .. PartSize(distri, r) : Reached(distri, memory, r, k, op[r])

\* What a scatter sends, and what it has written.
ToSendInv ==
  \A r \in Ranks : Op(r) = "scatter" /\ "perm_values" \in done[r] =>
    buffer[r] = [n \in 1 .. Len(ids[r]) |->
                   Value(Permuted(ids[r], protocol[r].new_to_old)[n], op[r])]
PutInv ==
  \A r \in Ranks : Op(r) = "scatter" /\ "put" \in done[r] =>
    \A n \in (1 .. Len(ids[r])) \ pending[r] :
      Reached(distri, memory, protocol[r].places[n][1], protocol[r].places[n][2] + 1, op[r])

\* The writes before the operation of a rank are done in all the parts.
MemoryInv ==
  \A r \in Ranks : \A n \in 1 .. op[r] - 1 : Program[n] # "gather" =>
    \A q \in Ranks : \A k \in 1 .. PartSize(distri, q) : Reached(distri, memory, q, k, n)

\* A scatter gives a value to every element.
SentInv ==
  "scatter" \in Range(Program) =>
    \A i \in Elts : \E r \in Ranks : \E n \in 1 .. Len(sent[r]) : sent[r][n] = i

DataInv == MemoryTypeOK /\ AssignInv /\ ToSendInv /\ PutInv /\ MemoryInv /\ SentInv

\* The protocol of a rank.
LEMMA RankProtocol ==
  ASSUME ControlInv, NEW r \in Ranks, "protocol" \in done[r]
  PROVE  \E p \in NewToOlds(distri, ids[r]) :
           protocol[r] = [places |-> [n \in 1 .. Len(ids[r]) |->
                                        RankOffset(Permuted(ids[r], p)[n], distri)],
                          new_to_old |-> p]
<1>1. IsDistribution(distri) /\ ids[r] \in Seq(Elts)
  BY DEF ControlInv, ControlTypeOK
<1>2. PICK p \in NewToOlds(distri, ids[r]) : protocol[r] = Protocol(distri, ids[r], p)
  BY DEF ControlInv, ProtocolInv
<1> QED
  BY <1>1, <1>2, ProtocolFact

LEMMA DataInit == ExchInit => DataInv
<1> SUFFICES ASSUME ExchInit PROVE DataInv
  OBVIOUS
<1> USE ExchangeAssumption
<1>1. /\ op = [r \in Ranks |-> 1] /\ done = [r \in Ranks |-> {}] /\ DOMAIN buffer = Ranks
      /\ memory = [r \in Ranks |-> [k \in 1 .. PartSize(distri, r) |-> Garbage]]
  BY DEF ExchInit, Each
<1>2. MemoryTypeOK
  BY <1>1 DEF MemoryTypeOK, Garbage
<1>3. AssignInv /\ ToSendInv /\ PutInv /\ MemoryInv
  BY <1>1 DEF AssignInv, ToSendInv, PutInv, MemoryInv
<1>4. SentInv
  <2> SUFFICES ASSUME "scatter" \in Range(Program), NEW i \in Elts
               PROVE  \E r \in Ranks : \E n \in 1 .. Len(sent[r]) : sent[r][n] = i
    BY DEF SentInv
  <2>1. sent \in [Ranks -> IdsUpto(Elts, NElt)] /\ Scattered(sent)
    BY DEF ExchInit
  <2>2. PICK r \in Ranks : i \in Range(sent[r])
    BY <2>1 DEF Scattered
  <2>3. sent[r] \in Seq(Elts)
    BY <2>1 DEF IdsUpto
  <2> QED
    BY <2>2, <2>3 DEF Range
<1> QED
  BY <1>2, <1>3, <1>4 DEF DataInv

\* A task that writes nothing.
LEMMA DataTask ==
  ASSUME ControlInv, DataInv, NEW r \in Ranks, NEW task, Runs(r, task),
         UNCHANGED <<distri, sent, memory, op, arrived>>,
         \A q \in Ranks : q # r => /\ ids'[q] = ids[q] /\ protocol'[q] = protocol[q]
                                   /\ buffer'[q] = buffer[q] /\ pending'[q] = pending[q],
         DOMAIN buffer' = Ranks,
         Op(r) = "scatter" /\ "perm_values" \in done'[r] =>
           buffer'[r] = [n \in 1 .. Len(ids'[r]) |->
                           Value(Permuted(ids'[r], protocol'[r].new_to_old)[n], op[r])],
         Op(r) = "scatter" /\ "put" \in done'[r] =>
           \A n \in (1 .. Len(ids'[r])) \ pending'[r] :
             Reached(distri, memory, protocol'[r].places[n][1], protocol'[r].places[n][2] + 1, op[r])
  PROVE  DataInv'
<1>1. /\ Op(r) \in {"gather", "scatter"}
      /\ \A q \in Ranks : q # r => done'[q] = done[q]
      /\ \A q \in Ranks : Op(q)' = Op(q)
  BY RunsKeeps
<1>2. MemoryTypeOK' /\ SentInv' /\ MemoryInv'
  BY DEF DataInv, MemoryTypeOK, SentInv, MemoryInv
<1>3. AssignInv'
  <2>1. \A q \in Ranks : Op(q) = "assign" => q # r
    BY <1>1
  <2> QED
    BY <1>1, <2>1 DEF DataInv, AssignInv
<1>4. ToSendInv'
  BY <1>1 DEF DataInv, ToSendInv
<1>5. PutInv'
  BY <1>1 DEF DataInv, PutInv
<1> QED
  BY <1>2, <1>3, <1>4, <1>5 DEF DataInv

LEMMA DataInput ==
  ASSUME ControlInv, DataInv, NEW r \in Ranks, Input(r) PROVE DataInv'
<1>1. /\ Runs(r, "input")
      /\ UNCHANGED <<distri, sent, memory, op, protocol, buffer, pending, locked, arrived, result>>
      /\ \A q \in Ranks : q # r => ids'[q] = ids[q]
  BY DEF Input, ControlInv, ControlTypeOK
<1>2. "perm_values" \notin done'[r] /\ "put" \notin done'[r]
  BY <1>1, RunsKeeps, GraphFact DEF ControlInv
<1> QED
  BY <1>1, <1>2, DataTask DEF DataInv, MemoryTypeOK

LEMMA DataProtocol ==
  ASSUME ControlInv, DataInv, NEW r \in Ranks, CreateProtocol(r) PROVE DataInv'
<1>1. /\ Runs(r, "protocol")
      /\ UNCHANGED <<distri, sent, memory, ids, op, buffer, pending, locked, arrived, result>>
      /\ \A q \in Ranks : q # r => protocol'[q] = protocol[q]
  BY DEF CreateProtocol, ControlInv, ControlTypeOK
<1>2. "perm_values" \notin done'[r] /\ "put" \notin done'[r]
  BY <1>1, RunsKeeps, GraphFact DEF ControlInv
<1> QED
  BY <1>1, <1>2, DataTask DEF DataInv, MemoryTypeOK

\* The tasks that leave the data of a scatter.
LEMMA DataLeft ==
  ASSUME ControlInv, DataInv, NEW r \in Ranks, NEW task \in {"open", "alloc", "close", "perm", "extract"},
         Runs(r, task), UNCHANGED <<distri, sent, memory, ids, op, protocol, pending, arrived>>,
         DOMAIN buffer' = Ranks, \A q \in Ranks : q # r \/ Op(r) = "scatter" => buffer'[q] = buffer[q]
  PROVE  DataInv'
<1>1. /\ "perm_values" \in done'[r] => "perm_values" \in done[r]
      /\ "put" \in done'[r] => "put" \in done[r]
  BY RunsKeeps
<1>2. Op(r) = "scatter" /\ "perm_values" \in done'[r] =>
        buffer'[r] = [n \in 1 .. Len(ids[r]) |->
                        Value(Permuted(ids[r], protocol[r].new_to_old)[n], op[r])]
  BY <1>1 DEF DataInv, ToSendInv
<1>3. Op(r) = "scatter" /\ "put" \in done'[r] =>
        \A n \in (1 .. Len(ids[r])) \ pending[r] :
          Reached(distri, memory, protocol[r].places[n][1], protocol[r].places[n][2] + 1, op[r])
  BY <1>1 DEF DataInv, PutInv
<1> QED
  BY <1>2, <1>3, DataTask

LEMMA DataPermValues ==
  ASSUME ControlInv, DataInv, NEW r \in Ranks, PermValues(r) PROVE DataInv'
<1> DEFINE values == [n \in 1 .. Len(ids[r]) |-> Value(ids[r][n], op[r])]
<1>1. /\ Runs(r, "perm_values")
      /\ buffer' = [buffer EXCEPT ![r] = Permuted(values, protocol[r].new_to_old)]
      /\ UNCHANGED <<distri, sent, memory, ids, op, protocol, pending, locked, arrived, result>>
  BY DEF PermValues
<1>2. "protocol" \in done[r] /\ "put" \notin done'[r]
  <2>1. /\ Op(r) \in {"gather", "scatter"} /\ "perm_values" \in GraphOf(Op(r))
        /\ "perm_values" \notin done[r] /\ done'[r] = done[r] \cup {"perm_values"}
    BY <1>1, RunsKeeps
  <2>2. "protocol" \in GraphOf(Op(r))
    BY <2>1 DEF GraphOf
  <2>3. "protocol" \in done[r]
    BY <1>1, <2>2, DepsFact DEF Runs
  <2> QED
    BY <2>1, <2>3, GraphFact DEF ControlInv
<1>3. PICK p \in NewToOlds(distri, ids[r]) : protocol[r].new_to_old = p
  <2>1. PICK p \in NewToOlds(distri, ids[r]) :
          protocol[r] = [places |-> [n \in 1 .. Len(ids[r]) |->
                                      RankOffset(Permuted(ids[r], p)[n], distri)],
                        new_to_old |-> p]
    BY <1>2, RankProtocol
  <2> QED
    BY <2>1
<1>4. ids[r] \in Seq(Elts)
  BY DEF ControlInv, ControlTypeOK
<1>5. Permuted(values, p) = [n \in 1 .. Len(ids[r]) |-> Value(Permuted(ids[r], p)[n], op[r])]
  <2>1. /\ Len(p) = Len(ids[r])
        /\ \A n \in 1 .. Len(ids[r]) : /\ p[n] + 1 \in 1 .. Len(ids[r])
                                       /\ Permuted(ids[r], p)[n] = ids[r][p[n] + 1]
    BY <1>4, SortedFact
  <2>2. Permuted(values, p) = [n \in 1 .. Len(ids[r]) |-> values[p[n] + 1]]
    BY <2>1 DEF Permuted
  <2> QED
    BY <2>1, <2>2
<1>6. /\ DOMAIN buffer' = Ranks /\ \A q \in Ranks : q # r => buffer'[q] = buffer[q]
      /\ buffer'[r] = Permuted(values, p)
  BY <1>1, <1>3 DEF DataInv, MemoryTypeOK
<1> HIDE DEF values
<1> QED
  BY <1>1, <1>2, <1>3, <1>5, <1>6, DataTask

LEMMA DataLaunch ==
  ASSUME ControlInv, DataInv, NEW r \in Ranks, Launch(r) PROVE DataInv'
<1>1. /\ pending' = [pending EXCEPT ![r] = 1 .. Len(Places(r))]
      /\ UNCHANGED <<distri, sent, memory, ids, op, protocol, buffer, locked, arrived, result>>
  BY DEF Launch
<1>2. PICK task \in {"get", "put"} : Runs(r, task)
  BY DEF Launch
<1>3. /\ Op(r) \in {"gather", "scatter"} /\ task \in GraphOf(Op(r))
      /\ done'[r] = done[r] \cup {task}
  BY <1>1, <1>2, RunsKeeps
<1>4. "protocol" \in done[r]
  BY <1>2, <1>3, DepsFact DEF Runs, GraphOf
<1>5. Len(Places(r)) = Len(ids[r])
  <2>1. ids[r] \in Seq(Elts)
    BY DEF ControlInv, ControlTypeOK
  <2>2. PICK p \in NewToOlds(distri, ids[r]) :
          protocol[r] = [places |-> [n \in 1 .. Len(ids[r]) |->
                                      RankOffset(Permuted(ids[r], p)[n], distri)],
                        new_to_old |-> p]
    BY <1>4, RankProtocol
  <2>3. Places(r) = [n \in 1 .. Len(ids[r]) |-> RankOffset(Permuted(ids[r], p)[n], distri)]
    BY <2>2 DEF Places
  <2> QED
    BY <2>1, <2>3
<1>6. pending'[r] = 1 .. Len(ids[r]) /\ \A q \in Ranks : q # r => pending'[q] = pending[q]
  BY <1>1, <1>5 DEF ControlInv, ControlTypeOK
<1>7. "perm_values" \in done'[r] => "perm_values" \in done[r]
  BY <1>2, <1>3
<1>8. Op(r) = "scatter" /\ "perm_values" \in done'[r] =>
        buffer'[r] = [n \in 1 .. Len(ids[r]) |->
                        Value(Permuted(ids[r], protocol[r].new_to_old)[n], op[r])]
  BY <1>1, <1>7 DEF DataInv, ToSendInv
<1>9. DOMAIN buffer' = Ranks
  BY <1>1 DEF DataInv, MemoryTypeOK
<1> QED
  BY <1>1, <1>2, <1>6, <1>8, <1>9, DataTask

\* Where the n-th element of the exchange of a rank is.
LEMMA PlaceOf ==
  ASSUME ControlInv, NEW r \in Ranks, "protocol" \in done[r], NEW n \in 1 .. Len(ids[r])
  PROVE  /\ protocol[r].places[n][1] \in Ranks
         /\ protocol[r].places[n][2] + 1 \in 1 .. PartSize(distri, protocol[r].places[n][1])
         /\ distri[protocol[r].places[n][1] + 1] + (protocol[r].places[n][2] + 1) - 1
              = Permuted(ids[r], protocol[r].new_to_old)[n]
         /\ Permuted(ids[r], protocol[r].new_to_old)[n] \in Elts
         /\ protocol[r].places[n]
              = RankOffset(Permuted(ids[r], protocol[r].new_to_old)[n], distri)
<1>1. IsDistribution(distri) /\ ids[r] \in Seq(Elts)
  BY DEF ControlInv, ControlTypeOK
<1>2. PICK p \in NewToOlds(distri, ids[r]) :
        protocol[r] = [places |-> [k \in 1 .. Len(ids[r]) |->
                                    RankOffset(Permuted(ids[r], p)[k], distri)],
                      new_to_old |-> p]
  BY RankProtocol
<1> DEFINE i == Permuted(ids[r], p)[n]
<1>3. protocol[r].new_to_old = p /\ protocol[r].places[n] = RankOffset(i, distri)
  BY <1>2
<1>4. i \in Elts
  BY <1>1, SortedFact
<1> DEFINE q == RankOffset(i, distri)[1]
           o == RankOffset(i, distri)[2]
<1>5. q \in Ranks /\ o \in 0 .. PartSize(distri, q) - 1 /\ i = distri[q + 1] + o
  <2> HIDE DEF i
  <2> QED
    BY <1>1, <1>4, PlaceFact
<1>6. /\ distri[q + 1] \in Int /\ PartSize(distri, q) \in Int
  <2>1. q + 1 \in 1 .. NRank + 1 /\ q + 2 \in 1 .. NRank + 1
    <3> HIDE DEF q
    <3> QED
      BY <1>5, ExchangeAssumption DEF Ranks
  <2> HIDE DEF q
  <2> QED
    BY <1>1, <2>1 DEF IsDistribution, IsDistributionOf, PartSize
<1> HIDE DEF i
<1>7. q \in Ranks /\ o + 1 \in 1 .. PartSize(distri, q) /\ distri[q + 1] + (o + 1) - 1 = i
  <2> HIDE DEF q, o
  <2> QED
    BY <1>5, <1>6
<1> QED
  BY <1>3, <1>4, <1>7 DEF i

\* No rank is past the write that another one does.
LEMMA WriterFact ==
  ASSUME ControlInv, NEW r \in Ranks, Op(r) \in {"assign", "scatter"}
  PROVE  /\ op[r] \in 1 .. Len(Program) /\ Program[op[r]] # "gather"
         /\ \A q \in Ranks : op[q] \in Int /\ op[q] <= op[r]
<1>1. op \in [Ranks -> 1 .. Len(Program) + 1] /\ Len(Program) \in Nat
  BY ExchangeAssumption DEF ControlInv, ControlTypeOK
<1>2. op[r] \in 1 .. Len(Program) /\ Program[op[r]] # "gather"
  BY <1>1 DEF Op
<1>3. ASSUME NEW q \in Ranks, ~ (op[q] <= op[r]) PROVE FALSE
  <2>1. op[r] \in op[r] .. op[q] - 1
    BY <1>1, <1>3
  <2> QED
    BY <1>2, <2>1 DEF ControlInv, SyncInv
<1> QED
  BY <1>1, <1>2, <1>3

\* A step that writes, in some places, the values of the operation of a rank.
LEMMA DataWrite ==
  ASSUME ControlInv, DataInv, NEW r \in Ranks, Op(r) \in {"assign", "scatter"},
         UNCHANGED <<distri, sent, ids, op, protocol, buffer>>,
         DOMAIN memory' = Ranks,
         \A q \in Ranks :
           /\ memory'[q] \in [1 .. PartSize(distri, q) -> Int]
           /\ \A k \in 1 .. PartSize(distri, q) :
                memory'[q][k] = memory[q][k] \/ memory'[q][k] = Value(distri[q + 1] + k - 1, op[r])
           /\ q # r => done'[q] = done[q] /\ pending'[q] = pending[q],
         Op(r) = "scatter" => done'[r] = done[r],
         Op(r) = "assign" =>
           \A k \in 1 .. PartSize(distri, r) : memory'[r][k] = Value(distri[r + 1] + k - 1, op[r]),
         Op(r) = "scatter" =>
           \A n \in pending[r] \ pending'[r] :
             memory'[protocol[r].places[n][1]][protocol[r].places[n][2] + 1]
               = Value(distri[protocol[r].places[n][1] + 1] + (protocol[r].places[n][2] + 1) - 1, op[r])
  PROVE  DataInv'
<1>1. /\ op[r] \in 1 .. Len(Program) /\ Program[op[r]] # "gather"
      /\ \A q \in Ranks : op[q] \in Int /\ op[q] <= op[r]
  BY WriterFact
<1>2. \A q \in Ranks : Op(q)' = Op(q)
  BY DEF Op
<1>3. ASSUME NEW q \in Ranks, NEW k \in 1 .. PartSize(distri, q),
             memory'[q][k] = Value(distri[q + 1] + k - 1, op[r]),
             NEW n \in Int, n <= op[r]
      PROVE  Reached(distri, memory', q, k, n)
  <2>1. op[r] \in n .. Len(Program)
    BY <1>1, <1>3
  <2> QED
    BY <1>1, <1>3, <2>1 DEF Reached
<1>4. ASSUME NEW q \in Ranks, NEW k \in 1 .. PartSize(distri, q), NEW n \in Int, n <= op[r],
             Reached(distri, memory, q, k, n)
      PROVE  Reached(distri, memory', q, k, n)
  <2>1. CASE memory'[q][k] = memory[q][k]
    BY <1>4, <2>1 DEF Reached
  <2>2. CASE memory'[q][k] = Value(distri[q + 1] + k - 1, op[r])
    BY <1>3, <1>4, <2>2
  <2> QED
    BY <2>1, <2>2
<1>5. MemoryTypeOK' /\ SentInv'
  BY DEF DataInv, MemoryTypeOK, SentInv
<1>6. ToSendInv'
  <2>1. \A q \in Ranks : Op(q) = "scatter" => done'[q] = done[q]
    OBVIOUS
  <2> QED
    BY <1>2, <2>1 DEF DataInv, ToSendInv
<1>7. AssignInv'
  <2> SUFFICES ASSUME NEW q \in Ranks, Op(q) = "assign", done'[q] # {},
                      NEW k \in 1 .. PartSize(distri, q)
               PROVE  Reached(distri, memory', q, k, op[q])
    BY <1>2 DEF AssignInv
  <2>1. CASE q = r
    BY <1>1, <1>3, <2>1
  <2>2. CASE q # r
    BY <1>1, <1>4, <2>2 DEF DataInv, AssignInv
  <2> QED
    BY <2>1, <2>2
<1>8. MemoryInv'
  <2> SUFFICES ASSUME NEW x \in Ranks, NEW n \in 1 .. op[x] - 1, Program[n] # "gather",
                      NEW q \in Ranks, NEW k \in 1 .. PartSize(distri, q)
               PROVE  Reached(distri, memory', q, k, n)
    BY DEF MemoryInv
  <2>1. Reached(distri, memory, q, k, n)
    BY DEF DataInv, MemoryInv
  <2>2. n \in Int /\ n <= op[r]
    BY <1>1
  <2> QED
    BY <1>4, <2>1, <2>2
<1>9. PutInv'
  <2> SUFFICES ASSUME NEW x \in Ranks, Op(x) = "scatter", "put" \in done[x],
                      NEW n \in (1 .. Len(ids[x])) \ pending'[x]
               PROVE  Reached(distri, memory', protocol[x].places[n][1],
                              protocol[x].places[n][2] + 1, op[x])
    BY <1>2 DEF PutInv
  <2>1. "protocol" \in done[x]
    BY GraphFact DEF ControlInv
  <2>2. /\ protocol[x].places[n][1] \in Ranks
        /\ protocol[x].places[n][2] + 1 \in 1 .. PartSize(distri, protocol[x].places[n][1])
    BY <2>1, PlaceOf
  <2>3. CASE n \notin pending[x]
    <3>1. Reached(distri, memory, protocol[x].places[n][1], protocol[x].places[n][2] + 1, op[x])
      BY <2>3 DEF DataInv, PutInv
    <3> QED
      BY <1>1, <1>4, <2>2, <3>1
  <2>4. CASE n \in pending[x]
    <3>1. x = r
      BY <2>4
    <3> QED
      BY <1>1, <1>3, <2>2, <2>4, <3>1
  <2> QED
    BY <2>3, <2>4
<1> QED
  BY <1>5, <1>6, <1>7, <1>8, <1>9 DEF DataInv

LEMMA DataCommunicate ==
  ASSUME ControlInv, DataInv, NEW r \in Ranks, NEW n \in pending[r], Communicate(r, n)
  PROVE  DataInv'
<1> DEFINE q == protocol[r].places[n][1]
           k == protocol[r].places[n][2] + 1
<1>1. /\ pending' = [pending EXCEPT ![r] = @ \ {n}]
      /\ UNCHANGED <<distri, sent, ids, op, done, protocol, locked, arrived, result>>
  BY DEF Communicate
<1>2. n \in 1 .. Len(ids[r]) /\ ("get" \in done[r] \/ "put" \in done[r])
  BY DEF ControlInv, EpochInv
<1>3. \A x \in Ranks : Op(x)' = Op(x)
  BY <1>1 DEF Op
<1>4. \A x \in Ranks : x # r => pending'[x] = pending[x]
  BY <1>1 DEF ControlInv, ControlTypeOK
<1>5. CASE Op(r) = "gather"
  <2>1. memory' = memory /\ buffer' = [buffer EXCEPT ![r][n] = memory[q][k]]
    BY <1>5 DEF Communicate, Places
  <2>2. DOMAIN buffer' = Ranks /\ \A x \in Ranks : x # r => buffer'[x] = buffer[x]
    BY <2>1 DEF DataInv, MemoryTypeOK
  <2>3. \A x \in Ranks : Op(x) = "scatter" => x # r
    BY <1>5
  <2>4. MemoryTypeOK' /\ SentInv' /\ MemoryInv'
    BY <1>1, <2>1, <2>2 DEF DataInv, MemoryTypeOK, SentInv, MemoryInv
  <2>5. AssignInv'
    BY <1>1, <1>3, <2>1 DEF DataInv, AssignInv
  <2>6. ToSendInv'
    BY <1>1, <1>3, <2>2, <2>3 DEF DataInv, ToSendInv
  <2>7. PutInv'
    BY <1>1, <1>3, <1>4, <2>1, <2>3 DEF DataInv, PutInv
  <2> QED
    BY <2>4, <2>5, <2>6, <2>7 DEF DataInv
<1>6. CASE Op(r) # "gather"
  <2>1. memory' = [memory EXCEPT ![q][k] = buffer[r][n]] /\ buffer' = buffer
    BY <1>6 DEF Communicate, Places
  <2>2. Op(r) = "scatter" /\ "protocol" \in done[r] /\ "perm_values" \in done[r]
    BY <1>2, <1>6, GraphFact DEF ControlInv
  <2>3. /\ q \in Ranks /\ k \in 1 .. PartSize(distri, q)
        /\ distri[q + 1] + k - 1 = Permuted(ids[r], protocol[r].new_to_old)[n]
        /\ Permuted(ids[r], protocol[r].new_to_old)[n] \in Elts
    BY <1>2, <2>2, PlaceOf
  <2>4. buffer[r][n] = Value(distri[q + 1] + k - 1, op[r])
    <3>1. buffer[r] = [m \in 1 .. Len(ids[r]) |->
                         Value(Permuted(ids[r], protocol[r].new_to_old)[m], op[r])]
      BY <2>2 DEF DataInv, ToSendInv
    <3>2. buffer[r][n] = Value(Permuted(ids[r], protocol[r].new_to_old)[n], op[r])
      BY <1>2, <3>1
    <3> HIDE DEF q, k
    <3> QED
      BY <2>3, <3>2
  <2>5. Value(distri[q + 1] + k - 1, op[r]) \in Int
    <3>1. distri[q + 1] + k - 1 \in Int /\ op[r] \in Int
      BY <2>3 DEF Elts, ControlInv, ControlTypeOK
    <3> HIDE DEF q, k
    <3> QED
      BY <3>1, ExchangeAssumption DEF Value
  <2> HIDE DEF q, k
  <2>6. /\ DOMAIN memory' = Ranks
        /\ \A x \in Ranks : x # q => memory'[x] = memory[x]
        /\ memory'[q] = [memory[q] EXCEPT ![k] = Value(distri[q + 1] + k - 1, op[r])]
    BY <2>1, <2>3, <2>4 DEF DataInv, MemoryTypeOK
  <2>7. memory[q] \in [1 .. PartSize(distri, q) -> Int]
    BY <2>3 DEF DataInv, MemoryTypeOK
  <2>8. /\ memory'[q] \in [1 .. PartSize(distri, q) -> Int]
        /\ memory'[q][k] = Value(distri[q + 1] + k - 1, op[r])
        /\ \A j \in 1 .. PartSize(distri, q) : j # k => memory'[q][j] = memory[q][j]
    BY <2>3, <2>5, <2>6, <2>7
  <2>9. \A x \in Ranks :
          /\ memory'[x] \in [1 .. PartSize(distri, x) -> Int]
          /\ \A j \in 1 .. PartSize(distri, x) :
               memory'[x][j] = memory[x][j] \/ memory'[x][j] = Value(distri[x + 1] + j - 1, op[r])
    BY <2>6, <2>8 DEF DataInv, MemoryTypeOK
  <2>10. \A m \in pending[r] \ pending'[r] :
           memory'[protocol[r].places[m][1]][protocol[r].places[m][2] + 1]
             = Value(distri[protocol[r].places[m][1] + 1] + (protocol[r].places[m][2] + 1) - 1, op[r])
    <3>1. \A m \in pending[r] \ pending'[r] : m = n
      BY <1>1 DEF ControlInv, ControlTypeOK
    <3> QED
      BY <2>8, <3>1 DEF q, k
  <2> QED
    BY <1>1, <1>4, <2>1, <2>2, <2>6, <2>9, <2>10, DataWrite
<1> QED
  BY <1>5, <1>6

LEMMA DataAssign ==
  ASSUME ControlInv, DataInv, NEW r \in Ranks, Assign(r) PROVE DataInv'
<1>1. /\ Op(r) = "assign" /\ done' = [done EXCEPT ![r] = {"close"}]
      /\ memory' = [memory EXCEPT ![r] = [k \in 1 .. Len(@) |-> Value(distri[r + 1] + k - 1, op[r])]]
      /\ UNCHANGED <<distri, sent, ids, op, protocol, buffer, pending, locked, arrived, result>>
  BY DEF Assign
<1>2. PartSize(distri, r) \in Nat /\ distri[r + 1] \in Int
  <2>1. r + 1 \in 1 .. NRank + 1 /\ r + 2 \in 1 .. NRank + 1 /\ r + 1 + 1 = r + 2 /\ r + 1 \in 1 .. NRank
    BY ExchangeAssumption DEF Ranks
  <2> QED
    BY <2>1 DEF PartSize, IsDistribution, IsDistributionOf, ControlInv, ControlTypeOK
<1>3. memory[r] \in [1 .. PartSize(distri, r) -> Int] /\ DOMAIN memory = Ranks
  BY DEF DataInv, MemoryTypeOK
<1>4. Len(memory[r]) = PartSize(distri, r)
  BY <1>2, <1>3
<1>5. /\ DOMAIN memory' = Ranks
      /\ memory'[r] = [k \in 1 .. PartSize(distri, r) |-> Value(distri[r + 1] + k - 1, op[r])]
      /\ \A q \in Ranks : q # r => memory'[q] = memory[q]
  BY <1>1, <1>3, <1>4
<1>6. \A k \in 1 .. PartSize(distri, r) : Value(distri[r + 1] + k - 1, op[r]) \in Int
  <2>1. op[r] \in Int
    BY DEF ControlInv, ControlTypeOK
  <2> QED
    BY <1>2, <2>1, ExchangeAssumption DEF Value
<1>7. \A q \in Ranks :
        /\ memory'[q] \in [1 .. PartSize(distri, q) -> Int]
        /\ \A k \in 1 .. PartSize(distri, q) :
             memory'[q][k] = memory[q][k] \/ memory'[q][k] = Value(distri[q + 1] + k - 1, op[r])
        /\ q # r => done'[q] = done[q] /\ pending'[q] = pending[q]
  <2> SUFFICES ASSUME NEW q \in Ranks
               PROVE  /\ memory'[q] \in [1 .. PartSize(distri, q) -> Int]
                      /\ \A k \in 1 .. PartSize(distri, q) :
                           \/ memory'[q][k] = memory[q][k]
                           \/ memory'[q][k] = Value(distri[q + 1] + k - 1, op[r])
                      /\ q # r => done'[q] = done[q] /\ pending'[q] = pending[q]
    OBVIOUS
  <2>1. CASE q = r
    BY <1>5, <1>6, <2>1
  <2>2. CASE q # r
    BY <1>1, <1>5, <2>2 DEF DataInv, MemoryTypeOK, ControlInv, ControlTypeOK
  <2> QED
    BY <2>1, <2>2
<1> QED
  BY <1>1, <1>5, <1>7, DataWrite

LEMMA DataReturn ==
  ASSUME ControlInv, DataInv, NEW r \in Ranks, ReturnGather(r) PROVE DataInv'
<1>1. /\ Op(r) = "gather" /\ Finished(r)
      /\ op' = [op EXCEPT ![r] = @ + 1] /\ done' = [done EXCEPT ![r] = {}]
      /\ UNCHANGED <<distri, sent, memory, ids, protocol, buffer, pending, locked, arrived, result>>
  BY DEF ReturnGather, NextOp
<1>2. op[r] \in 1 .. Len(Program) /\ Program[op[r]] = "gather"
  BY <1>1, FinishedFact
<1>3. /\ op'[r] = op[r] + 1 /\ done'[r] = {}
      /\ \A q \in Ranks : q # r => op'[q] = op[q] /\ done'[q] = done[q]
  BY <1>1 DEF ControlInv, ControlTypeOK
<1>4. \A q \in Ranks : q # r => Op(q)' = Op(q)
  BY <1>3 DEF Op
<1>5. MemoryTypeOK' /\ SentInv'
  BY <1>1 DEF DataInv, MemoryTypeOK, SentInv
<1>6. AssignInv' /\ ToSendInv' /\ PutInv'
  BY <1>1, <1>3, <1>4 DEF DataInv, AssignInv, ToSendInv, PutInv
<1>7. MemoryInv'
  <2> SUFFICES ASSUME NEW x \in Ranks, NEW n \in 1 .. op'[x] - 1, Program[n] # "gather",
                      NEW q \in Ranks, NEW k \in 1 .. PartSize(distri, q)
               PROVE  Reached(distri, memory, q, k, n)
    BY <1>1 DEF MemoryInv
  <2>1. n \in 1 .. op[x] - 1
    BY <1>2, <1>3
  <2> QED
    BY <2>1 DEF DataInv, MemoryInv
<1> QED
  BY <1>5, <1>6, <1>7 DEF DataInv

\* After a barrier, all that the operation had to write is written.
LEMMA DataLeave ==
  ASSUME ControlInv, DataInv, Leave PROVE DataInv'
<1>1. /\ arrived = Ranks /\ op' = [r \in Ranks |-> op[r] + 1] /\ done' = [r \in Ranks |-> {}]
      /\ UNCHANGED <<distri, sent, memory, ids, protocol, buffer, pending, locked, result>>
  BY DEF Leave, Each
<1>2. \A r \in Ranks : /\ Finished(r) /\ NeedsBarrier(r) /\ pending[r] = {}
                       /\ op[r] \in 1 .. Len(Program) /\ Program[op[r]] = Op(r)
                       /\ Op(r) \in {"assign", "scatter", "gather"}
  BY <1>1, FinishedFact DEF ControlInv, BarrierInv
<1>3. \A r, q \in Ranks : op[r] = op[q]
  BY <1>1, ArrivedTogether
<1>4. MemoryTypeOK' /\ SentInv' /\ AssignInv' /\ ToSendInv' /\ PutInv'
  BY <1>1 DEF DataInv, MemoryTypeOK, SentInv, AssignInv, ToSendInv, PutInv
<1>5. ASSUME NEW q \in Ranks, NEW k \in 1 .. PartSize(distri, q)
      PROVE  Reached(distri, memory, q, k, op[q])
  <2>1. CASE Op(q) = "assign"
    <3>1. done[q] # {}
      BY <1>2, <2>1 DEF Finished
    <3> QED
      BY <2>1, <3>1 DEF DataInv, AssignInv
  <2>2. CASE Op(q) # "assign"
    <3> DEFINE i == distri[q + 1] + k - 1
    <3>1. Program[op[q]] = "scatter" /\ op[q] \in 1 .. Len(Program)
      BY <1>2, <2>2 DEF NeedsBarrier
    <3>2. "scatter" \in Range(Program)
      BY <3>1, ExchangeAssumption DEF Range
    <3>3. i \in Elts /\ RankOffset(i, distri) = <<q, k - 1>>
      BY PlaceUnique DEF ControlInv, ControlTypeOK
    <3> HIDE DEF i
    <3>4. PICK r \in Ranks : \E m \in 1 .. Len(sent[r]) : sent[r][m] = i
      BY <3>2, <3>3 DEF DataInv, SentInv
    <3>5. Op(r) = "scatter" /\ op[r] = op[q]
      BY <1>2, <1>3, <3>1
    <3>6. "put" \in done[r] /\ "input" \in done[r] /\ "protocol" \in done[r]
      BY <1>2, <3>5 DEF Finished, GraphOf
    <3>7. PICK m \in 1 .. Len(ids[r]) : ids[r][m] = i
      BY <3>4, <3>5, <3>6 DEF ControlInv, ProtocolInv
    <3>8. PICK p \in NewToOlds(distri, ids[r]) :
            protocol[r] = [places |-> [n \in 1 .. Len(ids[r]) |->
                                        RankOffset(Permuted(ids[r], p)[n], distri)],
                           new_to_old |-> p]
      BY <3>6, RankProtocol
    <3>9. PICK n \in 1 .. Len(ids[r]) : Permuted(ids[r], p)[n] = i
      <4>1. ids[r] \in Seq(Elts)
        BY DEF ControlInv, ControlTypeOK
      <4>2. \E n \in 1 .. Len(ids[r]) : Permuted(ids[r], p)[n] = ids[r][m]
        BY <4>1, SortedOnto
      <4> QED
        BY <3>7, <4>2
    <3>10. protocol[r].places[n] = <<q, k - 1>>
      <4>1. protocol[r].new_to_old = p
        BY <3>8
      <4>2. protocol[r].places[n] = RankOffset(Permuted(ids[r], p)[n], distri)
        BY <3>6, <4>1, PlaceOf
      <4> QED
        BY <3>3, <3>9, <4>2
    <3>11. Reached(distri, memory, protocol[r].places[n][1], protocol[r].places[n][2] + 1, op[r])
      BY <1>2, <3>5, <3>6 DEF DataInv, PutInv
    <3>12. k - 1 + 1 = k
      OBVIOUS
    <3> QED
      BY <3>5, <3>10, <3>11, <3>12
  <2> QED
    BY <2>1, <2>2
<1>6. MemoryInv'
  <2> SUFFICES ASSUME NEW x \in Ranks, NEW n \in 1 .. op'[x] - 1, Program[n] # "gather",
                      NEW q \in Ranks, NEW k \in 1 .. PartSize(distri, q)
               PROVE  Reached(distri, memory, q, k, n)
    BY <1>1 DEF MemoryInv
  <2>1. op[x] = op[q] /\ op'[x] = op[x] + 1 /\ op[x] \in Int
    BY <1>1, <1>2, <1>3
  <2>2. CASE n = op[x]
    BY <1>5, <2>1, <2>2
  <2>3. CASE n # op[x]
    <3>1. n \in 1 .. op[x] - 1
      BY <2>1, <2>3
    <3> QED
      BY <3>1 DEF DataInv, MemoryInv
  <2> QED
    BY <2>2, <2>3
<1> QED
  BY <1>4, <1>6 DEF DataInv

LEMMA DataIdle ==
  ASSUME DataInv, UNCHANGED <<distri, sent, memory, ids, op, done, protocol, buffer, pending>>
  PROVE  DataInv'
<1>1. \A q \in Ranks : Op(q)' = Op(q)
  BY DEF Op
<1> QED
  BY <1>1 DEF DataInv, MemoryTypeOK, SentInv, AssignInv, ToSendInv, PutInv, MemoryInv

LEMMA DataNext == ControlInv /\ DataInv /\ [ExchNext]_exchVars => DataInv'
<1> SUFFICES ASSUME ControlInv, DataInv, [ExchNext]_exchVars PROVE DataInv'
  OBVIOUS
<1>1. ASSUME NEW r \in Ranks, RankNext(r) PROVE DataInv'
  <2>1. CASE Open(r)
    BY <2>1, DataLeft DEF Open, DataInv, MemoryTypeOK
  <2>2. CASE Close(r)
    BY <2>2, DataLeft DEF Close, DataInv, MemoryTypeOK
  <2>3. ASSUME NEW task \in {"alloc", "perm", "extract"}, Runs(r, task),
               UNCHANGED <<distri, sent, memory, ids, op, protocol, pending, arrived>>,
               DOMAIN buffer' = DOMAIN buffer, \A q \in Ranks : q # r => buffer'[q] = buffer[q]
        PROVE  DataInv'
    <3>1. Op(r) # "scatter"
      BY <2>3 DEF Runs, GraphOf
    <3> QED
      BY <2>3, <3>1, DataLeft DEF DataInv, MemoryTypeOK
  <2>4. CASE Alloc(r)
    BY <2>3, <2>4 DEF Alloc, DataInv, MemoryTypeOK
  <2>5. CASE Perm(r)
    BY <2>3, <2>5 DEF Perm, DataInv, MemoryTypeOK
  <2>6. CASE Extract(r)
    BY <2>3, <2>6 DEF Extract, DataInv, MemoryTypeOK
  <2>7. CASE Arrive(r)
    BY <2>7, DataIdle DEF Arrive
  <2> QED
    BY <1>1, <2>1, <2>2, <2>4, <2>5, <2>6, <2>7, DataInput, DataProtocol, DataPermValues, DataLaunch,
       DataCommunicate, DataAssign, DataReturn DEF RankNext
<1>2. CASE UNCHANGED exchVars
  BY <1>2, DataIdle DEF exchVars
<1> QED
  BY <1>1, <1>2, DataLeave DEF ExchNext, AllEnded

LEMMA DataAlways == ExchSpec => []DataInv
<1>1. ControlInv /\ DataInv /\ [ExchNext]_exchVars => DataInv'
  BY DataNext
<1> QED
  BY <1>1, DataInit, ControlAlways, PTL DEF ExchSpec

\* After a scatter or a dist_guard, a rank finds in its part what it wrote, or what a
\* later operation wrote.
THEOREM ExchangeVisible == ExchSpec => []ScatterIsVisible
<1>1. ASSUME ControlInv, DataInv, NEW r \in Ranks,
             op[r] > 1, Program[op[r] - 1] # "gather", NEW k \in 1 .. Len(memory[r])
      PROVE  memory[r][k] >= Value(distri[r + 1] + k - 1, op[r] - 1)
  <2>1. op[r] \in Int /\ op[r] - 1 \in 1 .. op[r] - 1
    BY <1>1 DEF ControlInv, ControlTypeOK
  <2>2. /\ r + 1 \in 1 .. NRank + 1 /\ r + 2 \in 1 .. NRank + 1
        /\ r + 1 \in 1 .. NRank /\ r + 1 + 1 = r + 2
    BY ExchangeAssumption DEF Ranks
  <2>3. PartSize(distri, r) \in Nat /\ distri[r + 1] \in Int
    BY <1>1, <2>2 DEF PartSize, IsDistribution, IsDistributionOf, ControlInv, ControlTypeOK
  <2>4. k \in 1 .. PartSize(distri, r)
    BY <1>1, <2>3 DEF DataInv, MemoryTypeOK
  <2>5. PICK m \in op[r] - 1 .. Len(Program) : memory[r][k] = Value(distri[r + 1] + k - 1, m)
    BY <1>1, <2>1, <2>4 DEF DataInv, MemoryInv, Reached
  <2> DEFINE i == distri[r + 1] + k - 1
  <2>6. i \in Int
    BY <2>3
  <2>7. m \in Int /\ op[r] - 1 <= m /\ NElt \in Nat
    BY <2>1, ExchangeAssumption
  <2> HIDE DEF i
  <2>8. (op[r] - 1) * NElt <= m * NElt
    BY <2>1, <2>7
  <2>9. Value(i, op[r] - 1) <= Value(i, m)
    BY <2>1, <2>6, <2>7, <2>8 DEF Value
  <2> QED
    BY <2>1, <2>5, <2>6, <2>7, <2>9 DEF i, Value
<1>2. ControlInv /\ DataInv => ScatterIsVisible
  BY <1>1 DEF ScatterIsVisible
<1> QED
  BY <1>2, ControlAlways, DataAlways, PTL

----------------------------------------------------------------------------
(* What has been gathered. *)

\* The value v of element i is not older than the writes before operation o.
Fresh(i, v, o) ==
  \A n \in 1 .. o - 1 : Program[n] # "gather" =>
    \E m \in n .. Len(Program) : Program[m] # "gather" /\ v = Value(i, m)

GatherInv ==
  \A r \in Ranks : Op(r) = "gather" =>
    /\ "alloc" \in done[r] => buffer[r] \in [1 .. Len(ids[r]) -> Int]
    /\ "get" \in done[r] /\ "perm" \notin done[r] =>
         \A n \in (1 .. Len(ids[r])) \ pending[r] :
           Fresh(Permuted(ids[r], protocol[r].new_to_old)[n], buffer[r][n], op[r])
    /\ "perm" \in done[r] => \A n \in 1 .. Len(ids[r]) : Fresh(ids[r][n], buffer[r][n], op[r])

GoodResults ==
  {res \in [op : 1 .. Len(Program), ids : Seq(Elts), values : Seq(Int)] :
     /\ Program[res.op] = "gather" /\ Len(res.values) = Len(res.ids)
     /\ \A n \in 1 .. Len(res.ids) : Fresh(res.ids[n], res.values[n], res.op)}
ResultInv == result \in [Ranks -> Seq(GoodResults)]

LEMMA GatherTask ==
  ASSUME ControlInv, GatherInv, NEW r \in Ranks, NEW task, Runs(r, task),
         UNCHANGED <<distri, sent, op, arrived>>,
         \A q \in Ranks : q # r => /\ ids'[q] = ids[q] /\ protocol'[q] = protocol[q]
                                   /\ buffer'[q] = buffer[q] /\ pending'[q] = pending[q],
         Op(r) = "gather" =>
           /\ "alloc" \in done'[r] => buffer'[r] \in [1 .. Len(ids'[r]) -> Int]
           /\ "get" \in done'[r] /\ "perm" \notin done'[r] =>
                \A n \in (1 .. Len(ids'[r])) \ pending'[r] :
                  Fresh(Permuted(ids'[r], protocol'[r].new_to_old)[n], buffer'[r][n], op[r])
           /\ "perm" \in done'[r] =>
                \A n \in 1 .. Len(ids'[r]) : Fresh(ids'[r][n], buffer'[r][n], op[r])
  PROVE  GatherInv'
<1>1. /\ \A q \in Ranks : q # r => done'[q] = done[q]
      /\ \A q \in Ranks : Op(q)' = Op(q)
  BY RunsKeeps
<1> SUFFICES ASSUME NEW q \in Ranks, Op(q) = "gather"
             PROVE  /\ "alloc" \in done'[q] => buffer'[q] \in [1 .. Len(ids'[q]) -> Int]
                    /\ "get" \in done'[q] /\ "perm" \notin done'[q] =>
                         \A n \in (1 .. Len(ids'[q])) \ pending'[q] :
                           Fresh(Permuted(ids'[q], protocol'[q].new_to_old)[n], buffer'[q][n], op'[q])
                    /\ "perm" \in done'[q] =>
                         \A n \in 1 .. Len(ids'[q]) : Fresh(ids'[q][n], buffer'[q][n], op'[q])
  BY <1>1 DEF GatherInv
<1>2. CASE q = r
  BY <1>2
<1>3. CASE q # r
  <2>1. /\ ids'[q] = ids[q] /\ protocol'[q] = protocol[q] /\ op'[q] = op[q]
        /\ buffer'[q] = buffer[q] /\ pending'[q] = pending[q] /\ done'[q] = done[q]
    BY <1>1, <1>3
  <2> QED
    BY <2>1 DEF GatherInv
<1> QED
  BY <1>2, <1>3

\* The tasks that leave the data of a gather.
LEMMA GatherLeft ==
  ASSUME ControlInv, GatherInv, NEW r \in Ranks, NEW task \in {"open", "protocol", "close", "extract"},
         Runs(r, task), UNCHANGED <<distri, sent, ids, op, buffer, pending, arrived>>,
         \A q \in Ranks : q # r \/ "get" \in done[r] => protocol'[q] = protocol[q]
  PROVE  GatherInv'
<1>1. /\ "alloc" \in done'[r] <=> "alloc" \in done[r]
      /\ "get" \in done'[r] <=> "get" \in done[r]
      /\ "perm" \in done'[r] <=> "perm" \in done[r]
  BY RunsKeeps
<1>2. Op(r) = "gather" =>
        /\ "alloc" \in done'[r] => buffer[r] \in [1 .. Len(ids[r]) -> Int]
        /\ "get" \in done'[r] /\ "perm" \notin done'[r] =>
             \A n \in (1 .. Len(ids[r])) \ pending[r] :
               Fresh(Permuted(ids[r], protocol'[r].new_to_old)[n], buffer[r][n], op[r])
        /\ "perm" \in done'[r] =>
             \A n \in 1 .. Len(ids[r]) : Fresh(ids[r][n], buffer[r][n], op[r])
  BY <1>1 DEF GatherInv
<1> QED
  BY <1>2, GatherTask

LEMMA GatherInput ==
  ASSUME ControlInv, GatherInv, NEW r \in Ranks, Input(r) PROVE GatherInv'
<1>1. /\ Runs(r, "input")
      /\ UNCHANGED <<distri, sent, memory, op, protocol, buffer, pending, locked, arrived, result>>
      /\ \A q \in Ranks : q # r => ids'[q] = ids[q]
  BY DEF Input, ControlInv, ControlTypeOK
<1>2. Op(r) = "gather" => "alloc" \notin done'[r] /\ "get" \notin done'[r] /\ "perm" \notin done'[r]
  <2>1. "input" \notin done[r] /\ done'[r] = done[r] \cup {"input"}
    BY <1>1, RunsKeeps
  <2>2. Op(r) = "gather" => "alloc" \notin done[r] /\ "get" \notin done[r] /\ "perm" \notin done[r]
    BY <2>1, GraphFact DEF ControlInv
  <2> QED
    BY <2>1, <2>2
<1> QED
  BY <1>1, <1>2, GatherTask

LEMMA GatherAlloc ==
  ASSUME ControlInv, GatherInv, NEW r \in Ranks, Alloc(r), DOMAIN buffer = Ranks PROVE GatherInv'
<1>1. /\ Runs(r, "alloc") /\ buffer' = [buffer EXCEPT ![r] = [n \in 1 .. Len(ids[r]) |-> Garbage]]
      /\ UNCHANGED <<distri, sent, memory, ids, op, protocol, pending, locked, arrived, result>>
  BY DEF Alloc
<1>2. /\ \A q \in Ranks : q # r => buffer'[q] = buffer[q]
      /\ buffer'[r] \in [1 .. Len(ids[r]) -> Int]
  BY <1>1 DEF Garbage
<1>3. Op(r) = "gather" => "get" \notin done'[r] /\ "perm" \notin done'[r]
  <2>1. "alloc" \notin done[r] /\ done'[r] = done[r] \cup {"alloc"}
    BY <1>1, RunsKeeps
  <2>2. Op(r) = "gather" => "get" \notin done[r] /\ "perm" \notin done[r]
    BY <2>1, GraphFact DEF ControlInv
  <2> QED
    BY <2>1, <2>2
<1> QED
  BY <1>1, <1>2, <1>3, GatherTask

LEMMA GatherLaunch ==
  ASSUME ControlInv, GatherInv, NEW r \in Ranks, Launch(r) PROVE GatherInv'
<1>1. /\ pending' = [pending EXCEPT ![r] = 1 .. Len(Places(r))]
      /\ UNCHANGED <<distri, sent, memory, ids, op, protocol, buffer, locked, arrived, result>>
  BY DEF Launch
<1>2. PICK task \in {"get", "put"} : Runs(r, task)
  BY DEF Launch
<1>3. /\ Op(r) \in {"gather", "scatter"} /\ task \in GraphOf(Op(r)) /\ task \notin done[r]
      /\ done'[r] = done[r] \cup {task}
  BY <1>1, <1>2, RunsKeeps
<1>4. "protocol" \in done[r]
  BY <1>2, <1>3, DepsFact DEF Runs, GraphOf
<1>5. Len(Places(r)) = Len(ids[r])
  <2>1. ids[r] \in Seq(Elts)
    BY DEF ControlInv, ControlTypeOK
  <2>2. PICK p \in NewToOlds(distri, ids[r]) :
          protocol[r] = [places |-> [n \in 1 .. Len(ids[r]) |->
                                      RankOffset(Permuted(ids[r], p)[n], distri)],
                        new_to_old |-> p]
    BY <1>4, RankProtocol
  <2>3. Places(r) = [n \in 1 .. Len(ids[r]) |-> RankOffset(Permuted(ids[r], p)[n], distri)]
    BY <2>2 DEF Places
  <2> QED
    BY <2>1, <2>3
<1>6. pending'[r] = 1 .. Len(ids[r]) /\ \A q \in Ranks : q # r => pending'[q] = pending[q]
  BY <1>1, <1>5 DEF ControlInv, ControlTypeOK
<1>7. Op(r) = "gather" => /\ "alloc" \in done'[r] => "alloc" \in done[r]
                          /\ "perm" \notin done'[r]
  BY <1>2, <1>3, GraphFact DEF ControlInv, GraphOf
<1>8. Op(r) = "gather" /\ "alloc" \in done'[r] => buffer[r] \in [1 .. Len(ids[r]) -> Int]
  BY <1>7 DEF GatherInv
<1> QED
  BY <1>1, <1>2, <1>6, <1>7, <1>8, GatherTask

LEMMA GatherPermValues ==
  ASSUME ControlInv, GatherInv, NEW r \in Ranks, PermValues(r), DOMAIN buffer = Ranks
  PROVE  GatherInv'
<1>1. /\ Runs(r, "perm_values") /\ \A q \in Ranks : q # r => buffer'[q] = buffer[q]
      /\ UNCHANGED <<distri, sent, memory, ids, op, protocol, pending, locked, arrived, result>>
  BY DEF PermValues
<1>2. Op(r) # "gather"
  BY <1>1 DEF Runs, GraphOf
<1> QED
  BY <1>1, <1>2, GatherTask

LEMMA GatherPerm ==
  ASSUME ControlInv, GatherInv, NEW r \in Ranks, Perm(r), DOMAIN buffer = Ranks PROVE GatherInv'
<1>1. /\ Runs(r, "perm") /\ buffer' = [buffer EXCEPT ![r] = PermutedBack(r)]
      /\ UNCHANGED <<distri, sent, memory, ids, op, protocol, pending, locked, arrived, result>>
  BY DEF Perm
<1>2. /\ Op(r) = "gather" /\ "perm" \notin done[r] /\ "close" \in done[r]
      /\ done'[r] = done[r] \cup {"perm"}
  <2>1. /\ Op(r) \in {"gather", "scatter"} /\ "perm" \in GraphOf(Op(r)) /\ "perm" \notin done[r]
        /\ done'[r] = done[r] \cup {"perm"}
    BY <1>1, RunsKeeps
  <2>2. Op(r) = "gather" /\ "close" \in GraphOf(Op(r))
    BY <2>1 DEF GraphOf
  <2> QED
    BY <1>1, <2>1, <2>2, DepsFact DEF Runs
<1>3. "get" \in done[r] /\ "alloc" \in done[r] /\ "protocol" \in done[r]
  BY <1>2, GraphFact DEF ControlInv
<1>4. pending[r] = {}
  BY <1>2 DEF ControlInv, EpochInv
<1>5. /\ buffer[r] \in [1 .. Len(ids[r]) -> Int]
      /\ \A n \in 1 .. Len(ids[r]) :
           Fresh(Permuted(ids[r], protocol[r].new_to_old)[n], buffer[r][n], op[r])
  BY <1>2, <1>3, <1>4 DEF GatherInv
<1>6. PICK p \in NewToOlds(distri, ids[r]) :
        protocol[r] = [places |-> [n \in 1 .. Len(ids[r]) |->
                                    RankOffset(Permuted(ids[r], p)[n], distri)],
                      new_to_old |-> p]
  BY <1>3, RankProtocol
<1>7. protocol[r].new_to_old = p
  BY <1>6
<1>8. ids[r] \in Seq(Elts)
  BY DEF ControlInv, ControlTypeOK
<1>9. /\ Len(ids[r]) \in Nat /\ p \in [1 .. Len(ids[r]) -> 0 .. Len(ids[r]) - 1]
      /\ \A a, b \in 1 .. Len(ids[r]) : a # b => p[a] # p[b]
      /\ Permuted(ids[r], p) = [n \in 1 .. Len(ids[r]) |-> ids[r][p[n] + 1]]
  <2>1. Len(ids[r]) \in Nat /\ p \in [1 .. Len(ids[r]) -> 0 .. Len(ids[r]) - 1]
    BY <1>8, SortedFact
  <2>2. \A a, b \in 1 .. Len(ids[r]) : a # b => p[a] # p[b]
    BY <1>8, SortedFact
  <2>3. Permuted(ids[r], p) = [n \in 1 .. Len(ids[r]) |-> ids[r][p[n] + 1]]
    BY <1>8, SortedFact
  <2> QED
    BY <2>1, <2>2, <2>3
<1>10. /\ PermutedBack(r) \in [1 .. Len(ids[r]) -> Int]
       /\ \A i \in 1 .. Len(ids[r]) : \E j \in 1 .. Len(ids[r]) :
            p[j] + 1 = i /\ PermutedBack(r)[i] = buffer[r][j]
  <2> DEFINE L == Len(ids[r])
             b == buffer[r]
  <2>1. PermutedBack(r) = InvPermuted(b, p)
    BY <1>7 DEF PermutedBack
  <2>2. /\ L \in Nat /\ p \in [1 .. L -> 0 .. L - 1] /\ b \in [1 .. L -> Int]
        /\ \A i, j \in 1 .. L : i # j => p[i] # p[j]
    BY <1>5, <1>9
  <2> HIDE DEF L, b
  <2>3. /\ InvPermuted(b, p) \in [1 .. L -> Int]
        /\ \A i \in 1 .. L : \E j \in 1 .. L : p[j] + 1 = i /\ InvPermuted(b, p)[i] = b[j]
    BY <2>2, InvPermutedFact
  <2> QED
    BY <2>1, <2>3 DEF L, b
<1>11. \A i \in 1 .. Len(ids[r]) : Fresh(ids[r][i], PermutedBack(r)[i], op[r])
  <2> SUFFICES ASSUME NEW i \in 1 .. Len(ids[r])
               PROVE  Fresh(ids[r][i], PermutedBack(r)[i], op[r])
    OBVIOUS
  <2>1. PICK j \in 1 .. Len(ids[r]) : p[j] + 1 = i /\ PermutedBack(r)[i] = buffer[r][j]
    BY <1>10
  <2>2. Permuted(ids[r], p)[j] = ids[r][i]
    BY <1>9, <2>1
  <2> QED
    BY <1>5, <1>7, <2>1, <2>2
<1>12. /\ buffer'[r] = PermutedBack(r) /\ \A q \in Ranks : q # r => buffer'[q] = buffer[q]
       /\ "perm" \in done'[r]
  BY <1>1, <1>2
<1> QED
  BY <1>1, <1>10, <1>11, <1>12, GatherTask

LEMMA GatherCommunicate ==
  ASSUME ControlInv, DataInv, GatherInv, NEW r \in Ranks, NEW n \in pending[r], Communicate(r, n)
  PROVE  GatherInv'
<1> DEFINE q == protocol[r].places[n][1]
           k == protocol[r].places[n][2] + 1
<1>1. /\ pending' = [pending EXCEPT ![r] = @ \ {n}]
      /\ UNCHANGED <<distri, sent, ids, op, done, protocol, locked, arrived, result>>
  BY DEF Communicate
<1>2. n \in 1 .. Len(ids[r]) /\ ("get" \in done[r] \/ "put" \in done[r]) /\ "close" \notin done[r]
  BY DEF ControlInv, EpochInv
<1>3. \A x \in Ranks : Op(x)' = Op(x)
  BY <1>1 DEF Op
<1>4. \A x \in Ranks : x # r => pending'[x] = pending[x]
  BY <1>1 DEF ControlInv, ControlTypeOK
<1>5. CASE Op(r) # "gather"
  <2>1. buffer' = buffer /\ \A x \in Ranks : Op(x) = "gather" => x # r
    BY <1>5 DEF Communicate
  <2> QED
    BY <1>1, <1>3, <1>4, <2>1 DEF GatherInv
<1>6. CASE Op(r) = "gather"
  <2>1. buffer' = [buffer EXCEPT ![r][n] = memory[q][k]]
    BY <1>6 DEF Communicate, Places
  <2>2. /\ "alloc" \in done[r] /\ "protocol" \in done[r] /\ "get" \in done[r]
        /\ "perm" \notin done[r]
    BY <1>2, <1>6, GraphFact DEF ControlInv
  <2>3. /\ q \in Ranks /\ k \in 1 .. PartSize(distri, q)
        /\ distri[q + 1] + k - 1 = Permuted(ids[r], protocol[r].new_to_old)[n]
    BY <1>2, <2>2, PlaceOf
  <2> HIDE DEF q, k
  <2>4. Fresh(Permuted(ids[r], protocol[r].new_to_old)[n], memory[q][k], op[r])
    <3>1. \A w \in 1 .. op[r] - 1 : Program[w] # "gather" => Reached(distri, memory, q, k, w)
      BY <2>3 DEF DataInv, MemoryInv
    <3> QED
      BY <2>3, <3>1 DEF Reached, Fresh
  <2>5. memory[q][k] \in Int
    BY <2>3 DEF DataInv, MemoryTypeOK
  <2>6. /\ DOMAIN buffer = Ranks /\ buffer[r] \in [1 .. Len(ids[r]) -> Int]
        /\ \A m \in (1 .. Len(ids[r])) \ pending[r] :
             Fresh(Permuted(ids[r], protocol[r].new_to_old)[m], buffer[r][m], op[r])
    BY <1>6, <2>2 DEF DataInv, MemoryTypeOK, GatherInv
  <2>7. /\ buffer'[r] = [buffer[r] EXCEPT ![n] = memory[q][k]]
        /\ \A x \in Ranks : x # r => buffer'[x] = buffer[x]
    BY <2>1, <2>6
  <2>8. /\ buffer'[r] \in [1 .. Len(ids[r]) -> Int] /\ buffer'[r][n] = memory[q][k]
        /\ \A m \in 1 .. Len(ids[r]) : m # n => buffer'[r][m] = buffer[r][m]
    BY <1>2, <2>5, <2>6, <2>7
  <2>9. \A m \in (1 .. Len(ids[r])) \ pending'[r] :
          Fresh(Permuted(ids[r], protocol[r].new_to_old)[m], buffer'[r][m], op[r])
    <3>1. pending'[r] = pending[r] \ {n}
      BY <1>1 DEF ControlInv, ControlTypeOK
    <3> QED
      BY <2>4, <2>6, <2>8, <3>1
  <2> SUFFICES ASSUME NEW x \in Ranks, Op(x) = "gather"
               PROVE  /\ "alloc" \in done[x] => buffer'[x] \in [1 .. Len(ids[x]) -> Int]
                      /\ "get" \in done[x] /\ "perm" \notin done[x] =>
                           \A m \in (1 .. Len(ids[x])) \ pending'[x] :
                             Fresh(Permuted(ids[x], protocol[x].new_to_old)[m], buffer'[x][m], op[x])
                      /\ "perm" \in done[x] =>
                           \A m \in 1 .. Len(ids[x]) : Fresh(ids[x][m], buffer'[x][m], op[x])
    BY <1>1, <1>3 DEF GatherInv
  <2>10. CASE x = r
    BY <2>2, <2>8, <2>9, <2>10
  <2>11. CASE x # r
    BY <1>4, <2>7, <2>11 DEF GatherInv
  <2> QED
    BY <2>10, <2>11
<1> QED
  BY <1>5, <1>6

LEMMA GatherInit == ExchInit => GatherInv /\ ResultInv
<1> SUFFICES ASSUME ExchInit PROVE GatherInv /\ ResultInv
  OBVIOUS
<1>1. done = [r \in Ranks |-> {}] /\ result = [r \in Ranks |-> <<>>]
  BY DEF ExchInit, Each
<1>2. <<>> \in Seq(GoodResults)
  OBVIOUS
<1> QED
  BY <1>1, <1>2 DEF GatherInv, ResultInv

\* The steps of a rank that is not in a gather, or that begins its next operation.
LEMMA GatherOther ==
  ASSUME GatherInv, UNCHANGED <<distri, ids, protocol, buffer, pending>>,
         \A q \in Ranks : Op(q)' = "gather" /\ done'[q] # {} =>
           Op(q) = "gather" /\ op'[q] = op[q] /\ done'[q] = done[q]
  PROVE  GatherInv'
<1> SUFFICES ASSUME NEW q \in Ranks, Op(q)' = "gather"
             PROVE  /\ "alloc" \in done'[q] => buffer[q] \in [1 .. Len(ids[q]) -> Int]
                    /\ "get" \in done'[q] /\ "perm" \notin done'[q] =>
                         \A n \in (1 .. Len(ids[q])) \ pending[q] :
                           Fresh(Permuted(ids[q], protocol[q].new_to_old)[n], buffer[q][n], op'[q])
                    /\ "perm" \in done'[q] =>
                         \A n \in 1 .. Len(ids[q]) : Fresh(ids[q][n], buffer[q][n], op'[q])
  BY DEF GatherInv
<1>1. CASE done'[q] = {}
  BY <1>1
<1>2. CASE done'[q] # {}
  <2>1. Op(q) = "gather" /\ op'[q] = op[q] /\ done'[q] = done[q]
    BY <1>2
  <2> QED
    BY <2>1 DEF GatherInv
<1> QED
  BY <1>1, <1>2

LEMMA GatherNext == ControlInv /\ DataInv /\ GatherInv /\ [ExchNext]_exchVars => GatherInv'
<1> SUFFICES ASSUME ControlInv, DataInv, GatherInv, [ExchNext]_exchVars PROVE GatherInv'
  OBVIOUS
<1>0. DOMAIN buffer = Ranks
  BY DEF DataInv, MemoryTypeOK
<1>1. ASSUME NEW r \in Ranks, RankNext(r) PROVE GatherInv'
  <2>1. CASE Open(r)
    BY <2>1, GatherLeft DEF Open
  <2>2. CASE CreateProtocol(r)
    <3>1. /\ Runs(r, "protocol")
          /\ UNCHANGED <<distri, sent, memory, ids, op, buffer, pending, locked, arrived, result>>
          /\ \A q \in Ranks : q # r => protocol'[q] = protocol[q]
      BY <2>2 DEF CreateProtocol, ControlInv, ControlTypeOK
    <3>2. "get" \notin done[r]
      BY <3>1, RunsKeeps, GraphFact DEF ControlInv
    <3> QED
      BY <3>1, <3>2, GatherLeft
  <2>3. CASE Close(r)
    BY <2>3, GatherLeft DEF Close
  <2>4. CASE Extract(r)
    BY <2>4, GatherLeft DEF Extract
  <2>5. CASE Assign(r)
    <3>1. /\ Op(r) = "assign" /\ done' = [done EXCEPT ![r] = {"close"}]
          /\ UNCHANGED <<distri, sent, ids, op, protocol, buffer, pending, locked, arrived, result>>
      BY <2>5 DEF Assign
    <3>2. \A q \in Ranks : Op(q)' = Op(q) /\ (q # r => done'[q] = done[q])
      BY <3>1 DEF Op, ControlInv, ControlTypeOK
    <3> QED
      BY <3>1, <3>2, GatherOther
  <2>6. CASE ReturnGather(r)
    <3>1. /\ op' = [op EXCEPT ![r] = @ + 1] /\ done' = [done EXCEPT ![r] = {}]
          /\ UNCHANGED <<distri, sent, memory, ids, protocol, buffer, pending, locked, arrived, result>>
      BY <2>6 DEF ReturnGather, NextOp
    <3>2. /\ done'[r] = {}
          /\ \A q \in Ranks : q # r => op'[q] = op[q] /\ done'[q] = done[q] /\ Op(q)' = Op(q)
      BY <3>1 DEF Op, ControlInv, ControlTypeOK
    <3> QED
      BY <3>1, <3>2, GatherOther
  <2>7. CASE Arrive(r)
    <3>1. UNCHANGED <<distri, sent, memory, ids, op, done, protocol, buffer, pending, locked, result>>
      BY <2>7 DEF Arrive
    <3>2. \A q \in Ranks : Op(q)' = Op(q)
      BY <3>1 DEF Op
    <3> QED
      BY <3>1, <3>2, GatherOther
  <2> QED
    BY <1>0, <1>1, <2>1, <2>2, <2>3, <2>4, <2>5, <2>6, <2>7, GatherInput, GatherAlloc, GatherPermValues,
       GatherLaunch, GatherCommunicate, GatherPerm DEF RankNext
<1>2. CASE UNCHANGED exchVars
  <2>1. UNCHANGED <<distri, sent, memory, ids, op, done, protocol, buffer, pending, locked, result>>
    BY <1>2 DEF exchVars
  <2>2. \A q \in Ranks : Op(q)' = Op(q)
    BY <2>1 DEF Op
  <2> QED
    BY <2>1, <2>2, GatherOther
<1>3. CASE Leave
  <2>1. /\ \A q \in Ranks : done'[q] = {}
        /\ UNCHANGED <<distri, sent, memory, ids, protocol, buffer, pending, locked, result>>
    BY <1>3 DEF Leave, Each
  <2> QED
    BY <2>1, GatherOther
<1> QED
  BY <1>1, <1>2, <1>3 DEF ExchNext, AllEnded

LEMMA ResultNext ==
  ControlInv /\ GatherInv /\ ResultInv /\ [ExchNext]_exchVars => ResultInv'
<1> SUFFICES ASSUME ControlInv, GatherInv, ResultInv, [ExchNext]_exchVars PROVE ResultInv'
  OBVIOUS
<1>1. ASSUME NEW r \in Ranks, Extract(r) PROVE ResultInv'
  <2> DEFINE res == [op |-> op[r], ids |-> ids[r], values |-> buffer[r]]
  <2>1. Runs(r, "extract") /\ result' = [result EXCEPT ![r] = Append(@, res)]
        /\ UNCHANGED <<distri, sent, op, arrived>>
    BY <1>1 DEF Extract
  <2>2. Op(r) = "gather" /\ "perm" \in done[r]
    <3>1. Op(r) \in {"gather", "scatter"} /\ "extract" \in GraphOf(Op(r))
      BY <2>1, RunsKeeps
    <3>2. Op(r) = "gather" /\ "perm" \in GraphOf(Op(r))
      BY <3>1 DEF GraphOf
    <3> QED
      BY <2>1, <3>2, DepsFact DEF Runs
  <2>3. "alloc" \in done[r]
    BY <2>2, GraphFact DEF ControlInv
  <2>4. /\ buffer[r] \in [1 .. Len(ids[r]) -> Int]
        /\ \A n \in 1 .. Len(ids[r]) : Fresh(ids[r][n], buffer[r][n], op[r])
    BY <2>2, <2>3 DEF GatherInv
  <2>5. ids[r] \in Seq(Elts) /\ Len(ids[r]) \in Nat
    BY DEF ControlInv, ControlTypeOK
  <2>6. buffer[r] \in Seq(Int) /\ Len(buffer[r]) = Len(ids[r])
    BY <2>4, <2>5
  <2>7. op[r] \in 1 .. Len(Program) /\ Program[op[r]] = "gather"
    BY <2>2, ExchangeAssumption DEF Op, ControlInv, ControlTypeOK
  <2>8. res \in GoodResults
    BY <2>4, <2>5, <2>6, <2>7 DEF GoodResults
  <2> HIDE DEF res
  <2> QED
    BY <2>1, <2>8 DEF ResultInv
<1>2. CASE result' = result
  BY <1>2 DEF ResultInv
<1>3. ASSUME NEW r \in Ranks, RankNext(r), ~ Extract(r) PROVE result' = result
  BY <1>3 DEF RankNext, Input, Open, CreateProtocol, Alloc, PermValues, Launch, Communicate, Close,
     Perm, Assign, ReturnGather, Arrive
<1> QED
  BY <1>1, <1>2, <1>3 DEF ExchNext, Leave, AllEnded, exchVars

LEMMA ResultAlways == ExchSpec => []ResultInv
<1>1. ControlInv /\ DataInv /\ GatherInv /\ ResultInv /\ [ExchNext]_exchVars
        => GatherInv' /\ ResultInv'
  BY GatherNext, ResultNext
<1> QED
  BY <1>1, GatherInit, ControlAlways, DataAlways, PTL DEF ExchSpec

----------------------------------------------------------------------------
\* In every program: a gathered value is not older than the last assignment or scatter
\* before the gather.
GatherIsFresh ==
  \A r \in Ranks : \A k \in 1 .. Len(result[r]) :
    LET res == result[r][k]
    IN  \A n \in 1 .. Len(res.ids) : \A w \in 1 .. res.op - 1 : Program[w] # "gather" =>
          \E m \in w .. Len(Program) :
            Program[m] # "gather" /\ res.values[n] = Value(res.ids[n], m)

\* A gather reads what was written before it, or what another rank, to which the end of
\* the gather tells nothing, writes after it.
THEOREM ExchangeFresh == ExchSpec => []GatherIsFresh
<1>1. ResultInv => GatherIsFresh
  <2> SUFFICES ASSUME ResultInv, NEW r \in Ranks, NEW k \in 1 .. Len(result[r]),
                      NEW n \in 1 .. Len(result[r][k].ids)
               PROVE  Fresh(result[r][k].ids[n], result[r][k].values[n], result[r][k].op)
    BY DEF GatherIsFresh, Fresh
  <2>1. result[r][k] \in GoodResults
    BY DEF ResultInv
  <2> QED
    BY <2>1 DEF GoodResults
<1> QED
  BY <1>1, ResultAlways, PTL

\* The operations that write come before the gathers, W of them.
WritesFirst(W) == \A n \in 1 .. Len(Program) : Program[n] = "gather" <=> n > W

\* When no rank writes after a gather, a gather returns the values of the last write, in
\* the order of the ids.
THEOREM ExchangeGathers ==
  ASSUME NEW W \in Nat \ {0}, WritesFirst(W)
  PROVE  ExchSpec => []GatherReturnsArray
<1>1. ASSUME NEW res \in GoodResults
      PROVE  res.values = [n \in 1 .. Len(res.ids) |-> Value(res.ids[n], LastWrite(res.op))]
  <2>1. /\ res.op \in 1 .. Len(Program) /\ Program[res.op] = "gather"
        /\ res.ids \in Seq(Elts) /\ res.values \in Seq(Int) /\ Len(res.values) = Len(res.ids)
        /\ \A n \in 1 .. Len(res.ids) : Fresh(res.ids[n], res.values[n], res.op)
    BY DEF GoodResults
  <2>2. Len(Program) \in Nat /\ \A n \in 1 .. Len(Program) : Program[n] = "gather" <=> n > W
    BY ExchangeAssumption DEF WritesFirst
  <2>3. W < res.op /\ W \in 1 .. res.op - 1 /\ W \in 1 .. Len(Program) /\ Program[W] # "gather"
    BY <2>1, <2>2
  <2>4. LastWrite(res.op) = W
    <3>1. W \in 1 .. res.op /\ \A k \in W + 1 .. res.op : Program[k] = "gather"
      BY <2>1, <2>2, <2>3
    <3>2. ASSUME NEW m \in 1 .. res.op, Program[m] # "gather",
                 \A k \in m + 1 .. res.op : Program[k] = "gather"
          PROVE  m = W
      <4>1. m <= W
        BY <2>1, <2>2, <3>2
      <4>2. ~ (m < W)
        BY <2>3, <3>1, <3>2
      <4> QED
        BY <4>1, <4>2
    <3> QED
      BY <2>3, <3>1, <3>2 DEF LastWrite
  <2>5. ASSUME NEW n \in 1 .. Len(res.ids) PROVE res.values[n] = Value(res.ids[n], W)
    <3>1. PICK m \in W .. Len(Program) :
            Program[m] # "gather" /\ res.values[n] = Value(res.ids[n], m)
      BY <2>1, <2>3 DEF Fresh
    <3>2. m = W
      BY <2>2, <2>3, <3>1
    <3> QED
      BY <3>1, <3>2
  <2>6. res.values = [n \in 1 .. Len(res.ids) |-> res.values[n]]
    BY <2>1
  <2> QED
    BY <2>4, <2>5, <2>6
<1>2. ResultInv => GatherReturnsArray
  <2> SUFFICES ASSUME ResultInv, NEW r \in Ranks, NEW k \in 1 .. Len(result[r])
               PROVE  result[r][k] \in GoodResults
    BY <1>1 DEF GatherReturnsArray
  <2> QED
    BY DEF ResultInv
<1> QED
  BY <1>2, ResultAlways, PTL

==============================================================================
