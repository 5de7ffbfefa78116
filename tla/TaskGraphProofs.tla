-------------------------- MODULE TaskGraphProofs --------------------------
(* The wiring of the task graph is right whatever the caller attaches.     *)
EXTENDS TaskGraph, FiniteSetTheorems, TLAPS

\* The facts about the constants that the proofs below use.
LEMMA TasksAreIds == ASSUME GraphTypeOK PROVE Tasks \subseteq Id
  BY TaskGraphAssumption DEF GraphTypeOK, Tasks, Id

LEMMA PositionsFinite ==
  ASSUME NEW deps \in Seq(Id), NEW i
  PROVE  /\ IsFiniteSet(Positions(deps, i))
         /\ Cardinality(Positions(deps, i)) \in Nat
         /\ Cardinality(Positions(deps, i)) = 0 <=> Positions(deps, i) = {}
<1>1. DOMAIN deps = 1 .. Len(deps) /\ Len(deps) \in Nat
  OBVIOUS
<1>2. IsFiniteSet(1 .. Len(deps))
  BY <1>1, FS_Interval
<1>3. IsFiniteSet(Positions(deps, i))
  BY <1>1, <1>2, FS_Subset DEF Positions
<1> QED
  BY <1>3, FS_CardinalityType, FS_EmptySet

\* What is pushed back: n, at least once exactly when i is among deps.
LEMMA PushedBackFact ==
  ASSUME NEW deps \in Seq(Id), NEW i, NEW n \in Id
  PROVE  /\ PushedBack(deps, i, n) \in Seq(Id)
         /\ DOMAIN PushedBack(deps, i, n) = 1 .. Cardinality(Positions(deps, i))
         /\ \A p \in DOMAIN PushedBack(deps, i, n) : PushedBack(deps, i, n)[p] = n
         /\ PushedBack(deps, i, n) = <<>> <=> \A p \in DOMAIN deps : deps[p] # i
         /\ Len(PushedBack(deps, i, n)) = Cardinality(Positions(deps, i))
<1>1. Cardinality(Positions(deps, i)) \in Nat
  BY PositionsFinite
<1>2. Cardinality(Positions(deps, i)) = 0 <=> \A p \in DOMAIN deps : deps[p] # i
  BY PositionsFinite DEF Positions
<1> QED
  BY <1>1, <1>2 DEF PushedBack

\* A join without repeated future pushes a successor back at most once.
LEMMA PushedOnce ==
  ASSUME NEW deps \in Seq(Id), IsInjective(deps), NEW i
  PROVE  Cardinality(Positions(deps, i)) \in {0, 1}
<1>1. CASE Positions(deps, i) = {}
  BY <1>1, FS_EmptySet
<1>2. CASE Positions(deps, i) # {}
  <2>1. PICK p \in Positions(deps, i) : TRUE
    BY <1>2
  <2>2. Positions(deps, i) = {p}
    BY <2>1 DEF Positions, IsInjective
  <2> QED
    BY <2>2, FS_Singleton
<1> QED
  BY <1>1, <1>2

----------------------------------------------------------------------------

(* The invariant: the properties of TaskGraph support each other.  The     *)
(* position size is free; the lists only hold attached tasks.              *)
FreeIsEmpty ==
  \A i \in Id : i >= size =>
    kind[i] = "no_op" /\ inIdx[i] = <<>> /\ outIdx[i] = <<>>

GraphInv ==
  /\ GraphTypeOK
  /\ FreeIsEmpty
  /\ TopologicalOrder
  /\ WiredBothWays
  /\ RootsAreInputs
  /\ NoRepeatedSuccessor

\* What a successor is: a task attached later.
LEMMA SuccessorsAttached ==
  ASSUME GraphInv
  PROVE  \A m \in Id : \A p \in DOMAIN outIdx[m] :
           outIdx[m][p] \in Id /\ m < outIdx[m][p] /\ outIdx[m][p] < size
<1> SUFFICES ASSUME NEW m \in Id, NEW p \in DOMAIN outIdx[m]
             PROVE  outIdx[m][p] \in Id /\ m < outIdx[m][p] /\ outIdx[m][p] < size
  OBVIOUS
<1>1. outIdx[m] \in Seq(Id) /\ outIdx[m][p] \in Id
  BY DEF GraphInv, GraphTypeOK
<1>2. PICK r \in DOMAIN inIdx[outIdx[m][p]] : inIdx[outIdx[m][p]][r] = m
  BY <1>1 DEF GraphInv, WiredBothWays
<1> QED
  BY <1>1, <1>2 DEF GraphInv, TopologicalOrder

LEMMA GraphInitInv == ASSUME GraphInit PROVE GraphInv
<1> USE TaskGraphAssumption DEF GraphInit
<1>1. GraphTypeOK
  BY DEF GraphTypeOK, TaskKind
<1>2. FreeIsEmpty /\ TopologicalOrder /\ WiredBothWays
  BY DEF FreeIsEmpty, TopologicalOrder, WiredBothWays
<1>3. RootsAreInputs
  BY DEF RootsAreInputs, Tasks
<1>4. NoRepeatedSuccessor
  BY DEF NoRepeatedSuccessor, IsInjective
<1> QED
  BY <1>1, <1>2, <1>3, <1>4 DEF GraphInv

LEMMA InputDataInv == ASSUME GraphInv, InputData PROVE GraphInv'
<1> USE TaskGraphAssumption
<1>1. /\ size \in Id /\ size' = size + 1
      /\ kind' = [kind EXCEPT ![size] = "input"]
      /\ inIdx' = inIdx /\ outIdx' = outIdx
  BY DEF GraphInv, GraphTypeOK, InputData, EmplaceBack, Id
<1>2. /\ kind \in [Id -> TaskKind]
      /\ inIdx \in [Id -> Seq(Id)] /\ outIdx \in [Id -> Seq(Id)]
  BY DEF GraphInv, GraphTypeOK
<1>3. GraphTypeOK'
  BY <1>1, <1>2 DEF GraphTypeOK, TaskKind, Id
<1>4. FreeIsEmpty'
  <2> SUFFICES ASSUME NEW i \in Id, i >= size + 1
               PROVE  kind'[i] = "no_op" /\ inIdx[i] = <<>> /\ outIdx[i] = <<>>
    BY <1>1 DEF FreeIsEmpty
  <2>1. i >= size /\ i # size
    BY <1>1 DEF Id
  <2> QED
    BY <1>1, <1>2, <2>1 DEF GraphInv, FreeIsEmpty
<1>5. TopologicalOrder'
  <2> SUFFICES ASSUME NEW n \in Id, NEW p \in DOMAIN inIdx[n]
               PROVE  inIdx[n][p] < n /\ n < size + 1
    BY <1>1 DEF TopologicalOrder
  <2>1. inIdx[n][p] < n /\ n < size
    BY DEF GraphInv, TopologicalOrder
  <2> QED
    BY <1>1, <2>1 DEF Id
<1>6. WiredBothWays'
  BY <1>1 DEF GraphInv, WiredBothWays
<1>7. RootsAreInputs'
  <2>1. inIdx[size] = <<>>
    BY <1>1 DEF GraphInv, FreeIsEmpty, Id
  <2>2. \A i \in 0 .. size : i = size \/ (i \in 0 .. size - 1 /\ i \in Id)
    BY <1>1 DEF Id
  <2>3. size + 1 - 1 = size
    BY <1>1 DEF Id
  <2>4. kind'[size] = "input" /\ \A i \in Id : i # size => kind'[i] = kind[i]
    BY <1>1, <1>2
  <2>5. Tasks' = 0 .. size
    BY <1>1 DEF Tasks, Id
  <2> SUFFICES ASSUME NEW i \in 0 .. size PROVE inIdx[i] = <<>> <=> kind'[i] = "input"
    BY <1>1, <2>5 DEF RootsAreInputs
  <2>6. CASE i = size
    BY <2>1, <2>4, <2>6
  <2>7. CASE i # size
    <3>1. i \in Tasks /\ i \in Id
      BY <2>2, <2>7 DEF Tasks
    <3> QED
      BY <3>1, <2>4, <2>7 DEF GraphInv, RootsAreInputs
  <2> QED
    BY <2>6, <2>7
<1>8. NoRepeatedSuccessor'
  BY <1>1 DEF GraphInv, NoRepeatedSuccessor
<1> QED
  BY <1>3, <1>4, <1>5, <1>6, <1>7, <1>8 DEF GraphInv

\* The lists after a task has been wired to deps.
LEMMA ThenTaskFact ==
  ASSUME GraphInv, NEW tk \in {"computation", "communication"},
         NEW len \in 1 .. MaxJoin, NEW deps \in JoinOf(len), ThenTask(tk, deps)
  PROVE  /\ deps \in Seq(Id) /\ deps # <<>>
         /\ \A p \in DOMAIN deps : deps[p] < size
         /\ size \in Id /\ size' = size + 1
         /\ kind' = [kind EXCEPT ![size] = tk]
         /\ inIdx' = [inIdx EXCEPT ![size] = deps]
         /\ outIdx' \in [Id -> Seq(Id)]
         /\ \A m \in Id :
              /\ Cardinality(Positions(deps, m)) \in Nat
              /\ DOMAIN outIdx[m] = 1 .. Len(outIdx[m])
              /\ Len(outIdx[m]) \in Nat
              /\ DOMAIN outIdx'[m] = 1 .. Len(outIdx[m]) + Cardinality(Positions(deps, m))
              /\ \A p \in DOMAIN outIdx'[m] :
                   outIdx'[m][p] = IF p <= Len(outIdx[m]) THEN outIdx[m][p] ELSE size
              /\ (Cardinality(Positions(deps, m)) = 0)
                    <=> (\A p \in DOMAIN deps : deps[p] # m)
<1> USE TaskGraphAssumption
<1>1. /\ size \in Id /\ size' = size + 1
      /\ kind' = [kind EXCEPT ![size] = tk]
      /\ inIdx' = [inIdx EXCEPT ![size] = deps]
  BY DEF GraphInv, GraphTypeOK, ThenTask, EmplaceBack, Id
<1>2. /\ deps \in Seq(Id) /\ deps # <<>>
      /\ \A p \in DOMAIN deps : deps[p] < size
  <2>1. deps \in [1 .. len -> Tasks] /\ len \in Nat /\ len > 0
    BY DEF JoinOf
  <2>2. deps \in Seq(Tasks) /\ Len(deps) = len
    BY <2>1
  <2> QED
    BY <2>1, <2>2, TasksAreIds, <1>1 DEF GraphInv, Tasks, Id
<1>3. ASSUME NEW m \in Id
      PROVE  /\ outIdx[m] \in Seq(Id)
             /\ PushedBack(deps, m, size) \in Seq(Id)
             /\ outIdx'[m] = outIdx[m] \o PushedBack(deps, m, size)
  BY <1>1, <1>2, PushedBackFact DEF ThenTask, GraphInv, GraphTypeOK
<1>4. outIdx' \in [Id -> Seq(Id)]
  BY <1>3 DEF ThenTask
<1>5. ASSUME NEW m \in Id
      PROVE  /\ Cardinality(Positions(deps, m)) \in Nat
             /\ DOMAIN outIdx[m] = 1 .. Len(outIdx[m])
             /\ Len(outIdx[m]) \in Nat
             /\ DOMAIN outIdx'[m] = 1 .. Len(outIdx[m]) + Cardinality(Positions(deps, m))
             /\ \A p \in DOMAIN outIdx'[m] :
                  outIdx'[m][p] = IF p <= Len(outIdx[m]) THEN outIdx[m][p] ELSE size
             /\ (Cardinality(Positions(deps, m)) = 0)
                   <=> (\A p \in DOMAIN deps : deps[p] # m)
  <2>1. Cardinality(Positions(deps, m)) \in Nat
    BY <1>2, PositionsFinite
  <2>2. /\ Len(PushedBack(deps, m, size)) = Cardinality(Positions(deps, m))
        /\ \A p \in 1 .. Cardinality(Positions(deps, m)) :
             PushedBack(deps, m, size)[p] = size
    BY <1>1, <1>2, <2>1, PushedBackFact DEF PushedBack
  <2>3. Cardinality(Positions(deps, m)) = 0 <=> \A p \in DOMAIN deps : deps[p] # m
    BY <1>2, PositionsFinite DEF Positions
  <2> DEFINE s == outIdx[m]
             b == PushedBack(deps, m, size)
             c == Cardinality(Positions(deps, m))
  <2> HIDE DEF b, c
  <2>4. s \in Seq(Id) /\ b \in Seq(Id) /\ Len(b) = c /\ c \in Nat
        /\ \A p \in 1 .. c : b[p] = size
    BY <1>3, <2>1, <2>2 DEF b, c
  <2>5. /\ DOMAIN s = 1 .. Len(s) /\ Len(s) \in Nat
        /\ DOMAIN (s \o b) = 1 .. Len(s) + c
        /\ \A p \in 1 .. Len(s) + c :
             (s \o b)[p] = IF p <= Len(s) THEN s[p] ELSE size
    BY <2>4
  <2> QED
    BY <1>3, <2>1, <2>3, <2>5 DEF b, c
<1> QED
  BY <1>1, <1>2, <1>4, <1>5

LEMMA ThenTaskInv ==
  ASSUME GraphInv, NEW tk \in {"computation", "communication"},
         NEW len \in 1 .. MaxJoin, NEW deps \in JoinOf(len), ThenTask(tk, deps)
  PROVE  GraphInv'
<1> USE TaskGraphAssumption
<1> DEFINE C(m) == Cardinality(Positions(deps, m))
<1> HIDE DEF C
<1>f. /\ deps \in Seq(Id) /\ deps # <<>>
      /\ \A p \in DOMAIN deps : deps[p] < size
      /\ size \in Id /\ size' = size + 1
      /\ kind' = [kind EXCEPT ![size] = tk]
      /\ inIdx' = [inIdx EXCEPT ![size] = deps]
      /\ outIdx' \in [Id -> Seq(Id)]
  BY ThenTaskFact
<1>o. ASSUME NEW m \in Id
      PROVE  /\ C(m) \in Nat
             /\ DOMAIN outIdx[m] = 1 .. Len(outIdx[m])
             /\ Len(outIdx[m]) \in Nat
             /\ DOMAIN outIdx'[m] = 1 .. Len(outIdx[m]) + C(m)
             /\ \A p \in DOMAIN outIdx'[m] :
                  outIdx'[m][p] = IF p <= Len(outIdx[m]) THEN outIdx[m][p] ELSE size
             /\ (C(m) = 0) <=> (\A p \in DOMAIN deps : deps[p] # m)
  BY ThenTaskFact DEF C
<1>1. GraphTypeOK'
  BY SMTT(30), <1>f DEF GraphInv, GraphTypeOK, TaskKind, Id
<1>s. \A m \in Id : \A p \in DOMAIN outIdx[m] :
        outIdx[m][p] \in Id /\ m < outIdx[m][p] /\ outIdx[m][p] < size
  BY SuccessorsAttached
<1>2. FreeIsEmpty'
  <2> SUFFICES ASSUME NEW i \in Id, i >= size + 1
               PROVE  kind'[i] = "no_op" /\ inIdx'[i] = <<>> /\ outIdx'[i] = <<>>
    BY <1>f DEF FreeIsEmpty
  <2>1. size \in Int /\ i \in Int /\ i # size /\ i >= size
    BY <1>f DEF Id
  <2>2. kind[i] = "no_op" /\ inIdx[i] = <<>> /\ outIdx[i] = <<>>
    BY <2>1 DEF GraphInv, FreeIsEmpty
  <2>3. C(i) = 0
    <3>1. \A p \in DOMAIN deps : deps[p] # i
      <4>1. \A p \in DOMAIN deps : deps[p] \in Int
        BY <1>f DEF Id
      <4> QED
        BY <1>f, <2>1, <4>1
    <3> QED
      BY <1>o, <3>1
  <2>4. outIdx'[i] \in Seq(Id) /\ DOMAIN outIdx'[i] = {}
    BY <1>f, <1>o, <2>2, <2>3
  <2> QED
    BY <1>f, <2>1, <2>2, <2>4 DEF GraphInv, GraphTypeOK
<1>3. TopologicalOrder'
  <2> SUFFICES ASSUME NEW n \in Id, NEW p \in DOMAIN inIdx'[n]
               PROVE  inIdx'[n][p] < n /\ n < size + 1
    BY <1>f DEF TopologicalOrder
  <2>1. CASE n = size
    BY <1>f, <2>1 DEF GraphInv, GraphTypeOK, Id
  <2>2. CASE n # size
    <3>1. inIdx'[n] = inIdx[n]
      BY <1>f, <2>2 DEF GraphInv, GraphTypeOK
    <3>2. inIdx[n][p] < n /\ n < size
      BY <3>1 DEF GraphInv, TopologicalOrder
    <3> QED
      BY <3>1, <3>2, <1>f DEF Id
  <2> QED
    BY <2>1, <2>2
<1>4. WiredBothWays'
  <2> SUFFICES ASSUME NEW m \in Id, NEW n \in Id
               PROVE  (\E p \in DOMAIN inIdx'[n] : inIdx'[n][p] = m)
                        <=> (\E p \in DOMAIN outIdx'[m] : outIdx'[m][p] = n)
    BY DEF WiredBothWays
  <2> DEFINE L == Len(outIdx[m])
             c == C(m)
  <2> HIDE DEF L, c
  <2>o. /\ c \in Nat /\ L \in Nat
        /\ DOMAIN outIdx[m] = 1 .. L
        /\ DOMAIN outIdx'[m] = 1 .. L + c
        /\ \A p \in 1 .. L : outIdx'[m][p] = outIdx[m][p]
        /\ \A p \in L + 1 .. L + c : outIdx'[m][p] = size
    BY <1>o DEF L, c
  <2>1. CASE n = size
    <3>1. inIdx'[n] = deps
      BY <1>f, <2>1 DEF GraphInv, GraphTypeOK
    <3>2. (\E p \in DOMAIN outIdx'[m] : outIdx'[m][p] = n) <=> C(m) # 0
      <4>1. \A p \in DOMAIN outIdx[m] : outIdx[m][p] # size
        BY <1>s, <1>f DEF Id
      <4>2. CASE c = 0
        BY <4>1, <4>2, <2>o, <2>1 DEF c
      <4>3. CASE c # 0
        <5>1. L + 1 \in DOMAIN outIdx'[m] /\ outIdx'[m][L + 1] = size
          BY <2>o, <4>3
        <5> QED
          BY <5>1, <4>3, <2>1 DEF c
      <4> QED
        BY <4>2, <4>3
    <3> QED
      BY <3>1, <3>2, <1>o
  <2>2. CASE n # size
    <3>1. inIdx'[n] = inIdx[n]
      BY <1>f, <2>2 DEF GraphInv, GraphTypeOK
    <3>2. (\E p \in DOMAIN outIdx'[m] : outIdx'[m][p] = n)
            <=> (\E p \in DOMAIN outIdx[m] : outIdx[m][p] = n)
      <4>1. \A p \in DOMAIN outIdx'[m] :
              outIdx'[m][p] = n => p \in 1 .. L
        BY <2>o, <2>2
      <4> QED
        BY <4>1, <2>o
    <3> QED
      BY <3>1, <3>2 DEF GraphInv, WiredBothWays
  <2> QED
    BY <2>1, <2>2
<1>5. RootsAreInputs'
  <2>1. tk # "input"
    OBVIOUS
  <2> QED
    BY SMTT(30), <1>f, <2>1 DEF GraphInv, GraphTypeOK, RootsAreInputs, Tasks, Id
<1>6. NoRepeatedSuccessor'
  <2> SUFFICES ASSUME ~ RepeatedDeps, NEW m \in Id
               PROVE  IsInjective(outIdx'[m])
    BY DEF NoRepeatedSuccessor
  <2>1. C(m) \in {0, 1}
    BY <1>f, PushedOnce DEF JoinOf, C
  <2>2. IsInjective(outIdx[m])
    BY DEF GraphInv, NoRepeatedSuccessor
  <2> SUFFICES ASSUME NEW a \in DOMAIN outIdx'[m], NEW b \in DOMAIN outIdx'[m],
                      outIdx'[m][a] = outIdx'[m][b]
               PROVE  a = b
    BY DEF IsInjective
  <2>3. \A p \in DOMAIN outIdx[m] : outIdx[m][p] # size
    BY SMTT(30), <1>s, <1>f DEF Id
  <2> DEFINE L == Len(outIdx[m])
  <2> HIDE DEF L
  <2>4. /\ L \in Nat
        /\ DOMAIN outIdx[m] = 1 .. L
        /\ a \in 1 .. L + 1 /\ b \in 1 .. L + 1
        /\ \A p \in {a, b} : outIdx'[m][p] = IF p <= L THEN outIdx[m][p] ELSE size
    BY <1>o, <2>1 DEF L
  <2>5. (a \in 1 .. L /\ b \in 1 .. L) \/ (a = L + 1 /\ b = L + 1)
    BY <2>3, <2>4
  <2> QED
    BY <2>2, <2>4, <2>5 DEF IsInjective
<1> QED
  BY <1>1, <1>2, <1>3, <1>4, <1>5, <1>6 DEF GraphInv

LEMMA GraphStepInv == ASSUME GraphInv, GraphNext PROVE GraphInv'
<1>1. CASE InputData
  BY <1>1, InputDataInv
<1>2. CASE Then
  BY <1>2, ThenTaskInv DEF Then
<1>3. CASE ThenComm
  BY <1>3, ThenTaskInv DEF ThenComm
<1> QED
  BY <1>1, <1>2, <1>3 DEF GraphNext

LEMMA GraphStutterInv == ASSUME GraphInv, UNCHANGED graphVars PROVE GraphInv'
  BY DEF graphVars, GraphInv, GraphTypeOK, FreeIsEmpty, TopologicalOrder,
         WiredBothWays, RootsAreInputs, Tasks, NoRepeatedSuccessor

(* Whatever futures are joined, the order of the indices is a topological  *)
(* order, both directions agree, exactly the inputs are roots, and without *)
(* repeated future a task follows another at most once.                    *)
THEOREM GraphCorrect == GraphSpec => []GraphInv
<1>1. GraphInit => GraphInv
  BY GraphInitInv
<1>2. GraphInv /\ [GraphNext]_graphVars => GraphInv'
  BY GraphStepInv, GraphStutterInv
<1> QED
  BY <1>1, <1>2, PTL DEF GraphSpec

----------------------------------------------------------------------------

LEMMA ThenTaskSameMultiplicity ==
  ASSUME GraphInv, SameMultiplicity,
         NEW tk \in {"computation", "communication"},
         NEW len \in 1 .. MaxJoin, NEW deps \in JoinOf(len), ThenTask(tk, deps)
  PROVE  SameMultiplicity'
<1> SUFFICES ASSUME NEW m \in Id, NEW n \in Id
             PROVE  Cardinality(Positions(inIdx'[n], m))
                      = Cardinality(Positions(outIdx'[m], n))
  BY DEF SameMultiplicity
<1> DEFINE L == Len(outIdx[m])
           c == Cardinality(Positions(deps, m))
<1> HIDE DEF L, c
<1>1. /\ size \in Id /\ inIdx' = [inIdx EXCEPT ![size] = deps]
      /\ c \in Nat /\ L \in Nat
      /\ DOMAIN outIdx[m] = 1 .. L
      /\ DOMAIN outIdx'[m] = 1 .. L + c
      /\ \A p \in 1 .. L : outIdx'[m][p] = outIdx[m][p]
      /\ \A p \in L + 1 .. L + c : outIdx'[m][p] = size
  <2>1. /\ size \in Id /\ inIdx' = [inIdx EXCEPT ![size] = deps]
        /\ c \in Nat /\ L \in Nat
        /\ DOMAIN outIdx[m] = 1 .. L
        /\ DOMAIN outIdx'[m] = 1 .. L + c
        /\ \A p \in DOMAIN outIdx'[m] :
             outIdx'[m][p] = IF p <= L THEN outIdx[m][p] ELSE size
    BY ThenTaskFact DEF L, c
  <2> QED
    BY <2>1
<1>2. \A p \in 1 .. L : outIdx[m][p] # size
  <2>1. \A p \in 1 .. L : outIdx[m][p] \in Id /\ outIdx[m][p] < size
    BY <1>1, SuccessorsAttached
  <2> QED
    BY <2>1 DEF Id
<1>3. CASE n = size
  <2>1. Positions(inIdx'[n], m) = Positions(deps, m)
    BY <1>1, <1>3 DEF GraphInv, GraphTypeOK
  <2>2. Positions(outIdx'[m], n) = L + 1 .. L + c
    <3>1. \A p \in 1 .. L + c : p \in 1 .. L \/ p \in L + 1 .. L + c
      BY <1>1
    <3>2. L + 1 .. L + c \subseteq 1 .. L + c
      BY <1>1
    <3>3. (1 .. L) \cap (L + 1 .. L + c) = {}
      BY <1>1
    <3> QED
      BY <1>1, <1>2, <1>3, <3>1, <3>2, <3>3 DEF Positions
  <2>3. Cardinality(L + 1 .. L + c) = c
    <3>1. CASE c = 0
      BY <1>1, <3>1, FS_Interval
    <3>2. CASE c # 0
      <4>1. L + 1 \in Int /\ L + c \in Int /\ ~ (L + 1 > L + c)
        BY <1>1, <3>2
      <4>2. Cardinality(L + 1 .. L + c) = (L + c) - (L + 1) + 1
        BY <4>1, FS_Interval
      <4> QED
        BY <4>2, <1>1
    <3> QED
      BY <3>1, <3>2
  <2> QED
    BY <2>1, <2>2, <2>3 DEF c
<1>4. CASE n # size
  <2>1. inIdx'[n] = inIdx[n]
    BY <1>1, <1>4 DEF GraphInv, GraphTypeOK
  <2>2. Positions(outIdx'[m], n) = Positions(outIdx[m], n)
    <3>1. \A p \in 1 .. L + c : p \in 1 .. L \/ p \in L + 1 .. L + c
      BY <1>1
    <3>2. 1 .. L \subseteq 1 .. L + c
      BY <1>1
    <3> QED
      BY <1>1, <1>4, <3>1, <3>2 DEF Positions
  <2> QED
    BY <2>1, <2>2 DEF SameMultiplicity
<1> QED
  BY <1>3, <1>4

(* The structure the schedules rely on (task.hpp:25): the indices of the tasks *)
(* are a topological order, a future knows what is attached to it and          *)
(* conversely, and only input data have no dependency.                         *)
THEOREM GraphOrder == GraphSpec => [](TopologicalOrder /\ WiredBothWays /\ RootsAreInputs)
<1>1. GraphInv => TopologicalOrder /\ WiredBothWays /\ RootsAreInputs
  BY DEF GraphInv
<1> QED
  BY <1>1, GraphCorrect, PTL

(* A join that repeats a future records the dependency as many times in    *)
(* both directions.                                                        *)
THEOREM MultiplicityCorrect == GraphSpec => []SameMultiplicity
<1>1. GraphInit => SameMultiplicity
  BY DEF GraphInit, SameMultiplicity, Positions
<1>2. GraphInv /\ SameMultiplicity /\ [GraphNext]_graphVars => SameMultiplicity'
  <2> SUFFICES ASSUME GraphInv, SameMultiplicity, [GraphNext]_graphVars
               PROVE  SameMultiplicity'
    OBVIOUS
  <2>1. CASE InputData \/ UNCHANGED graphVars
    BY <2>1 DEF InputData, graphVars, SameMultiplicity
  <2>2. CASE Then
    BY <2>2, ThenTaskSameMultiplicity DEF Then
  <2>3. CASE ThenComm
    BY <2>3, ThenTaskSameMultiplicity DEF ThenComm
  <2> QED
    BY <2>1, <2>2, <2>3 DEF GraphNext
<1> QED
  BY <1>1, <1>2, GraphCorrect, PTL DEF GraphSpec

=============================================================================
