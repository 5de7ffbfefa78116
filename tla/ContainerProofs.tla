-------------------------- MODULE ContainerProofs --------------------------
(* The proofs about Buffers, for any number of variables and of blocks of   *)
(* memory, about JaggedGather, for any distribution, sizes and ids, and any *)
(* order of its tasks and of the reads of its blocks, about MultiRange, for *)
(* any number of columns and of rows, and about JaggedRange, for any values *)
(* and any number of them, of blocks and of groups.                         *)
EXTENDS Buffers, JaggedGather, MultiRange, JaggedRange, SeqLemmas

----------------------------------------------------------------------------
(* Buffers: the inductive invariant. *)

Kinds == {"none", "vector", "given", "buffer", "polymorphic", "array"}

BuffersTypeOK ==
  /\ holds \in [Holders -> [kind : Kinds, block : Nat, flag : Nat, dealloc : BOOLEAN]]
  /\ flagOf \in Seq(BOOLEAN)
  /\ freed \in Seq({0, 1})
  /\ manual \subseteq Memory
  /\ dropped \subseteq Memory

\* What a variable holds exists. A vector that was made a buffer shares a flag
\* that is down; another one whose flag is down has a block that is lost.
HoldsInv ==
  \A v \in Holders :
    /\ holds[v].block \in Memory \cup {0}
    /\ holds[v].kind = "none" => holds[v] = Nothing
    /\ holds[v].kind # "none" => holds[v].block # 0
    /\ IsVector(v) => holds[v].flag \in DOMAIN flagOf
    /\ holds[v].kind = "given" => ~ flagOf[holds[v].flag]
    /\ holds[v].kind = "vector" /\ ~ flagOf[holds[v].flag] => holds[v].block \in dropped

\* No two vectors have the same block.
VectorsInv ==
  \A v, w \in Holders :
    /\ holds[v].kind = "vector" /\ holds[w].kind = "vector"
    /\ holds[v].block = holds[w].block
    => v = w

\* The block that each variable owns.
Owned == [v \in Holders |-> IF IsOwner(v) THEN holds[v].block ELSE 0]

\* A block has one owner, or the program has to deallocate it, or it is
\* deallocated, or it is dropped.
OwnersInv ==
  \A b \in Memory :
    /\ \A v, w \in Holders : Owned[v] = b /\ Owned[w] = b => v = w
    /\ \A v \in Holders : Owned[v] = b => b \notin manual /\ freed[b] = 0 /\ b \notin dropped
    /\ b \in manual => freed[b] = 0 /\ b \notin dropped
    /\ freed[b] = 1 => b \notin dropped
    /\ \/ \E v \in Holders : Owned[v] = b
       \/ b \in manual \/ freed[b] = 1 \/ b \in dropped

BuffersInv == BuffersTypeOK /\ HoldsInv /\ VectorsInv /\ OwnersInv

----------------------------------------------------------------------------

LEMMA MemoryFact ==
  ASSUME BuffersInv
  PROVE  /\ Memory = 1 .. Len(freed) /\ Len(freed) \in Nat
         /\ NewBlock \in Nat /\ NewBlock \notin Memory /\ NewBlock # 0 /\ 0 \notin Memory
         /\ \A b \in Memory : freed[b] \in {0, 1}
BY DEF BuffersInv, BuffersTypeOK, Memory, NewBlock

LEMMA AllocatedFact ==
  ASSUME BuffersInv, NEW s \in Seq({0, 1}), Len(s) = Len(freed), freed' = Append(s, 0)
  PROVE  /\ freed' \in Seq({0, 1})
         /\ Memory' = Memory \cup {NewBlock}
         /\ freed'[NewBlock] = 0
         /\ \A b \in Memory : freed'[b] = s[b]
<1>1. Len(freed) \in Nat
  BY MemoryFact
<1> QED
  BY <1>1 DEF BuffersInv, BuffersTypeOK, Memory, NewBlock

\* The block of a vector that owns it, or of an owning buffer, is deallocated.
LEMMA DestroyedFact ==
  ASSUME BuffersInv, NEW v \in Holders
  PROVE  /\ AfterDestroyed(v) \in Seq({0, 1}) /\ Len(AfterDestroyed(v)) = Len(freed)
         /\ DOMAIN AfterDestroyed(v) = Memory
         /\ \A b \in Memory :
              AfterDestroyed(v)[b] = IF Owned[v] = b THEN 1 ELSE freed[b]
<1>1. freed \in Seq({0, 1})
  BY DEF BuffersInv, BuffersTypeOK
<1>2. CASE ~ IsOwner(v)
  BY <1>1, <1>2 DEF AfterDestroyed, Owned, Memory
<1>3. CASE IsOwner(v)
  <2>1. holds[v].block \in Memory /\ freed[holds[v].block] = 0
    BY <1>3 DEF BuffersInv, HoldsInv, OwnersInv, Owned, IsOwner
  <2>2. AfterDestroyed(v) = [freed EXCEPT ![holds[v].block] = 1]
    BY <1>1, <1>3, <2>1 DEF AfterDestroyed
  <2>3. \A b \in Memory : Owned[v] = b <=> b = holds[v].block
    BY <1>3 DEF Owned
  <2> QED
    BY <1>1, <2>1, <2>2, <2>3 DEF Memory
<1> QED
  BY <1>2, <1>3

LEMMA FlagFact ==
  ASSUME BuffersInv, flagOf' = Append(flagOf, TRUE)
  PROVE  /\ flagOf' \in Seq(BOOLEAN) /\ Len(flagOf) + 1 \in Nat
         /\ DOMAIN flagOf' = DOMAIN flagOf \cup {Len(flagOf) + 1}
         /\ Len(flagOf) + 1 \notin DOMAIN flagOf
         /\ flagOf'[Len(flagOf) + 1]
         /\ \A f \in DOMAIN flagOf : flagOf'[f] = flagOf[f]
<1>1. flagOf \in Seq(BOOLEAN) /\ TRUE \in BOOLEAN
  BY DEF BuffersInv, BuffersTypeOK
<1>2. DOMAIN flagOf = 1 .. Len(flagOf) /\ Len(flagOf) \in Nat
  BY <1>1
<1>3. /\ flagOf' \in Seq(BOOLEAN) /\ Len(flagOf') = Len(flagOf) + 1
      /\ \A f \in 1 .. Len(flagOf) : flagOf'[f] = flagOf[f]
      /\ flagOf'[Len(flagOf) + 1] = TRUE
  <2> HIDE <1>2
  <2> QED
    BY <1>1, AppendProperties
<1>4. DOMAIN flagOf' = 1 .. Len(flagOf) + 1
  BY <1>2, <1>3
<1> QED
  BY <1>2, <1>3, <1>4

\* What a variable owns, it holds.
LEMMA OwnedFact ==
  ASSUME BuffersInv, NEW v \in Holders
  PROVE  /\ Owned[v] \in Memory \cup {0} /\ Owned[v] \in {0, holds[v].block}
         /\ IsOwner(v) <=> Owned[v] # 0
         /\ \A w \in Holders : Owned[w] = Owned[v] /\ Owned[v] # 0 => v = w
<1>1. Owned[v] = IF IsOwner(v) THEN holds[v].block ELSE 0
  BY DEF Owned
<1>2. holds[v].block \in Memory \cup {0} /\ (IsOwner(v) => holds[v].block # 0)
  BY DEF BuffersInv, HoldsInv, IsOwner
<1>3. Owned[v] \in Memory \cup {0} /\ (IsOwner(v) <=> Owned[v] # 0)
  BY <1>1, <1>2
<1>4. Owned[v] \in Memory => \A w \in Holders : Owned[w] = Owned[v] => v = w
  BY DEF BuffersInv, OwnersInv
<1> QED
  BY <1>1, <1>3, <1>4

LEMMA MakeVectorStep == ASSUME BuffersInv, NEW v \in Holders, MakeVector(v) PROVE BuffersInv'
<1>1. /\ freed' = Append(freed, 0) /\ freed \in Seq({0, 1})
      /\ flagOf' = Append(flagOf, TRUE) /\ flagOf \in Seq(BOOLEAN)
      /\ holds' = [holds EXCEPT ![v] = Held("vector", NewBlock, Len(flagOf) + 1, FALSE)]
      /\ UNCHANGED <<manual, dropped>>
  BY DEF MakeVector, BuffersInv, BuffersTypeOK
<1>2. /\ freed' \in Seq({0, 1}) /\ Memory' = Memory \cup {NewBlock}
      /\ freed'[NewBlock] = 0 /\ \A b \in Memory : freed'[b] = freed[b]
  BY <1>1, AllocatedFact
<1>3. /\ flagOf' \in Seq(BOOLEAN) /\ Len(flagOf) + 1 \in Nat
      /\ DOMAIN flagOf' = DOMAIN flagOf \cup {Len(flagOf) + 1}
      /\ flagOf'[Len(flagOf) + 1]
      /\ \A f \in DOMAIN flagOf : flagOf'[f] = flagOf[f]
  BY <1>1, FlagFact
<1>4. /\ holds'[v].kind = "vector" /\ holds'[v].block = NewBlock
      /\ holds'[v].flag = Len(flagOf) + 1
      /\ \A u \in Holders \ {v} : holds'[u] = holds[u]
  BY <1>1 DEF BuffersInv, BuffersTypeOK, Held
<1>5. BuffersTypeOK'
  BY <1>1, <1>2, <1>3, MemoryFact DEF BuffersInv, BuffersTypeOK, Held, Kinds
<1>6. HoldsInv'
  BY <1>1, <1>2, <1>3, <1>4, MemoryFact DEF BuffersInv, HoldsInv, IsVector, Nothing, Held
<1>7. VectorsInv'
  BY <1>4, MemoryFact DEF BuffersInv, VectorsInv, HoldsInv
<1>8. OwnersInv'
  <2>1. Owned[v] = 0 /\ Owned'[v] = NewBlock
    BY <1>3, <1>4, MemoryFact DEF Owned, IsOwner, IsVector, MakeVector, Nothing, Held
  <2>2. \A u \in Holders \ {v} : Owned'[u] = Owned[u] /\ Owned[u] \in Memory \cup {0}
    BY <1>3, <1>4 DEF Owned, IsOwner, IsVector, BuffersInv, HoldsInv
  <2>3. NewBlock \notin manual /\ NewBlock \notin dropped
    BY MemoryFact DEF BuffersInv, BuffersTypeOK
  <2>4. \A b \in Memory, u \in Holders : Owned'[u] = b <=> Owned[u] = b
    BY <2>1, <2>2, MemoryFact
  <2>5. \A u \in Holders : Owned'[u] = NewBlock <=> u = v
    BY <2>1, <2>2, MemoryFact
  <2>6. manual' = manual /\ dropped' = dropped /\ OwnersInv
    BY <1>1 DEF BuffersInv
  <2> QED
    BY <1>2, <2>3, <2>4, <2>5, <2>6 DEF OwnersInv
<1> QED
  BY <1>5, <1>6, <1>7, <1>8 DEF BuffersInv

LEMMA ReallocateStep == ASSUME BuffersInv, NEW v \in Holders, Reallocate(v) PROVE BuffersInv'
<1>1. /\ freed' = Append(AfterDestroyed(v), 0)
      /\ holds' = [holds EXCEPT ![v].block = NewBlock]
      /\ dropped' = IF Owned[v] # 0 THEN dropped ELSE dropped \cup {NewBlock}
      /\ flagOf' = flagOf /\ manual' = manual /\ holds[v].kind = "vector"
  BY OwnedFact DEF Reallocate
<1>2. /\ freed' \in Seq({0, 1}) /\ Memory' = Memory \cup {NewBlock}
      /\ freed'[NewBlock] = 0
      /\ \A b \in Memory : freed'[b] = IF Owned[v] = b THEN 1 ELSE freed[b]
  <2>1. /\ AfterDestroyed(v) \in Seq({0, 1}) /\ Len(AfterDestroyed(v)) = Len(freed)
        /\ \A b \in Memory : AfterDestroyed(v)[b] = IF Owned[v] = b THEN 1 ELSE freed[b]
    BY DestroyedFact
  <2> DEFINE s == AfterDestroyed(v)
  <2> HIDE DEF s
  <2>2. freed' = Append(s, 0) /\ s \in Seq({0, 1}) /\ Len(s) = Len(freed)
    BY <1>1, <2>1 DEF s
  <2>3. /\ freed' \in Seq({0, 1}) /\ Memory' = Memory \cup {NewBlock}
        /\ freed'[NewBlock] = 0 /\ \A b \in Memory : freed'[b] = s[b]
    BY <2>2, AllocatedFact
  <2> QED
    BY <2>1, <2>3 DEF s
<1>3. /\ holds'[v].kind = "vector" /\ holds'[v].block = NewBlock
      /\ holds'[v].flag = holds[v].flag
      /\ \A u \in Holders \ {v} : holds'[u] = holds[u]
  BY <1>1 DEF BuffersInv, BuffersTypeOK
<1>4. BuffersTypeOK'
  <2>1. holds' \in [Holders -> [kind : Kinds, block : Nat, flag : Nat, dealloc : BOOLEAN]]
    BY <1>1, MemoryFact DEF BuffersInv, BuffersTypeOK
  <2> QED
    BY <1>1, <1>2, <2>1 DEF BuffersInv, BuffersTypeOK
<1>5. Owned'[v] = IF Owned[v] # 0 THEN NewBlock ELSE 0
  <2>1. flagOf[holds[v].flag] <=> Owned[v] # 0
    BY <1>1, OwnedFact DEF IsOwner, IsVector, BuffersInv, HoldsInv
  <2>2. Owned'[v] = IF flagOf[holds[v].flag] THEN NewBlock ELSE 0
    BY <1>1, <1>3, MemoryFact DEF Owned, IsOwner, IsVector
  <2> QED
    BY <2>1, <2>2
<1>6. \A u \in Holders \ {v} : Owned'[u] = Owned[u]
  BY <1>1, <1>3 DEF Owned, IsOwner, IsVector
<1>7. HoldsInv'
  <2>1. flagOf[holds[v].flag] <=> Owned[v] # 0
    BY <1>1, OwnedFact DEF IsOwner, IsVector, BuffersInv, HoldsInv
  <2> QED
    BY <1>1, <1>2, <1>3, <2>1, MemoryFact DEF BuffersInv, HoldsInv, IsVector, Nothing, Held
<1>8. VectorsInv'
  BY <1>1, <1>3, MemoryFact DEF BuffersInv, VectorsInv, HoldsInv
<1>9. OwnersInv'
  <2>1. \A b \in Memory, u \in Holders : Owned'[u] = b <=> Owned[u] = b /\ u # v
    BY <1>5, <1>6, MemoryFact
  <2>2. \A u \in Holders : Owned'[u] = NewBlock <=> u = v /\ Owned[v] # 0
    BY <1>5, <1>6, OwnedFact, MemoryFact
  <2>3. NewBlock \notin manual /\ NewBlock \notin dropped /\ OwnersInv
    BY MemoryFact DEF BuffersInv, BuffersTypeOK
  <2>4. /\ manual' = manual
        /\ dropped' = IF Owned[v] # 0 THEN dropped ELSE dropped \cup {NewBlock}
    BY <1>1
  <2>5. NewBlock \notin Memory
    BY MemoryFact
  <2> QED
    BY <1>2, <2>1, <2>2, <2>3, <2>4, <2>5 DEF OwnersInv
<1> QED
  BY <1>4, <1>7, <1>8, <1>9 DEF BuffersInv

LEMMA MakeArrayStep == ASSUME BuffersInv, NEW v \in Holders, MakeArray(v) PROVE BuffersInv'
<1>1. /\ freed' = Append(freed, 0) /\ freed \in Seq({0, 1})
      /\ holds' = [holds EXCEPT ![v] = Held("array", NewBlock, 0, TRUE)]
      /\ flagOf' = flagOf /\ manual' = manual /\ dropped' = dropped
      /\ holds[v] = Nothing
  BY DEF MakeArray, BuffersInv, BuffersTypeOK
<1>2. /\ freed' \in Seq({0, 1}) /\ Memory' = Memory \cup {NewBlock}
      /\ freed'[NewBlock] = 0 /\ \A b \in Memory : freed'[b] = freed[b]
  BY <1>1, AllocatedFact
<1>3. /\ holds'[v].kind = "array" /\ holds'[v].block = NewBlock /\ holds'[v].dealloc
      /\ \A u \in Holders \ {v} : holds'[u] = holds[u]
  BY <1>1 DEF BuffersInv, BuffersTypeOK, Held
<1>4. BuffersTypeOK'
  BY <1>1, <1>2, MemoryFact DEF BuffersInv, BuffersTypeOK, Held, Kinds
<1>5. Owned[v] = 0 /\ Owned'[v] = NewBlock
  BY <1>1, <1>3, MemoryFact DEF Owned, IsOwner, IsVector, Nothing, Held
<1>6. \A u \in Holders \ {v} : Owned'[u] = Owned[u]
  BY <1>1, <1>3 DEF Owned, IsOwner, IsVector
<1>7. HoldsInv'
  BY <1>1, <1>2, <1>3, MemoryFact DEF BuffersInv, HoldsInv, IsVector, Nothing, Held
<1>8. VectorsInv'
  BY <1>3 DEF BuffersInv, VectorsInv
<1>9. OwnersInv'
  <2>1. \A b \in Memory, u \in Holders : Owned'[u] = b <=> Owned[u] = b
    BY <1>5, <1>6, MemoryFact
  <2>2. \A u \in Holders : Owned'[u] = NewBlock <=> u = v
    BY <1>5, <1>6, OwnedFact, MemoryFact
  <2>3. NewBlock \notin manual /\ NewBlock \notin dropped /\ OwnersInv
    BY MemoryFact DEF BuffersInv, BuffersTypeOK
  <2>4. manual' = manual /\ dropped' = dropped
    BY <1>1
  <2> QED
    BY <1>2, <2>1, <2>2, <2>3, <2>4 DEF OwnersInv
<1> QED
  BY <1>4, <1>7, <1>8, <1>9 DEF BuffersInv

LEMMA CopyVectorStep ==
  ASSUME BuffersInv, NEW v \in Holders, NEW w \in Holders, CopyVector(v, w) PROVE BuffersInv'
<1>1. /\ freed' = Append(freed, 0) /\ freed \in Seq({0, 1})
      /\ holds' = [holds EXCEPT ![w] = [holds[v] EXCEPT !.block = NewBlock]]
      /\ dropped' = IF flagOf[holds[v].flag] THEN dropped ELSE dropped \cup {NewBlock}
      /\ flagOf' = flagOf /\ manual' = manual
      /\ holds[v].kind = "vector" /\ holds[w] = Nothing
  BY DEF CopyVector, BuffersInv, BuffersTypeOK
<1>2. /\ freed' \in Seq({0, 1}) /\ Memory' = Memory \cup {NewBlock}
      /\ freed'[NewBlock] = 0 /\ \A b \in Memory : freed'[b] = freed[b]
  BY <1>1, AllocatedFact
<1>3. /\ holds'[w].kind = "vector" /\ holds'[w].block = NewBlock
      /\ holds'[w].flag = holds[v].flag
      /\ \A u \in Holders \ {w} : holds'[u] = holds[u]
  BY <1>1 DEF BuffersInv, BuffersTypeOK
<1>4. BuffersTypeOK'
  <2>1. holds' \in [Holders -> [kind : Kinds, block : Nat, flag : Nat, dealloc : BOOLEAN]]
    BY <1>1, MemoryFact DEF BuffersInv, BuffersTypeOK
  <2>2. dropped' \subseteq Memory'
    BY <1>1, <1>2 DEF BuffersInv, BuffersTypeOK
  <2> QED
    BY <1>1, <1>2, <2>1, <2>2 DEF BuffersInv, BuffersTypeOK
<1>5. /\ Owned[w] = 0
      /\ Owned'[w] = IF flagOf[holds[v].flag] THEN NewBlock ELSE 0
  BY <1>1, <1>3, MemoryFact DEF Owned, IsOwner, IsVector, Nothing, Held
<1>6. \A u \in Holders \ {w} : Owned'[u] = Owned[u]
  BY <1>1, <1>3 DEF Owned, IsOwner, IsVector
<1>7. HoldsInv'
  <2>1. holds[v].flag \in DOMAIN flagOf
    BY <1>1 DEF BuffersInv, HoldsInv, IsVector
  <2> QED
    BY <1>1, <1>2, <1>3, <2>1, MemoryFact DEF BuffersInv, HoldsInv, IsVector, Nothing, Held
<1>8. VectorsInv'
  BY <1>1, <1>3, MemoryFact DEF BuffersInv, VectorsInv, HoldsInv
<1>9. OwnersInv'
  <2>1. \A b \in Memory, u \in Holders : Owned'[u] = b <=> Owned[u] = b
    BY <1>5, <1>6, MemoryFact
  <2>2. \A u \in Holders : Owned'[u] = NewBlock <=> u = w /\ flagOf[holds[v].flag]
    BY <1>5, <1>6, OwnedFact, MemoryFact
  <2>3. NewBlock \notin manual /\ NewBlock \notin dropped /\ OwnersInv
    BY MemoryFact DEF BuffersInv, BuffersTypeOK
  <2>4. /\ manual' = manual
        /\ \/ (dropped' = dropped /\ flagOf[holds[v].flag])
           \/ (dropped' = dropped \cup {NewBlock} /\ ~ flagOf[holds[v].flag])
    BY <1>1
  <2>5. NewBlock \notin Memory
    BY MemoryFact
  <2> QED
    BY <1>2, <2>1, <2>2, <2>3, <2>4, <2>5 DEF OwnersInv
<1> QED
  BY <1>4, <1>7, <1>8, <1>9 DEF BuffersInv

LEMMA ToBufferStep ==
  ASSUME BuffersInv, NEW v \in Holders, NEW w \in Holders, ToBuffer(v, w) PROVE BuffersInv'
<1> DEFINE f == holds[v].flag
           sharing == {u \in Holders \ {v} : IsVector(u) /\ holds[u].flag = f /\ IsOwner(u)}
<1>1. /\ holds[v].kind = "vector" /\ holds[w] = Nothing /\ v # w
      /\ flagOf' = [flagOf EXCEPT ![f] = FALSE]
      /\ holds' = [holds EXCEPT ![v].kind = "given", ![w] = Held("buffer", holds[v].block, 0, TRUE)]
      /\ dropped' = (dropped \cup {holds[u].block : u \in sharing}) \ {holds[v].block}
      /\ freed' = freed /\ manual' = manual /\ Memory' = Memory
  BY DEF ToBuffer, Nothing, Held, Memory
<1>2. /\ f \in DOMAIN flagOf /\ flagOf' \in Seq(BOOLEAN) /\ DOMAIN flagOf' = DOMAIN flagOf
      /\ ~ flagOf'[f] /\ \A g \in DOMAIN flagOf : g # f => flagOf'[g] = flagOf[g]
  BY <1>1 DEF BuffersInv, BuffersTypeOK, HoldsInv, IsVector
<1>3. /\ holds'[v].kind = "given" /\ holds'[v].block = holds[v].block /\ holds'[v].flag = f
      /\ holds'[w].kind = "buffer" /\ holds'[w].block = holds[v].block /\ holds'[w].dealloc
      /\ \A u \in Holders \ {v, w} : holds'[u] = holds[u]
  BY <1>1 DEF BuffersInv, BuffersTypeOK, Held
<1>4. holds[v].block \in Memory /\ 0 \notin Memory
  BY <1>1, MemoryFact DEF BuffersInv, HoldsInv
<1>5. Owned[v] = holds[v].block \/ (holds[v].block \in dropped /\ Owned[v] = 0)
  BY <1>1 DEF BuffersInv, HoldsInv, Owned, IsOwner, IsVector
<1>6. Owned'[w] = holds[v].block /\ Owned'[v] = 0
  BY <1>1, <1>2, <1>3, <1>4 DEF Owned, IsOwner, IsVector
<1>7. Owned[w] = 0
  BY <1>1 DEF Owned, IsOwner, Nothing, Held
<1>8. \A u \in Holders \ {v, w} : Owned'[u] = IF u \in sharing THEN 0 ELSE Owned[u]
  <2> SUFFICES ASSUME NEW u \in Holders \ {v, w}
               PROVE  Owned'[u] = IF u \in sharing THEN 0 ELSE Owned[u]
    OBVIOUS
  <2>1. IsVector(u) => holds[u].flag \in DOMAIN flagOf
    BY DEF BuffersInv, HoldsInv
  <2>2. holds'[u] = holds[u]
    BY <1>3
  <2>3. CASE IsVector(u) /\ holds[u].flag = f
    BY <1>2, <2>2, <2>3 DEF Owned, IsOwner, IsVector
  <2>4. CASE IsVector(u) /\ holds[u].flag # f
    <3>1. flagOf'[holds[u].flag] = flagOf[holds[u].flag]
      BY <1>2, <2>1, <2>4
    <3> QED
      BY <2>2, <2>4, <3>1 DEF Owned, IsOwner, IsVector
  <2>5. CASE ~ IsVector(u)
    BY <2>2, <2>5 DEF Owned, IsOwner, IsVector
  <2> QED
    BY <2>3, <2>4, <2>5
<1>9. \A u \in sharing : u # w /\ Owned[u] = holds[u].block /\ Owned[u] # 0
                       /\ Owned[u] # holds[v].block
  <2> SUFFICES ASSUME NEW u \in sharing
               PROVE  /\ u # w /\ Owned[u] = holds[u].block /\ Owned[u] # 0
                      /\ Owned[u] # holds[v].block
    OBVIOUS
  <2>1. u # w /\ u # v /\ u \in Holders
    BY <1>1 DEF IsVector, Nothing, Held
  <2>2. Owned[u] = holds[u].block /\ Owned[u] # 0
    BY <2>1, OwnedFact
  <2>3. flagOf[f] /\ Owned[v] = holds[v].block
    BY <1>1, <1>4 DEF IsOwner, IsVector, Owned
  <2>4. Owned[v] # Owned[u]
    BY <1>4, <2>1, <2>2, <2>3, OwnedFact
  <2> QED
    BY <2>1, <2>2, <2>3, <2>4
<1>10. BuffersTypeOK'
  <2>1. holds' \in [Holders -> [kind : Kinds, block : Nat, flag : Nat, dealloc : BOOLEAN]]
    BY <1>1, <1>4, MemoryFact DEF BuffersInv, BuffersTypeOK, Held, Kinds
  <2>2. dropped' \subseteq Memory
    <3>1. \A u \in sharing : holds[u].block \in Memory
      BY <1>9, OwnedFact
    <3> QED
      BY <1>1, <3>1 DEF BuffersInv, BuffersTypeOK
  <2> QED
    BY <1>1, <1>2, <2>1, <2>2 DEF BuffersInv, BuffersTypeOK
<1>11. \A b \in Memory : b \in dropped' <=>
                       b # holds[v].block /\ (b \in dropped \/ \E u \in sharing : Owned[u] = b)
  BY <1>1, <1>9
<1>12. HoldsInv'
  <2>1. \A u \in Holders \ {v, w} :
          holds[u].kind = "vector" /\ ~ flagOf'[holds[u].flag] => holds[u].block \in dropped'
    <3> SUFFICES ASSUME NEW u \in Holders \ {v, w}, holds[u].kind = "vector",
                        ~ flagOf'[holds[u].flag]
                 PROVE  holds[u].block \in dropped'
      OBVIOUS
    <3>1. holds[u].block \in Memory /\ holds[u].block # holds[v].block /\ IsVector(u)
      BY <1>1 DEF BuffersInv, HoldsInv, VectorsInv, IsVector
    <3>2. CASE IsOwner(u)
      <4>1. u \in sharing
        BY <1>2, <3>1, <3>2 DEF BuffersInv, HoldsInv, IsOwner
      <4> QED
        BY <1>9, <1>11, <3>1, <4>1
    <3>3. CASE ~ IsOwner(u)
      <4>1. holds[u].block \in dropped
        BY <3>1, <3>3, MemoryFact DEF BuffersInv, HoldsInv, IsOwner
      <4> QED
        BY <1>11, <3>1, <4>1
    <3> QED
      BY <3>2, <3>3
  <2>2. \A u \in Holders \ {v, w} :
          /\ IsVector(u) => holds[u].flag \in DOMAIN flagOf'
          /\ holds[u].kind = "given" => ~ flagOf'[holds[u].flag]
    BY <1>2 DEF BuffersInv, HoldsInv, IsVector
  <2>3. /\ holds'[v].kind = "given" /\ holds'[v].block \in Memory' /\ 0 \notin Memory
        /\ holds'[v].flag \in DOMAIN flagOf' /\ ~ flagOf'[holds'[v].flag]
        /\ holds'[w].kind = "buffer" /\ holds'[w].block \in Memory'
    <3>1. Memory' = Memory
      BY <1>1
    <3> HIDE DEF f, sharing
    <3> QED
      BY <1>2, <1>3, <1>4, <3>1
  <2>4. \A u \in Holders \ {v, w} :
          /\ holds[u].block \in Memory' \cup {0}
          /\ holds[u].kind = "none" => holds[u] = Nothing
          /\ holds[u].kind # "none" => holds[u].block # 0
    BY <1>1 DEF BuffersInv, HoldsInv
  <2>5. \A u \in Holders \ {v, w} : holds'[u] = holds[u]
    BY <1>3
  <2> HIDE DEF f, sharing
  <2> SUFFICES ASSUME NEW u \in Holders
               PROVE  /\ holds'[u].block \in Memory' \cup {0}
                      /\ holds'[u].kind = "none" => holds'[u] = Nothing
                      /\ holds'[u].kind # "none" => holds'[u].block # 0
                      /\ holds'[u].kind \in {"vector", "given"} =>
                           holds'[u].flag \in DOMAIN flagOf'
                      /\ holds'[u].kind = "given" => ~ flagOf'[holds'[u].flag]
                      /\ holds'[u].kind = "vector" /\ ~ flagOf'[holds'[u].flag]
                           => holds'[u].block \in dropped'
    BY DEF HoldsInv, IsVector, Nothing, Held
  <2>6. CASE u \in {v, w}
    <3>1. Memory' = Memory
      BY <1>1
    <3> QED
      BY <2>3, <2>6, <3>1
  <2>7. CASE u \notin {v, w}
    BY <2>1, <2>2, <2>4, <2>5, <2>7 DEF IsVector
  <2> QED
    BY <2>6, <2>7
<1>13. VectorsInv'
  BY <1>3 DEF BuffersInv, VectorsInv
<1>14. OwnersInv'
  <2> HIDE DEF sharing
  <2>1. sharing \subseteq Holders \ {v, w}
    BY <1>9 DEF sharing
  <2>2. \A b \in Memory, u \in Holders : Owned'[u] = b <=>
            \/ u = w /\ b = holds[v].block
            \/ u # w /\ u # v /\ u \notin sharing /\ Owned[u] = b
    BY <1>4, <1>6, <1>7, <1>8, MemoryFact
  <2>3. freed' = freed /\ manual' = manual /\ OwnersInv /\ Memory' = Memory
    BY <1>1 DEF BuffersInv
  <2> QED
    BY <1>4, <1>5, <1>7, <1>9, <1>11, <2>1, <2>2, <2>3, MemoryFact DEF OwnersInv
<1> QED
  BY <1>10, <1>12, <1>13, <1>14 DEF BuffersInv

LEMMA MakeViewStep ==
  ASSUME BuffersInv, NEW v \in Holders, NEW b \in Memory, NEW kind \in {"buffer", "array"},
         MakeView(v, b, kind)
  PROVE  BuffersInv'
<1>1. /\ holds[v] = Nothing /\ holds' = [holds EXCEPT ![v] = Held(kind, b, 0, FALSE)]
      /\ UNCHANGED <<flagOf, freed, manual, dropped>> /\ Memory' = Memory
  BY DEF MakeView, Memory
<1>2. /\ holds'[v].kind = kind /\ holds'[v].block = b /\ ~ holds'[v].dealloc
      /\ \A u \in Holders \ {v} : holds'[u] = holds[u]
  BY <1>1 DEF BuffersInv, BuffersTypeOK, Held
<1>3. BuffersTypeOK'
  BY <1>1, MemoryFact DEF BuffersInv, BuffersTypeOK, Held, Kinds
<1>4. Owned[v] = 0 /\ Owned'[v] = 0
  BY <1>1, <1>2 DEF Owned, IsOwner, IsVector, Nothing, Held
<1>5. \A u \in Holders \ {v} : Owned'[u] = Owned[u]
  BY <1>1, <1>2 DEF Owned, IsOwner, IsVector
<1>6. HoldsInv' /\ VectorsInv'
  BY <1>1, <1>2, MemoryFact DEF BuffersInv, HoldsInv, VectorsInv, IsVector, Nothing, Held
<1>7. OwnersInv'
  BY <1>1, <1>4, <1>5 DEF BuffersInv, OwnersInv
<1> QED
  BY <1>3, <1>6, <1>7 DEF BuffersInv

\* owning_buffer and polymorphic_buffer: the ownership moves.
LEMMA MoveBufferStep ==
  ASSUME BuffersInv, NEW v \in Holders, NEW w \in Holders,
         NEW kind \in {"buffer", "polymorphic"}, MoveBuffer(v, w, kind)
  PROVE  BuffersInv'
<1>1. /\ holds[v].kind = "buffer" /\ holds[w] = Nothing /\ v # w
      /\ holds' = [holds EXCEPT ![w] = [holds[v] EXCEPT !.kind = kind], ![v].dealloc = FALSE]
  BY DEF MoveBuffer, Nothing, Held
<1>u. /\ flagOf' = flagOf /\ freed' = freed /\ manual' = manual /\ dropped' = dropped
      /\ Memory' = Memory /\ holds[w] = Nothing /\ holds[v].kind = "buffer" /\ v # w
  BY <1>1 DEF MoveBuffer, Memory
<1>2. /\ holds'[v].kind = "buffer" /\ holds'[v].block = holds[v].block /\ ~ holds'[v].dealloc
      /\ holds'[w].kind = kind /\ holds'[w].block = holds[v].block
      /\ holds'[w].dealloc = holds[v].dealloc
      /\ \A u \in Holders \ {v, w} : holds'[u] = holds[u]
  BY <1>1 DEF BuffersInv, BuffersTypeOK
<1>3. BuffersTypeOK'
  <2>1. holds' \in [Holders -> [kind : Kinds, block : Nat, flag : Nat, dealloc : BOOLEAN]]
    BY <1>1 DEF BuffersInv, BuffersTypeOK, Kinds
  <2> QED
    BY <1>u, <2>1 DEF BuffersInv, BuffersTypeOK
<1>4. Owned[w] = 0 /\ Owned'[v] = 0 /\ Owned'[w] = Owned[v]
  BY <1>u, <1>2 DEF Owned, IsOwner, IsVector, Nothing, Held
<1>5. \A u \in Holders \ {v, w} : Owned'[u] = Owned[u]
  BY <1>u, <1>2 DEF Owned, IsOwner, IsVector
<1>6. HoldsInv' /\ VectorsInv'
  BY <1>u, <1>2, MemoryFact DEF BuffersInv, HoldsInv, VectorsInv, IsVector, Nothing, Held
<1>7. OwnersInv'
  <2>1. \A b \in Memory, u \in Holders : Owned'[u] = b <=>
           \/ u = w /\ Owned[v] = b
           \/ u \notin {v, w} /\ Owned[u] = b
    BY <1>4, <1>5, MemoryFact
  <2>2. /\ freed' = freed /\ manual' = manual /\ dropped' = dropped /\ OwnersInv
        /\ Memory' = Memory /\ 0 \notin Memory
    BY <1>u, MemoryFact DEF BuffersInv
  <2> QED
    BY <1>4, <2>1, <2>2 DEF OwnersInv
<1> QED
  BY <1>3, <1>6, <1>7 DEF BuffersInv

LEMMA AssignBufferStep ==
  ASSUME BuffersInv, NEW v \in Holders, NEW w \in Holders, AssignBuffer(v, w)
  PROVE  BuffersInv'
<1>1. /\ holds' = [[holds EXCEPT ![w] = holds[v]] EXCEPT ![v].dealloc = FALSE]
      /\ dropped' = IF Owned[w] # 0 THEN dropped \cup {holds[w].block} ELSE dropped
  BY OwnedFact DEF AssignBuffer
<1>u. /\ flagOf' = flagOf /\ freed' = freed /\ manual' = manual /\ Memory' = Memory
      /\ holds[v].kind = "buffer" /\ holds[w].kind = "buffer"
  BY DEF AssignBuffer, Memory
<1>2. /\ holds'[v].kind = "buffer" /\ holds'[v].block = holds[v].block /\ ~ holds'[v].dealloc
      /\ v # w => holds'[w] = holds[v]
      /\ \A u \in Holders \ {v, w} : holds'[u] = holds[u]
  BY <1>1, <1>u DEF BuffersInv, BuffersTypeOK
<1>3. BuffersTypeOK'
  <2>1. holds' \in [Holders -> [kind : Kinds, block : Nat, flag : Nat, dealloc : BOOLEAN]]
    BY <1>1 DEF BuffersInv, BuffersTypeOK, Kinds
  <2>2. dropped' \subseteq Memory'
    BY <1>1, <1>u, OwnedFact DEF BuffersInv, BuffersTypeOK
  <2> QED
    BY <1>u, <2>1, <2>2 DEF BuffersInv, BuffersTypeOK
<1>4. Owned'[v] = 0 /\ (v # w => Owned'[w] = Owned[v])
  BY <1>u, <1>2 DEF Owned, IsOwner, IsVector
<1>5. \A u \in Holders \ {v, w} : Owned'[u] = Owned[u]
  BY <1>u, <1>2 DEF Owned, IsOwner, IsVector
<1>6. \A b \in Memory : b \in dropped' <=> b \in dropped \/ Owned[w] = b
  BY <1>1, OwnedFact, MemoryFact
<1>7. HoldsInv' /\ VectorsInv'
  <2>1. dropped \subseteq dropped'
    BY <1>1
  <2> QED
    BY <1>u, <1>2, <2>1, MemoryFact DEF BuffersInv, HoldsInv, VectorsInv, IsVector, Nothing, Held
<1>8. OwnersInv'
  <2>1. \A b \in Memory, u \in Holders : Owned'[u] = b <=>
           \/ u = w /\ u # v /\ Owned[v] = b
           \/ u \notin {v, w} /\ Owned[u] = b
    BY <1>4, <1>5, MemoryFact
  <2>2. freed' = freed /\ manual' = manual /\ OwnersInv /\ Memory' = Memory
    BY <1>u DEF BuffersInv
  <2> QED
    BY <1>6, <2>1, <2>2 DEF OwnersInv
<1> QED
  BY <1>3, <1>7, <1>8 DEF BuffersInv

LEMMA MoveErasedStep ==
  ASSUME BuffersInv, NEW v \in Holders, NEW w \in Holders, MoveErased(v, w)
  PROVE  BuffersInv'
<1>1. /\ freed' = AfterDestroyed(w) /\ v # w
      /\ holds' = [holds EXCEPT ![w] = holds[v], ![v] = Nothing]
  BY DEF MoveErased
<1>u. /\ flagOf' = flagOf /\ manual' = manual /\ dropped' = dropped
      /\ holds[v].kind \in {"polymorphic", "array"}
      /\ holds[w].kind \in {"none", "polymorphic", "array"}
  BY DEF MoveErased, Erased
<1>2. /\ freed' \in Seq({0, 1}) /\ Memory' = Memory
      /\ \A b \in Memory : freed'[b] = IF Owned[w] = b THEN 1 ELSE freed[b]
  BY <1>1, DestroyedFact DEF Memory
<1>3. /\ holds'[v] = Nothing /\ holds'[w] = holds[v]
      /\ \A u \in Holders \ {v, w} : holds'[u] = holds[u]
  BY <1>1 DEF BuffersInv, BuffersTypeOK
<1>4. BuffersTypeOK'
  <2>1. holds' \in [Holders -> [kind : Kinds, block : Nat, flag : Nat, dealloc : BOOLEAN]]
    BY <1>1 DEF BuffersInv, BuffersTypeOK, Kinds, Nothing, Held
  <2> QED
    BY <1>u, <1>2, <2>1 DEF BuffersInv, BuffersTypeOK
<1>5. Owned'[v] = 0 /\ Owned'[w] = Owned[v]
  BY <1>u, <1>3 DEF Owned, IsOwner, IsVector, Nothing, Held
<1>6. \A u \in Holders \ {v, w} : Owned'[u] = Owned[u]
  BY <1>u, <1>3 DEF Owned, IsOwner, IsVector
<1>7. HoldsInv' /\ VectorsInv'
  BY <1>u, <1>2, <1>3, MemoryFact DEF BuffersInv, HoldsInv, VectorsInv, IsVector, Nothing, Held
<1>8. OwnersInv'
  <2>1. \A b \in Memory, u \in Holders : Owned'[u] = b <=>
           \/ u = w /\ Owned[v] = b
           \/ u \notin {v, w} /\ Owned[u] = b
    BY <1>5, <1>6, MemoryFact
  <2>2. manual' = manual /\ dropped' = dropped /\ OwnersInv
    BY <1>u DEF BuffersInv
  <2>3. \A b \in Memory : freed[b] \in {0, 1}
    BY MemoryFact
  <2>4. v # w
    BY <1>1
  <2> QED
    BY <1>2, <2>1, <2>2, <2>3, <2>4 DEF OwnersInv
<1> QED
  BY <1>4, <1>7, <1>8 DEF BuffersInv

LEMMA ReleaseStep == ASSUME BuffersInv, NEW v \in Holders, Release(v) PROVE BuffersInv'
<1>1. /\ manual' = IF Owned[v] # 0 THEN manual \cup {holds[v].block} ELSE manual
      /\ holds' = [holds EXCEPT ![v] = IF @.kind = "array" THEN Nothing
                                       ELSE [@ EXCEPT !.dealloc = FALSE]]
  BY OwnedFact DEF Release
<1>u. /\ flagOf' = flagOf /\ freed' = freed /\ dropped' = dropped /\ Memory' = Memory
      /\ holds[v].kind \in {"buffer", "polymorphic", "array"}
  BY DEF Release, Memory
<1>2. /\ \/ holds'[v] = Nothing
         \/ /\ holds'[v].kind = holds[v].kind
            /\ holds'[v].block = holds[v].block
            /\ ~ holds'[v].dealloc
      /\ \A u \in Holders \ {v} : holds'[u] = holds[u]
  BY <1>1 DEF BuffersInv, BuffersTypeOK
<1>3. BuffersTypeOK'
  <2>1. holds' \in [Holders -> [kind : Kinds, block : Nat, flag : Nat, dealloc : BOOLEAN]]
    BY <1>1 DEF BuffersInv, BuffersTypeOK, Kinds, Nothing, Held
  <2>2. manual' \subseteq Memory'
    BY <1>1, <1>u, OwnedFact DEF BuffersInv, BuffersTypeOK
  <2> QED
    BY <1>u, <2>1, <2>2 DEF BuffersInv, BuffersTypeOK
<1>4. Owned'[v] = 0
  BY <1>u, <1>2 DEF Owned, IsOwner, IsVector, Nothing, Held
<1>5. \A u \in Holders \ {v} : Owned'[u] = Owned[u]
  BY <1>u, <1>2 DEF Owned, IsOwner, IsVector
<1>6. \A b \in Memory : b \in manual' <=> b \in manual \/ Owned[v] = b
  BY <1>1, OwnedFact, MemoryFact
<1>7. HoldsInv' /\ VectorsInv'
  BY <1>u, <1>2, MemoryFact DEF BuffersInv, HoldsInv, VectorsInv, IsVector, Nothing, Held
<1>8. OwnersInv'
  <2>1. \A b \in Memory, u \in Holders : Owned'[u] = b <=> u # v /\ Owned[u] = b
    BY <1>4, <1>5, MemoryFact
  <2>2. freed' = freed /\ dropped' = dropped /\ OwnersInv /\ Memory' = Memory
    BY <1>u DEF BuffersInv
  <2> QED
    BY <1>6, <2>1, <2>2 DEF OwnersInv
<1> QED
  BY <1>3, <1>7, <1>8 DEF BuffersInv

LEMMA DestroyStep == ASSUME BuffersInv, NEW v \in Holders, Destroy(v) PROVE BuffersInv'
<1>1. freed' = AfterDestroyed(v) /\ holds' = [holds EXCEPT ![v] = Nothing]
  BY DEF Destroy
<1>u. flagOf' = flagOf /\ manual' = manual /\ dropped' = dropped
  BY DEF Destroy
<1>2. /\ freed' \in Seq({0, 1}) /\ Memory' = Memory
      /\ \A b \in Memory : freed'[b] = IF Owned[v] = b THEN 1 ELSE freed[b]
  BY <1>1, DestroyedFact DEF Memory
<1>3. holds'[v] = Nothing /\ \A u \in Holders \ {v} : holds'[u] = holds[u]
  BY <1>1 DEF BuffersInv, BuffersTypeOK
<1>4. BuffersTypeOK'
  <2>1. holds' \in [Holders -> [kind : Kinds, block : Nat, flag : Nat, dealloc : BOOLEAN]]
    BY <1>1 DEF BuffersInv, BuffersTypeOK, Kinds, Nothing, Held
  <2> QED
    BY <1>u, <1>2, <2>1 DEF BuffersInv, BuffersTypeOK
<1>5. Owned'[v] = 0
  BY <1>3 DEF Owned, IsOwner, IsVector, Nothing, Held
<1>6. \A u \in Holders \ {v} : Owned'[u] = Owned[u]
  BY <1>u, <1>3 DEF Owned, IsOwner, IsVector
<1>7. HoldsInv' /\ VectorsInv'
  BY <1>u, <1>2, <1>3, MemoryFact DEF BuffersInv, HoldsInv, VectorsInv, IsVector, Nothing, Held
<1>8. OwnersInv'
  <2>1. \A b \in Memory, u \in Holders : Owned'[u] = b <=> u # v /\ Owned[u] = b
    BY <1>5, <1>6, MemoryFact
  <2>2. manual' = manual /\ dropped' = dropped /\ OwnersInv
    BY <1>u DEF BuffersInv
  <2>3. \A b \in Memory : freed[b] \in {0, 1}
    BY MemoryFact
  <2> QED
    BY <1>2, <2>1, <2>2, <2>3 DEF OwnersInv
<1> QED
  BY <1>4, <1>7, <1>8 DEF BuffersInv

LEMMA DeallocateReleasedStep ==
  ASSUME BuffersInv, NEW b \in Memory, DeallocateReleased(b)
  PROVE  BuffersInv'
<1>1. /\ b \in manual /\ freed' = [freed EXCEPT ![b] = @ + 1] /\ manual' = manual \ {b}
      /\ holds' = holds /\ flagOf' = flagOf /\ dropped' = dropped
  BY DEF DeallocateReleased
<1>2. freed[b] = 0 /\ freed \in Seq({0, 1})
  BY <1>1 DEF BuffersInv, OwnersInv, BuffersTypeOK
<1>3. /\ freed' \in Seq({0, 1}) /\ Memory' = Memory /\ freed'[b] = 1
      /\ \A c \in Memory \ {b} : freed'[c] = freed[c]
  BY <1>1, <1>2 DEF Memory
<1>4. BuffersTypeOK'
  BY <1>1, <1>3 DEF BuffersInv, BuffersTypeOK
<1>5. \A u \in Holders : Owned'[u] = Owned[u]
  BY <1>1 DEF Owned, IsOwner, IsVector
<1>6. HoldsInv' /\ VectorsInv'
  BY <1>1, <1>3 DEF BuffersInv, HoldsInv, VectorsInv, IsVector
<1>7. OwnersInv'
  <2>1. \A c \in Memory : c \in manual' <=> c \in manual /\ c # b
    BY <1>1
  <2>2. dropped' = dropped /\ OwnersInv /\ b \in manual
    BY <1>1 DEF BuffersInv
  <2> QED
    BY <1>3, <1>5, <2>1, <2>2 DEF OwnersInv
<1> QED
  BY <1>4, <1>6, <1>7 DEF BuffersInv

LEMMA BuffersStep == ASSUME BuffersInv, [BuffersNext]_bufferVars PROVE BuffersInv'
<1>1. CASE UNCHANGED bufferVars
  <2>1. /\ holds' = holds /\ flagOf' = flagOf /\ freed' = freed
        /\ manual' = manual /\ dropped' = dropped
    BY <1>1 DEF bufferVars
  <2>2. Memory' = Memory /\ \A u \in Holders : Owned'[u] = Owned[u]
    BY <2>1 DEF Memory, Owned, IsOwner, IsVector
  <2>3. BuffersTypeOK' /\ HoldsInv' /\ VectorsInv'
    BY <2>1, <2>2 DEF BuffersInv, BuffersTypeOK, HoldsInv, VectorsInv, IsVector
  <2>4. OwnersInv'
    BY <2>1, <2>2 DEF BuffersInv, OwnersInv
  <2> QED
    BY <2>3, <2>4 DEF BuffersInv
<1>2. CASE BuffersNext
  BY <1>2, MakeVectorStep, ReallocateStep, MakeArrayStep, ReleaseStep, DestroyStep,
     MakeViewStep, CopyVectorStep, ToBufferStep, AssignBufferStep, MoveErasedStep,
     MoveBufferStep, DeallocateReleasedStep DEF BuffersNext
<1> QED
  BY <1>1, <1>2

LEMMA BuffersInitInv == BuffersInit => BuffersInv
<1> SUFFICES ASSUME BuffersInit PROVE BuffersInv
  OBVIOUS
<1>1. Memory = {} /\ freed = <<>> /\ flagOf = <<>>
  BY DEF BuffersInit, Memory
<1>2. BuffersTypeOK
  BY <1>1 DEF BuffersInit, BuffersTypeOK, Kinds, Nothing, Held
<1> QED
  BY <1>1, <1>2 DEF BuffersInit, BuffersInv, HoldsInv, VectorsInv, OwnersInv,
     IsVector, Nothing, Held

LEMMA OwnedOnceFact == BuffersInv => OwnedOnce
<1> SUFFICES ASSUME BuffersInv, NEW b \in Memory
             PROVE  LET n == Cardinality(Owners(b)) + (IF b \in manual THEN 1 ELSE 0)
                    IN  freed[b] + n <= 1 /\ (freed[b] + n = 0 <=> b \in dropped)
  BY DEF OwnedOnce
<1>1. /\ Owners(b) = {v \in Holders : Owned[v] = b}
      /\ freed[b] \in {0, 1} /\ b # 0
  BY MemoryFact DEF Owners, Owned
<1>2. CASE \E v \in Holders : Owned[v] = b
  <2>1. PICK v \in Holders : Owned[v] = b
    BY <1>2
  <2>2. Owners(b) = {v} /\ b \notin manual /\ freed[b] = 0 /\ b \notin dropped
    BY <1>1, <2>1 DEF BuffersInv, OwnersInv
  <2>3. Cardinality(Owners(b)) = 1
    BY <2>2, FS_Singleton
  <2> QED
    BY <2>2, <2>3
<1>3. CASE ~ \E v \in Holders : Owned[v] = b
  <2>1. Cardinality(Owners(b)) = 0
    BY <1>1, <1>3, FS_EmptySet
  <2> QED
    BY <1>1, <1>3, <2>1 DEF BuffersInv, OwnersInv
<1> QED
  BY <1>2, <1>3

(* Every block has one owner at most and is deallocated once at most; a    *)
(* block is lost only where dropped says so.                               *)
THEOREM BuffersOwnedOnce == BuffersSpec => []OwnedOnce
<1>1. BuffersInv /\ [BuffersNext]_bufferVars => BuffersInv'
  BY BuffersStep
<1> QED
  BY <1>1, BuffersInitInv, OwnedOnceFact, PTL DEF BuffersSpec

----------------------------------------------------------------------------
(* Strides and the indices that they make. *)

\* indices_from_strides gives where each block starts, and where the last one ends.
LEMMA IndicesFact ==
  ASSUME NEW n \in Nat, NEW s \in [1 .. n -> Nat]
  PROVE  /\ IndicesFromStrides(s) \in [1 .. n + 1 -> Nat]
         /\ IndicesFromStrides(s)[1] = 0
         /\ \A k \in 1 .. n : IndicesFromStrides(s)[k + 1] = IndicesFromStrides(s)[k] + s[k]
<1> DEFINE IsSum(f, m) ==
             /\ f \in [0 .. m -> Nat] /\ f[0] = 0
             /\ \A k \in 1 .. m : f[k] = f[k - 1] + s[k]
           sum[k \in 0 .. n] == IF k = 0 THEN 0 ELSE sum[k - 1] + s[k]
           Bad == {m \in 0 .. n : ~ \E f : IsSum(f, m)}
<1>1. Len(s) = n
  OBVIOUS
<1>2. \A m \in 0 .. n : \E f : IsSum(f, m)
  <2> SUFFICES ASSUME Bad # {} PROVE FALSE
    OBVIOUS
  <2>1. PICK m \in Bad : \A i \in Bad : m <= i
    <3>1. Bad \in SUBSET Nat
      OBVIOUS
    <3> HIDE DEF Bad
    <3> QED
      BY <3>1, LeastNatural
  <2>2. CASE m = 0
    <3>1. IsSum([k \in 0 .. 0 |-> 0], 0)
      OBVIOUS
    <3> QED
      BY <3>1, <2>1, <2>2
  <2>3. CASE m # 0
    <3>1. m - 1 \in 0 .. n /\ m - 1 \notin Bad /\ m \in 1 .. n
      <4> HIDE DEF IsSum
      <4>1. m \in 0 .. n /\ m - 1 \in 0 .. n /\ m \in 1 .. n /\ ~ (m <= m - 1)
        BY <2>3
      <4> HIDE DEF Bad
      <4> QED
        BY <4>1, <2>1
    <3>2. PICK f : IsSum(f, m - 1)
      BY <3>1
    <3> DEFINE g == [k \in 0 .. m |-> IF k = m THEN f[m - 1] + s[m] ELSE f[k]]
    <3>3. g \in [0 .. m -> Nat]
      BY <3>1, <3>2
    <3>4. g[0] = 0
      BY <3>1, <3>2
    <3>5. ASSUME NEW k \in 1 .. m PROVE g[k] = g[k - 1] + s[k]
      <4>1. k - 1 \in 0 .. m /\ k - 1 # m /\ k \in 0 .. m /\ (k # m => k \in 1 .. m - 1)
        BY <3>1
      <4>2. g[k - 1] = f[k - 1]
        BY <4>1
      <4>3. g[k] = IF k = m THEN f[m - 1] + s[m] ELSE f[k]
        BY <4>1
      <4> HIDE DEF g
      <4> QED
        BY <4>1, <4>2, <4>3, <3>2
    <3> HIDE DEF g
    <3>6. IsSum(g, m)
      BY <3>3, <3>4, <3>5
    <3> QED
      BY <3>6, <2>1
  <2> QED
    BY <2>2, <2>3
<1>3. PICK f : IsSum(f, n)
  <2>1. n \in 0 .. n
    OBVIOUS
  <2> HIDE DEF IsSum
  <2> QED
    BY <2>1, <1>2
<1>4. f = [k \in 0 .. n |-> IF k = 0 THEN 0 ELSE f[k - 1] + s[k]]
  <2> DEFINE h == [k \in 0 .. n |-> IF k = 0 THEN 0 ELSE f[k - 1] + s[k]]
  <2>1. ASSUME NEW k \in 0 .. n PROVE f[k] = h[k]
    <3>1. k = 0 \/ k \in 1 .. n
      OBVIOUS
    <3> QED
      BY <3>1, <1>3
  <2>2. f = [k \in 0 .. n |-> f[k]] /\ h = [k \in 0 .. n |-> h[k]]
    BY <1>3
  <2> HIDE DEF h
  <2>3. f = h
    BY <2>1, <2>2
  <2> QED
    BY <2>3 DEF h
<1>5. sum = [k \in 0 .. n |-> IF k = 0 THEN 0 ELSE sum[k - 1] + s[k]]
  BY <1>4
<1>6. IndicesFromStrides(s) = [k \in 1 .. n + 1 |-> sum[k - 1]]
  BY <1>1 DEF IndicesFromStrides, PartialSums
<1> HIDE DEF sum
<1>7. \A k \in 1 .. n : sum[k] = sum[k - 1] + s[k]
  BY <1>5
<1>8. sum[0] = 0
  BY <1>5
<1>9. \A k \in 0 .. n : sum[k] \in Nat
  <2> DEFINE Wrong == {k \in 0 .. n : sum[k] \notin Nat}
  <2> SUFFICES ASSUME Wrong # {} PROVE FALSE
    OBVIOUS
  <2>1. PICK m \in Wrong : \A i \in Wrong : m <= i
    <3>1. Wrong \in SUBSET Nat
      OBVIOUS
    <3> HIDE DEF Wrong
    <3> QED
      BY <3>1, LeastNatural
  <2>2. m # 0 /\ m \in 1 .. n /\ m - 1 \in 0 .. n /\ m - 1 \notin Wrong
    BY <2>1, <1>8
  <2> QED
    BY <2>1, <2>2, <1>7
<1> QED
  <2>1. IndicesFromStrides(s) \in [1 .. n + 1 -> Nat]
    BY <1>6, <1>9
  <2>2. IndicesFromStrides(s)[1] = 0
    BY <1>6, <1>8
  <2>3. ASSUME NEW k \in 1 .. n
        PROVE  IndicesFromStrides(s)[k + 1] = IndicesFromStrides(s)[k] + s[k]
    <3>1. k + 1 \in 1 .. n + 1 /\ k \in 1 .. n + 1 /\ k + 1 - 1 = k
      OBVIOUS
    <3> QED
      BY <3>1, <1>6, <1>7
  <2> QED
    BY <2>1, <2>2, <2>3

LEMMA IndicesStep ==
  ASSUME NEW n \in Nat, NEW s \in [1 .. n -> Nat], NEW k \in 1 .. n
  PROVE  IndicesFromStrides(s)[k + 1] = IndicesFromStrides(s)[k] + s[k]
BY IndicesFact

\* The indices never go down.
LEMMA IndicesSorted ==
  ASSUME NEW n \in Nat, NEW s \in [1 .. n -> Nat]
  PROVE  \A j, k \in 1 .. n + 1 : j <= k => IndicesFromStrides(s)[j] <= IndicesFromStrides(s)[k]
<1> DEFINE I == IndicesFromStrides(s)
<1>1. n + 1 \in Nat /\ \A k \in 1 .. n + 1 : I[k] \in Int
  BY IndicesFact
<1>2. \A k \in 1 .. (n + 1) - 1 : I[k] <= I[k + 1]
  <2>1. I \in [1 .. n + 1 -> Nat] /\ \A k \in 1 .. n : I[k + 1] = I[k] + s[k]
    BY IndicesFact
  <2> HIDE DEF I
  <2> QED
    BY <2>1
<1> HIDE DEF I
<1>3. \A j, k \in 1 .. n + 1 : j <= k => I[j] <= I[k]
  BY <1>1, <1>2, StepwiseSorted
<1> QED
  BY <1>3 DEF I

\* What follows the start of a block, up to its size, is in no other block.
LEMMA BlocksApart ==
  ASSUME NEW n \in Nat, NEW s \in [1 .. n -> Nat],
         NEW i \in 1 .. n, NEW j \in 1 .. n, NEW v \in Int,
         v - IndicesFromStrides(s)[i] \in 1 .. s[i], v - IndicesFromStrides(s)[j] \in 1 .. s[j]
  PROVE  i = j
<1> DEFINE I == IndicesFromStrides(s)
<1>1. /\ I \in [1 .. n + 1 -> Nat] /\ \A k \in 1 .. n : I[k + 1] = I[k] + s[k]
      /\ \A a, b \in 1 .. n + 1 : a <= b => I[a] <= I[b]
  BY IndicesFact, IndicesSorted
<1>2. v - I[i] \in 1 .. s[i] /\ v - I[j] \in 1 .. s[j]
  OBVIOUS
<1> HIDE DEF I
<1>3. I[i] < v /\ v <= I[i + 1] /\ I[j] < v /\ v <= I[j + 1]
  <2>1. I[i] \in Nat /\ I[j] \in Nat /\ I[i + 1] = I[i] + s[i] /\ I[j + 1] = I[j] + s[j]
    BY <1>1
  <2>2. s[i] \in Nat /\ s[j] \in Nat
    OBVIOUS
  <2>3. \A x, y \in Nat : v - x \in 1 .. y => x < v /\ v <= x + y
    OBVIOUS
  <2>4. I[i] < v /\ v <= I[i] + s[i]
    BY <1>2, <2>1, <2>2, <2>3, Zenon
  <2>5. I[j] < v /\ v <= I[j] + s[j]
    BY <1>2, <2>1, <2>2, <2>3, Zenon
  <2> QED
    BY <2>1, <2>4, <2>5, Zenon
<1>4. ASSUME NEW a \in 1 .. n, NEW b \in 1 .. n, a < b, v <= I[a + 1], I[b] < v PROVE FALSE
  <2>1. a + 1 \in 1 .. n + 1 /\ b \in 1 .. n + 1 /\ a + 1 <= b
    BY <1>4
  <2>2. I[a + 1] <= I[b]
    BY <2>1, <1>1
  <2> QED
    BY <2>1, <2>2, <1>1, <1>4
<1> QED
  BY <1>3, <1>4

\* What is before the end of the last block is in a block.
LEMMA BlocksCover ==
  ASSUME NEW n \in Nat, NEW s \in [1 .. n -> Nat],
         NEW v \in 1 .. IndicesFromStrides(s)[n + 1]
  PROVE  \E i \in 1 .. n : v - IndicesFromStrides(s)[i] \in 1 .. s[i]
<1> DEFINE I == IndicesFromStrides(s)
           After == {k \in 1 .. n + 1 : v <= I[k]}
<1>1. /\ I \in [1 .. n + 1 -> Nat] /\ I[1] = 0 /\ \A k \in 1 .. n : I[k + 1] = I[k] + s[k]
  BY IndicesFact
<1>2. v \in 1 .. I[n + 1]
  OBVIOUS
<1> HIDE DEF I
<1>3. PICK k \in After : \A m \in After : k <= m
  <2>1. After \in SUBSET Nat /\ n + 1 \in After
    BY <1>1, <1>2
  <2> HIDE DEF After
  <2> QED
    BY <2>1, LeastNatural
<1>4. k # 1 /\ k - 1 \in 1 .. n /\ k - 1 \notin After /\ (k - 1) + 1 = k
  BY <1>1, <1>2, <1>3
<1>5. I[k - 1] < v /\ v <= I[k - 1] + s[k - 1]
  <2>1. I[k] = I[k - 1] + s[k - 1]
    BY <1>1, <1>4
  <2> QED
    BY <2>1, <1>1, <1>2, <1>3, <1>4
<1>6. v - I[k - 1] \in 1 .. s[k - 1]
  BY <1>1, <1>2, <1>4, <1>5
<1> QED
  BY <1>4, <1>6 DEF I

\* Strides that are all found in others do not add up to more than them.
LEMMA TotalAtMost ==
  ASSUME NEW n \in Nat, NEW s \in [1 .. n -> Nat], NEW t \in [1 .. n -> Nat],
         NEW q \in [1 .. n -> 1 .. n], \A a, b \in 1 .. n : a # b => q[a] # q[b],
         \A i \in 1 .. n : s[i] = t[q[i]]
  PROVE  IndicesFromStrides(s)[n + 1] <= IndicesFromStrides(t)[n + 1]
<1> DEFINE I == IndicesFromStrides(s)
           J == IndicesFromStrides(t)
<1>0. /\ I \in [1 .. n + 1 -> Nat]
      /\ J \in [1 .. n + 1 -> Nat] /\ \A k \in 1 .. n : J[k + 1] = J[k] + t[k]
  <2>1. I \in [1 .. n + 1 -> Nat]
    BY IndicesFact, Zenon
  <2>2. J \in [1 .. n + 1 -> Nat]
    BY IndicesFact, Zenon
  <2>3. ASSUME NEW k \in 1 .. n PROVE J[k + 1] = J[k] + t[k]
    BY IndicesStep
  <2> QED
    BY <2>1, <2>2, <2>3
<1>1. I \in [1 .. n + 1 -> Nat] /\ J \in [1 .. n + 1 -> Nat]
  BY <1>0
<1>2. \A k \in 1 .. n : J[k] + t[k] = J[k + 1] /\ J[k + 1] <= J[n + 1]
  <2>1. J \in [1 .. n + 1 -> Nat] /\ \A k \in 1 .. n : J[k + 1] = J[k] + t[k]
    BY <1>0
  <2>2. \A a, b \in 1 .. n + 1 : a <= b => J[a] <= J[b]
    BY IndicesSorted
  <2> HIDE DEF J
  <2>3. \A k \in 1 .. n : J[k + 1] <= J[n + 1]
    BY <2>2
  <2> QED
    BY <2>1, <2>3
<1>3. \A v \in 1 .. I[n + 1] : \E i \in 1 .. n : v - I[i] \in 1 .. s[i]
  BY BlocksCover
<1>4. \A i, j \in 1 .. n, v \in Int : v - J[i] \in 1 .. t[i] /\ v - J[j] \in 1 .. t[j] => i = j
  BY BlocksApart
<1>5. I[n + 1] \in Nat /\ J[n + 1] \in Nat
  <2> HIDE DEF I, J
  <2> QED
    BY <1>1
<1> HIDE DEF I, J
<1> DEFINE b == [v \in 1 .. I[n + 1] |-> CHOOSE i \in 1 .. n : v - I[i] \in 1 .. s[i]]
<1>6. \A v \in 1 .. I[n + 1] : b[v] \in 1 .. n /\ v - I[b[v]] \in 1 .. s[b[v]]
  BY <1>3
<1> HIDE DEF b
<1> DEFINE f == [v \in 1 .. I[n + 1] |-> J[q[b[v]]] + (v - I[b[v]])]
<1>7. ASSUME NEW v \in 1 .. I[n + 1]
      PROVE  /\ f[v] \in 1 .. J[n + 1]
             /\ q[b[v]] \in 1 .. n /\ f[v] - J[q[b[v]]] = v - I[b[v]]
             /\ f[v] - J[q[b[v]]] \in 1 .. t[q[b[v]]]
  <2> DEFINE k == q[b[v]]
             x == v - I[b[v]]
  <2>1. b[v] \in 1 .. n /\ x \in 1 .. s[b[v]] /\ k \in 1 .. n
    BY <1>6
  <2>2. s[b[v]] = t[k] /\ t[k] \in Nat /\ J[k] \in Nat
    BY <1>1, <2>1
  <2>3. f[v] = J[k] + x
    OBVIOUS
  <2>4. J[k] + t[k] <= J[n + 1]
    <3> HIDE DEF k
    <3> QED
      BY <2>1, <1>2
  <2> HIDE DEF k, x, f
  <2>5. x \in 1 .. t[k]
    BY <2>1, <2>2
  <2>6. f[v] - J[k] = x /\ f[v] \in 1 .. J[n + 1]
    <3> DEFINE c == J[k]
               d == t[k]
               m == J[n + 1]
    <3>1. c \in Nat /\ d \in Nat /\ m \in Nat /\ c + d <= m /\ x \in 1 .. d
      BY <2>2, <2>4, <2>5, <1>5
    <3> HIDE DEF c, d, m
    <3>2. (c + x) - c = x /\ c + x \in 1 .. m
      BY <3>1
    <3> QED
      BY <2>3, <3>2, Zenon DEF c, m
  <2> QED
    BY <2>1, <2>5, <2>6 DEF k, x
<1>8. ASSUME NEW v \in 1 .. I[n + 1], NEW w \in 1 .. I[n + 1], f[v] = f[w]
      PROVE  v = w
  <2> HIDE DEF f
  <2>1. f[v] \in Int
    BY <1>5, <1>7
  <2>2. q[b[v]] = q[b[w]]
    BY <2>1, <1>4, <1>7, <1>8
  <2>3. b[v] = b[w]
    BY <2>2, <1>6
  <2>4. v - I[b[v]] = w - I[b[v]]
    BY <1>7, <1>8, <2>3
  <2>5. I[b[v]] \in Int /\ v \in Int /\ w \in Int
    BY <1>1, <1>5, <1>6
  <2> QED
    BY <2>4, <2>5
<1>9. f \in Injection(1 .. I[n + 1], 1 .. J[n + 1])
  <2>1. f \in [1 .. I[n + 1] -> 1 .. J[n + 1]]
    BY <1>7
  <2> HIDE DEF f
  <2> QED
    BY <1>8, <2>1 DEF Injection, IsInjective
<1>10. Cardinality(1 .. I[n + 1]) <= Cardinality(1 .. J[n + 1])
  <2> HIDE DEF f
  <2>1. IsFiniteSet(1 .. J[n + 1])
    BY <1>5, FS_Interval
  <2> QED
    BY <1>9, <2>1, FS_Injection
<1>11. \A m \in Nat : Cardinality(1 .. m) = m
  <2> SUFFICES ASSUME NEW m \in Nat PROVE Cardinality(1 .. m) = m
    OBVIOUS
  <2>1. 1 \in Int /\ m \in Int /\ (1 > m => m = 0) /\ m - 1 + 1 = m
    OBVIOUS
  <2> QED
    BY <2>1, FS_Interval
<1>12. I[n + 1] <= J[n + 1]
  BY <1>5, <1>10, <1>11
<1> QED
  BY <1>12 DEF I, J

\* Strides that are permuted add up to the same.
LEMMA TotalOfPermuted ==
  ASSUME NEW n \in Nat, NEW s \in [1 .. n -> Nat], NEW p \in [1 .. n -> 0 .. n - 1],
         \A a, b \in 1 .. n : a # b => p[a] # p[b],
         NEW t \in [1 .. n -> Nat], \A i \in 1 .. n : t[i] = s[p[i] + 1]
  PROVE  IndicesFromStrides(t)[n + 1] = IndicesFromStrides(s)[n + 1]
<1> DEFINE q == [i \in 1 .. n |-> p[i] + 1]
           r == [i \in 1 .. n |-> CHOOSE j \in 1 .. n : p[j] = i - 1]
<1>1. q \in [1 .. n -> 1 .. n] /\ \A i \in 1 .. n : t[i] = s[q[i]]
  OBVIOUS
<1>2. \A a, b \in 1 .. n : a # b => q[a] # q[b]
  <2> SUFFICES ASSUME NEW a \in 1 .. n, NEW b \in 1 .. n, q[a] = q[b] PROVE a = b
    OBVIOUS
  <2>1. p[a] \in 0 .. n - 1 /\ p[b] \in 0 .. n - 1 /\ p[a] + 1 = p[b] + 1
    OBVIOUS
  <2> QED
    BY <2>1
<1>3. ASSUME NEW i \in 1 .. n PROVE r[i] \in 1 .. n /\ p[r[i]] = i - 1 /\ p[r[i]] + 1 = i
  <2>1. i - 1 \in 0 .. n - 1 /\ i - 1 + 1 = i
    OBVIOUS
  <2>2. \E j \in 1 .. n : p[j] = i - 1
    BY <2>1, PermutationOnto
  <2> QED
    BY <2>1, <2>2
<1>4. r \in [1 .. n -> 1 .. n] /\ \A i \in 1 .. n : s[i] = t[r[i]]
  <2>1. \A i \in 1 .. n : s[i] = t[r[i]]
    <3> HIDE DEF r
    <3> QED
      BY <1>3
  <2> QED
    BY <1>3, <2>1
<1>5. \A a, b \in 1 .. n : a # b => r[a] # r[b]
  <2> HIDE DEF r
  <2> QED
    BY <1>3
<1> HIDE DEF q, r
<1>6. IndicesFromStrides(t)[n + 1] <= IndicesFromStrides(s)[n + 1]
  BY <1>1, <1>2, TotalAtMost
<1>7. IndicesFromStrides(s)[n + 1] <= IndicesFromStrides(t)[n + 1]
  BY <1>4, <1>5, TotalAtMost
<1>8. n + 1 \in 1 .. n + 1
  OBVIOUS
<1>9. IndicesFromStrides(t)[n + 1] \in Nat /\ IndicesFromStrides(s)[n + 1] \in Nat
  BY <1>8, IndicesFact
<1> QED
  BY <1>6, <1>7, <1>9

----------------------------------------------------------------------------
(* The gather of a dist_jagged_array: what is gathered, block by block in the *)
(* order of the protocol, and in the order of the ids.                        *)

N == Len(ids)
Grouped == Permuted(ids, new_to_old)
GatheredStrides == [n \in 1 .. N |-> stride[Grouped[n]]]
GatheredIndices == IndicesFromStrides(GatheredStrides)
ResultStrides == [n \in 1 .. N |-> stride[ids[n]]]
ResultIndices == IndicesFromStrides(ResultStrides)

SizeOf(w) == IF w = "values" THEN GatheredIndices[N + 1] ELSE N
BlockAtPlace(w, n) ==
  IF w = "values"
    THEN [rank |-> places[n][1], displ |-> PartDispls(places[n][1])[places[n][2] + 1],
          size |-> GatheredStrides[n], at |-> GatheredIndices[n]]
    ELSE [rank |-> places[n][1], displ |-> places[n][2], size |-> 1, at |-> n - 1]

\* A vector of n elements.
HasSize(s, n) == s = [k \in 1 .. n |-> s[k]]
\* What there is in a block: a stride, a displacement, or the values of an element.
Content(w, n, k) ==
  CASE w = "strides" -> GatheredStrides[n]
    [] w = "displs" -> BlockAtPlace("values", n).displ
    [] OTHER -> <<Grouped[n], k>>
\* The block has been read in the buffer of its window.
IsRead(w, n) ==
  \A k \in 1 .. BlockAtPlace(w, n).size :
    res[<<"alloc", w>>][BlockAtPlace(w, n).at + k] = Content(w, n, k)
\* The values, in the order they are gathered in, and in the order of the ids.
AreGathered(v) ==
  /\ HasSize(v, GatheredIndices[N + 1])
  /\ \A n \in 1 .. N : \A k \in 1 .. GatheredStrides[n] : v[GatheredIndices[n] + k] = <<Grouped[n], k>>
AreValues(v) ==
  /\ HasSize(v, ResultIndices[N + 1])
  /\ \A n \in 1 .. N : \A k \in 1 .. ResultStrides[n] : v[ResultIndices[n] + k] = <<ids[n], k>>

InputsOK ==
  /\ IsDistributionOf(distri, NRank, NElt)
  /\ stride \in [Elts -> 0 .. MaxStride]
  /\ ids \in Seq(Elts)
  /\ new_to_old \in NewToOlds(distri, ids)
  /\ places = Protocol(distri, ids, new_to_old).places

TasksInv ==
  /\ done \subseteq Tasks /\ \A t \in done : Deps(t) \subseteq done
  /\ DOMAIN res = Tasks /\ DOMAIN blocks = Windows /\ DOMAIN pending = Windows

WindowInv(w) ==
  /\ <<"alloc", w>> \in done => HasSize(res[<<"alloc", w>>], SizeOf(w))
  /\ <<"get", w>> \notin done => blocks[w] = <<>> /\ pending[w] = {}
  /\ <<"get", w>> \in done =>
       /\ blocks[w] = [n \in 1 .. N |-> BlockAtPlace(w, n)]
       /\ pending[w] \subseteq 1 .. N
       /\ \A n \in 1 .. N : n \notin pending[w] => IsRead(w, n)
  /\ <<"close", w>> \in done => pending[w] = {}

ComputedInv ==
  /\ <<"indices", "raw">> \in done => res[<<"indices", "raw">>] = GatheredIndices
  /\ <<"perm", "strides">> \in done => res[<<"perm", "strides">>] = ResultStrides
  /\ <<"indices", "final">> \in done /\ <<"extract", "result">> \notin done =>
       res[<<"indices", "final">>] = ResultIndices
  /\ <<"perm", "values">> \in done /\ <<"extract", "result">> \notin done =>
       AreValues(res[<<"perm", "values">>])
  /\ <<"extract", "result">> \in done =>
       /\ res[<<"extract", "result">>][1] = ResultIndices
       /\ AreValues(res[<<"extract", "result">>][2])

JaggedInv == InputsOK /\ TasksInv /\ (\A w \in Windows : WindowInv(w)) /\ ComputedInv

----------------------------------------------------------------------------

LEMMA InputsFact ==
  ASSUME InputsOK
  PROVE  /\ NRank \in Nat \ {0} /\ NElt \in Nat \ {0} /\ N \in Nat
         /\ new_to_old \in [1 .. N -> 0 .. N - 1]
         /\ \A a, b \in 1 .. N : a # b => new_to_old[a] # new_to_old[b]
         /\ Grouped \in [1 .. N -> Elts] /\ \A n \in 1 .. N : Grouped[n] = ids[new_to_old[n] + 1]
         /\ GatheredStrides \in [1 .. N -> Nat] /\ ResultStrides \in [1 .. N -> Nat]
         /\ \A n \in 1 .. N : GatheredStrides[n] = ResultStrides[new_to_old[n] + 1]
         /\ places = [n \in 1 .. N |-> RankOffset(Grouped[n], distri)]
<1>1. NRank \in Nat \ {0} /\ NElt \in Nat \ {0} /\ MaxStride \in Nat
  BY JaggedAssumption
<1>2. /\ IsDistributionOf(distri, NRank, NElt) /\ stride \in [Elts -> 0 .. MaxStride]
      /\ ids \in Seq(Elts) /\ new_to_old \in NewToOlds(distri, ids)
      /\ places = Protocol(distri, ids, new_to_old).places
  BY DEF InputsOK
<1>3. /\ N \in Nat /\ new_to_old \in [1 .. N -> 0 .. N - 1]
      /\ \A a, b \in 1 .. N : a # b => new_to_old[a] # new_to_old[b]
      /\ Grouped = [n \in 1 .. N |-> ids[new_to_old[n] + 1]]
      /\ \A n \in 1 .. N : new_to_old[n] + 1 \in 1 .. N /\ Grouped[n] \in Elts
  BY <1>2, GroupedFact DEF N, Grouped
<1>4. Elts \in SUBSET Nat /\ \A e \in Elts : e < NElt
  BY <1>1 DEF Elts
<1>5. places = [n \in 1 .. N |-> RankOffset(Grouped[n], distri)]
  <2>1. Protocol(distri, ids, new_to_old) =
          [places |-> [n \in 1 .. Len(ids) |-> RankOffset(Permuted(ids, new_to_old)[n], distri)],
           new_to_old |-> new_to_old]
    BY <1>1, <1>2, <1>4, GroupedProtocol
  <2> QED
    BY <1>2, <2>1 DEF N, Grouped
<1>6. \A n \in 1 .. N : ids[n] \in Elts
  BY <1>2 DEF N
<1>7. \A e \in Elts : stride[e] \in Nat
  BY <1>1, <1>2
<1>8. GatheredStrides \in [1 .. N -> Nat] /\ ResultStrides \in [1 .. N -> Nat]
  BY <1>3, <1>6, <1>7 DEF GatheredStrides, ResultStrides
<1>9. \A n \in 1 .. N : GatheredStrides[n] = ResultStrides[new_to_old[n] + 1]
  BY <1>3 DEF GatheredStrides, ResultStrides
<1> QED
  BY <1>1, <1>3, <1>5, <1>8, <1>9

\* What a rank holds of the array.
LEMMA PartFact ==
  ASSUME InputsOK, NEW r \in 0 .. NRank - 1
  PROVE  /\ distri[r + 1] \in Nat /\ distri[r + 2] - distri[r + 1] \in Nat
         /\ PartStrides(r) \in [1 .. distri[r + 2] - distri[r + 1] -> Nat]
         /\ \A k \in 1 .. distri[r + 2] - distri[r + 1] :
              PartStrides(r)[k] = stride[distri[r + 1] + k - 1]
         /\ PartDispls(r) \in [1 .. (distri[r + 2] - distri[r + 1]) + 1 -> Nat]
         /\ Len(PartStrides(r)) = distri[r + 2] - distri[r + 1]
         /\ Len(PartDispls(r)) = (distri[r + 2] - distri[r + 1]) + 1
<1> DEFINE lo == distri[r + 1]
           sz == distri[r + 2] - distri[r + 1]
<1>1. /\ NRank \in Nat /\ NElt \in Nat /\ MaxStride \in Nat
      /\ distri \in [1 .. NRank + 1 -> 0 .. NElt] /\ \A k \in 1 .. NRank : distri[k] <= distri[k + 1]
      /\ stride \in [Elts -> 0 .. MaxStride]
  BY JaggedAssumption DEF InputsOK, IsDistributionOf
<1>2. r + 1 \in 1 .. NRank /\ r + 1 \in 1 .. NRank + 1 /\ r + 2 \in 1 .. NRank + 1 /\ (r + 1) + 1 = r + 2
  BY <1>1
<1>3. lo \in Nat /\ sz \in Nat /\ lo + sz <= NElt
  <2>1. distri[r + 1] \in 0 .. NElt /\ distri[r + 2] \in 0 .. NElt /\ distri[r + 1] <= distri[r + 2]
    BY <1>1, <1>2
  <2> QED
    BY <1>1, <2>1
<1>4. PartStrides(r) = [k \in 1 .. sz |-> stride[lo + k - 1]]
  BY DEF PartStrides
<1>5. \A k \in 1 .. sz : stride[lo + k - 1] \in Nat
  <2> HIDE DEF lo, sz
  <2>1. \A k \in 1 .. sz : lo + k - 1 \in Elts
    BY <1>1, <1>3 DEF Elts
  <2> QED
    BY <1>1, <2>1
<1> HIDE DEF lo, sz
<1>6. PartStrides(r) \in [1 .. sz -> Nat] /\ Len(PartStrides(r)) = sz
  <2>1. PartStrides(r) \in [1 .. sz -> Nat]
    BY <1>4, <1>5
  <2> QED
    BY <1>3, <2>1
<1>7. PartDispls(r) \in [1 .. sz + 1 -> Nat]
  BY <1>3, <1>6, IndicesFact DEF PartDispls
<1>8. Len(PartDispls(r)) = sz + 1
  BY <1>3, <1>7
<1> QED
  BY <1>3, <1>4, <1>6, <1>7, <1>8 DEF lo, sz

LEMMA PartValuesFact ==
  ASSUME InputsOK, NEW r \in 0 .. NRank - 1, NEW k \in 1 .. distri[r + 2] - distri[r + 1]
  PROVE  /\ PartDispls(r)[k] + PartStrides(r)[k] <= Len(PartValues(r))
         /\ \A j \in 1 .. PartStrides(r)[k] :
              PartValues(r)[PartDispls(r)[k] + j] = <<distri[r + 1] + k - 1, j>>
<1> DEFINE lo == distri[r + 1]
           sz == distri[r + 2] - distri[r + 1]
           S == PartStrides(r)
           D == PartDispls(r)
           EltAt(v) == CHOOSE m \in 1 .. Len(D) - 1 : v \in D[m] + 1 .. D[m + 1]
<1>1. lo \in Nat /\ sz \in Nat /\ S \in [1 .. sz -> Nat] /\ D \in [1 .. sz + 1 -> Nat] /\ Len(D) = sz + 1
  BY PartFact
<1>2. PartValues(r) = [v \in 1 .. D[Len(D)] |-> <<lo + EltAt(v) - 1, v - D[EltAt(v)]>>]
  BY DEF PartValues
<1>3. k \in 1 .. sz /\ D = IndicesFromStrides(S)
  BY DEF PartDispls
<1> HIDE DEF lo, sz, S, D
<1>4. /\ \A m \in 1 .. sz : D[m + 1] = D[m] + S[m]
      /\ \A a, b \in 1 .. sz + 1 : a <= b => D[a] <= D[b]
  BY <1>1, <1>3, IndicesFact, IndicesSorted
<1>5. \A m, l \in 1 .. sz, v \in Int : v - D[m] \in 1 .. S[m] /\ v - D[l] \in 1 .. S[l] => m = l
  BY <1>1, <1>3, BlocksApart
<1>6. S[k] \in Nat /\ D[k] \in Nat /\ D[k] + S[k] = D[k + 1] /\ D[k + 1] <= D[sz + 1] /\ D[sz + 1] \in Nat
  BY <1>1, <1>3, <1>4
<1>7. Len(PartValues(r)) = D[sz + 1]
  BY <1>1, <1>2, <1>6
<1>8. ASSUME NEW j \in 1 .. S[k] PROVE PartValues(r)[D[k] + j] = <<lo + k - 1, j>>
  <2> DEFINE v == D[k] + j
  <2>1. v \in 1 .. D[sz + 1] /\ v \in Int /\ v - D[k] = j /\ v \in D[k] + 1 .. D[k + 1]
    BY <1>6
  <2> HIDE DEF v
  <2>2. ASSUME NEW m \in 1 .. sz, v \in D[m] + 1 .. D[m + 1] PROVE m = k
    <3>1. D[m] \in Nat /\ S[m] \in Nat /\ D[m + 1] = D[m] + S[m]
      BY <1>1, <1>4
    <3>2. v - D[m] \in 1 .. S[m]
      BY <2>1, <2>2, <3>1
    <3> QED
      BY <1>3, <1>5, <2>1, <3>2
  <2>3. EltAt(v) = k
    <3>1. Len(D) - 1 = sz
      BY <1>1
    <3> QED
      BY <1>3, <2>1, <2>2, <3>1
  <2> HIDE DEF EltAt
  <2>4. PartValues(r)[v] = <<lo + EltAt(v) - 1, v - D[EltAt(v)]>>
    BY <1>1, <1>2, <2>1
  <2> QED
    BY <2>1, <2>3, <2>4 DEF v
<1> QED
  BY <1>6, <1>7, <1>8 DEF lo, S, D

\* Where the element of a place is.
LEMMA PlaceFact ==
  ASSUME InputsOK, NEW n \in 1 .. N
  PROVE  /\ places[n][1] \in 0 .. NRank - 1
         /\ places[n][2] \in Nat
         /\ places[n][2] + 1 \in 1 .. distri[places[n][1] + 2] - distri[places[n][1] + 1]
         /\ Grouped[n] = distri[places[n][1] + 1] + places[n][2]
<1>1. /\ NRank \in Nat \ {0} /\ NElt \in Nat \ {0} /\ Grouped[n] \in Elts
      /\ places[n] = RankOffset(Grouped[n], distri)
  BY InputsFact
<1>2. IsDistributionOf(distri, NRank, NElt) /\ Grouped[n] \in 0 .. NElt - 1
  BY <1>1 DEF InputsOK, Elts
<1>3. /\ places[n][1] \in 0 .. NRank - 1
      /\ places[n][2] \in 0 .. distri[places[n][1] + 2] - distri[places[n][1] + 1] - 1
      /\ Grouped[n] = distri[places[n][1] + 1] + places[n][2]
  BY <1>1, <1>2, OffsetFact
<1>4. distri[places[n][1] + 2] - distri[places[n][1] + 1] \in Nat
  BY <1>3, PartFact
<1> QED
  BY <1>3, <1>4

\* The blocks that are read: each is inside of its part, and they follow each
\* other in the buffer.
LEMMA BlockFact ==
  ASSUME InputsOK, NEW w \in Windows, NEW n \in 1 .. N
  PROVE  /\ BlockAtPlace(w, n).size \in Nat /\ BlockAtPlace(w, n).displ \in Nat
         /\ BlockAtPlace(w, n).at \in Nat
         /\ BlockAtPlace(w, n).displ + BlockAtPlace(w, n).size <= Len(Part(w, BlockAtPlace(w, n).rank))
         /\ BlockAtPlace(w, n).at + BlockAtPlace(w, n).size <= SizeOf(w)
         /\ n > 1 => BlockAtPlace(w, n).at = BlockAtPlace(w, n - 1).at + BlockAtPlace(w, n - 1).size
<1>0. N \in Nat /\ GatheredStrides \in [1 .. N -> Nat]
  BY InputsFact
<1> DEFINE r == places[n][1]
           pos == places[n][2]
           sz == distri[r + 2] - distri[r + 1]
<1>1. r \in 0 .. NRank - 1 /\ pos \in Nat /\ pos + 1 \in 1 .. sz
  BY PlaceFact
<1> HIDE DEF pos
<1>2. /\ PartStrides(r) \in [1 .. sz -> Nat] /\ PartDispls(r) \in [1 .. sz + 1 -> Nat]
      /\ Len(PartStrides(r)) = sz /\ Len(PartDispls(r)) = sz + 1 /\ sz \in Nat
      /\ PartStrides(r)[pos + 1] = stride[distri[r + 1] + (pos + 1) - 1] /\ distri[r + 1] \in Nat
  BY <1>1, PartFact
<1>3. CASE w = "values"
  <2>1. GatheredStrides[n] = PartStrides(r)[pos + 1]
    <3>1. Grouped[n] = distri[r + 1] + pos
      BY PlaceFact DEF pos
    <3>2. Grouped[n] = distri[r + 1] + (pos + 1) - 1
      BY <3>1, <1>1, <1>2
    <3> QED
      BY <1>2, <3>2 DEF GatheredStrides
  <2>2. PartDispls(r)[pos + 1] + PartStrides(r)[pos + 1] <= Len(PartValues(r))
    BY <1>1, PartValuesFact
  <2>3. PartDispls(r)[pos + 1] \in Nat
    BY <1>1, <1>2
  <2>4. /\ GatheredIndices \in [1 .. N + 1 -> Nat]
        /\ \A k \in 1 .. N : GatheredIndices[k + 1] = GatheredIndices[k] + GatheredStrides[k]
        /\ \A a, b \in 1 .. N + 1 : a <= b => GatheredIndices[a] <= GatheredIndices[b]
    BY <1>0, IndicesFact, IndicesSorted DEF GatheredIndices
  <2>5. GatheredIndices[n] + GatheredStrides[n] <= GatheredIndices[N + 1] /\ GatheredIndices[n] \in Nat
    BY <1>0, <2>4
  <2>6. n > 1 => GatheredIndices[n] = GatheredIndices[n - 1] + GatheredStrides[n - 1]
    <3>1. n > 1 => n - 1 \in 1 .. N /\ (n - 1) + 1 = n
      BY <1>0
    <3> QED
      BY <2>4, <3>1
  <2>7. /\ BlockAtPlace(w, n) = [rank |-> r, displ |-> PartDispls(r)[pos + 1],
                                size |-> GatheredStrides[n], at |-> GatheredIndices[n]]
        /\ BlockAtPlace(w, n - 1).at = GatheredIndices[n - 1]
        /\ BlockAtPlace(w, n - 1).size = GatheredStrides[n - 1]
    BY <1>3 DEF BlockAtPlace, pos
  <2>8. Part(w, r) = PartValues(r) /\ SizeOf(w) = GatheredIndices[N + 1] /\ GatheredStrides[n] \in Nat
    BY <1>0, <1>3 DEF Part, SizeOf
  <2> HIDE DEF r
  <2> QED
    BY <2>1, <2>2, <2>3, <2>5, <2>6, <2>7, <2>8
<1>4. CASE w # "values"
  <2>1. /\ BlockAtPlace(w, n) = [rank |-> r, displ |-> pos, size |-> 1, at |-> n - 1]
        /\ BlockAtPlace(w, n - 1).at = (n - 1) - 1
        /\ BlockAtPlace(w, n - 1).size = 1
    BY <1>4 DEF BlockAtPlace, pos
  <2>2. SizeOf(w) = N /\ pos + 1 <= Len(Part(w, r))
    <3>1. w = "strides" \/ w = "displs"
      BY <1>4 DEF Windows
    <3>2. Part(w, r) = PartStrides(r) \/ Part(w, r) = PartDispls(r)
      BY <3>1 DEF Part
    <3> QED
      BY <1>1, <1>2, <1>4, <3>2 DEF SizeOf
  <2> HIDE DEF r
  <2> QED
    BY <1>0, <1>1, <2>1, <2>2
<1> QED
  BY <1>3, <1>4

\* A place of the buffer is in one block only.
LEMMA BlocksOfBuffer ==
  ASSUME InputsOK, NEW w \in Windows, NEW m \in 1 .. N, NEW n \in 1 .. N, NEW v \in Int,
         v - BlockAtPlace(w, m).at \in 1 .. BlockAtPlace(w, m).size,
         v - BlockAtPlace(w, n).at \in 1 .. BlockAtPlace(w, n).size
  PROVE  m = n
<1>0. N \in Nat /\ GatheredStrides \in [1 .. N -> Nat]
  BY InputsFact
<1>1. CASE w = "values"
  <2>1. \A k \in 1 .. N : /\ BlockAtPlace(w, k).at = IndicesFromStrides(GatheredStrides)[k]
                          /\ BlockAtPlace(w, k).size = GatheredStrides[k]
    BY <1>1 DEF BlockAtPlace, GatheredIndices
  <2>2. /\ v - IndicesFromStrides(GatheredStrides)[m] \in 1 .. GatheredStrides[m]
        /\ v - IndicesFromStrides(GatheredStrides)[n] \in 1 .. GatheredStrides[n]
    BY <2>1
  <2> QED
    BY <1>0, <2>2, BlocksApart
<1>2. CASE w # "values"
  <2>1. \A k \in 1 .. N : BlockAtPlace(w, k).at = k - 1 /\ BlockAtPlace(w, k).size = 1
    BY <1>2 DEF BlockAtPlace
  <2>2. v - (m - 1) \in 1 .. 1 /\ v - (n - 1) \in 1 .. 1
    BY <2>1
  <2> QED
    BY <1>0, <2>2
<1> QED
  BY <1>1, <1>2

\* What is in the blocks.
LEMMA BlockContent ==
  ASSUME InputsOK, NEW n \in 1 .. N
  PROVE  \A w \in Windows : \A k \in 1 .. BlockAtPlace(w, n).size :
           Part(w, BlockAtPlace(w, n).rank)[BlockAtPlace(w, n).displ + k] = Content(w, n, k)
<1> DEFINE r == places[n][1]
           pos == places[n][2]
           sz == distri[r + 2] - distri[r + 1]
<1>1. /\ r \in 0 .. NRank - 1 /\ pos \in Nat /\ pos + 1 \in 1 .. sz
      /\ Grouped[n] = distri[r + 1] + pos
  BY PlaceFact
<1>2. PartStrides(r)[pos + 1] = stride[distri[r + 1] + (pos + 1) - 1] /\ distri[r + 1] \in Nat
  BY <1>1, PartFact
<1>3. Grouped[n] = distri[r + 1] + (pos + 1) - 1
  <2> HIDE DEF r, pos
  <2> QED
    BY <1>1, <1>2
<1>4. PartStrides(r)[pos + 1] = GatheredStrides[n]
  BY <1>2, <1>3 DEF GatheredStrides
<1>5. \A j \in 1 .. PartStrides(r)[pos + 1] :
        PartValues(r)[PartDispls(r)[pos + 1] + j] = <<distri[r + 1] + (pos + 1) - 1, j>>
  <2>1. pos + 1 \in 1 .. distri[r + 2] - distri[r + 1]
    BY <1>1
  <2> HIDE DEF r, pos
  <2> QED
    BY <1>1, <2>1, PartValuesFact
<1>6. /\ BlockAtPlace("strides", n).rank = r /\ BlockAtPlace("strides", n).displ = pos
      /\ BlockAtPlace("displs", n).rank = r /\ BlockAtPlace("displs", n).displ = pos
      /\ BlockAtPlace("values", n).rank = r /\ BlockAtPlace("values", n).displ = PartDispls(r)[pos + 1]
  BY DEF BlockAtPlace
<1>7. Part("strides", r) = PartStrides(r) /\ Part("displs", r) = PartDispls(r) /\ Part("values", r) = PartValues(r)
  BY DEF Part
<1>8. /\ BlockAtPlace("strides", n).size = 1 /\ BlockAtPlace("displs", n).size = 1
      /\ BlockAtPlace("values", n).size = GatheredStrides[n]
  BY DEF BlockAtPlace
<1>9. \A k : /\ Content("strides", n, k) = GatheredStrides[n]
             /\ Content("displs", n, k) = PartDispls(r)[pos + 1]
             /\ Content("values", n, k) = <<Grouped[n], k>>
  BY <1>6 DEF Content
<1> HIDE DEF r, pos
<1>10. /\ \A k \in 1 .. BlockAtPlace("strides", n).size :
            Part("strides", BlockAtPlace("strides", n).rank)[BlockAtPlace("strides", n).displ + k]
              = Content("strides", n, k)
       /\ \A k \in 1 .. BlockAtPlace("displs", n).size :
            Part("displs", BlockAtPlace("displs", n).rank)[BlockAtPlace("displs", n).displ + k]
              = Content("displs", n, k)
       /\ \A k \in 1 .. BlockAtPlace("values", n).size :
            Part("values", BlockAtPlace("values", n).rank)[BlockAtPlace("values", n).displ + k]
              = Content("values", n, k)
  BY <1>3, <1>4, <1>5, <1>6, <1>7, <1>8, <1>9
<1> QED
  BY <1>10 DEF Windows

----------------------------------------------------------------------------
(* The permuted result. *)

LEMMA ResultFact ==
  ASSUME InputsOK
  PROVE  /\ GatheredIndices \in [1 .. N + 1 -> Nat] /\ ResultIndices \in [1 .. N + 1 -> Nat]
         /\ ResultIndices[1] = 0
         /\ \A k \in 1 .. N : ResultIndices[k + 1] = ResultIndices[k] + ResultStrides[k]
         /\ \A k \in 1 .. N : GatheredIndices[k + 1] = GatheredIndices[k] + GatheredStrides[k]
         /\ ResultIndices[N + 1] = GatheredIndices[N + 1]
         /\ Len(GatheredIndices) = N + 1 /\ Len(ResultIndices) = N + 1
<1>1. /\ N \in Nat /\ new_to_old \in [1 .. N -> 0 .. N - 1]
      /\ \A a, b \in 1 .. N : a # b => new_to_old[a] # new_to_old[b]
      /\ GatheredStrides \in [1 .. N -> Nat] /\ ResultStrides \in [1 .. N -> Nat]
      /\ \A n \in 1 .. N : GatheredStrides[n] = ResultStrides[new_to_old[n] + 1]
  BY InputsFact
<1>2. /\ GatheredIndices \in [1 .. N + 1 -> Nat]
      /\ \A k \in 1 .. N : GatheredIndices[k + 1] = GatheredIndices[k] + GatheredStrides[k]
  BY <1>1, IndicesFact DEF GatheredIndices
<1>3. /\ ResultIndices \in [1 .. N + 1 -> Nat] /\ ResultIndices[1] = 0
      /\ \A k \in 1 .. N : ResultIndices[k + 1] = ResultIndices[k] + ResultStrides[k]
  BY <1>1, IndicesFact DEF ResultIndices
<1>4. ResultIndices[N + 1] = GatheredIndices[N + 1]
  BY <1>1, TotalOfPermuted DEF ResultIndices, GatheredIndices
<1> QED
  BY <1>1, <1>2, <1>3, <1>4

\* old_to_new gives the place of each id.
LEMMA OldToNew ==
  ASSUME InputsOK, NEW i \in 1 .. N
  PROVE  /\ InversePermutation(new_to_old)[i] + 1 \in 1 .. N
         /\ Grouped[InversePermutation(new_to_old)[i] + 1] = ids[i]
         /\ GatheredStrides[InversePermutation(new_to_old)[i] + 1] = ResultStrides[i]
         /\ InversePermutation(new_to_old)[i] + 2 = (InversePermutation(new_to_old)[i] + 1) + 1
<1> DEFINE p == new_to_old
           j == CHOOSE j \in 1 .. N : p[j] = i - 1
<1>1. /\ N \in Nat /\ p \in [1 .. N -> 0 .. N - 1] /\ \A a, b \in 1 .. N : a # b => p[a] # p[b]
      /\ \A n \in 1 .. N : Grouped[n] = ids[p[n] + 1] /\ GatheredStrides[n] = ResultStrides[p[n] + 1]
  BY InputsFact
<1> HIDE DEF p
<1>2. j \in 1 .. N /\ p[j] = i - 1
  <2>1. i - 1 \in 0 .. N - 1
    BY <1>1
  <2>2. \E k \in 1 .. N : p[k] = i - 1
    BY <1>1, <2>1, PermutationOnto
  <2> QED
    BY <2>2
<1>3. Len(p) = N
  BY <1>1
<1>4. InversePermutation(p)[i] = j - 1
  BY <1>3 DEF InversePermutation
<1> HIDE DEF j
<1>5. (j - 1) + 1 = j /\ (j - 1) + 2 = j + 1 /\ p[j] + 1 = i
  <2>1. j \in Int /\ i \in Int
    BY <1>1, <1>2
  <2>2. (j - 1) + 1 = j /\ (j - 1) + 2 = j + 1 /\ (i - 1) + 1 = i
    BY <2>1
  <2> QED
    BY <1>2, <2>2
<1> QED
  BY <1>1, <1>2, <1>4, <1>5 DEF p

\* inv_permute of the gathered strides.
LEMMA StridesPermuted ==
  ASSUME InputsOK
  PROVE  InvPermuted(GatheredStrides, new_to_old) = ResultStrides
<1>1. /\ N \in Nat /\ new_to_old \in [1 .. N -> 0 .. N - 1]
      /\ ResultStrides \in [1 .. N -> Nat]
  BY InputsFact
<1> DEFINE inv == InversePermutation(new_to_old)
<1>2. inv = [i \in 1 .. N |-> inv[i]] /\ Len(inv) = N
  <2>1. Len(new_to_old) = N
    BY <1>1
  <2> QED
    BY <1>1, <2>1 DEF InversePermutation
<1>3. \A i \in 1 .. N : GatheredStrides[inv[i] + 1] = ResultStrides[i]
  BY OldToNew
<1>4. InvPermuted(GatheredStrides, new_to_old) = [i \in 1 .. N |-> GatheredStrides[inv[i] + 1]]
  <2> HIDE DEF inv
  <2>1. Permuted(GatheredStrides, inv) = [i \in 1 .. N |-> GatheredStrides[inv[i] + 1]]
    BY <1>2 DEF Permuted
  <2> QED
    BY <2>1 DEF InvPermuted, inv
<1> HIDE DEF inv
<1>5. ResultStrides = [i \in 1 .. N |-> ResultStrides[i]]
  BY <1>1
<1> QED
  BY <1>3, <1>4, <1>5

\* perm_fn3: the values come in the order of the ids.
LEMMA ValuesPermuted ==
  ASSUME InputsOK, NEW local_array, AreGathered(local_array)
  PROVE  AreValues(PermutedBlocks(GatheredIndices, ResultIndices, local_array))
<1> DEFINE inv == InversePermutation(new_to_old)
           Size(i) == GatheredIndices[inv[i] + 2] - GatheredIndices[inv[i] + 1]
           BlockOf(v) == {i \in 1 .. Len(ids) : v - ResultIndices[i] \in 1 .. Size(i)}
           T == ResultIndices[N + 1]
           result == PermutedBlocks(GatheredIndices, ResultIndices, local_array)
<1>1. N \in Nat /\ N = Len(ids) /\ ResultStrides \in [1 .. N -> Nat]
  BY InputsFact DEF N
<1>2. \A k \in 1 .. N :
        /\ ResultIndices[k] \in Nat /\ GatheredIndices[k] \in Nat /\ ResultStrides[k] \in Nat
        /\ ResultIndices[k + 1] = ResultIndices[k] + ResultStrides[k]
        /\ GatheredIndices[k + 1] = GatheredIndices[k] + GatheredStrides[k]
  <2>1. /\ GatheredIndices \in [1 .. N + 1 -> Nat] /\ ResultIndices \in [1 .. N + 1 -> Nat]
        /\ \A k \in 1 .. N : ResultIndices[k + 1] = ResultIndices[k] + ResultStrides[k]
        /\ \A k \in 1 .. N : GatheredIndices[k + 1] = GatheredIndices[k] + GatheredStrides[k]
    BY ResultFact
  <2>2. \A k \in 1 .. N : k \in 1 .. N + 1
    BY <1>1
  <2> QED
    BY <1>1, <2>1, <2>2, Zenon
<1>9. T = GatheredIndices[N + 1] /\ T \in Nat
  <2>1. N + 1 \in 1 .. N + 1
    BY <1>1
  <2> QED
    BY <2>1, ResultFact, Zenon
<1>3. \A i \in 1 .. N : /\ inv[i] + 1 \in 1 .. N /\ Grouped[inv[i] + 1] = ids[i]
                        /\ GatheredStrides[inv[i] + 1] = ResultStrides[i]
                        /\ inv[i] + 2 = (inv[i] + 1) + 1
  BY OldToNew
<1>4. \A i \in 1 .. N : Size(i) = ResultStrides[i]
  <2> SUFFICES ASSUME NEW i \in 1 .. N PROVE Size(i) = ResultStrides[i]
    OBVIOUS
  <2> DEFINE j == inv[i] + 1
  <2>1. j \in 1 .. N /\ GatheredStrides[j] = ResultStrides[i] /\ Size(i) = GatheredIndices[j + 1] - GatheredIndices[j]
    BY <1>3
  <2> HIDE DEF j, Size
  <2>2. /\ GatheredIndices[j + 1] = GatheredIndices[j] + GatheredStrides[j]
        /\ GatheredIndices[j] \in Nat /\ ResultStrides[i] \in Nat
    BY <1>2, <2>1, Zenon
  <2> QED
    BY <2>1, <2>2
<1>5. DOMAIN local_array = 1 .. T
  BY <1>9 DEF AreGathered, HasSize
<1>6. result = [v \in 1 .. T |->
                  IF BlockOf(v) = {} THEN Garbage
                  ELSE LET i == CHOOSE i \in BlockOf(v) : TRUE
                       IN  local_array[GatheredIndices[inv[i] + 1] + v - ResultIndices[i]]]
  BY <1>5 DEF PermutedBlocks
<1> HIDE DEF inv, T
<1>7. HasSize(result, T)
  <2> HIDE DEF BlockOf
  <2>1. result = [v \in 1 .. T |-> result[v]]
    BY <1>6
  <2> QED
    BY <2>1 DEF HasSize
<1>8. ASSUME NEW n \in 1 .. N, NEW k \in 1 .. ResultStrides[n]
      PROVE  result[ResultIndices[n] + k] = <<ids[n], k>>
  <2> DEFINE v == ResultIndices[n] + k
  <2>1. /\ ResultIndices[n] \in Nat /\ ResultStrides[n] \in Nat /\ k \in Int
        /\ ResultIndices[n + 1] = ResultIndices[n] + ResultStrides[n]
    BY <1>2
  <2>2. v \in 1 .. T
    <3>1. ResultIndices[n + 1] <= T
      <4>1. n + 1 \in 1 .. N + 1 /\ N + 1 \in 1 .. N + 1 /\ n + 1 <= N + 1
        BY <1>1
      <4> QED
        BY <4>1, <1>1, IndicesSorted DEF T, ResultIndices
    <3> QED
      BY <2>1, <3>1, <1>9
  <2>3. v \in Int /\ v - ResultIndices[n] = k
    BY <2>1
  <2> HIDE DEF v
  <2>4. BlockOf(v) = {n}
    <3>1. n \in BlockOf(v)
      BY <1>1, <1>4, <2>3
    <3>2. ASSUME NEW i \in BlockOf(v) PROVE i = n
      <4>1. i \in 1 .. N /\ v - ResultIndices[i] \in 1 .. ResultStrides[i]
        BY <1>1, <1>4
      <4>2. v - ResultIndices[n] \in 1 .. ResultStrides[n]
        BY <2>3
      <4> QED
        BY <4>1, <4>2, <1>1, <2>3, BlocksApart DEF ResultIndices
    <3> HIDE DEF BlockOf
    <3> QED
      BY <3>1, <3>2
  <2> HIDE DEF BlockOf
  <2>5. (CHOOSE i \in BlockOf(v) : TRUE) = n
    BY <2>4
  <2>6. result[v] = local_array[GatheredIndices[inv[n] + 1] + v - ResultIndices[n]]
    BY <1>6, <2>2, <2>4, <2>5
  <2>7. GatheredIndices[inv[n] + 1] + v - ResultIndices[n] = GatheredIndices[inv[n] + 1] + k
    <3>1. GatheredIndices[inv[n] + 1] \in Nat
      BY <1>2, <1>3
    <3> QED
      BY <2>1, <2>3, <3>1
  <2>8. local_array[GatheredIndices[inv[n] + 1] + k] = <<Grouped[inv[n] + 1], k>>
    BY <1>3 DEF AreGathered
  <2> QED
    BY <1>3, <2>6, <2>7, <2>8 DEF v
<1> HIDE DEF result
<1> QED
  BY <1>7, <1>8 DEF AreValues, T, result

----------------------------------------------------------------------------
(* The tasks. *)

Alone == {<<"indices", "raw">>, <<"perm", "strides">>, <<"indices", "final">>,
          <<"perm", "values">>, <<"extract", "result">>}

LEMMA TasksFact ==
  /\ \A w \in Windows : /\ <<"open", w>> \in Tasks /\ <<"alloc", w>> \in Tasks
                        /\ <<"get", w>> \in Tasks /\ <<"close", w>> \in Tasks
  /\ \A t \in Alone : t \in Tasks
BY DEF Tasks, Alone

LEMMA TasksApart ==
  /\ \A w, x \in Windows :
       /\ <<"open", w>> # <<"alloc", x>> /\ <<"open", w>> # <<"get", x>> /\ <<"open", w>> # <<"close", x>>
       /\ <<"alloc", w>> # <<"get", x>> /\ <<"alloc", w>> # <<"close", x>> /\ <<"get", w>> # <<"close", x>>
       /\ w # x => /\ <<"alloc", w>> # <<"alloc", x>> /\ <<"get", w>> # <<"get", x>>
                   /\ <<"close", w>> # <<"close", x>>
  /\ \A w \in Windows, t \in Alone :
       <<"open", w>> # t /\ <<"alloc", w>> # t /\ <<"get", w>> # t /\ <<"close", w>> # t
  /\ <<"indices", "raw">> # <<"indices", "final">> /\ <<"perm", "strides">> # <<"perm", "values">>
BY DEF Alone

LEMMA DepsFact ==
  /\ \A w \in Windows : /\ <<"get", w>> \in Deps(<<"close", w>>)
                        /\ <<"alloc", w>> \in Deps(<<"get", w>>)
  /\ {<<"alloc", "strides">>, <<"alloc", "displs">>, <<"close", "strides">>, <<"close", "displs">>}
        \subseteq Deps(<<"get", "values">>)
  /\ <<"indices", "raw">> \in Deps(<<"alloc", "values">>)
  /\ <<"close", "strides">> \in Deps(<<"indices", "raw">>)
  /\ <<"close", "strides">> \in Deps(<<"perm", "strides">>)
  /\ <<"perm", "strides">> \in Deps(<<"indices", "final">>)
  /\ {<<"indices", "raw">>, <<"indices", "final">>, <<"close", "values">>} \subseteq Deps(<<"perm", "values">>)
  /\ {<<"indices", "final">>, <<"perm", "values">>} \subseteq Deps(<<"extract", "result">>)
<1>1. \A w \in Windows : <<"get", w>> \in Deps(<<"close", w>>)
  BY DEF Deps
<1>2. /\ <<"alloc", "strides">> \in Deps(<<"get", "strides">>) /\ <<"alloc", "displs">> \in Deps(<<"get", "displs">>)
      /\ <<"alloc", "values">> \in Deps(<<"get", "values">>)
      /\ {<<"alloc", "strides">>, <<"alloc", "displs">>, <<"close", "strides">>, <<"close", "displs">>}
            \subseteq Deps(<<"get", "values">>)
  BY DEF Deps, GetDeps
<1>3. \A w \in Windows : <<"alloc", w>> \in Deps(<<"get", w>>)
  BY <1>2 DEF Windows
<1>4. /\ <<"indices", "raw">> \in Deps(<<"alloc", "values">>)
      /\ <<"close", "strides">> \in Deps(<<"indices", "raw">>)
      /\ <<"close", "strides">> \in Deps(<<"perm", "strides">>)
  BY DEF Deps
<1>5. /\ <<"perm", "strides">> \in Deps(<<"indices", "final">>)
      /\ {<<"indices", "raw">>, <<"indices", "final">>, <<"close", "values">>} \subseteq Deps(<<"perm", "values">>)
      /\ {<<"indices", "final">>, <<"perm", "values">>} \subseteq Deps(<<"extract", "result">>)
  BY DEF Deps
<1> QED
  BY <1>1, <1>2, <1>3, <1>4, <1>5

\* What is done before a task that is done.
LEMMA DoneBefore ==
  ASSUME TasksInv
  PROVE  /\ \A w \in Windows : /\ <<"close", w>> \in done => <<"get", w>> \in done
                               /\ <<"get", w>> \in done => <<"alloc", w>> \in done
         /\ <<"extract", "result">> \in done =>
              <<"perm", "values">> \in done /\ <<"indices", "final">> \in done
         /\ <<"perm", "values">> \in done => <<"indices", "final">> \in done
BY DepsFact DEF TasksInv

----------------------------------------------------------------------------
(* What is read. *)

LEMMA WindowRead ==
  ASSUME JaggedInv, NEW w \in Windows, <<"close", w>> \in done
  PROVE  HasSize(res[<<"alloc", w>>], SizeOf(w)) /\ \A n \in 1 .. N : IsRead(w, n)
<1>1. TasksInv /\ WindowInv(w)
  BY DEF JaggedInv
<1>2. <<"get", w>> \in done /\ <<"alloc", w>> \in done
  BY <1>1, DoneBefore
<1> QED
  BY <1>1, <1>2 DEF WindowInv

LEMMA StridesRead ==
  ASSUME JaggedInv, <<"close", "strides">> \in done
  PROVE  res[<<"alloc", "strides">>] = GatheredStrides
<1> DEFINE buffer == res[<<"alloc", "strides">>]
<1>0. "strides" \in Windows /\ "strides" # "values"
  BY DEF Windows
<1>1. HasSize(buffer, SizeOf("strides")) /\ \A n \in 1 .. N : IsRead("strides", n)
  BY <1>0, WindowRead
<1>2. N \in Nat /\ GatheredStrides \in [1 .. N -> Nat]
  BY InputsFact DEF JaggedInv
<1>3. buffer = [n \in 1 .. N |-> buffer[n]]
  BY <1>0, <1>1 DEF HasSize, SizeOf
<1>4. ASSUME NEW n \in 1 .. N PROVE buffer[n] = GatheredStrides[n]
  <2>1. BlockAtPlace("strides", n).size = 1 /\ BlockAtPlace("strides", n).at = n - 1 /\ (n - 1) + 1 = n
    BY <1>0, <1>2 DEF BlockAtPlace
  <2>2. buffer[BlockAtPlace("strides", n).at + 1] = Content("strides", n, 1)
    BY <1>1, <2>1 DEF IsRead
  <2>3. Content("strides", n, 1) = GatheredStrides[n]
    BY DEF Content
  <2> HIDE DEF buffer
  <2> QED
    BY <2>1, <2>2, <2>3
<1> HIDE DEF buffer
<1> QED
  BY <1>2, <1>3, <1>4 DEF buffer

LEMMA DisplsRead ==
  ASSUME JaggedInv, <<"close", "displs">> \in done
  PROVE  \A n \in 1 .. N : res[<<"alloc", "displs">>][n] = BlockAtPlace("values", n).displ
<1> DEFINE buffer == res[<<"alloc", "displs">>]
<1>0. "displs" \in Windows /\ "displs" # "values" /\ "displs" # "strides"
  BY DEF Windows
<1>1. \A n \in 1 .. N : IsRead("displs", n)
  BY <1>0, WindowRead
<1>2. N \in Nat
  BY InputsFact DEF JaggedInv
<1> SUFFICES ASSUME NEW n \in 1 .. N PROVE buffer[n] = BlockAtPlace("values", n).displ
  OBVIOUS
<1>3. BlockAtPlace("displs", n).size = 1 /\ BlockAtPlace("displs", n).at = n - 1 /\ (n - 1) + 1 = n
  BY <1>0, <1>2 DEF BlockAtPlace
<1>4. buffer[BlockAtPlace("displs", n).at + 1] = Content("displs", n, 1)
  BY <1>1, <1>3 DEF IsRead
<1>5. Content("displs", n, 1) = BlockAtPlace("values", n).displ
  BY DEF Content
<1> HIDE DEF buffer
<1> QED
  BY <1>3, <1>4, <1>5

LEMMA ValuesRead ==
  ASSUME JaggedInv, <<"close", "values">> \in done
  PROVE  AreGathered(res[<<"alloc", "values">>])
<1> DEFINE buffer == res[<<"alloc", "values">>]
<1>0. "values" \in Windows
  BY DEF Windows
<1>1. HasSize(buffer, SizeOf("values")) /\ \A n \in 1 .. N : IsRead("values", n)
  BY <1>0, WindowRead
<1>2. SizeOf("values") = GatheredIndices[N + 1]
  BY DEF SizeOf
<1>3. ASSUME NEW n \in 1 .. N, NEW k \in 1 .. GatheredStrides[n]
      PROVE  buffer[GatheredIndices[n] + k] = <<Grouped[n], k>>
  <2>1. BlockAtPlace("values", n).size = GatheredStrides[n] /\ BlockAtPlace("values", n).at = GatheredIndices[n]
    BY DEF BlockAtPlace
  <2>2. buffer[BlockAtPlace("values", n).at + k] = Content("values", n, k)
    BY <1>1, <2>1 DEF IsRead
  <2>3. Content("values", n, k) = <<Grouped[n], k>>
    BY DEF Content
  <2> HIDE DEF buffer
  <2> QED
    BY <2>1, <2>2, <2>3
<1> HIDE DEF buffer
<1> QED
  BY <1>1, <1>2, <1>3 DEF AreGathered, buffer

----------------------------------------------------------------------------
(* What a step leaves as it is. *)

LEMMA InputsKept ==
  ASSUME inputs' = inputs
  PROVE  /\ InputsOK = InputsOK' /\ N' = N
         /\ GatheredStrides' = GatheredStrides /\ GatheredIndices' = GatheredIndices
         /\ ResultStrides' = ResultStrides /\ ResultIndices' = ResultIndices
         /\ ids' = ids /\ Grouped' = Grouped
         /\ \A w : SizeOf(w)' = SizeOf(w)
         /\ \A w, n : BlockAtPlace(w, n)' = BlockAtPlace(w, n)
         /\ \A w, n, k : Content(w, n, k)' = Content(w, n, k)
<1>1. /\ distri' = distri /\ stride' = stride /\ ids' = ids /\ places' = places
      /\ new_to_old' = new_to_old
  BY DEF inputs
<1>2. InputsOK = InputsOK' /\ N' = N /\ Grouped' = Grouped
  BY <1>1 DEF InputsOK, Elts, N, Grouped
<1>3. GatheredStrides' = GatheredStrides /\ ResultStrides' = ResultStrides
  BY <1>1, <1>2 DEF GatheredStrides, ResultStrides
<1>4. GatheredIndices' = GatheredIndices /\ ResultIndices' = ResultIndices
  BY <1>3 DEF GatheredIndices, ResultIndices
<1>5. \A r : PartDispls(r)' = PartDispls(r)
  <2>1. \A r : PartStrides(r)' = PartStrides(r)
    BY <1>1 DEF PartStrides
  <2> QED
    BY <2>1 DEF PartDispls
<1>6. \A w : SizeOf(w)' = SizeOf(w)
  BY <1>2, <1>4 DEF SizeOf
<1>7. \A w, n : BlockAtPlace(w, n)' = BlockAtPlace(w, n)
  BY <1>1, <1>3, <1>4, <1>5 DEF BlockAtPlace
<1>8. \A w, n, k : Content(w, n, k)' = Content(w, n, k)
  BY <1>2, <1>3, <1>7 DEF Content
<1> QED
  BY <1>1, <1>2, <1>3, <1>4, <1>6, <1>7, <1>8

LEMMA WindowKept ==
  ASSUME inputs' = inputs, NEW w \in Windows, WindowInv(w),
         <<"alloc", w>> \in done' <=> <<"alloc", w>> \in done,
         <<"get", w>> \in done' <=> <<"get", w>> \in done,
         <<"close", w>> \in done' <=> <<"close", w>> \in done,
         res'[<<"alloc", w>>] = res[<<"alloc", w>>],
         blocks'[w] = blocks[w], pending'[w] = pending[w]
  PROVE  WindowInv(w)'
<1>1. /\ N' = N /\ SizeOf(w)' = SizeOf(w)
      /\ \A n : BlockAtPlace(w, n)' = BlockAtPlace(w, n)
      /\ \A n, k : Content(w, n, k)' = Content(w, n, k)
  BY InputsKept
<1>2. \A n : IsRead(w, n)' <=> IsRead(w, n)
  BY <1>1 DEF IsRead
<1>3. [n \in 1 .. N |-> BlockAtPlace(w, n)]' = [n \in 1 .. N |-> BlockAtPlace(w, n)]
  BY <1>1
<1>4. HasSize(res[<<"alloc", w>>], SizeOf(w))' <=> HasSize(res[<<"alloc", w>>], SizeOf(w))
  BY <1>1 DEF HasSize
<1> QED
  BY <1>1, <1>2, <1>3, <1>4 DEF WindowInv

LEMMA ComputedKept ==
  ASSUME inputs' = inputs, ComputedInv,
         \A t \in Alone : (t \in done' <=> t \in done) /\ res'[t] = res[t]
  PROVE  ComputedInv'
<1>1. /\ N' = N /\ GatheredIndices' = GatheredIndices /\ ResultStrides' = ResultStrides
      /\ ResultIndices' = ResultIndices /\ ids' = ids
  BY InputsKept
<1>2. \A t \in Alone : (t \in done' <=> t \in done) /\ res'[t] = res[t]
  OBVIOUS
<1>3. /\ <<"indices", "raw">> \in Alone /\ <<"perm", "strides">> \in Alone /\ <<"indices", "final">> \in Alone
      /\ <<"perm", "values">> \in Alone /\ <<"extract", "result">> \in Alone
  BY DEF Alone
<1>4. /\ AreValues(res[<<"perm", "values">>])' <=> AreValues(res[<<"perm", "values">>])
      /\ AreValues(res[<<"extract", "result">>][2])' <=> AreValues(res[<<"extract", "result">>][2])
  <2>1. /\ res'[<<"perm", "values">>] = res[<<"perm", "values">>]
        /\ res'[<<"extract", "result">>] = res[<<"extract", "result">>]
    BY <1>2, <1>3
  <2>2. AreValues(res[<<"perm", "values">>])' <=> AreValues(res[<<"perm", "values">>])
    BY ONLY <1>1, <2>1 DEF AreValues, HasSize
  <2>3. AreValues(res[<<"extract", "result">>][2])' <=> AreValues(res[<<"extract", "result">>][2])
    BY ONLY <1>1, <2>1 DEF AreValues, HasSize
  <2> QED
    BY <2>2, <2>3
<1> QED
  BY <1>1, <1>2, <1>3, <1>4 DEF ComputedInv

LEMMA TasksKept ==
  ASSUME TasksInv, NEW t \in Tasks, Runs(t),
         DOMAIN res' = Tasks, DOMAIN blocks' = Windows, DOMAIN pending' = Windows
  PROVE  TasksInv'
BY DEF TasksInv, Runs

----------------------------------------------------------------------------
(* The steps. *)

LEMMA JaggedInitInv ==
  ASSUME JaggedInit
  PROVE  JaggedInv
<1>1. /\ NRank \in Nat \ {0} /\ NElt \in Nat \ {0}
      /\ distri \in [1 .. NRank + 1 -> 0 .. NElt]
      /\ distri[1] = 0 /\ distri[NRank + 1] = NElt /\ \A k \in 1 .. NRank : distri[k] <= distri[k + 1]
  BY JaggedAssumption DEF JaggedInit
<1>2. ids \in Seq(Elts)
  <2>1. PICK n \in 0 .. MaxIds : ids \in [1 .. n -> Elts]
    BY DEF JaggedInit
  <2>2. n \in Nat
    BY JaggedAssumption
  <2> QED
    BY <2>1, <2>2
<1>3. InputsOK
  BY <1>1, <1>2 DEF InputsOK, JaggedInit, IsDistributionOf
<1>4. done = {} /\ DOMAIN res = Tasks /\ DOMAIN blocks = Windows /\ DOMAIN pending = Windows
      /\ \A w \in Windows : blocks[w] = <<>> /\ pending[w] = {}
  BY DEF JaggedInit
<1>5. TasksInv
  BY <1>4 DEF TasksInv
<1>6. \A w \in Windows : WindowInv(w)
  BY <1>4 DEF WindowInv
<1>7. ComputedInv
  BY <1>4 DEF ComputedInv
<1> QED
  BY <1>3, <1>5, <1>6, <1>7 DEF JaggedInv

LEMMA OpenInv ==
  ASSUME JaggedInv, NEW w \in Windows, Open(w)
  PROVE  JaggedInv'
<1>1. /\ Runs(<<"open", w>>) /\ done' = done \cup {<<"open", w>>}
      /\ inputs' = inputs /\ res' = res /\ blocks' = blocks /\ pending' = pending
      /\ InputsOK /\ TasksInv /\ (\A x \in Windows : WindowInv(x)) /\ ComputedInv
  BY DEF Open, Runs, JaggedInv
<1>2. InputsOK'
  BY <1>1, InputsKept
<1>3. TasksInv'
  BY <1>1, TasksFact, TasksKept DEF TasksInv
<1>4. ASSUME NEW x \in Windows PROVE WindowInv(x)'
  <2>1. /\ <<"alloc", x>> \in done' <=> <<"alloc", x>> \in done
        /\ <<"get", x>> \in done' <=> <<"get", x>> \in done
        /\ <<"close", x>> \in done' <=> <<"close", x>> \in done
    BY <1>1, TasksApart
  <2> QED
    BY <1>1, <2>1, WindowKept
<1>5. ComputedInv'
  <2>1. \A t \in Alone : t \in done' <=> t \in done
    BY <1>1, TasksApart
  <2> QED
    BY <1>1, <2>1, ComputedKept
<1> QED
  BY <1>2, <1>3, <1>4, <1>5 DEF JaggedInv

LEMMA CloseInv ==
  ASSUME JaggedInv, NEW w \in Windows, Close(w)
  PROVE  JaggedInv'
<1>1. /\ Runs(<<"close", w>>) /\ done' = done \cup {<<"close", w>>} /\ pending[w] = {}
      /\ inputs' = inputs /\ res' = res /\ blocks' = blocks /\ pending' = pending
      /\ InputsOK /\ TasksInv /\ (\A x \in Windows : WindowInv(x)) /\ ComputedInv
  BY DEF Close, Runs, JaggedInv
<1>2. InputsOK'
  BY <1>1, InputsKept
<1>3. TasksInv'
  BY <1>1, TasksFact, TasksKept DEF TasksInv
<1>4. ASSUME NEW x \in Windows PROVE WindowInv(x)'
  <2>1. /\ <<"alloc", x>> \in done' <=> <<"alloc", x>> \in done
        /\ <<"get", x>> \in done' <=> <<"get", x>> \in done
        /\ x # w => (<<"close", x>> \in done' <=> <<"close", x>> \in done)
    BY <1>1, TasksApart
  <2>2. CASE x # w
    BY <1>1, <2>1, <2>2, WindowKept
  <2>3. CASE x = w
    <3>1. /\ N' = N /\ SizeOf(x)' = SizeOf(x)
          /\ \A n : BlockAtPlace(x, n)' = BlockAtPlace(x, n)
          /\ \A n, k : Content(x, n, k)' = Content(x, n, k)
      BY <1>1, InputsKept
    <3>2. \A n : IsRead(x, n)' <=> IsRead(x, n)
      BY <1>1, <3>1 DEF IsRead
    <3>3. [n \in 1 .. N |-> BlockAtPlace(x, n)]' = [n \in 1 .. N |-> BlockAtPlace(x, n)]
      BY <3>1
    <3>4. HasSize(res[<<"alloc", x>>], SizeOf(x))' <=> HasSize(res[<<"alloc", x>>], SizeOf(x))
      BY <1>1, <3>1 DEF HasSize
    <3> QED
      BY <1>1, <2>1, <2>3, <3>1, <3>2, <3>3, <3>4 DEF WindowInv
  <2> QED
    BY <2>2, <2>3
<1>5. ComputedInv'
  <2>1. \A t \in Alone : t \in done' <=> t \in done
    BY <1>1, TasksApart
  <2> QED
    BY <1>1, <2>1, ComputedKept
<1> QED
  BY <1>2, <1>3, <1>4, <1>5 DEF JaggedInv

\* What a task returns is the only result that changes.
LEMMA ReturnsFact ==
  ASSUME TasksInv, NEW t \in Tasks, NEW value, Returns(t, value)
  PROVE  /\ DOMAIN res' = Tasks /\ res'[t] = value
         /\ \A u \in Tasks : u # t => res'[u] = res[u]
<1>1. DOMAIN res = Tasks /\ res' = [res EXCEPT ![t] = value]
  BY DEF TasksInv, Returns
<1> QED
  BY <1>1

LEMMA AllocInv ==
  ASSUME JaggedInv, NEW w \in Windows, Alloc(w)
  PROVE  JaggedInv'
<1> DEFINE t == <<"alloc", w>>
<1>1. /\ Runs(t) /\ t \notin done /\ Deps(t) \subseteq done /\ done' = done \cup {t}
      /\ Returns(t, Garbages(AllocSize(w)))
      /\ inputs' = inputs /\ blocks' = blocks /\ pending' = pending
      /\ InputsOK /\ TasksInv /\ (\A x \in Windows : WindowInv(x)) /\ ComputedInv
  BY DEF Alloc, Runs, JaggedInv
<1>2. /\ DOMAIN res' = Tasks /\ res'[t] = Garbages(AllocSize(w)) /\ \A u \in Tasks : u # t => res'[u] = res[u]
  BY <1>1, TasksFact, ReturnsFact
<1>3. InputsOK'
  BY <1>1, InputsKept
<1>4. TasksInv'
  <2>1. DOMAIN blocks' = Windows /\ DOMAIN pending' = Windows
    BY <1>1 DEF TasksInv
  <2> QED
    BY <1>1, <1>2, <2>1, TasksFact, TasksKept
<1>5. ASSUME NEW x \in Windows PROVE WindowInv(x)'
  <2>1. /\ x # w => (<<"alloc", x>> \in done' <=> <<"alloc", x>> \in done) /\ <<"alloc", x>> # t
        /\ <<"get", x>> \in done' <=> <<"get", x>> \in done
        /\ <<"close", x>> \in done' <=> <<"close", x>> \in done
        /\ <<"alloc", x>> \in Tasks
    BY <1>1, TasksApart, TasksFact
  <2>2. CASE x # w
    BY <1>1, <1>2, <2>1, <2>2, WindowKept
  <2>3. CASE x = w
    <3>1. <<"get", x>> \notin done' /\ <<"close", x>> \notin done'
      BY <1>1, <2>1, <2>3, DoneBefore
    <3>2. blocks'[x] = <<>> /\ pending'[x] = {}
      BY <1>1, <2>1, <3>1 DEF WindowInv
    <3>3. SizeOf(x)' = SizeOf(x)
      BY <1>1, InputsKept
    <3>4. AllocSize(w) = SizeOf(w)
      <4>1. CASE w = "values"
        <5>1. res[<<"indices", "raw">>] = GatheredIndices
          BY <1>1, <4>1, DepsFact DEF ComputedInv
        <5>2. Len(GatheredIndices) = N + 1
          BY <1>1, ResultFact
        <5> QED
          BY <4>1, <5>1, <5>2 DEF AllocSize, SizeOf
      <4>2. CASE w # "values"
        BY <4>2 DEF AllocSize, SizeOf, N
      <4> QED
        BY <4>1, <4>2
    <3>5. HasSize(Garbages(SizeOf(w)), SizeOf(w))
      BY DEF HasSize, Garbages
    <3>6. HasSize(res'[t], SizeOf(x)')
      BY <1>2, <2>3, <3>3, <3>4, <3>5
    <3>7. HasSize(res[<<"alloc", x>>], SizeOf(x))'
      BY <2>3, <3>6 DEF HasSize
    <3> QED
      BY <3>1, <3>2, <3>7 DEF WindowInv
  <2> QED
    BY <2>2, <2>3
<1>6. ComputedInv'
  <2>1. \A u \in Alone : (u \in done' <=> u \in done) /\ u # t /\ u \in Tasks
    BY <1>1, TasksApart, TasksFact
  <2> QED
    BY <1>1, <1>2, <2>1, ComputedKept
<1> QED
  BY <1>3, <1>4, <1>5, <1>6 DEF JaggedInv

\* The blocks that are asked for are those of the places: the sizes and the
\* displacements are there when they are used.
LEMMA BlocksFact ==
  ASSUME JaggedInv, NEW w \in Windows, Deps(<<"get", w>>) \subseteq done
  PROVE  Blocks(w) = [n \in 1 .. N |-> BlockAtPlace(w, n)] /\ Len(places) = N
<1>1. InputsOK /\ N \in Nat /\ places = [n \in 1 .. N |-> places[n]]
  <2>1. InputsOK
    BY DEF JaggedInv
  <2> QED
    BY <2>1, InputsFact
<1>2. Len(places) = N
  BY <1>1
<1>3. CASE w = "values"
  <2>1. <<"close", "strides">> \in done /\ <<"close", "displs">> \in done
    BY <1>3, DepsFact
  <2>2. res[<<"alloc", "strides">>] = GatheredStrides
    BY <2>1, StridesRead
  <2>3. \A n \in 1 .. N : res[<<"alloc", "displs">>][n] = BlockAtPlace("values", n).displ
    BY <2>1, DisplsRead
  <2>4. ASSUME NEW n \in 1 .. N
        PROVE  [rank |-> places[n][1], displ |-> res[<<"alloc", "displs">>][n],
                size |-> res[<<"alloc", "strides">>][n],
                at |-> IndicesFromStrides(res[<<"alloc", "strides">>])[n]] = BlockAtPlace(w, n)
    BY <1>3, <2>2, <2>3 DEF BlockAtPlace, GatheredIndices
  <2> QED
    BY <1>2, <1>3, <2>4 DEF Blocks
<1>4. CASE w # "values"
  BY <1>2, <1>4 DEF Blocks, BlockAtPlace
<1> QED
  BY <1>2, <1>3, <1>4

LEMMA GetInv ==
  ASSUME JaggedInv, NEW w \in Windows, Get(w)
  PROVE  JaggedInv'
<1> DEFINE t == <<"get", w>>
<1>1. /\ Runs(t) /\ t \notin done /\ Deps(t) \subseteq done /\ done' = done \cup {t}
      /\ blocks' = [blocks EXCEPT ![w] = Blocks(w)]
      /\ pending' = [pending EXCEPT ![w] = 1 .. Len(places)]
      /\ inputs' = inputs /\ res' = res
      /\ InputsOK /\ TasksInv /\ (\A x \in Windows : WindowInv(x)) /\ ComputedInv
  BY DEF Get, Runs, JaggedInv
<1>2. Blocks(w) = [n \in 1 .. N |-> BlockAtPlace(w, n)] /\ Len(places) = N
  BY <1>1, BlocksFact
<1>3. InputsOK'
  BY <1>1, InputsKept
<1>4. DOMAIN blocks = Windows /\ DOMAIN pending = Windows
  BY <1>1 DEF TasksInv
<1>5. TasksInv'
  BY <1>1, <1>4, TasksFact, TasksKept DEF TasksInv
<1>6. ASSUME NEW x \in Windows PROVE WindowInv(x)'
  <2>1. /\ <<"alloc", x>> \in done' <=> <<"alloc", x>> \in done
        /\ x # w => (<<"get", x>> \in done' <=> <<"get", x>> \in done)
        /\ <<"close", x>> \in done' <=> <<"close", x>> \in done
    BY <1>1, TasksApart
  <2>2. CASE x # w
    <3>1. blocks'[x] = blocks[x] /\ pending'[x] = pending[x]
      BY <1>1, <1>4, <2>2
    <3> QED
      BY <1>1, <2>1, <2>2, <3>1, WindowKept
  <2>3. CASE x = w
    <3>1. /\ N' = N /\ SizeOf(x)' = SizeOf(x)
          /\ \A n : BlockAtPlace(x, n)' = BlockAtPlace(x, n)
      BY <1>1, InputsKept
    <3>2. /\ blocks'[x] = [n \in 1 .. N |-> BlockAtPlace(x, n)] /\ pending'[x] = 1 .. N
      BY <1>1, <1>2, <1>4, <2>3
    <3>3. [n \in 1 .. N |-> BlockAtPlace(x, n)]' = [n \in 1 .. N |-> BlockAtPlace(x, n)]
      BY <3>1
    <3>4. HasSize(res[<<"alloc", x>>], SizeOf(x))' <=> HasSize(res[<<"alloc", x>>], SizeOf(x))
      BY <1>1, <3>1 DEF HasSize
    <3>5. <<"get", x>> \in done' /\ <<"close", x>> \notin done'
      BY <1>1, <2>1, <2>3, DoneBefore
    <3> QED
      BY <1>1, <2>1, <3>1, <3>2, <3>3, <3>4, <3>5 DEF WindowInv
  <2> QED
    BY <2>2, <2>3
<1>7. ComputedInv'
  <2>1. \A u \in Alone : u \in done' <=> u \in done
    BY <1>1, TasksApart
  <2> QED
    BY <1>1, <2>1, ComputedKept
<1> QED
  BY <1>3, <1>5, <1>6, <1>7 DEF JaggedInv

LEMMA ReadInv ==
  ASSUME JaggedInv, NEW w \in Windows, NEW n \in pending[w], Read(w, n)
  PROVE  JaggedInv'
<1> DEFINE t == <<"alloc", w>>
           block == BlockAtPlace(w, n)
           filled == [k \in DOMAIN res[t] |->
                        IF k - block.at \in 1 .. block.size
                          THEN Part(w, block.rank)[block.displ + k - block.at]
                          ELSE res[t][k]]
<1>1. /\ inputs' = inputs /\ done' = done /\ blocks' = blocks
      /\ InputsOK /\ TasksInv /\ (\A x \in Windows : WindowInv(x)) /\ ComputedInv
  BY DEF Read, JaggedInv
<1>2. <<"get", w>> \in done /\ t \in done /\ <<"close", w>> \notin done
  BY <1>1, DoneBefore DEF WindowInv
<1>3. /\ blocks[w] = [m \in 1 .. N |-> BlockAtPlace(w, m)] /\ n \in 1 .. N /\ blocks[w][n] = block
      /\ HasSize(res[t], SizeOf(w)) /\ pending[w] \subseteq 1 .. N
      /\ \A m \in 1 .. N : m \notin pending[w] => IsRead(w, m)
  BY <1>1, <1>2 DEF WindowInv
<1>4. pending' = [pending EXCEPT ![w] = @ \ {n}] /\ Returns(t, filled)
  BY <1>3 DEF Read
<1>5. DOMAIN res' = Tasks /\ res'[t] = filled /\ \A u \in Tasks : u # t => res'[u] = res[u]
  <2> HIDE DEF filled
  <2> QED
    BY <1>1, <1>4, TasksFact, ReturnsFact
<1>6. DOMAIN res[t] = 1 .. SizeOf(w)
  BY <1>3 DEF HasSize
<1>7. InputsOK'
  BY <1>1, InputsKept
<1>8. DOMAIN blocks = Windows /\ DOMAIN pending = Windows
  BY <1>1 DEF TasksInv
<1>9. TasksInv'
  BY <1>1, <1>4, <1>5, <1>8 DEF TasksInv
<1>10. /\ HasSize(filled, SizeOf(w))
       /\ \A m \in 1 .. N : m = n \/ m \notin pending[w] =>
            \A k \in 1 .. BlockAtPlace(w, m).size :
              filled[BlockAtPlace(w, m).at + k] = Content(w, m, k)
  <2>1. HasSize(filled, SizeOf(w))
    BY <1>6 DEF HasSize
  <2>2. ASSUME NEW m \in 1 .. N, m = n \/ m \notin pending[w],
               NEW k \in 1 .. BlockAtPlace(w, m).size
        PROVE  filled[BlockAtPlace(w, m).at + k] = Content(w, m, k)
    <3> DEFINE other == BlockAtPlace(w, m)
               v == other.at + k
    <3>1. /\ other.size \in Nat /\ other.displ \in Nat /\ other.at \in Nat
          /\ other.at + other.size <= SizeOf(w)
      BY <1>1, BlockFact
    <3>2. SizeOf(w) \in Nat
      <4>1. N \in Nat /\ N + 1 \in 1 .. N + 1 /\ GatheredIndices \in [1 .. N + 1 -> Nat]
        BY <1>1, InputsFact, ResultFact
      <4> QED
        BY <4>1 DEF SizeOf
    <3>3. v \in 1 .. SizeOf(w) /\ v \in Int /\ v - other.at = k /\ k \in 1 .. other.size
      <4> HIDE DEF other
      <4>1. k \in 1 .. other.size
        BY DEF other
      <4> QED
        BY <3>1, <3>2, <4>1
    <3> HIDE DEF other, v
    <3>4. CASE m = n
      <4>1. block = other
        BY <3>4 DEF other
      <4>2. filled[v] = Part(w, other.rank)[other.displ + v - other.at]
        BY <1>6, <3>3, <4>1
      <4>3. other.displ + v - other.at = other.displ + k
        BY <3>1, <3>3
      <4>4. Part(w, other.rank)[other.displ + k] = Content(w, m, k)
        BY <1>1, <3>3, BlockContent DEF other
      <4> QED
        BY <4>2, <4>3, <4>4 DEF v, other
    <3>5. CASE m # n
      <4>1. ~ (v - block.at \in 1 .. block.size)
        <5>1. v - BlockAtPlace(w, m).at \in 1 .. BlockAtPlace(w, m).size
          BY <3>3 DEF other
        <5>2. v - BlockAtPlace(w, n).at \in 1 .. BlockAtPlace(w, n).size => m = n
          BY <1>1, <1>3, <3>3, <5>1, BlocksOfBuffer
        <5> QED
          BY <3>5, <5>2
      <4>2. filled[v] = res[t][v]
        BY <1>6, <3>3, <4>1
      <4>3. IsRead(w, m)
        BY <1>3, <2>2, <3>5
      <4>4. res[t][v] = Content(w, m, k)
        BY <4>3 DEF IsRead, v, other
      <4> QED
        BY <4>2, <4>4 DEF v, other
    <3> QED
      BY <3>4, <3>5
  <2> HIDE DEF filled
  <2> QED
    BY <2>1, <2>2
<1> HIDE DEF filled, block
<1>11. ASSUME NEW x \in Windows PROVE WindowInv(x)'
  <2>1. CASE x # w
    <3>1. pending'[x] = pending[x]
      BY <1>4, <1>8, <2>1
    <3>2. <<"alloc", x>> # t /\ <<"alloc", x>> \in Tasks
      BY <2>1, TasksApart, TasksFact
    <3> QED
      BY <1>1, <1>5, <3>1, <3>2, WindowKept
  <2>2. CASE x = w
    <3>1. /\ N' = N /\ SizeOf(w)' = SizeOf(w)
          /\ \A m : BlockAtPlace(w, m)' = BlockAtPlace(w, m)
          /\ \A m, k : Content(w, m, k)' = Content(w, m, k)
      BY <1>1, InputsKept
    <3>2. pending'[w] = pending[w] \ {n}
      BY <1>4, <1>8
    <3>3. [m \in 1 .. N |-> BlockAtPlace(w, m)]' = [m \in 1 .. N |-> BlockAtPlace(w, m)]
      BY <3>1
    <3>4. HasSize(res[t], SizeOf(w))'
      <4>1. HasSize(filled, SizeOf(w)) <=> HasSize(res[t], SizeOf(w))'
        BY <1>5, <3>1 DEF HasSize
      <4> QED
        BY <1>10, <4>1
    <3>5. \A m \in 1 .. N : m \notin pending'[w] => IsRead(w, m)'
      BY <1>5, <1>10, <3>1, <3>2 DEF IsRead
    <3>6. WindowInv(w)'
      BY <1>1, <1>2, <1>3, <3>1, <3>2, <3>3, <3>4, <3>5 DEF WindowInv
    <3> QED
      BY <2>2, <3>6
  <2> QED
    BY <2>1, <2>2
<1>12. ComputedInv'
  <2>1. \A u \in Alone : u # t /\ u \in Tasks
    BY TasksApart, TasksFact
  <2> QED
    BY <1>1, <1>5, <2>1, ComputedKept
<1> QED
  BY <1>7, <1>9, <1>11, <1>12 DEF JaggedInv

\* The tasks that compute change no window.
LEMMA AloneKeepsWindows ==
  ASSUME JaggedInv, NEW t \in Alone, Runs(t),
         inputs' = inputs, blocks' = blocks, pending' = pending,
         DOMAIN res' = Tasks, \A w \in Windows : res'[<<"alloc", w>>] = res[<<"alloc", w>>]
  PROVE  InputsOK' /\ TasksInv' /\ \A w \in Windows : WindowInv(w)'
<1>1. InputsOK /\ TasksInv /\ (\A w \in Windows : WindowInv(w)) /\ done' = done \cup {t}
  BY DEF JaggedInv, Runs
<1>2. InputsOK'
  BY <1>1, InputsKept
<1>3. TasksInv'
  <2>1. DOMAIN blocks' = Windows /\ DOMAIN pending' = Windows /\ t \in Tasks
    BY <1>1, TasksFact DEF TasksInv
  <2> QED
    BY <1>1, <2>1, TasksKept
<1>4. ASSUME NEW w \in Windows PROVE WindowInv(w)'
  <2>1. /\ <<"alloc", w>> \in done' <=> <<"alloc", w>> \in done
        /\ <<"get", w>> \in done' <=> <<"get", w>> \in done
        /\ <<"close", w>> \in done' <=> <<"close", w>> \in done
    BY <1>1, TasksApart
  <2> QED
    BY <1>1, <2>1, WindowKept
<1> QED
  BY <1>2, <1>3, <1>4

\* A task that computes returns its value, and the results of the others stay.
LEMMA AloneReturns ==
  ASSUME JaggedInv, NEW t \in Alone, NEW value, Runs(t), Returns(t, value),
         inputs' = inputs, blocks' = blocks, pending' = pending
  PROVE  /\ InputsOK' /\ TasksInv' /\ \A w \in Windows : WindowInv(w)'
         /\ done' = done \cup {t} /\ t \notin done /\ Deps(t) \subseteq done
         /\ res'[t] = value /\ \A u \in Alone : u # t => res'[u] = res[u]
<1>1. TasksInv /\ t \in Tasks
  BY TasksFact DEF JaggedInv
<1>2. DOMAIN res' = Tasks /\ res'[t] = value /\ \A u \in Tasks : u # t => res'[u] = res[u]
  BY <1>1, ReturnsFact
<1>3. \A w \in Windows : res'[<<"alloc", w>>] = res[<<"alloc", w>>]
  BY <1>2, TasksApart, TasksFact
<1>4. InputsOK' /\ TasksInv' /\ \A w \in Windows : WindowInv(w)'
  BY <1>2, <1>3, AloneKeepsWindows
<1> QED
  BY <1>2, <1>4, TasksFact DEF Runs

\* ComputedInv after a step, with what it leaves as it is.
LEMMA ComputedAfter ==
  ASSUME inputs' = inputs,
         <<"indices", "raw">> \in done' => res'[<<"indices", "raw">>] = GatheredIndices,
         <<"perm", "strides">> \in done' => res'[<<"perm", "strides">>] = ResultStrides,
         <<"indices", "final">> \in done' /\ <<"extract", "result">> \notin done' =>
           res'[<<"indices", "final">>] = ResultIndices,
         <<"perm", "values">> \in done' /\ <<"extract", "result">> \notin done' =>
           AreValues(res'[<<"perm", "values">>]),
         <<"extract", "result">> \in done' =>
           /\ res'[<<"extract", "result">>][1] = ResultIndices
           /\ AreValues(res'[<<"extract", "result">>][2])
  PROVE  ComputedInv'
<1>1. /\ N' = N /\ GatheredIndices' = GatheredIndices /\ ResultStrides' = ResultStrides
      /\ ResultIndices' = ResultIndices /\ ids' = ids
  BY InputsKept
<1>2. AreValues(res[<<"perm", "values">>])' <=> AreValues(res'[<<"perm", "values">>])
  BY ONLY <1>1 DEF AreValues, HasSize
<1>3. AreValues(res[<<"extract", "result">>][2])' <=> AreValues(res'[<<"extract", "result">>][2])
  BY ONLY <1>1 DEF AreValues, HasSize
<1> QED
  BY <1>1, <1>2, <1>3 DEF ComputedInv

LEMMA IndicesRawInv ==
  ASSUME JaggedInv, IndicesRaw
  PROVE  JaggedInv'
<1> DEFINE t == <<"indices", "raw">>
           value == IndicesFromStrides(res[<<"alloc", "strides">>])
<1>1. t \in Alone /\ Runs(t) /\ Returns(t, value) /\ inputs' = inputs /\ blocks' = blocks /\ pending' = pending
  BY DEF IndicesRaw, Alone
<1>2. /\ InputsOK' /\ TasksInv' /\ \A w \in Windows : WindowInv(w)'
      /\ done' = done \cup {t} /\ t \notin done /\ Deps(t) \subseteq done
      /\ res'[t] = value /\ \A u \in Alone : u # t => res'[u] = res[u]
  BY <1>1, AloneReturns
<1>3. value = GatheredIndices
  <2>1. res[<<"alloc", "strides">>] = GatheredStrides
    BY <1>2, DepsFact, StridesRead
  <2> QED
    BY <2>1 DEF GatheredIndices
<1> HIDE DEF value
<1>4. ComputedInv'
  <2>1. ComputedInv
    BY DEF JaggedInv
  <2> QED
    BY <1>1, <1>2, <1>3, <2>1, ComputedAfter DEF ComputedInv, Alone
<1> QED
  BY <1>2, <1>4 DEF JaggedInv

LEMMA PermStridesInv ==
  ASSUME JaggedInv, PermStrides
  PROVE  JaggedInv'
<1> DEFINE t == <<"perm", "strides">>
           value == InvPermuted(res[<<"alloc", "strides">>], new_to_old)
<1>1. t \in Alone /\ Runs(t) /\ Returns(t, value) /\ inputs' = inputs /\ blocks' = blocks /\ pending' = pending
  BY DEF PermStrides, Alone
<1>2. /\ InputsOK' /\ TasksInv' /\ \A w \in Windows : WindowInv(w)'
      /\ done' = done \cup {t} /\ t \notin done /\ Deps(t) \subseteq done
      /\ res'[t] = value /\ \A u \in Alone : u # t => res'[u] = res[u]
  BY <1>1, AloneReturns
<1>3. value = ResultStrides
  <2>1. res[<<"alloc", "strides">>] = GatheredStrides
    BY <1>2, DepsFact, StridesRead
  <2>2. InputsOK
    BY DEF JaggedInv
  <2> QED
    BY <2>1, <2>2, StridesPermuted
<1> HIDE DEF value
<1>4. ComputedInv'
  <2>1. ComputedInv
    BY DEF JaggedInv
  <2> QED
    BY <1>1, <1>2, <1>3, <2>1, ComputedAfter DEF ComputedInv, Alone
<1> QED
  BY <1>2, <1>4 DEF JaggedInv

LEMMA IndicesFinalInv ==
  ASSUME JaggedInv, IndicesFinal
  PROVE  JaggedInv'
<1> DEFINE t == <<"indices", "final">>
           value == IndicesFromStrides(res[<<"perm", "strides">>])
<1>0. ComputedInv
  BY DEF JaggedInv
<1>1. t \in Alone /\ Runs(t) /\ Returns(t, value) /\ inputs' = inputs /\ blocks' = blocks /\ pending' = pending
  BY DEF IndicesFinal, Alone
<1>2. /\ InputsOK' /\ TasksInv' /\ \A w \in Windows : WindowInv(w)'
      /\ done' = done \cup {t} /\ t \notin done /\ Deps(t) \subseteq done
      /\ res'[t] = value /\ \A u \in Alone : u # t => res'[u] = res[u]
  BY <1>1, AloneReturns
<1>3. value = ResultIndices
  <2>1. res[<<"perm", "strides">>] = ResultStrides
    BY <1>0, <1>2, DepsFact DEF ComputedInv
  <2> QED
    BY <2>1 DEF ResultIndices
<1> HIDE DEF value
<1>4. ComputedInv'
  BY <1>0, <1>1, <1>2, <1>3, ComputedAfter DEF ComputedInv, Alone
<1> QED
  BY <1>2, <1>4 DEF JaggedInv

LEMMA PermValuesInv ==
  ASSUME JaggedInv, PermValues
  PROVE  JaggedInv'
<1> DEFINE t == <<"perm", "values">>
           value == PermutedBlocks(res[<<"indices", "raw">>], res[<<"indices", "final">>],
                                   res[<<"alloc", "values">>])
<1>0. InputsOK /\ TasksInv /\ ComputedInv
  BY DEF JaggedInv
<1>1. t \in Alone /\ Runs(t) /\ Returns(t, value) /\ inputs' = inputs /\ blocks' = blocks /\ pending' = pending
  BY DEF PermValues, Alone
<1>2. /\ InputsOK' /\ TasksInv' /\ \A w \in Windows : WindowInv(w)'
      /\ done' = done \cup {t} /\ t \notin done /\ Deps(t) \subseteq done
      /\ res'[t] = value /\ \A u \in Alone : u # t => res'[u] = res[u]
  BY <1>1, AloneReturns
<1>3. <<"extract", "result">> \notin done
  BY <1>0, <1>2, DoneBefore
<1>4. AreValues(value)
  <2>1. res[<<"indices", "raw">>] = GatheredIndices /\ res[<<"indices", "final">>] = ResultIndices
    BY <1>0, <1>2, <1>3, DepsFact DEF ComputedInv
  <2>2. AreGathered(res[<<"alloc", "values">>])
    BY <1>2, DepsFact, ValuesRead
  <2> QED
    BY <1>0, <2>1, <2>2, ValuesPermuted
<1> HIDE DEF value
<1>5. ComputedInv'
  BY <1>0, <1>1, <1>2, <1>4, ComputedAfter DEF ComputedInv, Alone
<1> QED
  BY <1>2, <1>5 DEF JaggedInv

LEMMA ExtractInv ==
  ASSUME JaggedInv, Extract
  PROVE  JaggedInv'
<1> DEFINE t == <<"extract", "result">>
           final == <<"indices", "final">>
           contents == <<"perm", "values">>
<1>0. InputsOK /\ TasksInv /\ ComputedInv
  BY DEF JaggedInv
<1>1. /\ t \in Alone /\ Runs(t) /\ inputs' = inputs /\ blocks' = blocks /\ pending' = pending
      /\ res' = [res EXCEPT ![t] = <<res[final], res[contents]>>, ![final] = <<>>, ![contents] = <<>>]
      /\ done' = done \cup {t} /\ t \notin done /\ Deps(t) \subseteq done
  BY DEF Extract, Alone, Runs
<1>2. DOMAIN res = Tasks /\ t \in Tasks /\ t # final /\ t # contents /\ final # contents
  BY <1>0, TasksFact DEF TasksInv, Alone
<1>3. /\ DOMAIN res' = Tasks /\ res'[t] = <<res[final], res[contents]>>
      /\ \A u \in Tasks : u # t /\ u # final /\ u # contents => res'[u] = res[u]
  <2> DEFINE pair == <<res[final], res[contents]>>
  <2>1. res' = [res EXCEPT ![t] = pair, ![final] = <<>>, ![contents] = <<>>]
    BY <1>1
  <2>0. final \in Tasks /\ contents \in Tasks
    BY TasksFact DEF Alone
  <2> HIDE DEF pair, t, final, contents
  <2>2. DOMAIN res' = Tasks /\ res'[t] = pair /\ \A u \in Tasks : u # t /\ u # final /\ u # contents => res'[u] = res[u]
    BY <2>0, <2>1, <1>2
  <2> QED
    BY <2>2 DEF pair
<1>4. \A w \in Windows : res'[<<"alloc", w>>] = res[<<"alloc", w>>]
  BY <1>3, TasksFact
<1>5. InputsOK' /\ TasksInv' /\ \A w \in Windows : WindowInv(w)'
  BY <1>1, <1>3, <1>4, AloneKeepsWindows
<1>6. res[final] = ResultIndices /\ AreValues(res[contents])
  BY <1>0, <1>1, DepsFact DEF ComputedInv
<1>7. res'[t][1] = ResultIndices /\ AreValues(res'[t][2])
  BY <1>3, <1>6
<1>8. /\ res'[<<"indices", "raw">>] = res[<<"indices", "raw">>]
      /\ res'[<<"perm", "strides">>] = res[<<"perm", "strides">>]
      /\ <<"indices", "raw">> \in done' => <<"indices", "raw">> \in done
      /\ <<"perm", "strides">> \in done' => <<"perm", "strides">> \in done
      /\ t \in done'
  BY <1>1, <1>3, TasksFact DEF Alone
<1>9. ComputedInv'
  BY <1>0, <1>1, <1>7, <1>8, ComputedAfter DEF ComputedInv
<1> QED
  BY <1>5, <1>9 DEF JaggedInv

LEMMA StutterInv ==
  ASSUME JaggedInv, UNCHANGED jaggedVars
  PROVE  JaggedInv'
<1>1. /\ inputs' = inputs /\ done' = done /\ res' = res /\ blocks' = blocks /\ pending' = pending
      /\ InputsOK /\ TasksInv /\ (\A w \in Windows : WindowInv(w)) /\ ComputedInv
  BY DEF jaggedVars, JaggedInv
<1>2. InputsOK'
  BY <1>1, InputsKept
<1>3. TasksInv'
  BY <1>1 DEF TasksInv
<1>4. ASSUME NEW w \in Windows PROVE WindowInv(w)'
  BY <1>1, WindowKept
<1>5. ComputedInv'
  BY <1>1, ComputedKept
<1> QED
  BY <1>2, <1>3, <1>4, <1>5 DEF JaggedInv

----------------------------------------------------------------------------
(* What the invariant implies. *)

LEMMA InvInWindow ==
  ASSUME JaggedInv
  PROVE  BlocksAreInWindow
<1>1. InputsOK /\ TasksInv /\ (\A w \in Windows : WindowInv(w)) /\ N \in Nat
  BY InputsFact DEF JaggedInv
<1> SUFFICES ASSUME NEW w \in Windows, NEW n \in 1 .. Len(blocks[w])
             PROVE  /\ blocks[w][n].size >= 0 /\ blocks[w][n].displ >= 0
                    /\ blocks[w][n].displ + blocks[w][n].size <= Len(Part(w, blocks[w][n].rank))
                    /\ blocks[w][n].at + blocks[w][n].size <= Len(res[<<"alloc", w>>])
                    /\ n > 1 => blocks[w][n].at = blocks[w][n - 1].at + blocks[w][n - 1].size
  BY DEF BlocksAreInWindow
<1>2. <<"get", w>> \in done
  <2>1. CASE <<"get", w>> \notin done
    <3>1. blocks[w] = <<>>
      BY <1>1, <2>1 DEF WindowInv
    <3> QED
      BY <3>1
  <2> QED
    BY <2>1
<1>3. <<"alloc", w>> \in done
  BY <1>1, <1>2, DoneBefore
<1>4. blocks[w] = [m \in 1 .. N |-> BlockAtPlace(w, m)] /\ HasSize(res[<<"alloc", w>>], SizeOf(w))
  BY <1>1, <1>2, <1>3 DEF WindowInv
<1>5. n \in 1 .. N /\ blocks[w][n] = BlockAtPlace(w, n) /\ (n > 1 => blocks[w][n - 1] = BlockAtPlace(w, n - 1))
  BY <1>1, <1>4
<1>6. Len(res[<<"alloc", w>>]) = SizeOf(w)
  <2>1. N \in Nat /\ N + 1 \in 1 .. N + 1 /\ GatheredIndices \in [1 .. N + 1 -> Nat]
    BY <1>1, ResultFact
  <2>2. SizeOf(w) \in Nat
    BY <2>1 DEF SizeOf
  <2> QED
    BY <1>4, <2>2 DEF HasSize
<1>7. /\ blocks[w][n].size \in Nat /\ blocks[w][n].displ \in Nat
      /\ blocks[w][n].displ + blocks[w][n].size <= Len(Part(w, blocks[w][n].rank))
      /\ blocks[w][n].at + blocks[w][n].size <= SizeOf(w)
      /\ n > 1 => blocks[w][n].at = blocks[w][n - 1].at + blocks[w][n - 1].size
  BY <1>1, <1>5, BlockFact
<1> QED
  BY <1>6, <1>7

LEMMA InvGathered ==
  ASSUME JaggedInv
  PROVE  ElementsAreGathered
<1> SUFFICES ASSUME done = Tasks PROVE ElementsAreGathered
  BY DEF ElementsAreGathered
<1> DEFINE indices == res[<<"extract", "result">>][1]
           contents == res[<<"extract", "result">>][2]
<1>1. InputsOK /\ ComputedInv /\ N \in Nat /\ N = Len(ids)
  BY InputsFact DEF JaggedInv, N
<1>2. indices = ResultIndices /\ AreValues(contents)
  <2>1. <<"extract", "result">> \in done
    BY TasksFact DEF Alone
  <2> QED
    BY <1>1, <2>1 DEF ComputedInv
<1>3. /\ Len(ResultIndices) = N + 1 /\ ResultIndices[N + 1] \in Nat
      /\ \A n \in 1 .. N : /\ ResultIndices[n] \in Nat
                           /\ ResultIndices[n + 1] = ResultIndices[n] + ResultStrides[n]
  <2>1. N + 1 \in 1 .. N + 1 /\ \A n \in 1 .. N : n \in 1 .. N + 1
    BY <1>1
  <2> QED
    BY <1>1, <2>1, ResultFact
<1>4. \A n \in 1 .. N : ResultStrides[n] = stride[ids[n]] /\ ResultStrides[n] \in Nat
  BY <1>1, InputsFact DEF ResultStrides
<1> HIDE DEF indices, contents
<1>5. Len(contents) = ResultIndices[N + 1]
  BY <1>2, <1>3 DEF AreValues, HasSize
<1>6. \A n \in 1 .. N : ResultIndices[n + 1] - ResultIndices[n] = stride[ids[n]]
  BY <1>3, <1>4
<1>7. \A n \in 1 .. N : \A k \in 1 .. stride[ids[n]] : contents[ResultIndices[n] + k] = <<ids[n], k>>
  BY <1>2, <1>4 DEF AreValues
<1> QED
  BY <1>1, <1>2, <1>3, <1>5, <1>6, <1>7 DEF ElementsAreGathered, indices, contents

\* The gather of a jagged array reads its blocks inside of the windows and into
\* the buffers, next to each other, and gives, in the order of the ids, all the
\* values of each element, whatever the order of the tasks and of the reads is
\* (JaggedIsGathered).
THEOREM JaggedGathers == JaggedSpec => []JaggedIsGathered
<1>1. JaggedInit => JaggedInv
  BY JaggedInitInv
<1>2. JaggedInv /\ [JaggedNext]_jaggedVars => JaggedInv'
  <2> SUFFICES ASSUME JaggedInv, [JaggedNext]_jaggedVars
               PROVE  JaggedInv'
    OBVIOUS
  <2>1. ASSUME NEW w \in Windows, Open(w) PROVE JaggedInv'
    BY <2>1, OpenInv
  <2>2. ASSUME NEW w \in Windows, Close(w) PROVE JaggedInv'
    BY <2>2, CloseInv
  <2>3. ASSUME NEW w \in Windows, Alloc(w) PROVE JaggedInv'
    BY <2>3, AllocInv
  <2>4. ASSUME NEW w \in Windows, Get(w) PROVE JaggedInv'
    BY <2>4, GetInv
  <2>5. ASSUME NEW w \in Windows, NEW n \in pending[w], Read(w, n) PROVE JaggedInv'
    BY <2>5, ReadInv
  <2>6. CASE IndicesRaw
    BY <2>6, IndicesRawInv
  <2>7. CASE IndicesFinal
    BY <2>7, IndicesFinalInv
  <2>8. CASE PermStrides
    BY <2>8, PermStridesInv
  <2>9. CASE PermValues
    BY <2>9, PermValuesInv
  <2>10. CASE Extract
    BY <2>10, ExtractInv
  <2>11. CASE UNCHANGED jaggedVars
    BY <2>11, StutterInv
  <2> QED
    BY <2>1, <2>2, <2>3, <2>4, <2>5, <2>6, <2>7, <2>8, <2>9, <2>10, <2>11 DEF JaggedNext, JaggedEnd
<1>3. JaggedInv => JaggedIsGathered
  BY InvInWindow, InvGathered DEF JaggedIsGathered
<1> QED
  BY <1>1, <1>2, <1>3, PTL DEF JaggedSpec

-----------------------------------------------------------------------------
(* A multi_vector. All the columns have as many elements. While a column is     *)
(* sorted by, those before permuted have been moved by the permutation that was *)
(* made from that column as it was, with the comparator of the sort; once it is *)
(* sorted, all of them are, as long as nothing is written.                      *)
SameLength(columns) == \A c \in Columns : Len(columns[c]) = Len(columns[0])
TableOK ==
  /\ column \in [Columns -> Seq(Keys)] /\ unsorted \in [Columns -> Seq(Keys)]
  /\ SameLength(column)
  /\ sorted_rng_idx \in Columns \cup {-1} /\ sorting \in Columns \cup {-1}
  /\ sortedWith \in Comparators \cup {"none"}
SortingInv ==
  ~ NotSorting =>
    /\ permuted \in 0 .. Cardinality(Columns)
    /\ SameLength(unsorted) /\ comp \in Comparators
    /\ order \in SortPermutations(Compared(unsorted[sorting], comp))
    /\ \A c \in Columns :
         column[c] = IF c < permuted THEN Permuted(unsorted[c], order) ELSE unsorted[c]
SortedInv ==
  NotSorting /\ sortedWith # "none" =>
    /\ sorted_rng_idx \in Columns
    /\ SameLength(unsorted)
    /\ \E p \in SortPermutations(Compared(unsorted[sorted_rng_idx], sortedWith)) :
         \A c \in Columns : column[c] = Permuted(unsorted[c], p)
MultiRangeInv == TableOK /\ SortingInv /\ SortedInv

LEMMA HalfIs == ASSUME NEW n \in Nat \ {0} PROVE n \div 2 \in 0 .. n - 1
<1>1. n \div 2 \in Int /\ 2 * (n \div 2) <= n /\ n < 2 * (n \div 2) + 2
  OBVIOUS
<1> QED
  BY <1>1

(* Where the binary search of any sequence stops: between an element that is    *)
(* less than x, or the start, and one that is not, or the end. There is a       *)
(* function that satisfies its recursive definition, because there is one up to *)
(* each length; that it stops there is then shown for the least length.         *)
LEMMA LowerBoundStops ==
  ASSUME NEW s \in Seq(Int), NEW x \in Int
  PROVE  LET b == LowerBound(s, x)
         IN  /\ b \in 0 .. Len(s)
             /\ b > 0 => s[b] < x
             /\ b < Len(s) => ~ (s[b + 1] < x)
<1> DEFINE n == Len(s)
           Step(f, len, lo) ==
             IF len = 0 THEN lo
             ELSE IF s[lo + (len \div 2) + 1] < x
               THEN f[len - (len \div 2) - 1][lo + (len \div 2) + 1]
             ELSE f[len \div 2][lo]
           Body(f, k) == [len \in 0 .. k |-> [lo \in 0 .. n - len |-> Step(f, len, lo)]]
           from == CHOOSE f : f = Body(f, n)
<1>1. n \in Nat /\ \A i \in 1 .. n : s[i] \in Int
  OBVIOUS
<1>2. ASSUME NEW len \in 0 .. n, len # 0, NEW lo \in 0 .. n - len
      PROVE  /\ len \div 2 \in 0 .. len - 1 /\ len - (len \div 2) - 1 \in 0 .. len - 1
             /\ lo \in 0 .. n - (len \div 2)
             /\ lo + (len \div 2) + 1 \in 0 .. n - (len - (len \div 2) - 1)
             /\ lo + (len \div 2) + 1 \in 1 .. n
  <2> DEFINE h == len \div 2
  <2>1. h \in 0 .. len - 1
    BY <1>1, <1>2, HalfIs
  <2> HIDE DEF h
  <2> QED
    BY <1>1, <2>1 DEF h
<1>3. ASSUME NEW k \in 0 .. n PROVE \E f : f = Body(f, k)
  <2> DEFINE Bad == {m \in 0 .. n : ~ \E f : f = Body(f, m)}
  <2> HIDE DEF Body
  <2> SUFFICES ASSUME Bad # {} PROVE FALSE
    OBVIOUS
  <2> USE DEF Body
  <2>1. PICK m \in Bad : \A l \in Bad : m <= l
    <3>1. Bad \subseteq Nat
      OBVIOUS
    <3> HIDE DEF Bad
    <3> QED
      BY <3>1, LeastNatural
  <2>2. CASE m = 0
    <3> DEFINE g == [len \in 0 .. 0 |-> [lo \in 0 .. n - len |-> lo]]
    <3>1. g = Body(g, 0)
      OBVIOUS
    <3> QED
      BY <2>1, <2>2, <3>1
  <2>3. CASE m # 0
    <3>1. m \in 0 .. n /\ m - 1 \in 0 .. n /\ m - 1 \notin Bad
      <4>1. m \in 0 .. n
        OBVIOUS
      <4> HIDE DEF Bad
      <4> QED
        BY <1>1, <2>1, <2>3, <4>1
    <3>2. PICK f : f = Body(f, m - 1)
      <4> HIDE DEF Body
      <4> QED
        BY <3>1
    <3> DEFINE g == [len \in 0 .. m |-> IF len <= m - 1 THEN f[len] ELSE [lo \in 0 .. n - len |-> Step(f, len, lo)]]
    <3>3. \A len \in 0 .. m - 1 : g[len] = f[len]
      BY <3>1
    <3>4. ASSUME NEW len \in 0 .. m, NEW lo \in 0 .. n - len PROVE Step(f, len, lo) = Step(g, len, lo)
      <4>1. CASE len = 0
        BY <4>1
      <4>2. CASE len # 0
        <5>1. len \in 0 .. n
          BY <1>1, <3>1
        <5>2. len \div 2 \in 0 .. len - 1 /\ len - (len \div 2) - 1 \in 0 .. len - 1
          BY <1>2, <4>2, <5>1
        <5>3. \A l \in 0 .. len - 1 : l \in 0 .. m - 1
          BY <3>1
        <5>4. g[len \div 2] = f[len \div 2] /\ g[len - (len \div 2) - 1] = f[len - (len \div 2) - 1]
          <6> HIDE DEF g
          <6> QED
            BY <3>3, <5>2, <5>3
        <5> HIDE DEF g
        <5> QED
          BY <5>4
      <4> QED
        BY <4>1, <4>2
    <3>5. ASSUME NEW len \in 0 .. m PROVE g[len] = [lo \in 0 .. n - len |-> Step(f, len, lo)]
      <4>1. CASE len <= m - 1
        <5>1. len \in 0 .. m - 1
          BY <3>1, <4>1
        <5>2. Body(f, m - 1)[len] = [lo \in 0 .. n - len |-> Step(f, len, lo)]
          BY <5>1
        <5> HIDE DEF g, Body, Step
        <5> QED
          BY <3>2, <3>3, <5>1, <5>2
      <4>2. CASE ~ (len <= m - 1)
        BY <4>2
      <4> QED
        BY <4>1, <4>2
    <3>6. ASSUME NEW len \in 0 .. m PROVE g[len] = [lo \in 0 .. n - len |-> Step(g, len, lo)]
      <4> HIDE DEF g, Step
      <4> QED
        BY <3>4, <3>5
    <3>7. g = [len \in 0 .. m |-> g[len]]
      OBVIOUS
    <3>8. g = Body(g, m)
      <4> HIDE DEF g, Step
      <4> QED
        BY <3>6, <3>7
    <3> HIDE DEF g, Body
    <3> QED
      BY <2>1, <3>8
  <2> QED
    BY <2>2, <2>3
<1>4. from = Body(from, n)
  <2> HIDE DEF Body
  <2>1. \E f : f = Body(f, n)
    BY <1>1, <1>3
  <2> QED
    BY <2>1
<1>5. LowerBound(s, x) = from[n][0]
  BY DEF LowerBound
<1> HIDE DEF from
<1> DEFINE Stops(len, lo) ==
      /\ from[len][lo] \in lo .. lo + len
      /\ from[len][lo] > lo => s[from[len][lo]] < x
      /\ from[len][lo] < lo + len => ~ (s[from[len][lo] + 1] < x)
<1>6. \A len \in 0 .. n : \A lo \in 0 .. n - len : Stops(len, lo)
  <2> DEFINE Bad == {len \in 0 .. n : \E lo \in 0 .. n - len : ~ Stops(len, lo)}
  <2> SUFFICES ASSUME Bad # {} PROVE FALSE
    OBVIOUS
  <2>1. PICK len \in Bad : \A m \in Bad : len <= m
    <3>1. Bad \subseteq Nat
      OBVIOUS
    <3> HIDE DEF Bad
    <3> QED
      BY <3>1, LeastNatural
  <2>2. PICK lo \in 0 .. n - len : ~ Stops(len, lo)
    OBVIOUS
  <2>3. from[len][lo] = Step(from, len, lo)
    <3>1. from[len][lo] = Body(from, n)[len][lo]
      BY <1>4
    <3> QED
      BY <3>1
  <2>4. CASE len = 0
    BY <1>1, <2>2, <2>3, <2>4
  <2>5. CASE len # 0
    <3> DEFINE h == len \div 2
               r == from[len][lo]
    <3>1. \A m \in 0 .. len - 1 : m \in 0 .. n /\ \A l \in 0 .. n - m : Stops(m, l)
      <4> SUFFICES ASSUME NEW m \in 0 .. len - 1
                   PROVE  m \in 0 .. n /\ \A l \in 0 .. n - m : Stops(m, l)
        OBVIOUS
      <4>1. m \in 0 .. n /\ ~ (len <= m)
        <5>1. len \in 0 .. n
          OBVIOUS
        <5> HIDE DEF Bad
        <5> QED
          BY <1>1, <5>1
      <4>2. m \notin Bad
        BY <2>1, <4>1
      <4> QED
        BY <4>1, <4>2
    <3>2. /\ h \in 0 .. len - 1 /\ len - h - 1 \in 0 .. len - 1
          /\ lo \in 0 .. n - h /\ lo + h + 1 \in 0 .. n - (len - h - 1) /\ lo + h + 1 \in 1 .. n
      <4>1. len \in 0 .. n
        BY DEF Bad
      <4> QED
        BY <1>2, <2>2, <2>5, <4>1
    <3>3. len \in Nat /\ lo \in Nat /\ h \in Nat
      BY <1>1
    <3>4. CASE s[lo + h + 1] < x
      <4>1. Stops(len - h - 1, lo + h + 1)
        <5> HIDE DEF Stops, h
        <5> QED
          BY <3>1, <3>2
      <4>2. r = from[len - h - 1][lo + h + 1]
        BY <2>3, <2>5, <3>4
      <4>3. /\ r \in lo + h + 1 .. lo + h + 1 + (len - h - 1)
            /\ r > lo + h + 1 => s[r] < x
            /\ r < lo + h + 1 + (len - h - 1) => ~ (s[r + 1] < x)
        BY <4>1, <4>2
      <4>4. r \in lo .. lo + len /\ (r > lo => s[r] < x) /\ (r < lo + len => ~ (s[r + 1] < x))
        <5> HIDE DEF r, h
        <5>1. r \in lo .. lo + len /\ (r = lo + h + 1 \/ r > lo + h + 1)
              /\ lo + h + 1 + (len - h - 1) = lo + len
          BY <3>2, <3>3, <4>3
        <5> QED
          BY <3>4, <4>3, <5>1
      <4> QED
        BY <2>2, <4>4
    <3>5. CASE ~ (s[lo + h + 1] < x)
      <4>1. Stops(h, lo)
        <5> HIDE DEF Stops, h
        <5> QED
          BY <3>1, <3>2
      <4>2. r = from[h][lo]
        BY <2>3, <2>5, <3>5
      <4>3. /\ r \in lo .. lo + h
            /\ r > lo => s[r] < x
            /\ r < lo + h => ~ (s[r + 1] < x)
        BY <4>1, <4>2
      <4>4. r \in lo .. lo + len /\ (r > lo => s[r] < x) /\ (r < lo + len => ~ (s[r + 1] < x))
        <5> HIDE DEF r, h
        <5>1. r \in lo .. lo + len /\ (r = lo + h \/ r < lo + h)
          BY <3>2, <3>3, <4>3
        <5> QED
          BY <3>5, <4>3, <5>1
      <4> QED
        BY <2>2, <4>4
    <3> QED
      BY <3>4, <3>5
  <2> QED
    BY <2>4, <2>5
<1>7. Stops(n, 0)
  <2>1. n \in 0 .. n /\ 0 \in 0 .. n - n
    BY <1>1
  <2> HIDE DEF Stops, n
  <2> QED
    BY <1>6, <2>1
<1> QED
  BY <1>1, <1>5, <1>7

(* The binary search of a sorted sequence: how many elements are less than x.   *)
LEMMA LowerBoundIs ==
  ASSUME NEW s \in Seq(Int), \A j, k \in 1 .. Len(s) : j <= k => s[j] <= s[k], NEW x \in Int
  PROVE  /\ LowerBound(s, x) = Cardinality({i \in 1 .. Len(s) : s[i] < x})
         /\ LowerBound(s, x) \in 0 .. Len(s)
         /\ \A i \in 1 .. Len(s) : s[i] < x <=> i <= LowerBound(s, x)
<1> DEFINE b == LowerBound(s, x)
<1>1. Len(s) \in Nat /\ \A i \in 1 .. Len(s) : s[i] \in Int
  OBVIOUS
<1>2. b \in 0 .. Len(s) /\ (b > 0 => s[b] < x) /\ (b < Len(s) => ~ (s[b + 1] < x))
  BY LowerBoundStops
<1> HIDE DEF b
<1>3. ASSUME NEW i \in 1 .. Len(s) PROVE s[i] < x <=> i <= b
  <2>1. CASE i <= b
    <3>1. b \in 1 .. Len(s) /\ s[i] <= s[b] /\ s[b] < x
      BY <1>1, <1>2, <2>1
    <3> QED
      BY <1>1, <2>1, <3>1
  <2>2. CASE ~ (i <= b)
    <3>1. b + 1 \in 1 .. Len(s) /\ b + 1 <= i /\ ~ (s[b + 1] < x)
      BY <1>1, <1>2, <2>2
    <3>2. s[b + 1] <= s[i]
      BY <3>1
    <3> QED
      BY <1>1, <2>2, <3>1, <3>2
  <2> QED
    BY <2>1, <2>2
<1>4. {i \in 1 .. Len(s) : s[i] < x} = 1 .. b
  BY <1>1, <1>2, <1>3
<1>5. Cardinality(1 .. b) = b
  BY <1>1, <1>2, FS_Interval
<1> QED
  BY <1>2, <1>3, <1>4, <1>5 DEF b

LEMMA ColumnsAre ==
  /\ 0 \in Columns /\ -1 \notin Columns /\ Columns \subseteq Nat
  /\ Cardinality(Columns) \in Nat /\ Columns = 0 .. Cardinality(Columns) - 1
<1>1. Cardinality(Columns) \in Nat
  BY MultiRangeAssumption, FS_CardinalityType
<1> QED
  BY <1>1, MultiRangeAssumption

LEMMA MinIs ==
  ASSUME NEW S \in SUBSET Nat, S # {}
  PROVE  Min(S) \in S /\ \A m \in S : Min(S) <= m
<1>1. \E n \in S : \A m \in S : n <= m
  BY LeastNatural
<1> QED
  BY <1>1 DEF Min

LEMMA MinUnique ==
  ASSUME NEW S \in SUBSET Nat, NEW n \in S, \A m \in S : n <= m
  PROVE  Min(S) = n
<1>1. Min(S) \in S /\ \A m \in S : Min(S) <= m
  BY MinIs
<1>2. Min(S) <= n /\ n <= Min(S) /\ n \in Nat /\ Min(S) \in Nat
  BY <1>1
<1> QED
  BY <1>2

LEMMA PermutedBy ==
  ASSUME NEW E, NEW s \in Seq(E), NEW p \in [1 .. Len(s) -> 0 .. Len(s) - 1]
  PROVE  /\ Permuted(s, p) \in Seq(E) /\ Len(Permuted(s, p)) = Len(s)
         /\ \A i \in 1 .. Len(s) : p[i] + 1 \in 1 .. Len(s) /\ Permuted(s, p)[i] = s[p[i] + 1]
<1>1. Len(p) = Len(s) /\ Len(s) \in Nat
  OBVIOUS
<1>2. \A i \in 1 .. Len(s) : p[i] + 1 \in 1 .. Len(s)
  BY <1>1
<1>3. Permuted(s, p) = [i \in 1 .. Len(s) |-> s[p[i] + 1]]
  BY <1>1 DEF Permuted
<1>4. [i \in 1 .. Len(s) |-> s[p[i] + 1]] \in [1 .. Len(s) -> E]
  BY <1>1, <1>2
<1> QED
  BY <1>1, <1>2, <1>3, <1>4

LEMMA SortPermutationIs ==
  ASSUME NEW s \in Seq(Int), NEW p \in SortPermutations(s)
  PROVE  /\ p \in [1 .. Len(s) -> 0 .. Len(s) - 1]
         /\ \A i, j \in 1 .. Len(s) : p[i] = p[j] => i = j
         /\ \A i \in 1 .. Len(s) - 1 : Permuted(s, p)[i] <= Permuted(s, p)[i + 1]
<1>1. DOMAIN s = 1 .. Len(s) /\ Len(s) \in Nat
  OBVIOUS
<1>2. /\ p \in [1 .. Len(s) -> 0 .. Len(s) - 1]
      /\ \A i, j \in 1 .. Len(s) : p[i] = p[j] => i = j
      /\ \A i \in 1 .. Len(s) - 1 : s[p[i] + 1] <= s[p[i + 1] + 1]
  <2>1. /\ p \in [DOMAIN s -> 0 .. Len(s) - 1]
        /\ \A i, j \in DOMAIN s : p[i] = p[j] => i = j
        /\ \A i \in 1 .. Len(s) - 1 : s[p[i] + 1] <= s[p[i + 1] + 1]
    BY Zenon DEF SortPermutations
  <2>2. p \in [1 .. Len(s) -> 0 .. Len(s) - 1]
    BY <1>1, <2>1
  <2>3. \A i, j \in 1 .. Len(s) : p[i] = p[j] => i = j
    BY <1>1, <2>1, Zenon
  <2> QED
    BY <2>1, <2>2, <2>3
<1>3. \A i \in 1 .. Len(s) : Permuted(s, p)[i] = s[p[i] + 1]
  <2>1. Len(p) = Len(s)
    BY <1>1, <1>2
  <2> QED
    BY <2>1 DEF Permuted
<1>4. \A i \in 1 .. Len(s) - 1 : i \in 1 .. Len(s) /\ i + 1 \in 1 .. Len(s)
  BY <1>1
<1> QED
  BY <1>2, <1>3, <1>4

LEMMA MultiInitInv == MultiRangeInit => MultiRangeInv
<1> SUFFICES ASSUME MultiRangeInit PROVE MultiRangeInv
  OBVIOUS
<1> USE ColumnsAre
<1>1. <<>> \in Seq(Keys) /\ Len(<<>>) = 0
  OBVIOUS
<1>2. TableOK
  BY <1>1 DEF MultiRangeInit, TableOK, SameLength
<1>3. SortingInv /\ SortedInv
  BY DEF MultiRangeInit, SortingInv, SortedInv, NotSorting
<1> QED
  BY <1>2, <1>3 DEF MultiRangeInv

LEMMA PushRowInv ==
  ASSUME MultiRangeInv, NEW row \in [Columns -> Keys], PushRow(row) PROVE MultiRangeInv'
<1> USE ColumnsAre
<1>1. /\ TableOK /\ sorting = -1 /\ sorting' = -1 /\ sortedWith' = "none"
      /\ column' = [c \in Columns |-> Append(column[c], row[c])]
      /\ UNCHANGED <<sorted_rng_idx, unsorted>>
  BY DEF MultiRangeInv, PushRow, NotSorting
<1>2. ASSUME NEW c \in Columns
      PROVE  /\ Append(column[c], row[c]) \in Seq(Keys)
             /\ Len(Append(column[c], row[c])) = Len(column[c]) + 1
  <2>1. column[c] \in Seq(Keys) /\ row[c] \in Keys
    BY <1>1 DEF TableOK
  <2> QED
    BY <2>1
<1>3. column' \in [Columns -> Seq(Keys)]
  BY <1>1, <1>2
<1>4. SameLength(column)'
  <2>1. \A c \in Columns : column'[c] = Append(column[c], row[c])
    BY <1>1
  <2>2. \A c \in Columns : Len(column'[c]) = Len(column[c]) + 1
    BY <1>2, <2>1
  <2> QED
    BY <1>1, <2>2 DEF TableOK, SameLength
<1>5. TableOK'
  BY <1>1, <1>3, <1>4 DEF TableOK
<1>6. SortingInv' /\ SortedInv'
  BY <1>1 DEF SortingInv, SortedInv, NotSorting
<1> QED
  BY <1>5, <1>6 DEF MultiRangeInv

LEMMA WriteInv ==
  ASSUME MultiRangeInv, NEW c \in Columns, NEW i \in 1 .. Rows, NEW x \in Keys, WriteElement(c, i, x)
  PROVE  MultiRangeInv'
<1> USE ColumnsAre
<1>1. /\ TableOK /\ sorting = -1 /\ sorting' = -1 /\ sortedWith' = "none"
      /\ column' = [column EXCEPT ![c] = [column[c] EXCEPT ![i] = x]]
      /\ UNCHANGED <<sorted_rng_idx, unsorted>>
  BY DEF MultiRangeInv, WriteElement, NotSorting
<1>2. [column[c] EXCEPT ![i] = x] \in Seq(Keys) /\ Len([column[c] EXCEPT ![i] = x]) = Len(column[c])
  <2>1. column[c] \in Seq(Keys)
    BY <1>1 DEF TableOK
  <2> DEFINE s == column[c]
             w == [s EXCEPT ![i] = x]
  <2>2. s \in [1 .. Len(s) -> Keys] /\ Len(s) \in Nat
    BY <2>1
  <2> HIDE DEF s
  <2>3. w \in [1 .. Len(s) -> Keys]
    BY <2>2
  <2> HIDE DEF w
  <2>4. w \in Seq(Keys) /\ Len(w) = Len(s)
    BY <2>2, <2>3
  <2> QED
    BY <2>4 DEF w, s
<1>3. column' \in [Columns -> Seq(Keys)]
  BY <1>1, <1>2 DEF TableOK
<1>4. SameLength(column)'
  <2>1. \A d \in Columns : column'[d] = IF d = c THEN [column[c] EXCEPT ![i] = x] ELSE column[d]
    BY <1>1 DEF TableOK
  <2>2. \A d \in Columns : Len(column'[d]) = Len(column[d])
    BY <1>2, <2>1
  <2> QED
    BY <1>1, <2>2 DEF TableOK, SameLength
<1>5. TableOK'
  BY <1>1, <1>3, <1>4 DEF TableOK
<1>6. SortingInv' /\ SortedInv'
  BY <1>1 DEF SortingInv, SortedInv, NotSorting
<1> QED
  BY <1>5, <1>6 DEF MultiRangeInv

LEMMA SortByInv ==
  ASSUME MultiRangeInv, NEW index \in Columns, NEW with \in Comparators, SortBy(index, with)
  PROVE  MultiRangeInv'
<1> USE ColumnsAre
<1>1. /\ TableOK /\ sorting' = index /\ index # -1 /\ permuted' = 0 /\ unsorted' = column
      /\ comp' = with /\ order' \in SortPermutations(Compared(column[index], with))
      /\ UNCHANGED <<column, sorted_rng_idx, sortedWith>>
  BY DEF MultiRangeInv, SortBy
<1>2. TableOK'
  BY <1>1 DEF TableOK, SameLength
<1>3. SortingInv'
  <2>1. SameLength(unsorted)'
    BY <1>1 DEF TableOK, SameLength
  <2>2. \A c \in Columns : ~ (c < 0)
    OBVIOUS
  <2> QED
    BY <1>1, <2>1, <2>2 DEF SortingInv
<1>4. SortedInv'
  BY <1>1 DEF SortedInv, NotSorting
<1> QED
  BY <1>2, <1>3, <1>4 DEF MultiRangeInv

LEMMA SeqOfKeys == ASSUME NEW s \in Seq(Keys) PROVE s \in Seq(Int)
<1>1. s \in [1 .. Len(s) -> Keys] /\ Len(s) \in Nat /\ Keys \subseteq Int
  BY MultiRangeAssumption
<1>2. s \in [1 .. Len(s) -> Int]
  BY <1>1
<1> QED
  BY <1>1, <1>2

(* What is sorted with < is as long as the column, and its order is that of the *)
(* comparator in the column.                                                    *)
LEMMA ComparedIs ==
  ASSUME NEW s \in Seq(Int), NEW with \in Comparators
  PROVE  /\ Compared(s, with) \in Seq(Int) /\ Len(Compared(s, with)) = Len(s)
         /\ \A i, j \in 1 .. Len(s) :
              Compared(s, with)[i] <= Compared(s, with)[j] <=> InOrder(with, s[i], s[j])
<1> DEFINE o == [k \in 1 .. Len(s) |-> -s[k]]
<1>1. Len(s) \in Nat /\ DOMAIN s = 1 .. Len(s) /\ \A k \in 1 .. Len(s) : s[k] \in Int
  OBVIOUS
<1>2. CASE with = "less"
  BY <1>2 DEF Compared, InOrder
<1>3. CASE with # "less"
  <2>1. Compared(s, with) = o
    BY <1>1, <1>3 DEF Compared
  <2>2. o \in [1 .. Len(s) -> Int]
    BY <1>1
  <2>3. \A k \in 1 .. Len(s) : o[k] = -s[k]
    OBVIOUS
  <2> HIDE DEF o
  <2>4. o \in Seq(Int) /\ Len(o) = Len(s)
    BY <1>1, <2>2
  <2>5. \A i, j \in 1 .. Len(s) : o[i] <= o[j] <=> s[i] >= s[j]
    BY <1>1, <2>3
  <2> QED
    BY <1>3, <2>1, <2>4, <2>5 DEF InOrder
<1> QED
  BY <1>2, <1>3

LEMMA PermutesPositions ==
  ASSUME NEW s \in Seq(Keys), NEW with \in Comparators, NEW p \in SortPermutations(Compared(s, with))
  PROVE  p \in [1 .. Len(s) -> 0 .. Len(s) - 1]
<1>1. s \in Seq(Int)
  BY SeqOfKeys
<1> DEFINE t == Compared(s, with)
<1>2. t \in Seq(Int) /\ Len(t) = Len(s)
  BY <1>1, ComparedIs
<1> HIDE DEF t
<1>3. p \in [1 .. Len(t) -> 0 .. Len(t) - 1]
  <2>1. p \in SortPermutations(t)
    BY DEF t
  <2> QED
    BY <1>2, <2>1, SortPermutationIs
<1> QED
  BY <1>2, <1>3

(* What the permutation that is made from one column does to any of them.       *)
LEMMA PermutedColumn ==
  ASSUME NEW columns \in [Columns -> Seq(Keys)], SameLength(columns), NEW index \in Columns,
         NEW p \in [1 .. Len(columns[index]) -> 0 .. Len(columns[index]) - 1], NEW c \in Columns
  PROVE  /\ p \in [1 .. Len(columns[c]) -> 0 .. Len(columns[c]) - 1]
         /\ Permuted(columns[c], p) \in Seq(Keys)
         /\ Len(Permuted(columns[c], p)) = Len(columns[c])
<1>1. columns[c] \in Seq(Keys) /\ Len(columns[index]) = Len(columns[c])
  BY DEF SameLength
<1>2. p \in [1 .. Len(columns[c]) -> 0 .. Len(columns[c]) - 1]
  BY <1>1
<1> QED
  BY <1>1, <1>2, PermutedBy

LEMMA PermuteNextInv == ASSUME MultiRangeInv, PermuteNext PROVE MultiRangeInv'
<1> USE ColumnsAre
<1> DEFINE moved == Permuted(column[permuted], order)
<1>1. /\ TableOK /\ SortingInv /\ ~ NotSorting /\ sorting \in Columns
      /\ permuted < Cardinality(Columns)
      /\ column' = [column EXCEPT ![permuted] = moved] /\ permuted' = permuted + 1
      /\ UNCHANGED <<sorted_rng_idx, sortedWith, sorting, comp, order, unsorted>>
  BY DEF MultiRangeInv, PermuteNext, TableOK, NotSorting
<1>2. /\ permuted \in Columns /\ permuted \in Nat /\ permuted' \in 0 .. Cardinality(Columns)
      /\ SameLength(unsorted) /\ comp \in Comparators
      /\ order \in SortPermutations(Compared(unsorted[sorting], comp))
      /\ \A c \in Columns : column[c] = IF c < permuted THEN Permuted(unsorted[c], order) ELSE unsorted[c]
  BY <1>1 DEF SortingInv
<1>3. column[permuted] = unsorted[permuted] /\ unsorted \in [Columns -> Seq(Keys)]
  BY <1>1, <1>2 DEF TableOK
<1>4. moved \in Seq(Keys) /\ Len(moved) = Len(column[permuted])
  <2>1. /\ Permuted(unsorted[permuted], order) \in Seq(Keys)
        /\ Len(Permuted(unsorted[permuted], order)) = Len(unsorted[permuted])
    <3>1. /\ unsorted \in [Columns -> Seq(Keys)] /\ SameLength(unsorted) /\ sorting \in Columns
          /\ permuted \in Columns
      BY <1>1, <1>2, <1>3, Zenon
    <3>2. unsorted[sorting] \in Seq(Keys)
      BY <3>1
    <3>3. order \in [1 .. Len(unsorted[sorting]) -> 0 .. Len(unsorted[sorting]) - 1]
      BY <1>2, <3>2, PermutesPositions
    <3> HIDE DEF moved
    <3> QED
      BY <3>1, <3>3, PermutedColumn
  <2>2. moved = Permuted(unsorted[permuted], order)
    BY <1>3
  <2> HIDE DEF moved
  <2> QED
    BY <1>3, <2>1, <2>2
<1> HIDE DEF moved
<1>5. \A c \in Columns : column'[c] = IF c = permuted THEN moved ELSE column[c]
  BY <1>1 DEF TableOK
<1>6. TableOK'
  <2>1. column' \in [Columns -> Seq(Keys)]
    BY <1>1, <1>4 DEF TableOK
  <2>2. \A c \in Columns : Len(column'[c]) = Len(column[c])
    BY <1>4, <1>5
  <2>3. SameLength(column)'
    BY <1>1, <2>2 DEF TableOK, SameLength
  <2> QED
    BY <1>1, <2>1, <2>3 DEF TableOK
<1>7. SortingInv'
  <2>1. \A c \in Columns :
          column'[c] = IF c < permuted + 1 THEN Permuted(unsorted[c], order) ELSE unsorted[c]
    <3> SUFFICES ASSUME NEW c \in Columns
                 PROVE  column'[c] = IF c < permuted + 1 THEN Permuted(unsorted[c], order) ELSE unsorted[c]
      OBVIOUS
    <3>1. CASE c = permuted
      BY <1>2, <1>3, <1>5, <3>1 DEF moved
    <3>2. CASE c # permuted
      <4>1. c < permuted + 1 <=> c < permuted
        BY <1>2, <3>2
      <4> QED
        BY <1>2, <1>5, <3>2, <4>1
    <3> QED
      BY <3>1, <3>2
  <2> QED
    BY <1>1, <1>2, <2>1 DEF SortingInv, SameLength
<1>8. SortedInv'
  BY <1>1 DEF SortedInv, NotSorting
<1> QED
  BY <1>6, <1>7, <1>8 DEF MultiRangeInv

LEMMA SortEndInv == ASSUME MultiRangeInv, SortEnd PROVE MultiRangeInv'
<1> USE ColumnsAre
<1>1. /\ TableOK /\ SortingInv /\ ~ NotSorting /\ sorting \in Columns
      /\ permuted = Cardinality(Columns)
      /\ sorted_rng_idx' = sorting /\ sortedWith' = comp /\ sorting' = -1
      /\ UNCHANGED <<column, unsorted>>
  BY DEF MultiRangeInv, SortEnd, TableOK, NotSorting
<1>2. TableOK'
  BY <1>1 DEF TableOK, SortingInv, SameLength
<1>3. SortingInv'
  BY <1>1 DEF SortingInv, NotSorting
<1>4. SortedInv'
  <2>1. /\ SameLength(unsorted) /\ comp \in Comparators
        /\ order \in SortPermutations(Compared(unsorted[sorting], comp))
        /\ \A c \in Columns : column[c] = Permuted(unsorted[c], order)
    BY <1>1 DEF SortingInv
  <2> QED
    BY <1>1, <2>1 DEF SortedInv, SameLength
<1> QED
  BY <1>2, <1>3, <1>4 DEF MultiRangeInv

LEMMA MultiStepInv == ASSUME MultiRangeInv, [MultiRangeNext]_multiRangeVars PROVE MultiRangeInv'
<1>1. ASSUME NEW row \in [Columns -> Keys], PushRow(row) PROVE MultiRangeInv'
  BY <1>1, PushRowInv
<1>2. CASE PushLevel
  BY <1>2 DEF PushLevel, MultiRangeInv, TableOK, SortingInv, SortedInv, NotSorting, SameLength
<1>3. ASSUME NEW c \in Columns, NEW i \in 1 .. Rows, NEW x \in Keys, WriteElement(c, i, x)
      PROVE  MultiRangeInv'
  BY <1>3, WriteInv
<1>4. ASSUME NEW c \in Columns, NEW with \in Comparators, SortBy(c, with) PROVE MultiRangeInv'
  BY <1>4, SortByInv
<1>5. CASE PermuteNext
  BY <1>5, PermuteNextInv
<1>6. CASE SortEnd
  BY <1>6, SortEndInv
<1>7. CASE UNCHANGED multiRangeVars
  BY <1>7 DEF multiRangeVars, MultiRangeInv, TableOK, SortingInv, SortedInv, NotSorting, SameLength
<1> QED
  BY <1>1, <1>2, <1>3, <1>4, <1>5, <1>6, <1>7 DEF MultiRangeNext

(* The place of the first x.                                                    *)
IsFirst(s, x, k) == k \in 1 .. Len(s) /\ s[k] = x /\ \A i \in 1 .. Len(s) : s[i] = x => k <= i

LEMMA LinearFindIs ==
  ASSUME NEW s \in Seq(Int), NEW x
  PROVE  IF Contains(s, x) THEN LinearFind(s, x) \in Int /\ IsFirst(s, x, LinearFind(s, x) + 1)
         ELSE LinearFind(s, x) = Len(s)
<1> DEFINE I == {i \in 1 .. Len(s) : s[i] = x}
           k == SelectInSeq(s, LAMBDA y : y = x)
<1>1. CASE Contains(s, x)
  <2>1. I # {} /\ I \in SUBSET Nat
    BY <1>1 DEF Contains
  <2>2. k = Min(I)
    BY <2>1 DEF SelectInSeq
  <2>3. k \in I /\ \A i \in I : k <= i
    <3> HIDE DEF I, k
    <3> QED
      BY <2>1, <2>2, MinIs
  <2>4. LinearFind(s, x) = k - 1
    BY <1>1 DEF LinearFind
  <2> HIDE DEF k
  <2>5. k \in Int /\ k - 1 + 1 = k
    BY <2>3
  <2> QED
    BY <1>1, <2>3, <2>4, <2>5 DEF IsFirst
<1> QED
  BY <1>1 DEF LinearFind

LEMMA LowerBoundFinds ==
  ASSUME NEW s \in Seq(Int), \A i \in 1 .. Len(s) - 1 : s[i] <= s[i + 1], NEW x \in Int
  PROVE  /\ LowerBound(s, x) \in Int
         /\ LowerBound(s, x) = Cardinality({i \in 1 .. Len(s) : s[i] < x})
         /\ Contains(s, x) => IsFirst(s, x, LowerBound(s, x) + 1)
<1>1. Len(s) \in Nat /\ \A i \in 1 .. Len(s) : s[i] \in Int
  OBVIOUS
<1>2. \A j, k \in 1 .. Len(s) : j <= k => s[j] <= s[k]
  BY <1>1, StepwiseSorted
<1> DEFINE b == LowerBound(s, x)
<1>3. /\ b = Cardinality({i \in 1 .. Len(s) : s[i] < x})
      /\ b \in 0 .. Len(s)
      /\ \A i \in 1 .. Len(s) : s[i] < x <=> i <= b
  BY <1>2, LowerBoundIs
<1> HIDE DEF b
<1>4. ASSUME Contains(s, x) PROVE IsFirst(s, x, b + 1)
  <2>1. PICK i \in 1 .. Len(s) : s[i] = x
    BY <1>4 DEF Contains
  <2>2. ~ (i <= b) /\ b + 1 <= i /\ b + 1 \in 1 .. Len(s)
    BY <1>1, <1>3, <2>1
  <2>3. s[b + 1] <= x /\ ~ (s[b + 1] < x) /\ s[b + 1] \in Int
    <3>1. s[b + 1] <= s[i]
      BY <1>2, <2>2
    <3>2. ~ (b + 1 <= b)
      BY <1>3
    <3>3. ~ (s[b + 1] < x) /\ s[b + 1] \in Int
      BY <1>1, <1>3, <2>2, <3>2
    <3> QED
      BY <2>1, <3>1, <3>3
  <2>4. s[b + 1] = x
    BY <2>3
  <2>5. ASSUME NEW m \in 1 .. Len(s), s[m] = x PROVE b + 1 <= m
    <3>1. ~ (s[m] < x)
      BY <2>5
    <3>2. ~ (m <= b)
      BY <1>3, <3>1
    <3> QED
      BY <1>1, <1>3, <3>2
  <2> QED
    BY <2>2, <2>4, <2>5 DEF IsFirst
<1> QED
  BY <1>3, <1>4 DEF b

(* What is known of the columns once they are sorted.                           *)
LEMMA SortedColumns ==
  ASSUME MultiRangeInv, NotSorting, sortedWith # "none"
  PROVE  /\ sorted_rng_idx \in Columns /\ Rows \in Nat
         /\ \A c \in Columns : Len(column[c]) = Rows
         /\ \E p \in [1 .. Rows -> 0 .. Rows - 1] :
              /\ \A i, j \in 1 .. Rows : p[i] = p[j] => i = j
              /\ \A c \in Columns : \A i \in 1 .. Rows : column[c][i] = unsorted[c][p[i] + 1]
         /\ \A i \in 1 .. Rows - 1 :
              InOrder(sortedWith, column[sorted_rng_idx][i], column[sorted_rng_idx][i + 1])
<1> USE ColumnsAre
<1> DEFINE key == sorted_rng_idx
           compared == Compared(unsorted[key], sortedWith)
<1>1. /\ key \in Columns /\ SameLength(unsorted) /\ SameLength(column)
      /\ column \in [Columns -> Seq(Keys)] /\ unsorted \in [Columns -> Seq(Keys)]
      /\ sortedWith \in Comparators
  BY DEF MultiRangeInv, SortedInv, TableOK
<1>2. PICK p \in SortPermutations(compared) :
        \A c \in Columns : column[c] = Permuted(unsorted[c], p)
  BY DEF MultiRangeInv, SortedInv
<1> HIDE DEF key, compared
<1>3. ASSUME NEW c \in Columns
      PROVE  /\ Len(column[c]) = Rows /\ Len(unsorted[c]) = Rows
             /\ p \in [1 .. Rows -> 0 .. Rows - 1]
             /\ \A i \in 1 .. Rows : column[c][i] = unsorted[c][p[i] + 1]
  <2>1. Len(column[c]) = Rows
    BY <1>1 DEF SameLength, Rows
  <2>2. /\ p \in [1 .. Len(unsorted[c]) -> 0 .. Len(unsorted[c]) - 1]
        /\ Len(Permuted(unsorted[c], p)) = Len(unsorted[c])
    <3>1. /\ unsorted \in [Columns -> Seq(Keys)] /\ SameLength(unsorted) /\ key \in Columns
      BY <1>1, Zenon
    <3>2. unsorted[key] \in Seq(Keys) /\ p \in SortPermutations(Compared(unsorted[key], sortedWith))
      BY <1>2, <3>1 DEF compared
    <3>3. p \in [1 .. Len(unsorted[key]) -> 0 .. Len(unsorted[key]) - 1]
      BY <1>1, <3>2, PermutesPositions
    <3> QED
      BY <3>1, <3>3, PermutedColumn
  <2>3. column[c] = Permuted(unsorted[c], p)
    BY <1>2
  <2>4. Len(unsorted[c]) = Rows
    BY <2>1, <2>2, <2>3
  <2>5. p \in [1 .. Rows -> 0 .. Rows - 1]
    BY <2>2, <2>4
  <2>6. unsorted[c] \in Seq(Keys)
    BY <1>1
  <2>7. \A i \in 1 .. Len(unsorted[c]) : Permuted(unsorted[c], p)[i] = unsorted[c][p[i] + 1]
    <3> DEFINE u == unsorted[c]
    <3>1. u \in Seq(Keys) /\ p \in [1 .. Len(u) -> 0 .. Len(u) - 1]
      BY <2>2, <2>6
    <3> HIDE DEF u
    <3>2. \A i \in 1 .. Len(u) : Permuted(u, p)[i] = u[p[i] + 1]
      BY <3>1, PermutedBy, ZenonT(60)
    <3> QED
      BY <3>2 DEF u
  <2> QED
    BY <2>1, <2>3, <2>4, <2>5, <2>7
<1>4. /\ unsorted[key] \in Seq(Int) /\ compared \in Seq(Int)
      /\ Len(compared) = Len(unsorted[key])
      /\ \A i, j \in 1 .. Len(unsorted[key]) :
           compared[i] <= compared[j] <=> InOrder(sortedWith, unsorted[key][i], unsorted[key][j])
  <2>1. unsorted[key] \in Seq(Int)
    BY <1>1, SeqOfKeys
  <2> QED
    BY <1>1, <2>1, ComparedIs DEF compared
<1>5. /\ \A i, j \in 1 .. Len(compared) : p[i] = p[j] => i = j
      /\ \A i \in 1 .. Len(compared) - 1 : Permuted(compared, p)[i] <= Permuted(compared, p)[i + 1]
  BY <1>2, <1>4, SortPermutationIs
<1>6. Len(unsorted[key]) = Rows /\ p \in [1 .. Rows -> 0 .. Rows - 1]
  BY <1>1, <1>3
<1>7. Rows \in Nat
  BY <1>4, <1>6
<1>8. ASSUME NEW i \in 1 .. Rows - 1 PROVE InOrder(sortedWith, column[key][i], column[key][i + 1])
  <2>1. i \in 1 .. Rows /\ i + 1 \in 1 .. Rows
    BY <1>7
  <2>2. /\ Permuted(compared, p)[i] = compared[p[i] + 1]
        /\ Permuted(compared, p)[i + 1] = compared[p[i + 1] + 1]
        /\ p[i] + 1 \in 1 .. Rows /\ p[i + 1] + 1 \in 1 .. Rows
    <3>1. /\ compared \in Seq(Int) /\ Len(compared) = Rows
          /\ p \in [1 .. Len(compared) -> 0 .. Len(compared) - 1]
      BY <1>4, <1>6
    <3> HIDE DEF compared
    <3>2. \A k \in 1 .. Len(compared) :
            p[k] + 1 \in 1 .. Len(compared) /\ Permuted(compared, p)[k] = compared[p[k] + 1]
      BY <3>1, PermutedBy, ZenonT(60)
    <3>3. i \in 1 .. Len(compared) /\ i + 1 \in 1 .. Len(compared)
      BY <2>1, <3>1
    <3>4. /\ Permuted(compared, p)[i] = compared[p[i] + 1] /\ p[i] + 1 \in 1 .. Len(compared)
          /\ Permuted(compared, p)[i + 1] = compared[p[i + 1] + 1] /\ p[i + 1] + 1 \in 1 .. Len(compared)
      BY <3>2, <3>3, Zenon
    <3> QED
      BY <3>1, <3>4, Zenon
  <2>3. compared[p[i] + 1] <= compared[p[i + 1] + 1]
    BY <1>4, <1>5, <1>6, <2>2
  <2>4. InOrder(sortedWith, unsorted[key][p[i] + 1], unsorted[key][p[i + 1] + 1])
    BY <1>4, <1>6, <2>2, <2>3
  <2>5. column[key][i] = unsorted[key][p[i] + 1] /\ column[key][i + 1] = unsorted[key][p[i + 1] + 1]
    BY <1>1, <1>3, <2>1
  <2> QED
    BY <2>4, <2>5
<1>9. p \in [1 .. Rows -> 0 .. Rows - 1] /\ \A i, j \in 1 .. Rows : p[i] = p[j] => i = j
  BY <1>4, <1>5, <1>6
<1> QED
  BY <1>1, <1>3, <1>7, <1>8, <1>9 DEF key

LEMMA RowsKept == MultiRangeInv => RowsAreKept
<1> SUFFICES ASSUME MultiRangeInv, NotSorting, sortedWith # "none"
             PROVE  /\ \E p \in Bijection(1 .. Rows, 1 .. Rows) :
                         \A i \in 1 .. Rows : RowOf(column, i) = RowOf(unsorted, p[i])
                    /\ \A i \in 1 .. Rows - 1 :
                         InOrder(sortedWith, column[sorted_rng_idx][i], column[sorted_rng_idx][i + 1])
  BY DEF RowsAreKept
<1>1. /\ Rows \in Nat
      /\ \A i \in 1 .. Rows - 1 :
           InOrder(sortedWith, column[sorted_rng_idx][i], column[sorted_rng_idx][i + 1])
  BY SortedColumns
<1>2. PICK p \in [1 .. Rows -> 0 .. Rows - 1] :
        /\ \A i, j \in 1 .. Rows : p[i] = p[j] => i = j
        /\ \A c \in Columns : \A i \in 1 .. Rows : column[c][i] = unsorted[c][p[i] + 1]
  BY SortedColumns
<1> DEFINE q == [i \in 1 .. Rows |-> p[i] + 1]
<1>3. q \in Bijection(1 .. Rows, 1 .. Rows)
  <2>1. \A k \in 0 .. Rows - 1 : \E j \in 1 .. Rows : p[j] = k
    BY <1>1, <1>2, PermutationOnto
  <2>2. q \in [1 .. Rows -> 1 .. Rows]
    BY <1>1, <1>2
  <2>3. \A i, j \in 1 .. Rows : q[i] = q[j] => i = j
    BY <1>1, <1>2
  <2>4. \A k \in 1 .. Rows : \E j \in 1 .. Rows : q[j] = k
    <3> SUFFICES ASSUME NEW k \in 1 .. Rows PROVE \E j \in 1 .. Rows : q[j] = k
      OBVIOUS
    <3>1. k - 1 \in 0 .. Rows - 1 /\ k - 1 + 1 = k
      BY <1>1
    <3>2. PICK j \in 1 .. Rows : p[j] = k - 1
      BY <2>1, <3>1
    <3> QED
      BY <3>1, <3>2
  <2> HIDE DEF q
  <2> QED
    BY <2>2, <2>3, <2>4 DEF Bijection, Injection, Surjection, IsInjective
<1>4. \A i \in 1 .. Rows : RowOf(column, i) = RowOf(unsorted, q[i])
  BY <1>2 DEF RowOf
<1> HIDE DEF q
<1> QED
  BY <1>1, <1>3, <1>4

LEMMA RowsFound == MultiRangeInv => FoundInTheirRow
<1> SUFFICES ASSUME MultiRangeInv, NotSorting, NEW c \in Columns, NEW d \in Columns, NEW x \in Keys,
                    c = sorted_rng_idx => sortedWith = "less"
             PROVE  IF Contains(column[c], x)
                      THEN /\ FindIndex(c, x) = LinearFind(column[c], x)
                           /\ FindIfIndex({i \in 1 .. Rows : column[c][i] = x}) = FindIndex(c, x)
                           /\ sortedWith # "none" => \E i \in 1 .. Rows :
                                unsorted[c][i] = x /\ unsorted[d][i] = FindElement(c, d, x)
                    ELSE FindIndex(c, x) = IF c = sorted_rng_idx
                                             THEN Cardinality({i \in 1 .. Rows : column[c][i] < x}) ELSE Rows
  BY DEF FoundInTheirRow
<1> USE ColumnsAre
<1> DEFINE s == column[c]
           f == FindIndex(c, x)
<1>1. s \in Seq(Int) /\ Len(s) = Rows /\ x \in Int /\ Rows \in Nat
  <2>1. s \in Seq(Keys) /\ Len(s) = Rows
    BY DEF MultiRangeInv, TableOK, SameLength, Rows
  <2>2. s \in Seq(Int) /\ Keys \subseteq Int
    BY <2>1, SeqOfKeys, MultiRangeAssumption
  <2> QED
    BY <2>1, <2>2
<1>2. /\ f \in Int
      /\ Contains(s, x) => IsFirst(s, x, f + 1)
      /\ ~ Contains(s, x) =>
           f = IF c = sorted_rng_idx THEN Cardinality({i \in 1 .. Rows : s[i] < x}) ELSE Rows
  <2>1. CASE c = sorted_rng_idx
    <3>1. \A i \in 1 .. Len(s) - 1 : s[i] <= s[i + 1]
      <4>1. \A i \in 1 .. Rows - 1 :
              InOrder(sortedWith, column[sorted_rng_idx][i], column[sorted_rng_idx][i + 1])
        BY <2>1, SortedColumns
      <4> QED
        BY <1>1, <2>1, <4>1 DEF InOrder
    <3>2. f = LowerBound(s, x)
      BY <2>1 DEF FindIndex
    <3> HIDE DEF s, f
    <3>3. f \in Int /\ f = Cardinality({i \in 1 .. Len(s) : s[i] < x})
          /\ (Contains(s, x) => IsFirst(s, x, f + 1))
      BY <1>1, <3>1, <3>2, LowerBoundFinds
    <3> QED
      BY <1>1, <2>1, <3>3
  <2>2. CASE c # sorted_rng_idx
    <3>1. f = LinearFind(s, x)
      BY <2>2 DEF FindIndex
    <3> HIDE DEF s, f
    <3> QED
      BY <1>1, <2>2, <3>1, LinearFindIs
  <2> QED
    BY <2>1, <2>2
<1>3. CASE Contains(s, x)
  <2>1. /\ f + 1 \in 1 .. Rows /\ s[f + 1] = x /\ \A i \in 1 .. Rows : s[i] = x => f + 1 <= i
    BY <1>1, <1>2, <1>3 DEF IsFirst
  <2>2. f = LinearFind(s, x)
    <3> DEFINE l == LinearFind(s, x)
    <3>1. l \in Int /\ l + 1 \in 1 .. Rows /\ s[l + 1] = x /\ \A i \in 1 .. Rows : s[i] = x => l + 1 <= i
      <4> HIDE DEF s
      <4> QED
        BY <1>1, <1>3, LinearFindIs DEF IsFirst
    <3> HIDE DEF s, f, l
    <3>2. l + 1 <= f + 1 /\ f + 1 <= l + 1
      BY <2>1, <3>1
    <3> QED
      BY <1>2, <3>1, <3>2 DEF l
  <2>3. FindIfIndex({i \in 1 .. Rows : s[i] = x}) = f
    <3> DEFINE I == {i \in 1 .. Rows : s[i] = x}
    <3> HIDE DEF s, f
    <3>1. I \in SUBSET Nat /\ f + 1 \in I /\ \A i \in I : f + 1 <= i
      BY <1>1, <2>1
    <3> HIDE DEF I
    <3>2. Min(I) = f + 1 /\ I # {}
      BY <3>1, MinUnique
    <3>3. FindIfIndex(I) = f
      BY <1>2, <3>2 DEF FindIfIndex
    <3> QED
      BY <3>3 DEF I
  <2>4. ASSUME sortedWith # "none"
        PROVE  \E i \in 1 .. Rows : unsorted[c][i] = x /\ unsorted[d][i] = FindElement(c, d, x)
    <3>1. PICK p \in [1 .. Rows -> 0 .. Rows - 1] :
            \A e \in Columns : \A i \in 1 .. Rows : column[e][i] = unsorted[e][p[i] + 1]
      BY <2>4, SortedColumns
    <3>2. FindElement(c, d, x) = column[d][f + 1]
      BY DEF FindElement
    <3> HIDE DEF f
    <3>3. p[f + 1] + 1 \in 1 .. Rows
      <4>1. p[f + 1] \in 0 .. Rows - 1
        BY <2>1, <3>1
      <4>2. \A k \in 0 .. Rows - 1 : k + 1 \in 1 .. Rows
        BY <1>1
      <4> QED
        BY <4>1, <4>2, Zenon
    <3>4. unsorted[c][p[f + 1] + 1] = x /\ unsorted[d][p[f + 1] + 1] = FindElement(c, d, x)
      BY <2>1, <3>1, <3>2
    <3> QED
      BY <3>3, <3>4
  <2> QED
    BY <1>3, <2>2, <2>3, <2>4
<1> QED
  BY <1>2, <1>3

LEMMA StopsBetween == MultiRangeInv => StopsBetweenKeys
<1> SUFFICES ASSUME MultiRangeInv, sorted_rng_idx # -1, NEW x \in Keys
             PROVE  LET key == column[sorted_rng_idx]
                        i == FindIndex(sorted_rng_idx, x)
                    IN  /\ i \in 0 .. Rows
                        /\ i > 0 => key[i] < x
                        /\ i < Rows => key[i + 1] >= x
  BY DEF StopsBetweenKeys
<1> DEFINE key == column[sorted_rng_idx]
           i == FindIndex(sorted_rng_idx, x)
<1>1. key \in Seq(Keys) /\ Len(key) = Rows
  BY DEF MultiRangeInv, TableOK, SameLength, Rows
<1>2. x \in Int /\ i = LowerBound(key, x)
  BY MultiRangeAssumption DEF FindIndex
<1> HIDE DEF key, i
<1>3. key \in Seq(Int) /\ Len(key) \in Nat /\ \A k \in 1 .. Len(key) : key[k] \in Int
  <2>1. key \in Seq(Int)
    BY <1>1, SeqOfKeys
  <2> QED
    BY <2>1
<1>4. i \in 0 .. Len(key) /\ (i > 0 => key[i] < x) /\ (i < Len(key) => ~ (key[i + 1] < x))
  BY <1>2, <1>3, LowerBoundStops
<1>5. i < Len(key) => key[i + 1] >= x
  BY <1>2, <1>3, <1>4
<1> QED
  BY <1>1, <1>4, <1>5 DEF key, i

(* A multi_vector that is sorted by one of its columns, with < or with >, one   *)
(* column after the other, keeps its rows. What is looked for in any column is  *)
(* found in its row, by the binary search as by a linear one where the column is*)
(* sorted with < and nothing has been written since; where it is sorted with >, *)
(* or has been written, the search stops between a smaller key and one that is  *)
(* not, and no more than that is true (SortedKeysAreFound is violated).         *)
THEOREM MultiRangeCorrect == MultiRangeSpec => []RowsAreFound
<1>1. MultiRangeInv => RowsAreFound
  BY RowsKept, RowsFound, StopsBetween DEF RowsAreFound
<1> QED
  BY <1>1, MultiInitInv, MultiStepInv, PTL DEF MultiRangeSpec

----------------------------------------------------------------------------
(* JaggedRange: separators, and the blocks that they make of flat values. *)

Elements == Values \cup {0}

\* The separators of n elements.
IsSeparators(s, n) ==
  /\ s \in Seq(Nat) /\ Len(s) >= 1
  /\ s[1] = 0 /\ s[Len(s)] = n
  /\ \A k \in 1 .. Len(s) - 1 : s[k] <= s[k + 1]

BlockIn(v, s, k) == [j \in 1 .. s[k + 1] - s[k] |-> v[s[k] + j]]
BlocksIn(v, s) == [k \in 1 .. Len(s) - 1 |-> BlockIn(v, s, k)]

LEMMA SeparatorsFact ==
  ASSUME NEW n \in Nat, NEW s, IsSeparators(s, n)
  PROVE  /\ s \in Seq(Nat) /\ Len(s) \in Nat \ {0} /\ DOMAIN s = 1 .. Len(s) /\ Last(s) = n
         /\ s[1] = 0 /\ s[Len(s)] = n
         /\ \A k \in 1 .. Len(s) : s[k] \in Nat /\ s[k] <= n
         /\ \A j, k \in 1 .. Len(s) : j <= k => s[j] <= s[k]
<1>1. /\ s \in Seq(Nat) /\ Len(s) \in Nat \ {0} /\ DOMAIN s = 1 .. Len(s)
      /\ s[1] = 0 /\ s[Len(s)] = n /\ \A k \in 1 .. Len(s) - 1 : s[k] <= s[k + 1]
      /\ \A k \in 1 .. Len(s) : s[k] \in Nat
  BY DEF IsSeparators
<1>2. \A j, k \in 1 .. Len(s) : j <= k => s[j] <= s[k]
  <2>1. Len(s) \in Nat /\ \A k \in 1 .. Len(s) : s[k] \in Int
    BY <1>1
  <2> QED
    BY <1>1, <2>1, StepwiseSorted
<1>3. \A k \in 1 .. Len(s) : s[k] <= n
  <2>1. Len(s) \in 1 .. Len(s)
    BY <1>1
  <2> QED
    BY <1>1, <1>2, <2>1
<1>4. Last(s) = s[Len(s)]
  BY DEF Last
<1> QED
  BY <1>1, <1>2, <1>3, <1>4

\* A subsequence, element by element.
LEMMA PartIs ==
  ASSUME NEW v \in Seq(Elements), NEW a \in Nat, NEW b \in Nat, a <= b, b <= Len(v)
  PROVE  /\ SubSeq(v, a + 1, b) = [j \in 1 .. b - a |-> v[a + j]]
         /\ \A j \in 1 .. b - a : v[a + j] \in Elements
<1> DEFINE t == SubSeq(v, a + 1, b)
<1>1. Len(v) \in Nat /\ \A i \in 1 .. Len(v) : v[i] \in Elements
  OBVIOUS
<1>2. a + 1 \in Int /\ b \in Int /\ (a + 1) .. b \subseteq 1 .. Len(v)
  BY <1>1
<1>3. /\ t \in Seq(Elements) /\ Len(t) = IF a + 1 <= b THEN b - (a + 1) + 1 ELSE 0
      /\ \A i \in 1 .. b - (a + 1) + 1 : t[i] = v[a + 1 + i - 1]
  <2>1. \A i \in (a + 1) .. b : v[i] \in Elements
    BY <1>1, <1>2
  <2> QED
    BY <1>2, <2>1, SubSeqProperties
<1> HIDE DEF t
<1>4. Len(t) = b - a /\ b - (a + 1) + 1 = b - a
  BY <1>3
<1>5. \A i \in 1 .. b - a : a + 1 + i - 1 = a + i /\ a + i \in 1 .. Len(v)
  BY <1>1
<1>6. \A i \in 1 .. b - a : t[i] = v[a + i]
  BY <1>3, <1>4, <1>5
<1>7. t = [j \in 1 .. Len(t) |-> t[j]]
  BY <1>3
<1>8. t = [j \in 1 .. b - a |-> v[a + j]]
  BY <1>4, <1>6, <1>7
<1> QED
  BY <1>1, <1>5, <1>8 DEF t

\* operator[] gives the values between two separators.
LEMMA BlockIs ==
  ASSUME NEW v \in Seq(Elements), NEW s, IsSeparators(s, Len(v)), NEW i \in 0 .. Len(s) - 2
  PROVE  /\ BlockAt([values |-> v, seps |-> s, off |-> 0], i) = BlockIn(v, s, i + 1)
         /\ s[i + 1] \in Nat /\ s[i + 2] \in Nat /\ s[i + 1] <= s[i + 2] /\ s[i + 2] <= Len(v)
         /\ Len(BlockIn(v, s, i + 1)) = s[i + 2] - s[i + 1]
         /\ BlockIn(v, s, i + 1) \in Seq(Elements)
<1>1. Len(v) \in Nat
  OBVIOUS
<1>2. /\ Len(s) \in Nat \ {0} /\ \A k \in 1 .. Len(s) : s[k] \in Nat /\ s[k] <= Len(v)
      /\ \A j, k \in 1 .. Len(s) : j <= k => s[j] <= s[k]
  BY <1>1, SeparatorsFact
<1>3. i + 1 \in 1 .. Len(s) /\ i + 2 \in 1 .. Len(s) /\ i + 1 <= i + 2 /\ (i + 1) + 1 = i + 2
  BY <1>2
<1>4. s[i + 1] \in Nat /\ s[i + 2] \in Nat /\ s[i + 1] <= s[i + 2] /\ s[i + 2] <= Len(v)
  BY <1>2, <1>3
<1>5. /\ SubSeq(v, s[i + 1] + 1, s[i + 2]) = [j \in 1 .. s[i + 2] - s[i + 1] |-> v[s[i + 1] + j]]
      /\ \A j \in 1 .. s[i + 2] - s[i + 1] : v[s[i + 1] + j] \in Elements
  BY <1>4, PartIs
<1>6. BlockIn(v, s, i + 1) = [j \in 1 .. s[i + 2] - s[i + 1] |-> v[s[i + 1] + j]]
  BY <1>3 DEF BlockIn
<1>7. BlockAt([values |-> v, seps |-> s, off |-> 0], i) = SubSeq(v, s[i + 1] - 0 + 1, s[i + 2] - 0)
  BY DEF BlockAt
<1>8. s[i + 1] - 0 + 1 = s[i + 1] + 1 /\ s[i + 2] - 0 = s[i + 2] /\ s[i + 2] - s[i + 1] \in Nat
  BY <1>4
<1>9. Len(BlockIn(v, s, i + 1)) = s[i + 2] - s[i + 1] /\ BlockIn(v, s, i + 1) \in Seq(Elements)
  BY <1>5, <1>6, <1>8
<1> QED
  BY <1>4, <1>5, <1>6, <1>7, <1>8, <1>9

LEMMA BlocksAre ==
  ASSUME NEW v \in Seq(Elements), NEW s, IsSeparators(s, Len(v))
  PROVE  BlocksOf([values |-> v, seps |-> s, off |-> 0]) = BlocksIn(v, s)
<1> DEFINE x == [values |-> v, seps |-> s, off |-> 0]
<1>1. Len(s) \in Nat \ {0}
  BY SeparatorsFact
<1>2. \A k \in 1 .. Len(s) - 1 : BlockAt(x, k - 1) = BlockIn(v, s, k)
  <2> SUFFICES ASSUME NEW k \in 1 .. Len(s) - 1 PROVE BlockAt(x, k - 1) = BlockIn(v, s, k)
    OBVIOUS
  <2>1. k - 1 \in 0 .. Len(s) - 2 /\ (k - 1) + 1 = k
    BY <1>1
  <2>2. BlockAt(x, k - 1) = BlockIn(v, s, (k - 1) + 1)
    BY <2>1, BlockIs
  <2> QED
    BY <2>1, <2>2
<1>3. BlocksOf(x) = [k \in 1 .. Len(s) - 1 |-> BlockAt(x, k - 1)]
  BY DEF BlocksOf
<1> HIDE DEF x
<1>4. BlocksOf(x) = [k \in 1 .. Len(s) - 1 |-> BlockIn(v, s, k)]
  BY <1>2, <1>3, Zenon
<1> QED
  BY <1>4 DEF x, BlocksIn

LEMMA AppendIs ==
  ASSUME NEW m \in Nat, NEW f \in [1 .. m -> Nat], NEW x \in Nat
  PROVE  /\ Append(f, x) \in [1 .. m + 1 -> Nat] /\ Append(f, x)[m + 1] = x
         /\ \A k \in 1 .. m : Append(f, x)[k] = f[k]
<1> DEFINE a == Append(f, x)
<1>1. f \in Seq(Nat) /\ Len(f) = m
  OBVIOUS
<1>2. a \in Seq(Nat) /\ Len(a) = m + 1 /\ a[m + 1] = x /\ \A k \in 1 .. m : a[k] = f[k]
  BY <1>1
<1> HIDE DEF a
<1>3. a \in [1 .. Len(a) -> Nat]
  BY <1>2
<1> QED
  BY <1>2, <1>3 DEF a

\* Separators are made of a function.
LEMMA SeparatorsAre ==
  ASSUME NEW m \in Nat \ {0}, NEW f \in [1 .. m -> Nat], f[1] = 0,
         \A k \in 1 .. m - 1 : f[k] <= f[k + 1]
  PROVE  /\ IsSeparators(f, f[m]) /\ Len(f) = m
         /\ IntervalLengths(f) = [k \in 1 .. m - 1 |-> f[k + 1] - f[k]]
         /\ Len(IntervalLengths(f)) = m - 1
<1>1. f \in Seq(Nat) /\ Len(f) = m /\ m >= 1
  OBVIOUS
<1>2. IsSeparators(f, f[m])
  BY <1>1 DEF IsSeparators
<1>3. IntervalLengths(f) = [k \in 1 .. m - 1 |-> f[k + 1] - f[k]]
  BY <1>1 DEF IntervalLengths, AdjacentDifferences
<1>4. m - 1 \in Nat
  OBVIOUS
<1> QED
  BY <1>1, <1>2, <1>3, <1>4

\* A separator is added where the last one is, or the last one is moved.
LEMMA SeparatorAdded ==
  ASSUME NEW n \in Nat, NEW s, IsSeparators(s, n)
  PROVE  /\ IsSeparators(Append(s, Last(s)), n)
         /\ IntervalLengths(Append(s, Last(s))) = Append(IntervalLengths(s), 0)
         /\ Len(Append(s, Last(s))) = Len(s) + 1
         /\ \A k \in 1 .. Len(s) : Append(s, Last(s))[k] = s[k]
         /\ Append(s, Last(s))[Len(s) + 1] = n
         /\ Len(s) > 1 => /\ IsSeparators(LastIncremented(s), n + 1)
                          /\ Len(LastIncremented(s)) = Len(s)
                          /\ \A k \in 1 .. Len(s) - 1 : LastIncremented(s)[k] = s[k]
                          /\ LastIncremented(s)[Len(s)] = n + 1
                          /\ IntervalLengths(s) # <<>>
                          /\ IntervalLengths(LastIncremented(s)) =
                               [IntervalLengths(s) EXCEPT ![Len(IntervalLengths(s))] = @ + 1]
<1> DEFINE m == Len(s)
           a == Append(s, Last(s))
           l == IntervalLengths(s)
           e == LastIncremented(s)
<1>1. /\ s \in [1 .. m -> Nat] /\ m \in Nat \ {0} /\ Last(s) = n
      /\ s[1] = 0 /\ s[m] = n
      /\ \A j, k \in 1 .. m : j <= k => s[j] <= s[k]
  <2>1. s \in Seq(Nat)
    BY SeparatorsFact
  <2> QED
    BY <2>1, SeparatorsFact
<1>2. a = [k \in 1 .. m + 1 |-> IF k = m + 1 THEN n ELSE s[k]]
  <2>1. m \in Nat /\ s \in [1 .. m -> Nat] /\ n \in Nat /\ a = Append(s, n)
    BY <1>1
  <2> HIDE DEF a, m
  <2>2. a \in [1 .. m + 1 -> Nat] /\ a[m + 1] = n /\ \A k \in 1 .. m : a[k] = s[k]
    <3>1. /\ Append(s, n) \in [1 .. m + 1 -> Nat] /\ Append(s, n)[m + 1] = n
          /\ \A k \in 1 .. m : Append(s, n)[k] = s[k]
      BY <2>1, AppendIs
    <3> QED
      BY <2>1, <3>1, Zenon
  <2>3. \A k \in 1 .. m + 1 : k # m + 1 => k \in 1 .. m
    BY <2>1
  <2> QED
    BY <2>2, <2>3
<1>3. e = [k \in 1 .. m |-> IF k = m THEN n + 1 ELSE s[k]]
  BY <1>1 DEF LastIncremented
<1>4. \A k \in 1 .. m - 1 : k \in 1 .. m /\ k + 1 \in 1 .. m /\ s[k] <= s[k + 1]
  <2> HIDE DEF m
  <2>1. \A k \in 1 .. m - 1 : k \in 1 .. m /\ k + 1 \in 1 .. m /\ k <= k + 1
    BY <1>1
  <2> QED
    BY <1>1, <2>1
<1>5. l = [k \in 1 .. m - 1 |-> s[k + 1] - s[k]] /\ Len(l) = m - 1
  <2> HIDE DEF m
  <2> QED
    BY <1>1, <1>4, SeparatorsAre
<1> HIDE DEF m, a, l, e
<1>6. IsSeparators(a, n) /\ IntervalLengths(a) = Append(l, 0) /\ Len(a) = m + 1
  <2>1. m + 1 \in Nat \ {0} /\ a \in [1 .. m + 1 -> Nat] /\ a[1] = 0 /\ a[m + 1] = n
    <3>1. m + 1 \in Nat \ {0} /\ 1 \in 1 .. m /\ m + 1 \in 1 .. m + 1 /\ 1 \in 1 .. m + 1
      BY <1>1
    <3>2. \A k \in 1 .. m + 1 : a[k] \in Nat /\ (k # m + 1 => k \in 1 .. m)
      BY <1>1, <1>2
    <3> QED
      BY <1>1, <1>2, <3>1, <3>2
  <2>2. \A k \in 1 .. (m + 1) - 1 : k \in 1 .. m /\ (k = m \/ k \in 1 .. m - 1) /\ k + 1 \in 1 .. m + 1
    BY <1>1
  <2>3. ASSUME NEW k \in 1 .. (m + 1) - 1
        PROVE  a[k] <= a[k + 1] /\ a[k + 1] - a[k] = IF k = m THEN 0 ELSE s[k + 1] - s[k]
    <3>1. CASE k = m
      BY <1>1, <1>2, <2>2, <3>1
    <3>2. CASE k \in 1 .. m - 1
      <4>1. k # m /\ k # m + 1 /\ k + 1 # m + 1
        BY <1>1, <3>2
      <4> QED
        BY <1>1, <1>2, <1>4, <2>2, <3>2, <4>1
    <3> QED
      BY <2>2, <3>1, <3>2
  <2>4. /\ IsSeparators(a, n) /\ Len(a) = m + 1
        /\ IntervalLengths(a) = [k \in 1 .. (m + 1) - 1 |-> a[k + 1] - a[k]]
    BY <2>1, <2>3, SeparatorsAre
  <2>5. Append(l, 0) = [k \in 1 .. (m + 1) - 1 |-> IF k = m THEN 0 ELSE s[k + 1] - s[k]]
    <3>1. /\ Append(l, 0) \in [1 .. (m - 1) + 1 -> Nat] /\ Append(l, 0)[(m - 1) + 1] = 0
          /\ \A k \in 1 .. m - 1 : Append(l, 0)[k] = l[k]
      <4>1. \A k \in 1 .. m - 1 : s[k + 1] - s[k] \in Nat
        BY <1>1, <1>4
      <4>2. m - 1 \in Nat /\ l \in [1 .. m - 1 -> Nat] /\ 0 \in Nat
        BY <1>1, <1>5, <4>1
      <4> QED
        BY <4>2, AppendIs
    <3>2. (m - 1) + 1 = m /\ (m + 1) - 1 = m /\ \A k \in 1 .. m : k # m => k \in 1 .. m - 1
      BY <1>1
    <3> QED
      BY <1>5, <3>1, <3>2
  <2> QED
    BY <2>3, <2>4, <2>5
<1>7. ASSUME m > 1
      PROVE  /\ IsSeparators(e, n + 1) /\ Len(e) = m /\ l # <<>>
             /\ IntervalLengths(e) = [l EXCEPT ![Len(l)] = @ + 1]
  <2>1. 1 \in 1 .. m /\ 1 # m /\ m \in 1 .. m /\ m - 1 \in 1 .. m - 1
    BY <1>1, <1>7
  <2>2. e \in [1 .. m -> Nat] /\ e[1] = 0 /\ e[m] = n + 1
    BY <1>1, <1>3, <2>1
  <2>3. ASSUME NEW k \in 1 .. m - 1
        PROVE  e[k] <= e[k + 1] /\ e[k + 1] - e[k] = IF k = m - 1 THEN (s[k + 1] - s[k]) + 1 ELSE s[k + 1] - s[k]
    <3>1. k # m /\ (k = m - 1) = (k + 1 = m)
      BY <1>1
    <3>2. s[k] \in Nat /\ s[k + 1] \in Nat /\ s[k] <= s[k + 1] /\ e[k] = s[k]
      BY <1>1, <1>3, <1>4, <3>1
    <3>3. e[k + 1] = IF k = m - 1 THEN s[k + 1] + 1 ELSE s[k + 1]
      BY <1>1, <1>3, <1>4, <3>1
    <3>4. CASE k = m - 1
      BY <3>2, <3>3, <3>4
    <3>5. CASE k # m - 1
      BY <3>2, <3>3, <3>5
    <3> QED
      BY <3>4, <3>5
  <2>4. IsSeparators(e, n + 1) /\ Len(e) = m /\ IntervalLengths(e) = [k \in 1 .. m - 1 |-> e[k + 1] - e[k]]
    BY <1>1, <2>2, <2>3, SeparatorsAre
  <2>5. [l EXCEPT ![Len(l)] = @ + 1] =
          [k \in 1 .. m - 1 |-> IF k = m - 1 THEN (s[k + 1] - s[k]) + 1 ELSE s[k + 1] - s[k]]
    BY <1>5, <2>1
  <2>6. l # <<>>
    BY <1>5, <2>1
  <2> QED
    BY <2>3, <2>4, <2>5, <2>6
<1>8. /\ \A k \in 1 .. m : a[k] = s[k] /\ (m > 1 /\ k # m => e[k] = s[k])
      /\ a[m + 1] = n /\ e[m] = n + 1
      /\ \A k \in 1 .. m - 1 : k \in 1 .. m /\ k # m
  <2>1. \A k \in 1 .. m : k \in 1 .. m + 1 /\ k # m + 1
    BY <1>1
  <2>2. m + 1 \in 1 .. m + 1 /\ m \in 1 .. m /\ \A k \in 1 .. m - 1 : k \in 1 .. m /\ k # m
    BY <1>1
  <2> QED
    BY <1>2, <1>3, <2>1, <2>2, Zenon
<1> QED
  <2>1. m > 1 => \A k \in 1 .. m - 1 : e[k] = s[k]
    BY <1>8
  <2> QED
    BY <1>6, <1>7, <1>8, <2>1, Zenon DEF m, a, l, e

\* The indices of the lengths of intervals are where the intervals start.
LEMMA IndicesOfLengths ==
  ASSUME NEW n \in Nat, NEW d \in [1 .. n + 1 -> Nat], NEW t \in [1 .. n -> Nat],
         \A k \in 1 .. n : t[k] = d[k + 1] - d[k]
  PROVE  IndicesFromStrides(t)[n + 1] = d[n + 1] - d[1]
<1> DEFINE I == IndicesFromStrides(t)
           Bad == {k \in 1 .. n + 1 : I[k] # d[k] - d[1]}
<1>1. I \in [1 .. n + 1 -> Nat] /\ I[1] = 0 /\ \A k \in 1 .. n : I[k + 1] = I[k] + t[k]
  BY IndicesFact
<1> HIDE DEF I
<1>2. Bad = {}
  <2> SUFFICES ASSUME Bad # {} PROVE FALSE
    OBVIOUS
  <2>1. PICK m \in Bad : \A k \in Bad : m <= k
    <3>1. Bad \in SUBSET Nat
      OBVIOUS
    <3> HIDE DEF Bad
    <3> QED
      BY <3>1, LeastNatural
  <2>2. m \in 1 .. n + 1 /\ m # 1
    BY <1>1, <2>1
  <2>3. m - 1 \in 1 .. n /\ (m - 1) + 1 = m /\ m - 1 \in 1 .. n + 1 /\ ~ (m <= m - 1)
    BY <2>2
  <2>4. I[m - 1] = d[m - 1] - d[1]
    BY <2>1, <2>3
  <2>5. I[m] = I[m - 1] + t[m - 1] /\ t[m - 1] = d[m] - d[m - 1]
    BY <1>1, <2>3
  <2>6. d[m] \in Nat /\ d[m - 1] \in Nat /\ d[1] \in Nat
    <3>1. 1 \in 1 .. n + 1
      OBVIOUS
    <3> QED
      BY <2>2, <2>3, <3>1
  <2>7. I[m] = d[m] - d[1]
    BY <2>4, <2>5, <2>6, SMTT(30)
  <2> QED
    BY <2>1, <2>7
<1>3. n + 1 \in 1 .. n + 1
  OBVIOUS
<1>4. I[n + 1] = d[n + 1] - d[1]
  BY <1>2, <1>3
<1> QED
  BY <1>4 DEF I

----------------------------------------------------------------------------
(* The inductive invariant: the separators are those of the values and of the *)
(* blocks, and the copy has the blocks that were already written, one after   *)
(* the other. Nothing is claimed once unique is called.                       *)

RangeOK ==
  /\ values \in Seq(Elements)
  /\ IsSeparators(seps0, Len(values)) /\ IsSeparators(seps1, NBlocks)

ViewSize == view[2] - view[1]
\* The block, from 1, that comes in place k, from 1, of the view.
Moved(k) == view[1] + perm[k] + 1
CopySizes == [k \in 1 .. ViewSize |-> seps0[Moved(k) + 1] - seps0[Moved(k)]]
CopyIndices == IndicesFromStrides(CopySizes)

CallOK ==
  /\ view[1] \in 0 .. NBlocks /\ view[2] \in 0 .. NBlocks /\ view[1] <= view[2]
  /\ perm \in [1 .. ViewSize -> 0 .. ViewSize - 1]
  /\ \A i, j \in 1 .. ViewSize : i # j => perm[i] # perm[j]

CopyOK ==
  /\ copied \in 0 .. ViewSize
  /\ copy.values \in Seq(Elements) /\ Len(copy.values) = Len(values)
  /\ copy.seps \in [1 .. ViewSize + 1 -> Nat]
  /\ \A k \in 1 .. copied + 1 : copy.seps[k] = CopyIndices[k]
  /\ \A k \in 1 .. copied : \A j \in 1 .. CopySizes[k] :
       copy.values[CopyIndices[k] + j] = values[seps0[Moved(k)] + j]

JaggedRangeInv ==
  /\ work \in {"idle", "permute", "unique", "kept"}
  /\ work \in {"idle", "permute"} => RangeOK
  /\ work = "permute" => CallOK /\ CopyOK

LEMMA RangeFact ==
  ASSUME RangeOK
  PROVE  /\ Len(values) \in Nat /\ NBlocks \in Nat /\ Len(seps0) = NBlocks + 1
         /\ seps0 \in [1 .. NBlocks + 1 -> Nat]
         /\ seps0[1] = 0 /\ seps0[NBlocks + 1] = Len(values)
         /\ \A k \in 1 .. NBlocks + 1 : seps0[k] <= Len(values)
         /\ \A j, k \in 1 .. NBlocks + 1 : j <= k => seps0[j] <= seps0[k]
<1>1. Len(values) \in Nat /\ IsSeparators(seps0, Len(values))
  BY DEF RangeOK
<1>2. /\ seps0 \in Seq(Nat) /\ Len(seps0) \in Nat \ {0}
      /\ seps0[1] = 0 /\ seps0[Len(seps0)] = Len(values)
      /\ \A k \in 1 .. Len(seps0) : seps0[k] <= Len(values)
      /\ \A j, k \in 1 .. Len(seps0) : j <= k => seps0[j] <= seps0[k]
  BY <1>1, SeparatorsFact
<1>3. NBlocks \in Nat /\ Len(seps0) = NBlocks + 1
  BY <1>2 DEF NBlocks
<1>4. seps0 \in [1 .. Len(seps0) -> Nat]
  BY <1>2
<1> QED
  BY <1>1, <1>2, <1>3, <1>4

\* The blocks of the view, in the order of the copy, fill the same place.
LEMMA CopyFact ==
  ASSUME RangeOK, CallOK
  PROVE  /\ ViewSize \in Nat /\ CopySizes \in [1 .. ViewSize -> Nat]
         /\ CopyIndices \in [1 .. ViewSize + 1 -> Nat] /\ CopyIndices[1] = 0
         /\ \A k \in 1 .. ViewSize :
              /\ CopyIndices[k + 1] = CopyIndices[k] + CopySizes[k]
              /\ Moved(k) \in view[1] + 1 .. view[2] /\ Moved(k) \in 1 .. NBlocks
         /\ \A j, k \in 1 .. ViewSize + 1 : j <= k => CopyIndices[j] <= CopyIndices[k]
         /\ CopyIndices[ViewSize + 1] = seps0[view[2] + 1] - seps0[view[1] + 1]
         /\ CopyIndices[ViewSize + 1] <= Len(values)
         /\ view[1] + 1 \in 1 .. NBlocks + 1 /\ view[2] + 1 \in 1 .. NBlocks + 1
<1> DEFINE a == view[1]
           b == view[2]
           n == ViewSize
           d == [k \in 1 .. n + 1 |-> seps0[a + k]]
           s == [k \in 1 .. n |-> d[k + 1] - d[k]]
<1>1. /\ NBlocks \in Nat /\ seps0 \in [1 .. NBlocks + 1 -> Nat]
      /\ \A j, k \in 1 .. NBlocks + 1 : j <= k => seps0[j] <= seps0[k]
  BY RangeFact
<1>2. a \in 0 .. NBlocks /\ b \in 0 .. NBlocks /\ a <= b /\ n = b - a
  BY DEF CallOK, ViewSize
<1>3. /\ perm \in [1 .. n -> 0 .. n - 1] /\ \A i, j \in 1 .. n : i # j => perm[i] # perm[j]
  BY DEF CallOK
<1>4. \A k : Moved(k) = a + perm[k] + 1
  BY DEF Moved
<1>5. CopySizes = [k \in 1 .. n |-> seps0[Moved(k) + 1] - seps0[Moved(k)]]
  BY DEF CopySizes
<1> HIDE DEF a, b, n
<1>6. n \in Nat /\ a + n = b /\ a + 1 \in 1 .. NBlocks + 1 /\ b + 1 \in 1 .. NBlocks + 1
  BY <1>1, <1>2
<1>7. \A k \in 1 .. n + 1 : a + k \in 1 .. NBlocks + 1
  BY <1>1, <1>2, <1>6
<1>8. d \in [1 .. n + 1 -> Nat] /\ \A k \in 1 .. n + 1 : d[k] = seps0[a + k]
  BY <1>1, <1>7
<1> HIDE DEF d
<1>9. ASSUME NEW k \in 1 .. n
      PROVE  d[k + 1] - d[k] \in Nat
  <2>1. k \in 1 .. n + 1 /\ k + 1 \in 1 .. n + 1 /\ a + k \in Int /\ a + (k + 1) = (a + k) + 1
    BY <1>2
  <2>2. d[k] = seps0[a + k] /\ d[k + 1] = seps0[a + (k + 1)] /\ d[k] \in Nat /\ d[k + 1] \in Nat
    BY <1>8, <2>1
  <2>3. a + k <= a + (k + 1) /\ a + k \in 1 .. NBlocks + 1 /\ a + (k + 1) \in 1 .. NBlocks + 1
    BY <1>7, <2>1
  <2> QED
    BY <1>1, <2>2, <2>3
<1>10. s \in [1 .. n -> Nat] /\ \A k \in 1 .. n : s[k] = d[k + 1] - d[k]
  BY <1>9
<1> HIDE DEF s
<1>11. ASSUME NEW k \in 1 .. n
       PROVE  /\ Moved(k) \in a + 1 .. b /\ Moved(k) \in 1 .. NBlocks
              /\ CopySizes[k] = s[perm[k] + 1]
              /\ s[perm[k] + 1] \in Nat
  <2>1. perm[k] \in 0 .. n - 1
    BY <1>3
  <2>2. perm[k] + 1 \in 1 .. n /\ perm[k] + 1 \in 1 .. n + 1 /\ (perm[k] + 1) + 1 \in 1 .. n + 1
    BY <1>6, <2>1
  <2>3. /\ a + (perm[k] + 1) = Moved(k) /\ a + ((perm[k] + 1) + 1) = Moved(k) + 1
        /\ Moved(k) \in a + 1 .. b /\ Moved(k) \in 1 .. NBlocks
    <3> DEFINE q == perm[k]
    <3>1. Moved(k) = a + q + 1 /\ q \in 0 .. n - 1 /\ a \in Nat /\ b \in Nat /\ NBlocks \in Nat /\ b <= NBlocks
      BY <1>1, <1>2, <1>4, <2>1
    <3> HIDE DEF q
    <3>2. /\ a + (q + 1) = a + q + 1 /\ a + ((q + 1) + 1) = (a + q + 1) + 1
          /\ a + q + 1 \in a + 1 .. b /\ a + q + 1 \in 1 .. NBlocks
      BY <1>6, <3>1
    <3> QED
      BY <3>1, <3>2 DEF q
  <2>4. s[perm[k] + 1] = seps0[Moved(k) + 1] - seps0[Moved(k)]
    BY <1>8, <1>10, <2>2, <2>3
  <2> QED
    BY <1>5, <1>10, <2>2, <2>3, <2>4
<1>12. CopySizes \in [1 .. n -> Nat] /\ \A k \in 1 .. n : CopySizes[k] = s[perm[k] + 1]
  <2>1. \A k \in 1 .. n : seps0[Moved(k) + 1] - seps0[Moved(k)] \in Nat
    BY <1>5, <1>11
  <2> QED
    BY <1>5, <1>11, <2>1
<1>13. /\ CopyIndices \in [1 .. n + 1 -> Nat] /\ CopyIndices[1] = 0
       /\ \A k \in 1 .. n : CopyIndices[k + 1] = CopyIndices[k] + CopySizes[k]
  BY <1>6, <1>12, IndicesFact DEF CopyIndices
<1>14. \A j, k \in 1 .. n + 1 : j <= k => CopyIndices[j] <= CopyIndices[k]
  BY <1>6, <1>12, IndicesSorted DEF CopyIndices
<1>15. CopyIndices[n + 1] = IndicesFromStrides(s)[n + 1]
  BY <1>3, <1>6, <1>10, <1>12, TotalOfPermuted DEF CopyIndices
<1>16. IndicesFromStrides(s)[n + 1] = d[n + 1] - d[1]
  BY <1>6, <1>8, <1>10, IndicesOfLengths
<1>17. d[n + 1] = seps0[b + 1] /\ d[1] = seps0[a + 1]
  <2>1. n + 1 \in 1 .. n + 1 /\ 1 \in 1 .. n + 1 /\ a + (n + 1) = b + 1
    BY <1>2, <1>6
  <2> QED
    BY <1>8, <2>1
<1>18. CopyIndices[n + 1] = seps0[b + 1] - seps0[a + 1] /\ CopyIndices[n + 1] <= Len(values)
  <2>1. CopyIndices[n + 1] = seps0[b + 1] - seps0[a + 1]
    BY <1>15, <1>16, <1>17
  <2>2. seps0[b + 1] \in Nat /\ seps0[a + 1] \in Nat /\ seps0[b + 1] <= Len(values) /\ Len(values) \in Nat
    BY <1>1, <1>6, RangeFact
  <2> QED
    BY <2>1, <2>2
<1> QED
  BY <1>6, <1>11, <1>12, <1>13, <1>14, <1>18 DEF a, b, n

----------------------------------------------------------------------------
(* What becomes of the blocks when the values or the separators change. *)

LEMMA BlocksType ==
  ASSUME NEW v \in Seq(Elements), NEW s, IsSeparators(s, Len(v))
  PROVE  /\ BlocksIn(v, s) \in Seq(Seq(Elements)) /\ Len(BlocksIn(v, s)) = Len(s) - 1
         /\ DOMAIN BlocksIn(v, s) = 1 .. Len(s) - 1
<1>1. Len(s) \in Nat \ {0}
  BY SeparatorsFact
<1>2. ASSUME NEW k \in 1 .. Len(s) - 1 PROVE BlockIn(v, s, k) \in Seq(Elements)
  <2>1. k - 1 \in 0 .. Len(s) - 2 /\ (k - 1) + 1 = k
    BY <1>1
  <2>2. BlockIn(v, s, (k - 1) + 1) \in Seq(Elements)
    BY <2>1, BlockIs
  <2> QED
    BY <2>1, <2>2
<1>3. Len(s) - 1 \in Nat
  BY <1>1
<1> QED
  BY <1>2, <1>3 DEF BlocksIn

LEMMA SameBlock ==
  ASSUME NEW v, NEW w, NEW s, NEW t, NEW k, s[k] = t[k], s[k + 1] = t[k + 1],
         \A j \in 1 .. s[k + 1] - s[k] : w[s[k] + j] = v[s[k] + j]
  PROVE  BlockIn(w, t, k) = BlockIn(v, s, k)
BY DEF BlockIn

LEMMA IsAppend ==
  ASSUME NEW E, NEW f \in Seq(E), NEW x \in E, NEW g,
         g \in Seq(E), Len(g) = Len(f) + 1,
         g[Len(f) + 1] = x, \A k \in 1 .. Len(f) : g[k] = f[k]
  PROVE  g = Append(f, x)
<1> DEFINE a == Append(f, x)
           n == Len(f)
<1>1. n \in Nat /\ Len(a) = n + 1 /\ a[n + 1] = x /\ \A k \in 1 .. n : a[k] = f[k]
  OBVIOUS
<1>2. a \in Seq(E)
  OBVIOUS
<1> HIDE DEF a
<1>3. a = [k \in 1 .. Len(a) |-> a[k]]
  BY <1>2
<1>4. g = [k \in 1 .. Len(g) |-> g[k]] /\ Len(g) = n + 1 /\ g[n + 1] = x /\ \A k \in 1 .. n : g[k] = f[k]
  OBVIOUS
<1> HIDE DEF n
<1>5. \A k \in 1 .. n + 1 : k = n + 1 \/ k \in 1 .. n
  BY <1>1
<1>6. \A k \in 1 .. n + 1 : a[k] = g[k]
  BY <1>1, <1>4, <1>5
<1>7. a = g
  BY <1>1, <1>3, <1>4, <1>6
<1> QED
  BY <1>7 DEF a

\* separator<0>: an empty block at the end.
LEMMA BlockAdded ==
  ASSUME NEW v \in Seq(Elements), NEW s, IsSeparators(s, Len(v))
  PROVE  BlocksIn(v, Append(s, Last(s))) = Append(BlocksIn(v, s), <<>>)
<1> DEFINE t == Append(s, Last(s))
           B == BlocksIn(v, s)
           g == BlocksIn(v, t)
           m == Len(s) - 1
<1>1. Len(v) \in Nat
  OBVIOUS
<1>2. /\ Len(s) \in Nat \ {0} /\ s[Len(s)] = Len(v) /\ Len(t) = Len(s) + 1 /\ t[Len(s) + 1] = Len(v)
      /\ \A k \in 1 .. Len(s) : t[k] = s[k]
      /\ IsSeparators(t, Len(v))
  <2>1. Len(s) \in Nat \ {0} /\ s[Len(s)] = Len(v)
    BY <1>1, SeparatorsFact
  <2> QED
    BY <1>1, <2>1, SeparatorAdded
<1>3. B \in Seq(Seq(Elements)) /\ Len(B) = m /\ g \in Seq(Seq(Elements)) /\ Len(g) = Len(t) - 1
  <2>1. B \in Seq(Seq(Elements)) /\ Len(B) = m
    BY BlocksType
  <2> HIDE DEF t
  <2>2. g \in Seq(Seq(Elements)) /\ Len(g) = Len(t) - 1
    BY <1>2, BlocksType
  <2> QED
    BY <2>1, <2>2
<1>4. B = [k \in 1 .. m |-> BlockIn(v, s, k)] /\ g = [k \in 1 .. Len(t) - 1 |-> BlockIn(v, t, k)]
  BY DEF BlocksIn
<1>5. m \in Nat /\ Len(t) - 1 = m + 1 /\ m + 1 = Len(s) /\ m + 1 \in 1 .. m + 1
  BY <1>2
<1> HIDE DEF t, B, g, m
<1>6. g[m + 1] = <<>>
  <2>1. t[m + 1] = Len(v) /\ t[(m + 1) + 1] = Len(v)
    BY <1>2, <1>5
  <2>2. t[(m + 1) + 1] - t[m + 1] = 0
    BY <1>1, <2>1
  <2>3. BlockIn(v, t, m + 1) = [j \in 1 .. 0 |-> v[t[m + 1] + j]]
    BY <2>2 DEF BlockIn
  <2>4. BlockIn(v, t, m + 1) = <<>>
    BY <2>3
  <2> QED
    BY <1>4, <1>5, <2>4
<1>7. \A k \in 1 .. m : g[k] = B[k]
  <2> SUFFICES ASSUME NEW k \in 1 .. m PROVE g[k] = B[k]
    OBVIOUS
  <2>1. k \in 1 .. Len(s) /\ k + 1 \in 1 .. Len(s) /\ k \in 1 .. Len(t) - 1
    BY <1>5
  <2>2. t[k] = s[k] /\ t[k + 1] = s[k + 1]
    BY <1>2, <2>1
  <2>3. BlockIn(v, t, k) = BlockIn(v, s, k)
    BY <2>2, SameBlock
  <2> QED
    BY <1>4, <2>1, <2>3
<1>9. <<>> \in Seq(Elements)
  OBVIOUS
<1>10. g = Append(B, <<>>)
  <2>1. Len(g) = Len(B) + 1
    BY <1>3, <1>5
  <2> QED
    BY <1>3, <1>6, <1>7, <1>9, <2>1, IsAppend
<1> QED
  BY <1>10 DEF g, t, B

\* push_back: at the end of the last block.
LEMMA ValueAdded ==
  ASSUME NEW v \in Seq(Elements), NEW s, IsSeparators(s, Len(v)), Len(s) > 1, NEW x \in Elements
  PROVE  /\ BlocksIn(v, s) # <<>>
         /\ BlocksIn(Append(v, x), LastIncremented(s)) =
              [BlocksIn(v, s) EXCEPT ![Len(BlocksIn(v, s))] = Append(@, x)]
<1> DEFINE t == LastIncremented(s)
           w == Append(v, x)
           B == BlocksIn(v, s)
           g == BlocksIn(w, t)
           m == Len(s) - 1
           n == Len(v)
<1>1. n \in Nat
  OBVIOUS
<1>2. w \in Seq(Elements) /\ Len(w) = n + 1 /\ w[n + 1] = x /\ \A p \in 1 .. n : w[p] = v[p]
  OBVIOUS
<1>3. /\ Len(s) \in Nat \ {0} /\ Len(s) > 1 /\ Len(t) = Len(s) /\ s[Len(s)] = n /\ t[Len(s)] = n + 1
      /\ \A k \in 1 .. Len(s) - 1 : t[k] = s[k]
      /\ \A k \in 1 .. Len(s) : s[k] \in Nat /\ s[k] <= n
      /\ \A j, k \in 1 .. Len(s) : j <= k => s[j] <= s[k]
      /\ IsSeparators(t, Len(w))
  <2>1. /\ Len(s) \in Nat \ {0} /\ s[Len(s)] = n
        /\ \A k \in 1 .. Len(s) : s[k] \in Nat /\ s[k] <= n
        /\ \A j, k \in 1 .. Len(s) : j <= k => s[j] <= s[k]
    BY <1>1, SeparatorsFact
  <2>2. /\ Len(t) = Len(s) /\ t[Len(s)] = n + 1 /\ \A k \in 1 .. Len(s) - 1 : t[k] = s[k]
        /\ IsSeparators(t, n + 1)
    BY <1>1, SeparatorAdded
  <2> QED
    BY <1>2, <2>1, <2>2, Zenon
<1>4. B \in Seq(Seq(Elements)) /\ Len(B) = m /\ g \in Seq(Seq(Elements)) /\ Len(g) = Len(t) - 1
  <2>1. B \in Seq(Seq(Elements)) /\ Len(B) = m
    BY BlocksType
  <2> HIDE DEF t, w
  <2>2. g \in Seq(Seq(Elements)) /\ Len(g) = Len(t) - 1
    BY <1>2, <1>3, BlocksType
  <2> QED
    BY <2>1, <2>2
<1>5. B = [k \in 1 .. m |-> BlockIn(v, s, k)] /\ g = [k \in 1 .. Len(t) - 1 |-> BlockIn(w, t, k)]
  BY DEF BlocksIn
<1>6. m \in Nat \ {0} /\ Len(t) - 1 = m /\ Len(s) = m + 1 /\ m \in 1 .. m
  BY <1>3
<1> HIDE DEF t, w, B, g, m, n
<1>7. ASSUME NEW k \in 1 .. m
      PROVE  /\ s[k] \in Nat /\ s[k + 1] \in Nat /\ t[k] = s[k] /\ s[k] <= s[k + 1] /\ s[k + 1] <= n
             /\ \A j \in 1 .. s[k + 1] - s[k] : w[s[k] + j] = v[s[k] + j]
  <2>1. k \in 1 .. Len(s) /\ k \in 1 .. Len(s) - 1 /\ k + 1 \in 1 .. Len(s) /\ k <= k + 1
    BY <1>6
  <2>2. s[k] \in Nat /\ s[k + 1] \in Nat /\ t[k] = s[k] /\ s[k] <= s[k + 1] /\ s[k + 1] <= n
    BY <1>3, <2>1
  <2>3. \A j \in 1 .. s[k + 1] - s[k] : s[k] + j \in 1 .. n
    BY <1>1, <2>2, SMTT(30)
  <2> QED
    BY <1>2, <2>2, <2>3
<1>8. ASSUME NEW k \in 1 .. m, k # m PROVE g[k] = B[k]
  <2>1. k + 1 \in 1 .. Len(s) - 1
    BY <1>6, <1>8
  <2>2. t[k] = s[k] /\ t[k + 1] = s[k + 1] /\ \A j \in 1 .. s[k + 1] - s[k] : w[s[k] + j] = v[s[k] + j]
    BY <1>3, <1>7, <2>1
  <2>3. BlockIn(w, t, k) = BlockIn(v, s, k)
    BY <2>2, SameBlock
  <2> QED
    BY <1>5, <1>6, <2>3
<1>9. g[m] = Append(B[m], x)
  <2> DEFINE c == s[m]
             f == BlockIn(v, s, m)
             h == BlockIn(w, t, m)
  <2>1. /\ c \in Nat /\ c <= n /\ t[m] = c /\ s[m + 1] = n /\ t[m + 1] = n + 1
        /\ \A j \in 1 .. n - c : w[c + j] = v[c + j]
    <3>1. s[m + 1] = n /\ t[m + 1] = n + 1
      BY <1>3, <1>6
    <3>2. /\ s[m] \in Nat /\ t[m] = s[m] /\ s[m] <= s[m + 1]
          /\ \A j \in 1 .. s[m + 1] - s[m] : w[s[m] + j] = v[s[m] + j]
      BY <1>6, <1>7
    <3> QED
      BY <3>1, <3>2
  <2>2. f = [j \in 1 .. n - c |-> v[c + j]] /\ h = [j \in 1 .. (n + 1) - c |-> w[c + j]]
    BY <2>1 DEF BlockIn
  <2>3. f \in Seq(Elements) /\ h \in Seq(Elements)
    <3>1. B[m] = f /\ g[m] = h
      BY <1>5, <1>6
    <3>2. B[m] \in Seq(Elements) /\ g[m] \in Seq(Elements)
      BY <1>4, <1>6
    <3> QED
      BY <3>1, <3>2
  <2> HIDE DEF c, f, h
  <2>4. Len(f) = n - c /\ n - c \in Nat /\ (n + 1) - c = (n - c) + 1 /\ c + ((n - c) + 1) = n + 1
    BY <1>1, <2>1, <2>2
  <2>5. Len(h) = Len(f) + 1
    <3>1. (n + 1) - c \in Nat
      BY <2>4
    <3> QED
      BY <2>2, <2>4, <3>1
  <2>6. h[Len(f) + 1] = x
    <3>1. (n - c) + 1 \in 1 .. (n + 1) - c
      BY <2>4
    <3> QED
      BY <1>2, <2>2, <2>4, <3>1
  <2>7. \A j \in 1 .. Len(f) : h[j] = f[j]
    <3>1. \A j \in 1 .. n - c : j \in 1 .. (n + 1) - c
      BY <2>4
    <3> QED
      BY <2>1, <2>2, <2>4, <3>1
  <2>8. h = Append(f, x)
    BY <2>3, <2>5, <2>6, <2>7, IsAppend
  <2> QED
    BY <1>5, <1>6, <2>8 DEF f, h
<1>10. B # <<>>
  BY <1>4, <1>6
<1>11. g = [B EXCEPT ![Len(B)] = Append(@, x)]
  <2>1. g = [k \in 1 .. m |-> g[k]] /\ DOMAIN B = 1 .. m
    BY <1>5, <1>6
  <2> QED
    BY <1>4, <1>6, <1>8, <1>9, <2>1
<1> QED
  BY <1>10, <1>11 DEF g, t, w, B

\* A block is assigned: the others stay.
LEMMA BlockAssigned ==
  ASSUME NEW v \in Seq(Elements), NEW s, IsSeparators(s, Len(v)), NEW i \in 0 .. Len(s) - 2,
         NEW b \in Seq(Elements), Len(b) = s[i + 2] - s[i + 1]
  PROVE  /\ Written(v, s, i, b).seps = s
         /\ Written(v, s, i, b).values \in Seq(Elements) /\ Len(Written(v, s, i, b).values) = Len(v)
         /\ BlocksIn(Written(v, s, i, b).values, s) = [BlocksIn(v, s) EXCEPT ![i + 1] = b]
<1> DEFINE w == Written(v, s, i, b).values
           m == Len(s) - 1
           n == Len(v)
           B == BlocksIn(v, s)
           g == BlocksIn(w, s)
<1>1. n \in Nat /\ Len(b) \in Nat
  OBVIOUS
<1>2. /\ s \in Seq(Nat) /\ Len(s) \in Nat \ {0} /\ m \in Nat
      /\ \A k \in 1 .. Len(s) : s[k] \in Nat /\ s[k] <= n
      /\ \A j, k \in 1 .. Len(s) : j <= k => s[j] <= s[k]
  BY <1>1, SeparatorsFact, SMTT(30)
<1>3. i + 1 \in 1 .. m /\ i + 1 \in 1 .. Len(s) /\ i + 2 \in 1 .. Len(s) /\ (i + 1) + 1 = i + 2 /\ m + 1 = Len(s)
  BY <1>2
<1>4. s[i + 1] + Len(b) = s[i + 2]
  BY <1>2, <1>3
<1>5. /\ \A p \in 1 .. n : w[p] = IF p - s[i + 1] \in 1 .. Len(b) THEN b[p - s[i + 1]] ELSE v[p]
      /\ Written(v, s, i, b).seps = [s EXCEPT ![i + 2] = s[i + 1] + Len(b)]
      /\ w \in Seq(Elements) /\ Len(w) = n
  <2>1. /\ DOMAIN v = 1 .. n /\ DOMAIN b = 1 .. Len(b)
        /\ (\A p \in 1 .. n : v[p] \in Elements) /\ \A p \in 1 .. Len(b) : b[p] \in Elements
    OBVIOUS
  <2>2. /\ w = [p \in DOMAIN v |-> IF p - s[i + 1] \in DOMAIN b THEN b[p - s[i + 1]] ELSE v[p]]
        /\ Written(v, s, i, b).seps = [s EXCEPT ![i + 2] = s[i + 1] + Len(b)]
    BY DEF Written
  <2> HIDE DEF w, n
  <2>3. w \in [1 .. n -> Elements]
    BY <2>1, <2>2
  <2>4. w \in Seq(Elements) /\ Len(w) = n
    BY <1>1, <2>3
  <2> QED
    BY <2>1, <2>2, <2>4
<1>6. Written(v, s, i, b).seps = s
  BY <1>2, <1>3, <1>4, <1>5
<1>7. B = [k \in 1 .. m |-> BlockIn(v, s, k)] /\ g = [k \in 1 .. m |-> BlockIn(w, s, k)]
  BY DEF BlocksIn
<1> HIDE DEF w, m, n, B, g
<1>8. ASSUME NEW k \in 1 .. m
      PROVE  /\ s[k] \in Nat /\ s[k + 1] \in Nat /\ s[k + 1] <= n
             /\ \A j \in 1 .. s[k + 1] - s[k] : s[k] + j \in 1 .. n
             /\ k < i + 1 => s[k + 1] <= s[i + 1]
             /\ k > i + 1 => s[i + 2] <= s[k]
  <2>1. k \in 1 .. Len(s) /\ k + 1 \in 1 .. Len(s) /\ (k < i + 1 => k + 1 <= i + 1) /\ (k > i + 1 => i + 2 <= k)
    BY <1>2, <1>3, SMTT(30)
  <2>2. s[k] \in Nat /\ s[k + 1] \in Nat /\ s[k + 1] <= n
    BY <1>2, <2>1
  <2>3. \A j \in 1 .. s[k + 1] - s[k] : s[k] + j \in 1 .. n
    <3> DEFINE x == s[k]
               y == s[k + 1]
    <3>1. n \in Nat /\ x \in Nat /\ y \in Nat /\ y <= n
      BY <1>1, <2>2
    <3> HIDE DEF x, y
    <3>2. \A j \in 1 .. y - x : x + j \in 1 .. n
      BY <3>1
    <3> QED
      BY <3>2 DEF x, y
  <2> QED
    BY <1>2, <1>3, <2>1, <2>2, <2>3
<1>9. ASSUME NEW k \in 1 .. m, k # i + 1 PROVE BlockIn(w, s, k) = BlockIn(v, s, k)
  <2>1. ASSUME NEW j \in 1 .. s[k + 1] - s[k] PROVE w[s[k] + j] = v[s[k] + j]
    <3>1. s[k] + j \in 1 .. n /\ s[k] + j > s[k] /\ s[k] + j <= s[k + 1]
      BY <1>8, SMTT(30)
    <3>2. s[i + 1] \in Nat /\ s[i + 2] \in Nat
      BY <1>2, <1>3
    <3>3. k < i + 1 \/ k > i + 1
      BY <1>3, <1>9
    <3>4. (s[k] + j) - s[i + 1] \notin 1 .. Len(b)
      <4> DEFINE x == s[k] + j
                 y == s[i + 1]
                 z == s[i + 2]
      <4>1. x \in Int /\ y \in Int /\ Len(b) \in Int /\ y + Len(b) = z /\ (x <= y \/ x > z)
        <5>1. s[k] \in Nat /\ s[k + 1] \in Nat /\ x \in Int /\ x > s[k] /\ x <= s[k + 1]
          BY <1>8, <3>1
        <5>2. y \in Int /\ z \in Int /\ Len(b) \in Int /\ y + Len(b) = z
          BY <1>1, <1>4, <3>2
        <5>3. s[k + 1] <= y \/ z <= s[k]
          BY <1>8, <3>3
        <5> HIDE DEF x, y, z
        <5> QED
          BY <5>1, <5>2, <5>3, SMTT(30)
      <4> HIDE DEF x, y, z
      <4>2. x - y \notin 1 .. Len(b)
        BY <4>1
      <4> QED
        BY <4>2 DEF x, y
    <3> QED
      BY <1>5, <3>1, <3>4
  <2> QED
    BY <2>1, SameBlock
<1>10. BlockIn(w, s, i + 1) = b
  <2>1. BlockIn(w, s, i + 1) = [j \in 1 .. s[(i + 1) + 1] - s[i + 1] |-> w[s[i + 1] + j]]
    BY DEF BlockIn
  <2>2. s[i + 1] \in Nat /\ s[(i + 1) + 1] - s[i + 1] = Len(b)
    BY <1>2, <1>3
  <2>3. ASSUME NEW j \in 1 .. Len(b) PROVE w[s[i + 1] + j] = b[j]
    <3>1. s[i + 1] + j \in 1 .. n
      BY <1>3, <1>8, <2>2
    <3>2. (s[i + 1] + j) - s[i + 1] = j
      BY <2>2
    <3> QED
      BY <1>5, <3>1, <3>2
  <2>4. b = [j \in 1 .. Len(b) |-> b[j]]
    OBVIOUS
  <2> QED
    BY <2>1, <2>2, <2>3, <2>4
<1>11. g = [B EXCEPT ![i + 1] = b]
  BY <1>3, <1>7, <1>9, <1>10
<1> QED
  BY <1>5, <1>6, <1>11 DEF g, w, B, n

----------------------------------------------------------------------------
(* What each operation does to the blocks. *)

LEMMA AddsGroup ==
  ASSUME RangeOK, Separator1
  PROVE  /\ RangeOK' /\ BlocksIn(values', seps0') = BlocksIn(values, seps0)
         /\ IntervalLengths(seps1') = Append(IntervalLengths(seps1), 0)
<1>1. NBlocks \in Nat
  BY RangeFact
<1>2. IsSeparators(seps1, NBlocks)
  BY DEF RangeOK
<1>3. seps1' = Append(seps1, Last(seps1)) /\ values' = values /\ seps0' = seps0
  BY DEF Separator1
<1>4. /\ IsSeparators(Append(seps1, Last(seps1)), NBlocks)
      /\ IntervalLengths(Append(seps1, Last(seps1))) = Append(IntervalLengths(seps1), 0)
  BY <1>1, <1>2, SeparatorAdded
<1> QED
  BY <1>3, <1>4 DEF RangeOK, NBlocks

LEMMA AddsBlock ==
  ASSUME RangeOK, Separator0
  PROVE  /\ RangeOK' /\ BlocksIn(values', seps0') = Append(BlocksIn(values, seps0), <<>>)
         /\ IntervalLengths(seps1) # <<>>
         /\ IntervalLengths(seps1') =
              [IntervalLengths(seps1) EXCEPT ![Len(IntervalLengths(seps1))] = @ + 1]
<1>1. Len(values) \in Nat /\ NBlocks \in Nat /\ Len(seps0) = NBlocks + 1
  BY RangeFact
<1>2. values \in Seq(Elements) /\ IsSeparators(seps0, Len(values)) /\ IsSeparators(seps1, NBlocks)
  BY DEF RangeOK
<1>3. /\ Len(seps1) > 1 /\ seps0' = Append(seps0, Last(seps0))
      /\ seps1' = LastIncremented(seps1) /\ values' = values
  BY DEF Separator0
<1>4. IsSeparators(seps0', Len(values')) /\ Len(seps0') = Len(seps0) + 1
  <2>1. /\ IsSeparators(Append(seps0, Last(seps0)), Len(values))
        /\ Len(Append(seps0, Last(seps0))) = Len(seps0) + 1
    BY <1>1, <1>2, SeparatorAdded
  <2> QED
    BY <1>3, <2>1
<1>5. /\ IsSeparators(LastIncremented(seps1), NBlocks + 1) /\ IntervalLengths(seps1) # <<>>
      /\ IntervalLengths(LastIncremented(seps1)) =
           [IntervalLengths(seps1) EXCEPT ![Len(IntervalLengths(seps1))] = @ + 1]
  BY <1>1, <1>2, <1>3, SeparatorAdded
<1>6. NBlocks' = NBlocks + 1
  BY <1>1, <1>4 DEF NBlocks
<1>7. BlocksIn(values, Append(seps0, Last(seps0))) = Append(BlocksIn(values, seps0), <<>>)
  BY <1>2, BlockAdded
<1>8. RangeOK'
  BY <1>2, <1>3, <1>4, <1>5, <1>6 DEF RangeOK
<1> QED
  BY <1>3, <1>5, <1>7, <1>8

LEMMA AddsValue ==
  ASSUME RangeOK, NEW v \in Values, PushBack(v)
  PROVE  /\ RangeOK' /\ BlocksIn(values, seps0) # <<>> /\ seps1' = seps1
         /\ BlocksIn(values', seps0') =
              [BlocksIn(values, seps0) EXCEPT ![Len(BlocksIn(values, seps0))] = Append(@, v)]
<1>1. Len(values) \in Nat /\ NBlocks \in Nat
  BY RangeFact
<1>2. values \in Seq(Elements) /\ IsSeparators(seps0, Len(values)) /\ IsSeparators(seps1, NBlocks)
  BY DEF RangeOK
<1>3. /\ Len(seps0) > 1 /\ values' = Append(values, v) /\ seps0' = LastIncremented(seps0) /\ seps1' = seps1
  BY DEF PushBack
<1>4. v \in Elements
  BY DEF Elements
<1>5. IsSeparators(LastIncremented(seps0), Len(values) + 1) /\ Len(LastIncremented(seps0)) = Len(seps0)
  BY <1>1, <1>2, <1>3, SeparatorAdded
<1>6. Append(values, v) \in Seq(Elements) /\ Len(Append(values, v)) = Len(values) + 1
  BY <1>2, <1>4
<1>7. RangeOK'
  <2>1. NBlocks' = NBlocks
    BY <1>3, <1>5 DEF NBlocks
  <2> QED
    BY <1>2, <1>3, <1>5, <1>6, <2>1 DEF RangeOK
<1>8. /\ BlocksIn(values, seps0) # <<>>
      /\ BlocksIn(Append(values, v), LastIncremented(seps0)) =
           [BlocksIn(values, seps0) EXCEPT ![Len(BlocksIn(values, seps0))] = Append(@, v)]
  BY <1>2, <1>3, <1>4, ValueAdded
<1> QED
  BY <1>3, <1>7, <1>8

LEMMA ReplacesBlock ==
  ASSUME RangeOK, NEW i \in 0 .. NBlocks - 1,
         NEW b \in [1 .. Len(BlockAt(AllBlocks, i)) -> Values], AssignBlock(i, b)
  PROVE  /\ RangeOK' /\ seps1' = seps1 /\ i + 1 \in DOMAIN BlocksIn(values, seps0)
         /\ Len(b) = Len(BlocksIn(values, seps0)[i + 1])
         /\ BlocksIn(values', seps0') = [BlocksIn(values, seps0) EXCEPT ![i + 1] = b]
<1>1. Len(values) \in Nat /\ NBlocks \in Nat /\ Len(seps0) = NBlocks + 1
  BY RangeFact
<1>2. values \in Seq(Elements) /\ IsSeparators(seps0, Len(values)) /\ IsSeparators(seps1, NBlocks)
  BY DEF RangeOK
<1>3. i \in 0 .. Len(seps0) - 2 /\ i + 1 \in 1 .. Len(seps0) - 1
  BY <1>1
<1>4. /\ BlockAt(AllBlocks, i) = BlockIn(values, seps0, i + 1)
      /\ b \in [1 .. Len(BlockIn(values, seps0, i + 1)) -> Values]
      /\ Len(BlockIn(values, seps0, i + 1)) = seps0[i + 2] - seps0[i + 1]
      /\ seps0[i + 1] \in Nat /\ seps0[i + 2] \in Nat /\ seps0[i + 1] <= seps0[i + 2]
  BY <1>2, <1>3, BlockIs DEF AllBlocks
<1>5. b \in Seq(Elements) /\ Len(b) = seps0[i + 2] - seps0[i + 1]
  <2> DEFINE n == seps0[i + 2] - seps0[i + 1]
  <2>1. n \in Nat /\ b \in [1 .. n -> Values]
    BY <1>4
  <2> HIDE DEF n
  <2>2. b \in [1 .. n -> Elements]
    BY <2>1 DEF Elements
  <2>3. b \in Seq(Elements) /\ Len(b) = n
    BY <2>1, <2>2
  <2> QED
    BY <2>3 DEF n
<1>6. /\ Written(values, seps0, i, b).seps = seps0
      /\ Written(values, seps0, i, b).values \in Seq(Elements)
      /\ Len(Written(values, seps0, i, b).values) = Len(values)
      /\ BlocksIn(Written(values, seps0, i, b).values, seps0) = [BlocksIn(values, seps0) EXCEPT ![i + 1] = b]
  BY <1>2, <1>3, <1>5, BlockAssigned, SMTT(30)
<1> DEFINE w == Written(values, seps0, i, b)
<1>7. values' = w.values /\ seps0' = w.seps /\ seps1' = seps1
  BY DEF AssignBlock
<1>8. /\ w.seps = seps0 /\ BlocksIn(w.values, seps0) = [BlocksIn(values, seps0) EXCEPT ![i + 1] = b]
      /\ w.values \in Seq(Elements) /\ Len(w.values) = Len(values)
  BY <1>6
<1> HIDE DEF w
<1>9. RangeOK'
  BY <1>2, <1>7, <1>8 DEF RangeOK, NBlocks
<1>10. i + 1 \in DOMAIN BlocksIn(values, seps0) /\ BlocksIn(values, seps0)[i + 1] = BlockIn(values, seps0, i + 1)
  BY <1>3 DEF BlocksIn
<1> QED
  BY <1>4, <1>5, <1>7, <1>8, <1>9, <1>10

\* The blocks of the view, through its own separators.
LEMMA ViewBlock ==
  ASSUME RangeOK, CallOK, NEW k \in 1 .. ViewSize
  PROVE  LET b == BlockIn(values, seps0, Moved(k))
         IN  /\ BlockAt([values |-> values, seps |-> ViewSeps, off |-> 0], perm[k]) = b
             /\ b \in Seq(Elements) /\ Len(b) = CopySizes[k]
             /\ \A j \in 1 .. CopySizes[k] : b[j] = values[seps0[Moved(k)] + j]
<1> DEFINE q == perm[k]
           l == view[1]
           r == view[2]
           i == l + q
           u == SubSeq(seps0, l + 1, r + 1)
<1>1. /\ values \in Seq(Elements) /\ NBlocks \in Nat /\ Len(seps0) = NBlocks + 1
      /\ seps0 \in [1 .. NBlocks + 1 -> Nat] /\ IsSeparators(seps0, Len(values))
  BY RangeFact DEF RangeOK
<1>2. /\ l \in Nat /\ r \in Nat /\ r <= NBlocks /\ k \in 1 .. r - l /\ q \in 0 .. (r - l) - 1
      /\ Moved(k) = i + 1
  <2>1. l \in 0 .. NBlocks /\ r \in 0 .. NBlocks /\ perm \in [1 .. r - l -> 0 .. (r - l) - 1] /\ k \in 1 .. r - l
    BY DEF CallOK, ViewSize
  <2>2. Moved(k) = l + q + 1
    BY DEF Moved
  <2>3. q \in 0 .. (r - l) - 1
    <3> HIDE DEF l, r
    <3> QED
      BY <2>1
  <2> HIDE DEF l, r, q
  <2> QED
    BY <1>1, <2>1, <2>2, <2>3
<1>3. CopySizes[k] = seps0[Moved(k) + 1] - seps0[Moved(k)] /\ ViewSeps = u
  BY DEF CopySizes, ViewSeps
<1> HIDE DEF q, l, r, u
<1>4. /\ l + 1 \in Int /\ r + 1 \in Int /\ i \in 0 .. NBlocks - 1 /\ i \in 0 .. Len(seps0) - 2
      /\ q + 1 \in 1 .. (r + 1) - (l + 1) + 1 /\ q + 2 \in 1 .. (r + 1) - (l + 1) + 1
      /\ (l + 1) + (q + 1) - 1 = i + 1 /\ (l + 1) + (q + 2) - 1 = i + 2
      /\ Moved(k) + 1 = i + 2
  BY <1>1, <1>2
<1>5. \A p \in (l + 1) .. (r + 1) : seps0[p] \in Nat
  <2>1. \A p \in (l + 1) .. (r + 1) : p \in 1 .. NBlocks + 1
    <3> HIDE DEF i
    <3>1. l \in Nat /\ r \in Nat /\ r <= NBlocks /\ NBlocks \in Nat
      BY <1>1, <1>2
    <3> QED
      BY <3>1
  <2> QED
    BY <1>1, <2>1
<1>6. \A p \in 1 .. (r + 1) - (l + 1) + 1 : u[p] = seps0[(l + 1) + p - 1]
  <2>1. l + 1 \in Int /\ r + 1 \in Int
    BY <1>4
  <2> QED
    BY <1>5, <2>1, SubSeqProperties DEF u
<1>7. u[q + 1] = seps0[i + 1] /\ u[q + 2] = seps0[i + 2]
  BY <1>4, <1>6, SMTT(30)
<1> HIDE DEF i
<1>8. /\ BlockAt([values |-> values, seps |-> u, off |-> 0], q) = SubSeq(values, u[q + 1] - 0 + 1, u[q + 2] - 0)
      /\ BlockAt([values |-> values, seps |-> seps0, off |-> 0], i)
           = SubSeq(values, seps0[i + 1] - 0 + 1, seps0[i + 2] - 0)
  BY DEF BlockAt
<1>9. /\ BlockAt([values |-> values, seps |-> seps0, off |-> 0], i) = BlockIn(values, seps0, i + 1)
      /\ Len(BlockIn(values, seps0, i + 1)) = seps0[i + 2] - seps0[i + 1]
      /\ BlockIn(values, seps0, i + 1) \in Seq(Elements)
  BY <1>1, <1>4, BlockIs
<1>10. \A j \in 1 .. seps0[Moved(k) + 1] - seps0[Moved(k)] :
         BlockIn(values, seps0, Moved(k))[j] = values[seps0[Moved(k)] + j]
  BY DEF BlockIn
<1>11. BlockAt([values |-> values, seps |-> ViewSeps, off |-> 0], perm[k]) = BlockIn(values, seps0, i + 1)
  BY <1>3, <1>7, <1>8, <1>9 DEF q
<1> QED
  BY <1>2, <1>3, <1>4, <1>9, <1>10, <1>11

\* What is written after some blocks does not change them.
IsWrittenAfter(W, w, b, I, z, n, next) ==
  /\ \A j \in 1 .. z[next] : W[I[next] + j] = b[j]
  /\ \A k \in 1 .. n : k < next => \A j \in 1 .. z[k] : W[I[k] + j] = w[I[k] + j]

LEMMA WrittenAfter ==
  ASSUME NEW w, NEW m \in Nat, m = Len(w), NEW n \in Nat, NEW I \in [1 .. n + 1 -> Nat], NEW z \in [1 .. n -> Nat],
         \A k \in 1 .. n : I[k + 1] = I[k] + z[k],
         \A j, k \in 1 .. n + 1 : j <= k => I[j] <= I[k], I[n + 1] <= m,
         NEW next \in 1 .. n, NEW b,
         NEW W, \A p \in 1 .. m : p - I[next] \in 1 .. z[next] => W[p] = b[p - I[next]],
         \A p \in 1 .. m : p - I[next] \notin 1 .. z[next] => W[p] = w[p]
  PROVE  IsWrittenAfter(W, w, b, I, z, n, next)
<1> DEFINE c == I[next]
           d == z[next]
<1>1. m \in Nat /\ d \in Nat
  OBVIOUS
<1>2. \A k \in 1 .. n : k \in 1 .. n + 1 /\ k + 1 \in 1 .. n + 1 /\ k + 1 <= n + 1 /\ n + 1 \in 1 .. n + 1
  OBVIOUS
<1>3. \A k \in 1 .. n : /\ I[k] \in Nat /\ z[k] \in Nat /\ I[k + 1] = I[k] + z[k]
                        /\ I[k + 1] <= I[n + 1] /\ I[k + 1] \in Nat
                        /\ k < next => I[k + 1] <= c
  <2> SUFFICES ASSUME NEW k \in 1 .. n
               PROVE  /\ I[k] \in Nat /\ z[k] \in Nat /\ I[k + 1] = I[k] + z[k]
                      /\ I[k + 1] <= I[n + 1] /\ I[k + 1] \in Nat
                      /\ k < next => I[k + 1] <= c
    OBVIOUS
  <2>1. k < next => k + 1 <= next
    OBVIOUS
  <2> QED
    BY <1>2, <2>1
<1>4. I[n + 1] <= m /\ I[n + 1] \in Nat
  BY <1>2
<1>5. \A p \in 1 .. m : W[p] = IF p - c \in 1 .. d THEN b[p - c] ELSE w[p]
  OBVIOUS
<1> HIDE DEF d, c
<1>6. \A k \in 1 .. n : \A j \in 1 .. z[k] : I[k] + j \in 1 .. m /\ I[k] + j <= I[k + 1]
  <2> SUFFICES ASSUME NEW k \in 1 .. n, NEW j \in 1 .. z[k]
               PROVE  I[k] + j \in 1 .. m /\ I[k] + j <= I[k + 1]
    OBVIOUS
  <2> DEFINE x == I[k]
             y == z[k]
             g == I[k + 1]
             h == I[n + 1]
  <2>1. x \in Nat /\ y \in Nat /\ g = x + y /\ g <= h /\ h <= m /\ h \in Nat /\ j \in 1 .. y
    BY <1>3, <1>4
  <2> HIDE DEF x, y, g, h
  <2>2. x + j \in 1 .. m /\ x + j <= g
    BY <1>1, <2>1
  <2> QED
    BY <2>2 DEF x, g
<1>8. c \in Nat
  BY <1>3 DEF c
<1>9. ASSUME NEW j \in 1 .. d PROVE W[c + j] = b[j]
  <2>1. c + j \in 1 .. m
    BY <1>6 DEF c, d
  <2>2. (c + j) - c = j
    BY <1>1, <1>8
  <2> QED
    BY <1>5, <2>1, <2>2
<1>10. ASSUME NEW k \in 1 .. n, k < next, NEW j \in 1 .. z[k] PROVE W[I[k] + j] = w[I[k] + j]
  <2>1. I[k] + j \in 1 .. m /\ I[k] + j <= I[k + 1] /\ I[k + 1] <= c /\ I[k + 1] \in Nat
    BY <1>3, <1>6, <1>10
  <2>2. (I[k] + j) - c \notin 1 .. d
    <3> DEFINE x == I[k] + j
               g == I[k + 1]
    <3>1. x \in Int /\ x <= g /\ g <= c /\ g \in Nat
      BY <1>1, <2>1
    <3> HIDE DEF x, g
    <3>2. x - c \notin 1 .. d
      BY <1>1, <1>8, <3>1
    <3> QED
      BY <3>2 DEF x
  <2> QED
    BY <1>5, <2>1, <2>2
<1> QED
  BY <1>9, <1>10 DEF c, d, IsWrittenAfter

\* A block is written after those that were, which it does not change.
LEMMA CopiesBlock ==
  ASSUME RangeOK, CallOK, CopyOK, CopyBlock
  PROVE  RangeOK' /\ CallOK' /\ CopyOK'
<1> DEFINE n == ViewSize
           next == copied + 1
           b == BlockIn(values, seps0, Moved(next))
           I == CopyIndices
           z == CopySizes
           w == copy.values
           W == copy'.values
<1>1. /\ n \in Nat /\ z \in [1 .. n -> Nat] /\ I \in [1 .. n + 1 -> Nat]
      /\ \A k \in 1 .. n : I[k + 1] = I[k] + z[k]
      /\ \A j, k \in 1 .. n + 1 : j <= k => I[j] <= I[k]
      /\ I[n + 1] <= Len(values)
  BY CopyFact
<1>3. /\ copied \in 0 .. n /\ w \in Seq(Elements) /\ Len(w) = Len(values)
      /\ copy.seps \in [1 .. n + 1 -> Nat] /\ (\A k \in 1 .. copied + 1 : copy.seps[k] = I[k])
      /\ \A k \in 1 .. copied : \A j \in 1 .. z[k] : w[I[k] + j] = values[seps0[Moved(k)] + j]
  BY DEF CopyOK
<1>4. /\ copied < Len(perm) /\ copied' = next
      /\ copy' = Written(w, copy.seps, copied,
                         BlockAt([values |-> values, seps |-> ViewSeps, off |-> 0], perm[next]))
      /\ values' = values /\ seps0' = seps0 /\ seps1' = seps1 /\ view' = view /\ perm' = perm
  BY DEF CopyBlock, rangeData
<1>5. next \in 1 .. n /\ next \in 1 .. copied + 1 /\ next \in 1 .. n + 1
  <2>1. perm \in [1 .. n -> 0 .. n - 1]
    BY DEF CallOK
  <2> HIDE DEF n
  <2>2. Len(perm) = n
    BY <1>1, <2>1
  <2> QED
    BY <1>1, <1>3, <1>4, <2>2
<1>6. copy.seps[next] = I[next]
  BY <1>3, <1>5
<1>7. /\ BlockAt([values |-> values, seps |-> ViewSeps, off |-> 0], perm[next]) = b
      /\ b \in Seq(Elements) /\ Len(b) = z[next]
      /\ \A j \in 1 .. z[next] : b[j] = values[seps0[Moved(next)] + j]
  <2> HIDE DEF next
  <2> QED
    BY <1>5, ViewBlock
<1>8. CopyIndices' = I /\ CopySizes' = z /\ ViewSize' = n /\ \A k : Moved(k)' = Moved(k)
  BY <1>4 DEF CopyIndices, CopySizes, ViewSize, Moved
<1>9. RangeOK' /\ CallOK'
  BY <1>4 DEF RangeOK, CallOK, NBlocks, ViewSize
<1>10. copied + 2 = next + 1 /\ \A k \in 1 .. next : k = next \/ (k < next /\ k \in 1 .. copied)
  BY <1>3
<1> HIDE DEF b, w
<1>11. copy' = [values |-> [p \in DOMAIN w |-> IF p - copy.seps[copied + 1] \in DOMAIN b
                                                 THEN b[p - copy.seps[copied + 1]] ELSE w[p]],
                seps |-> [copy.seps EXCEPT ![copied + 2] = copy.seps[copied + 1] + Len(b)]]
  BY <1>4, <1>7 DEF Written
<1> HIDE DEF n, I, z, W, next
<1>12. /\ W = [p \in DOMAIN w |-> IF p - copy.seps[copied + 1] \in DOMAIN b
                                  THEN b[p - copy.seps[copied + 1]] ELSE w[p]]
       /\ copy'.seps = [copy.seps EXCEPT ![next + 1] = I[next] + Len(b)]
       /\ copy.seps[copied + 1] = I[next]
  <2>1. copy.seps[copied + 1] = I[next]
    BY <1>6 DEF next
  <2>2. copy'.seps = [copy.seps EXCEPT ![copied + 2] = copy.seps[copied + 1] + Len(b)]
    BY <1>11
  <2>3. W = [p \in DOMAIN w |-> IF p - copy.seps[copied + 1] \in DOMAIN b
                                  THEN b[p - copy.seps[copied + 1]] ELSE w[p]]
    BY <1>11 DEF W
  <2>4. copy'.seps = [copy.seps EXCEPT ![next + 1] = I[next] + Len(b)]
    <3>1. copied + 2 = next + 1
      BY <1>10
    <3> QED
      BY <2>1, <2>2, <3>1, Zenon
  <2> QED
    BY <2>1, <2>3, <2>4
<1>13. I[n + 1] <= Len(w)
  BY <1>1, <1>3
<1>14. /\ W \in Seq(Elements) /\ Len(W) = Len(values)
       /\ \A j \in 1 .. z[next] : W[I[next] + j] = b[j]
       /\ \A k \in 1 .. n : k < next => \A j \in 1 .. z[k] : W[I[k] + j] = w[I[k] + j]
  <2>1. /\ DOMAIN w = 1 .. Len(w) /\ DOMAIN b = 1 .. Len(b) /\ Len(w) \in Nat
        /\ (\A p \in 1 .. Len(w) : w[p] \in Elements) /\ \A p \in 1 .. Len(b) : b[p] \in Elements
    BY <1>3, <1>7
  <2>2. /\ \A p \in 1 .. Len(w) : p - I[next] \in 1 .. z[next] => W[p] = b[p - I[next]]
        /\ \A p \in 1 .. Len(w) : p - I[next] \notin 1 .. z[next] => W[p] = w[p]
    BY <1>7, <1>12, <2>1
  <2>3. W \in [1 .. Len(w) -> Elements]
    BY <1>12, <2>1
  <2>4. W \in Seq(Elements) /\ Len(W) = Len(w)
    BY <2>1, <2>3
  <2>5. /\ \A j \in 1 .. z[next] : W[I[next] + j] = b[j]
        /\ \A k \in 1 .. n : k < next => \A j \in 1 .. z[k] : W[I[k] + j] = w[I[k] + j]
    <3>1. n \in Nat /\ next \in 1 .. n /\ I[n + 1] <= Len(w)
      BY <1>1, <1>5, <1>13
    <3>2. /\ I \in [1 .. n + 1 -> Nat] /\ z \in [1 .. n -> Nat]
          /\ \A k \in 1 .. n : I[k + 1] = I[k] + z[k]
          /\ \A j, k \in 1 .. n + 1 : j <= k => I[j] <= I[k]
      BY <1>1
    <3> QED
      <4>1. IsWrittenAfter(W, w, b, I, z, n, next)
        BY <2>1, <2>2, <3>1, <3>2, WrittenAfter
      <4> QED
        BY <4>1 DEF IsWrittenAfter
  <2> QED
    BY <1>3, <2>4, <2>5
<1>15. I[next + 1] = I[next] + Len(b) /\ I[next + 1] \in Nat /\ next + 1 \in 1 .. n + 1
  <2>1. next + 1 \in 1 .. n + 1
    BY <1>1, <1>5
  <2> QED
    BY <1>1, <1>5, <1>7, <2>1
<1>16. copy'.seps \in [1 .. n + 1 -> Nat] /\ \A k \in 1 .. next + 1 : copy'.seps[k] = I[k]
  <2>1. copy'.seps \in [1 .. n + 1 -> Nat]
    BY <1>3, <1>12, <1>15
  <2>2. \A k \in 1 .. next + 1 : k = next + 1 \/ (k # next + 1 /\ k \in 1 .. copied + 1)
    BY <1>3 DEF next
  <2>3. copy'.seps[next + 1] = I[next + 1]
    BY <1>3, <1>12, <1>15
  <2>4. \A k \in 1 .. copied + 1 : k # next + 1 => copy'.seps[k] = I[k]
    <3>1. \A k \in 1 .. copied + 1 : k # next + 1 => copy'.seps[k] = copy.seps[k]
      <4>1. \A k \in 1 .. copied + 1 : k \in 1 .. n + 1
        BY <1>1, <1>3
      <4> QED
        BY <1>3, <1>12, <4>1
    <3> QED
      BY <1>3, <3>1
  <2> QED
    BY <2>1, <2>2, <2>3, <2>4
<1>17. ASSUME NEW k \in 1 .. next, NEW j \in 1 .. z[k]
       PROVE  W[I[k] + j] = values[seps0[Moved(k)] + j]
  <2>1. CASE k = next
    BY <1>7, <1>14, <2>1
  <2>2. CASE k < next /\ k \in 1 .. copied
    <3>1. k \in 1 .. n
      BY <1>1, <1>3, <2>2
    <3> QED
      BY <1>3, <1>14, <2>2, <3>1
  <2> QED
    BY <1>10, <2>1, <2>2
<1>18. next \in 0 .. n
  BY <1>1, <1>5
<1>19. CopyOK'
  <2>1. /\ copied' = next /\ copied' \in 0 .. ViewSize'
        /\ copy'.values \in Seq(Elements) /\ Len(copy'.values) = Len(values')
        /\ copy'.seps \in [1 .. ViewSize' + 1 -> Nat]
    BY <1>4, <1>8, <1>14, <1>16, <1>18 DEF W, next
  <2>2. \A k \in 1 .. copied' + 1 : copy'.seps[k] = CopyIndices'[k]
    BY <1>8, <1>16, <2>1
  <2>3. \A k \in 1 .. copied' : \A j \in 1 .. CopySizes'[k] :
          copy'.values[CopyIndices'[k] + j] = values'[seps0'[Moved(k)'] + j]
    BY <1>4, <1>8, <1>17, <2>1 DEF W
  <2> QED
    BY <2>1, <2>2, <2>3 DEF CopyOK
<1> QED
  BY <1>9, <1>19

\* The copy is assigned to the view: its blocks are reordered, and the others
\* are where they were.
LEMMA AssignedSeparators ==
  ASSUME RangeOK, CallOK, CopyOK, AssignCopy
  PROVE  /\ \A k \in view[1] + 1 .. view[2] + 1 :
              seps0'[k] = CopyIndices[k - view[1]] + seps0[view[1] + 1]
         /\ \A k \in 1 .. NBlocks + 1 : k <= view[1] + 1 \/ k >= view[2] + 1 => seps0'[k] = seps0[k]
         /\ seps0' \in [1 .. NBlocks + 1 -> Nat]
         /\ values' \in Seq(Elements) /\ Len(values') = Len(values)
         /\ \A p \in 1 .. Len(values) :
              LET at == p - seps0[view[1] + 1]
              IN  values'[p] = IF at \in 1 .. CopyIndices[ViewSize + 1] THEN copy.values[at] ELSE values[p]
<1> DEFINE a == view[1]
           b == view[2]
           n == ViewSize
           I == CopyIndices
           T == CopyIndices[ViewSize + 1]
           c == seps0[a + 1]
           s == copy.seps
           w == copy.values
           m == NBlocks
           S == seps0'
           V == values'
<1>1. /\ n \in Nat /\ I \in [1 .. n + 1 -> Nat] /\ I[1] = 0
      /\ I[n + 1] = seps0[b + 1] - c /\ I[n + 1] <= Len(values)
      /\ a + 1 \in 1 .. m + 1 /\ b + 1 \in 1 .. m + 1
  BY CopyFact
<1>2. /\ values \in Seq(Elements) /\ Len(values) \in Nat /\ m \in Nat /\ Len(seps0) = m + 1
      /\ seps0 \in [1 .. m + 1 -> Nat]
  BY RangeFact DEF RangeOK
<1>3. a \in 0 .. m /\ b \in 0 .. m /\ a <= b /\ n = b - a /\ perm \in [1 .. n -> 0 .. n - 1]
  BY DEF CallOK, ViewSize
<1>4. /\ copied \in 0 .. n /\ w \in Seq(Elements) /\ Len(w) = Len(values)
      /\ s \in [1 .. n + 1 -> Nat] /\ \A k \in 1 .. copied + 1 : s[k] = I[k]
  BY DEF CopyOK
<1>5. /\ copied = Len(perm) /\ ViewSeps = SubSeq(seps0, a + 1, b + 1)
      /\ V = [p \in DOMAIN values |->
                IF p - ViewSeps[1] \in 1 .. Last(s) - s[1] THEN w[s[1] + p - ViewSeps[1]] ELSE values[p]]
      /\ S = [k \in DOMAIN seps0 |->
                IF k - 1 \in a .. b THEN s[k - a] + (ViewSeps[1] - s[1]) ELSE seps0[k]]
  BY DEF AssignCopy, ViewSeps
<1> HIDE DEF a, b, n, s, w, m, S, V
<1>6. s[1] = 0 /\ Last(s) = I[n + 1] /\ \A k \in 1 .. n + 1 : s[k] = I[k]
  <2>1. copied = n
    <3>1. n \in Nat /\ perm \in [1 .. n -> 0 .. n - 1]
      BY <1>1, <1>3
    <3>2. Len(perm) = n
      BY <3>1
    <3> QED
      BY <1>5, <3>2
  <2>2. Len(s) = n + 1
    <3>1. n + 1 \in Nat /\ s \in [1 .. n + 1 -> Nat]
      BY <1>1, <1>4
    <3> QED
      BY <3>1
  <2>3. 1 \in 1 .. n + 1 /\ n + 1 \in 1 .. n + 1
    BY <1>1
  <2> QED
    BY <1>1, <1>4, <2>1, <2>2, <2>3 DEF Last
<1>7. ViewSeps[1] = c
  <2> DEFINE u == SubSeq(seps0, a + 1, b + 1)
  <2>1. a + 1 \in Int /\ b + 1 \in Int /\ 1 \in 1 .. (b + 1) - (a + 1) + 1 /\ (a + 1) + 1 - 1 = a + 1
    BY <1>3
  <2>2. \A p \in (a + 1) .. (b + 1) : seps0[p] \in Nat
    <3>1. \A p \in (a + 1) .. (b + 1) : p \in 1 .. m + 1
      BY <1>1, <1>2, <1>3
    <3> QED
      BY <1>2, <3>1
  <2>3. \A p \in 1 .. (b + 1) - (a + 1) + 1 : u[p] = seps0[(a + 1) + p - 1]
    BY <2>1, <2>2, SubSeqProperties
  <2> HIDE DEF u
  <2>4. u[1] = seps0[a + 1]
    BY <2>1, <2>3
  <2> QED
    BY <1>5, <2>4 DEF u
<1>8. c \in Nat /\ I[n + 1] = T
  BY <1>1, <1>2 DEF n
<1> HIDE DEF I, c, T
<1>9. \A k \in a + 1 .. b + 1 : k \in 1 .. m + 1 /\ k - 1 \in a .. b /\ k - a \in 1 .. n + 1
  BY <1>1, <1>2, <1>3
<1>10. \A k \in 1 .. m + 1 : k \notin a + 1 .. b + 1 => k - 1 \notin a .. b
  BY <1>2, <1>3
<1>11. DOMAIN seps0 = 1 .. m + 1 /\ DOMAIN values = 1 .. Len(values)
  BY <1>2
<1>12. \A k \in a + 1 .. b + 1 : S[k] = I[k - a] + c
  <2> SUFFICES ASSUME NEW k \in a + 1 .. b + 1 PROVE S[k] = I[k - a] + c
    OBVIOUS
  <2>1. S[k] = s[k - a] + (c - 0)
    BY <1>5, <1>6, <1>7, <1>9, <1>11
  <2>2. s[k - a] = I[k - a]
    BY <1>6, <1>9
  <2>3. c - 0 = c
    BY <1>8
  <2> QED
    BY <2>1, <2>2, <2>3
<1>13. \A k \in 1 .. m + 1 : k \notin a + 1 .. b + 1 => S[k] = seps0[k]
  BY <1>5, <1>10, <1>11
<1>14. S[a + 1] = seps0[a + 1] /\ S[b + 1] = seps0[b + 1]
  <2>1. /\ a + 1 \in a + 1 .. b + 1 /\ b + 1 \in a + 1 .. b + 1
        /\ (a + 1) - a = 1 /\ (b + 1) - a = n + 1
    BY <1>3
  <2>2. S[a + 1] = 0 + c /\ S[b + 1] = I[n + 1] + c
    BY <1>1, <1>12, <2>1
  <2>3. I[n + 1] \in Nat /\ seps0[b + 1] \in Nat
    BY <1>1, <1>2
  <2> QED
    BY <1>1, <1>8, <2>2, <2>3 DEF c
<1>15. \A k \in 1 .. m + 1 : k <= a + 1 \/ k >= b + 1 => S[k] = seps0[k]
  <2> SUFFICES ASSUME NEW k \in 1 .. m + 1, k <= a + 1 \/ k >= b + 1 PROVE S[k] = seps0[k]
    OBVIOUS
  <2>1. k = a + 1 \/ k = b + 1 \/ k \notin a + 1 .. b + 1
    BY <1>3
  <2> QED
    BY <1>13, <1>14, <2>1
<1>16. S \in [1 .. m + 1 -> Nat]
  <2>1. ASSUME NEW k \in 1 .. m + 1 PROVE S[k] \in Nat
    <3>1. CASE k \in a + 1 .. b + 1
      <4>1. I[k - a] \in Nat
        BY <1>1, <1>9, <3>1
      <4> QED
        BY <1>8, <1>12, <3>1, <4>1
    <3>2. CASE k \notin a + 1 .. b + 1
      BY <1>2, <1>13, <3>2
    <3> QED
      BY <3>1, <3>2
  <2>2. S = [k \in DOMAIN S |-> S[k]] /\ DOMAIN S = 1 .. m + 1
    BY <1>5, <1>11
  <2> QED
    BY <2>1, <2>2
<1>17. ASSUME NEW p \in 1 .. Len(values)
       PROVE  V[p] = IF p - c \in 1 .. T THEN w[p - c] ELSE values[p]
  <2>1. T - 0 = T /\ 0 + p - c = p - c
    <3>1. T \in Nat
      BY <1>1, <1>8
    <3> QED
      BY <1>2, <1>8, <3>1
  <2>2. V[p] = IF p - ViewSeps[1] \in 1 .. Last(s) - s[1] THEN w[s[1] + p - ViewSeps[1]] ELSE values[p]
    BY <1>5, <1>11
  <2> QED
    BY <1>6, <1>7, <1>8, <2>1, <2>2
<1>18. V \in Seq(Elements) /\ Len(V) = Len(values)
  <2>1. ASSUME NEW p \in 1 .. Len(values) PROVE V[p] \in Elements
    <3>1. CASE p - c \in 1 .. T
      <4>1. p - c \in 1 .. Len(w)
        BY <1>1, <1>4, <1>8, <3>1
      <4> QED
        BY <1>4, <1>17, <3>1, <4>1
    <3>2. CASE p - c \notin 1 .. T
      BY <1>2, <1>17, <3>2
    <3> QED
      BY <3>1, <3>2
  <2>2. V = [p \in DOMAIN V |-> V[p]] /\ DOMAIN V = 1 .. Len(values)
    BY <1>5, <1>11
  <2>3. V \in [1 .. Len(values) -> Elements]
    BY <2>1, <2>2
  <2> QED
    BY <1>2, <2>3
<1> QED
  BY <1>12, <1>15, <1>16, <1>17, <1>18 DEF a, b, c, T, I, w, m, S, V

\* The blocks that are reordered, and the others.
Reordered(k) == IF k \in view[1] + 1 .. view[2] THEN Moved(k - view[1]) ELSE k

LEMMA AssignsBlocks ==
  ASSUME RangeOK, CallOK, CopyOK, AssignCopy
  PROVE  /\ RangeOK' /\ NBlocks' = NBlocks
         /\ \A k \in 1 .. NBlocks : BlockIn(values', seps0', k) = BlockIn(values, seps0, Reordered(k))
<1> DEFINE a == view[1]
           b == view[2]
           n == ViewSize
           I == CopyIndices
           z == CopySizes
           T == CopyIndices[ViewSize + 1]
           c == seps0[view[1] + 1]
           w == copy.values
           m == NBlocks
           S == seps0'
           V == values'
           s == seps0
           v == values
           M(k) == Moved(k)
<1>1. /\ n \in Nat /\ z \in [1 .. n -> Nat] /\ I \in [1 .. n + 1 -> Nat]
      /\ \A k \in 1 .. n : I[k + 1] = I[k] + z[k]
      /\ \A j, k \in 1 .. n + 1 : j <= k => I[j] <= I[k]
      /\ T = s[b + 1] - c /\ a + 1 \in 1 .. m + 1 /\ b + 1 \in 1 .. m + 1
  BY CopyFact
<1>2. /\ Len(v) \in Nat /\ m \in Nat /\ Len(s) = m + 1 /\ s \in [1 .. m + 1 -> Nat]
      /\ s[1] = 0 /\ s[m + 1] = Len(v)
      /\ (\A k \in 1 .. m + 1 : s[k] <= Len(v)) /\ \A j, k \in 1 .. m + 1 : j <= k => s[j] <= s[k]
  BY RangeFact
<1>3. /\ \A k \in a + 1 .. b + 1 : S[k] = I[k - a] + c
      /\ \A k \in 1 .. m + 1 : k <= a + 1 \/ k >= b + 1 => S[k] = s[k]
      /\ S \in [1 .. m + 1 -> Nat] /\ V \in Seq(Elements) /\ Len(V) = Len(v)
      /\ \A p \in 1 .. Len(v) : V[p] = IF p - c \in 1 .. T THEN w[p - c] ELSE v[p]
  BY AssignedSeparators
<1>4. a \in 0 .. m /\ b \in 0 .. m /\ a <= b /\ n = b - a
  BY DEF CallOK, ViewSize
<1>5. \A k \in 1 .. n : \A j \in 1 .. z[k] : w[I[k] + j] = v[s[M(k)] + j]
  <2>1. copied = n
    <3>1. perm \in [1 .. n -> 0 .. n - 1] /\ copied = Len(perm)
      BY DEF CallOK, AssignCopy
    <3> HIDE DEF n
    <3> QED
      BY <1>1, <3>1
  <2> QED
    BY <2>1 DEF CopyOK
<1>6. z = [k \in 1 .. n |-> s[M(k) + 1] - s[M(k)]]
  BY DEF CopySizes
<1>7. \A k : Reordered(k) = IF k \in a + 1 .. b THEN M(k - a) ELSE k
  BY DEF Reordered
<1>8. seps1' = seps1 /\ IsSeparators(seps1, m)
  BY DEF AssignCopy, RangeOK
<1>9. T = I[n + 1] /\ c \in Nat /\ c = s[a + 1]
  BY <1>1, <1>2
<1> HIDE DEF a, b, n, I, z, T, c, w, m, S, V, s, v, M
<1>10. \A k \in 1 .. m : k \in 1 .. m + 1 /\ k + 1 \in 1 .. m + 1 /\ k <= k + 1
  BY <1>2
<1>11. \A k \in a + 1 .. b : /\ k - a \in 1 .. n /\ k \in a + 1 .. b + 1 /\ k + 1 \in a + 1 .. b + 1
                             /\ (k + 1) - a = (k - a) + 1 /\ k - a \in 1 .. n + 1 /\ (k - a) + 1 \in 1 .. n + 1
  BY <1>4
\* The separators of a block that is reordered.
<1>12. ASSUME NEW k \in a + 1 .. b
       PROVE  LET i == k - a
              IN  /\ S[k] = I[i] + c /\ S[k + 1] = (I[i] + z[i]) + c
                  /\ I[i] \in Nat /\ z[i] \in Nat /\ I[i] + z[i] <= T
  <2> DEFINE i == k - a
  <2>1. i \in 1 .. n /\ i \in 1 .. n + 1 /\ i + 1 \in 1 .. n + 1 /\ (k + 1) - a = i + 1
    BY <1>11
  <2>2. S[k] = I[i] + c /\ S[k + 1] = I[i + 1] + c
    BY <1>3, <1>11, <2>1
  <2> HIDE DEF i
  <2>3. I[i] \in Nat /\ z[i] \in Nat /\ I[i + 1] = I[i] + z[i]
    BY <1>1, <2>1
  <2>4. I[i + 1] <= I[n + 1]
    <3>1. i + 1 <= n + 1 /\ n + 1 \in 1 .. n + 1
      BY <1>1, <2>1
    <3> QED
      BY <1>1, <2>1, <3>1
  <2> QED
    BY <1>9, <2>2, <2>3, <2>4 DEF i
\* Those of another one are before the view, or after it.
<1>13. ASSUME NEW k \in 1 .. m, k \notin a + 1 .. b
       PROVE  /\ S[k] = s[k] /\ S[k + 1] = s[k + 1] /\ s[k] \in Nat /\ s[k + 1] \in Nat /\ s[k] <= s[k + 1]
              /\ s[k + 1] <= Len(v) /\ (s[k + 1] <= c \/ s[k] >= c + T)
  <2>1. k \in 1 .. m + 1 /\ k + 1 \in 1 .. m + 1 /\ (k + 1 <= a + 1 \/ b + 1 <= k)
    BY <1>2, <1>4, <1>13
  <2>2. s[k] \in Nat /\ s[k + 1] \in Nat /\ s[k] <= s[k + 1] /\ s[k + 1] <= Len(v)
    BY <1>2, <1>10
  <2>3. CASE k + 1 <= a + 1
    <3>1. k <= a + 1
      BY <1>2, <1>4, <2>3
    <3>2. s[k + 1] <= s[a + 1]
      BY <1>1, <1>2, <2>1, <2>3
    <3> QED
      BY <1>3, <1>9, <2>1, <2>2, <2>3, <3>1, <3>2
  <2>4. CASE b + 1 <= k
    <3>1. k >= b + 1 /\ k + 1 >= b + 1
      BY <1>2, <1>4, <2>4
    <3>2. s[b + 1] <= s[k] /\ s[b + 1] \in Nat
      BY <1>1, <1>2, <2>1, <2>4
    <3>3. s[k] >= c + T
      BY <1>1, <1>9, <2>2, <3>2, SMTT(30)
    <3> QED
      BY <1>3, <2>1, <2>2, <3>1, <3>3
  <2> QED
    BY <2>1, <2>3, <2>4
<1>14. IsSeparators(S, Len(V)) /\ Len(S) = m + 1
  <2>1. \A k \in 1 .. (m + 1) - 1 : S[k] <= S[k + 1]
    <3> SUFFICES ASSUME NEW k \in 1 .. m PROVE S[k] <= S[k + 1]
      BY <1>2
    <3>1. CASE k \in a + 1 .. b
      <4> DEFINE x == I[k - a]
                 y == z[k - a]
      <4>1. S[k] = x + c /\ S[k + 1] = (x + y) + c /\ x \in Nat /\ y \in Nat
        BY <1>12, <3>1
      <4> HIDE DEF x, y
      <4> QED
        BY <1>9, <4>1
    <3>2. CASE k \notin a + 1 .. b
      BY <1>13, <3>2
    <3> QED
      BY <3>1, <3>2
  <2>2. S[1] = 0 /\ S[m + 1] = Len(V)
    <3>1. 1 \in 1 .. m + 1 /\ m + 1 \in 1 .. m + 1 /\ 1 <= a + 1 /\ m + 1 >= b + 1
      BY <1>2, <1>4
    <3> QED
      BY <1>2, <1>3, <3>1
  <2>3. m + 1 \in Nat \ {0}
    BY <1>2
  <2> QED
    BY <1>3, <2>1, <2>2, <2>3, SeparatorsAre
<1>15. ASSUME NEW k \in 1 .. m, k \notin a + 1 .. b PROVE BlockIn(V, S, k) = BlockIn(v, s, k)
  <2>1. ASSUME NEW j \in 1 .. s[k + 1] - s[k] PROVE V[s[k] + j] = v[s[k] + j]
    <3> DEFINE x == s[k]
               y == s[k + 1]
               l == Len(v)
    <3>1. /\ x \in Nat /\ y \in Nat /\ y <= l /\ (y <= c \/ x >= c + T) /\ j \in 1 .. y - x
          /\ c \in Nat /\ T \in Nat /\ l \in Nat
      <4>1. T \in Nat
        BY <1>1, <1>9
      <4> QED
        BY <1>2, <1>9, <1>13, <1>15, <4>1
    <3> HIDE DEF x, y, l
    <3>2. x + j \in 1 .. l /\ (x + j) - c \notin 1 .. T
      BY <3>1
    <3> QED
      BY <1>3, <3>2 DEF x, l
  <2>2. S[k] = s[k] /\ S[k + 1] = s[k + 1]
    BY <1>13, <1>15
  <2> QED
    BY <2>1, <2>2, SameBlock
<1>16. ASSUME NEW k \in a + 1 .. b PROVE BlockIn(V, S, k) = BlockIn(v, s, M(k - a))
  <2> DEFINE i == k - a
             x == I[i]
             y == z[i]
             q == s[M(i)]
             l == Len(v)
  <2>1. S[k] = x + c /\ S[k + 1] = (x + y) + c /\ x \in Nat /\ y \in Nat /\ x + y <= T
    BY <1>12
  <2>2. i \in 1 .. n /\ c + T <= l /\ c \in Nat /\ T \in Nat /\ l \in Nat
    <3>1. s[b + 1] \in Nat /\ s[b + 1] <= Len(v) /\ T \in Nat
      BY <1>1, <1>2, <1>9
    <3> QED
      BY <1>1, <1>2, <1>9, <1>11, <3>1, SMTT(30)
  <2>3. y = s[M(i) + 1] - q
    <3> HIDE DEF i
    <3> QED
      BY <1>6, <2>2
  <2>4. \A j \in 1 .. y : w[x + j] = v[q + j]
    BY <1>5, <2>2
  <2> HIDE DEF i, x, y, q, l
  <2>5. S[k + 1] - S[k] = y /\ \A j \in 1 .. y : /\ (x + c) + j \in 1 .. l /\ ((x + c) + j) - c = x + j
                                               /\ x + j \in 1 .. T
    BY <2>1, <2>2
  <2>6. BlockIn(V, S, k) = [j \in 1 .. y |-> V[(x + c) + j]]
    BY <2>1, <2>5 DEF BlockIn
  <2>7. \A j \in 1 .. y : V[(x + c) + j] = v[q + j]
    BY <1>3, <2>4, <2>5 DEF l
  <2>8. BlockIn(v, s, M(i)) = [j \in 1 .. y |-> v[q + j]]
    BY <2>3 DEF BlockIn, q
  <2>9. BlockIn(V, S, k) = BlockIn(v, s, M(i))
    BY <2>6, <2>7, <2>8
  <2> QED
    BY <2>9 DEF i
<1>17. \A k \in 1 .. m : BlockIn(V, S, k) = BlockIn(v, s, Reordered(k))
  BY <1>7, <1>15, <1>16
<1>18. NBlocks' = m
  BY <1>2, <1>14 DEF NBlocks, S
<1>19. RangeOK'
  BY <1>3, <1>8, <1>14, <1>18 DEF RangeOK, S, V
<1> QED
  BY <1>17, <1>18, <1>19 DEF V, S, v, s, m

\* The copy starts at 0.
LEMMA CopyStarts == RangeOK /\ CallOK => CopyIndices[1] = 0
BY CopyFact

\* What is called for a permutation of the blocks of a view.
LEMMA CallsPermute ==
  ASSUME RangeOK, NEW v \in Views, NEW p \in Permutations0(v[2] - v[1]), CallPermute(v, p)
  PROVE  RangeOK' /\ CallOK' /\ CopyOK'
<1> DEFINE n == v[2] - v[1]
<1>1. /\ values \in Seq(Elements) /\ Len(values) \in Nat /\ NBlocks \in Nat /\ Len(seps0) = NBlocks + 1
      /\ IsSeparators(seps1, NBlocks)
  BY RangeFact DEF RangeOK
<1>2. /\ values' = values /\ seps0' = seps0 /\ seps1' = seps1 /\ view' = v /\ perm' = p /\ copied' = 0
      /\ copy' = [values |-> [k \in DOMAIN values |-> 0], seps |-> [k \in 1 .. n + 1 |-> 0]]
  BY DEF CallPermute, rangeData
<1>3. v[1] \in 0 .. NBlocks /\ v[2] \in 0 .. NBlocks /\ v[1] <= v[2]
  <2>1. CASE v = <<0, Len(seps0) - 1>>
    BY <1>1, <2>1
  <2>2. CASE v \in {<<seps1[g], seps1[g + 1]>> : g \in 1 .. Len(seps1) - 1}
    <3>1. PICK g \in 1 .. Len(seps1) - 1 : v = <<seps1[g], seps1[g + 1]>>
      BY <2>2
    <3>2. /\ Len(seps1) \in Nat \ {0} /\ \A k \in 1 .. Len(seps1) : seps1[k] \in Nat /\ seps1[k] <= NBlocks
          /\ \A j, k \in 1 .. Len(seps1) : j <= k => seps1[j] <= seps1[k]
      BY <1>1, SeparatorsFact
    <3>3. g \in 1 .. Len(seps1) /\ g + 1 \in 1 .. Len(seps1) /\ g <= g + 1
      BY <3>2
    <3>4. seps1[g] \in 0 .. NBlocks /\ seps1[g + 1] \in 0 .. NBlocks /\ seps1[g] <= seps1[g + 1]
      BY <1>1, <3>2, <3>3
    <3> QED
      BY <3>1, <3>4
  <2> QED
    BY <2>1, <2>2 DEF Views
<1>4. n \in Nat
  BY <1>1, <1>3
<1> HIDE DEF n
<1>5. p \in [1 .. n -> 0 .. n - 1] /\ \A i, j \in 1 .. n : i # j => p[i] # p[j]
  <2>1. PICK q \in Bijection(1 .. n, 1 .. n) : p = [k \in 1 .. n |-> q[k] - 1]
    BY DEF Permutations0, n
  <2>2. q \in [1 .. n -> 1 .. n] /\ \A i, j \in 1 .. n : q[i] = q[j] => i = j
    BY DEF Bijection, Injection, IsInjective
  <2>3. \A k \in 1 .. n : q[k] \in 1 .. n /\ q[k] - 1 \in 0 .. n - 1 /\ p[k] = q[k] - 1
    BY <1>4, <2>1, <2>2
  <2>4. ASSUME NEW i \in 1 .. n, NEW j \in 1 .. n, i # j PROVE p[i] # p[j]
    BY <2>2, <2>3, <2>4
  <2> QED
    BY <2>1, <2>3, <2>4
<1>6. ViewSize' = n /\ NBlocks' = NBlocks
  BY <1>2 DEF ViewSize, NBlocks, n
<1>7. RangeOK'
  BY <1>2, <1>6 DEF RangeOK
<1>8. CallOK'
  BY <1>2, <1>3, <1>5, <1>6 DEF CallOK
<1>9. (CopyIndices[1] = 0)'
  BY <1>7, <1>8, CopyStarts, PTL
<1>10. CopyOK'
  <2> DEFINE m == Len(values)
             V == [k \in 1 .. m |-> 0]
             S == [k \in 1 .. n + 1 |-> 0]
  <2>1. copy'.values = V /\ copy'.seps = S
    BY <1>1, <1>2
  <2>2. V \in Seq(Elements) /\ Len(V) = m
    <3>1. V \in [1 .. m -> Elements]
      BY DEF Elements
    <3> QED
      BY <1>1, <3>1
  <2>3. S \in [1 .. n + 1 -> Nat] /\ S[1] = 0
    BY <1>4
  <2>4. copied' \in 0 .. n /\ 1 .. copied' = {} /\ 1 .. copied' + 1 = {1}
    BY <1>2, <1>4
  <2> HIDE DEF V, S
  <2>5. Len(values') = m
    BY <1>2
  <2> QED
    BY <1>6, <1>9, <2>1, <2>2, <2>3, <2>4, <2>5 DEF CopyOK
<1> QED
  BY <1>7, <1>8, <1>10

----------------------------------------------------------------------------
(* The invariant is inductive. *)

LEMMA JaggedRangeInvInit == JaggedRangeInit => JaggedRangeInv
<1> SUFFICES ASSUME JaggedRangeInit PROVE JaggedRangeInv
  OBVIOUS
<1>1. /\ work = "idle" /\ values = <<>> /\ seps0 = <<0>> /\ seps1 = <<0>>
  BY DEF JaggedRangeInit
<1>2. IsSeparators(<<0>>, 0)
  BY DEF IsSeparators
<1>3. NBlocks = 0 /\ Len(values) = 0 /\ values \in Seq(Elements)
  BY <1>1 DEF NBlocks
<1> QED
  BY <1>1, <1>2, <1>3 DEF JaggedRangeInv, RangeOK

\* A step that does not call unique keeps the separators those of the values.
LEMMA JaggedRangeInvStep == JaggedRangeInv /\ [JaggedRangeNext]_jaggedRangeVars => JaggedRangeInv'
<1> SUFFICES ASSUME JaggedRangeInv, [JaggedRangeNext]_jaggedRangeVars PROVE JaggedRangeInv'
  OBVIOUS
<1>1. /\ work \in {"idle", "permute", "unique", "kept"}
      /\ work \in {"idle", "permute"} => RangeOK
      /\ work = "permute" => CallOK /\ CopyOK
  BY DEF JaggedRangeInv
<1>2. CASE Modify
  <2>1. work = "idle" /\ work' = "idle" /\ RangeOK
    BY <1>1, <1>2 DEF Modify, callVars
  <2>2. RangeOK'
    <3>1. CASE Separator1
      BY <2>1, <3>1, AddsGroup
    <3>2. CASE Separator0
      BY <2>1, <3>2, AddsBlock
    <3>3. ASSUME NEW v \in Values, PushBack(v) PROVE RangeOK'
      BY <2>1, <3>3, AddsValue
    <3>4. ASSUME NEW i \in 0 .. NBlocks - 1, NEW b \in [1 .. Len(BlockAt(AllBlocks, i)) -> Values],
                 AssignBlock(i, b)
          PROVE  RangeOK'
      BY <2>1, <3>4, ReplacesBlock
    <3> QED
      BY <1>2, <3>1, <3>2, <3>3, <3>4 DEF Modify
  <2> QED
    BY <2>1, <2>2 DEF JaggedRangeInv
<1>3. ASSUME NEW v \in Views, NEW p \in Permutations0(v[2] - v[1]), CallPermute(v, p)
      PROVE  JaggedRangeInv'
  <2>1. work = "idle" /\ work' = "permute" /\ RangeOK
    BY <1>1, <1>3 DEF CallPermute
  <2>2. RangeOK' /\ CallOK' /\ CopyOK'
    BY <1>3, <2>1, CallsPermute
  <2> QED
    BY <2>1, <2>2 DEF JaggedRangeInv
<1>4. CASE CopyBlock
  <2>1. work = "permute" /\ work' = "permute" /\ RangeOK /\ CallOK /\ CopyOK
    BY <1>1, <1>4 DEF CopyBlock
  <2>2. RangeOK' /\ CallOK' /\ CopyOK'
    BY <1>4, <2>1, CopiesBlock
  <2> QED
    BY <2>1, <2>2 DEF JaggedRangeInv
<1>5. CASE AssignCopy
  <2>1. work = "permute" /\ work' = "idle" /\ RangeOK /\ CallOK /\ CopyOK
    BY <1>1, <1>5 DEF AssignCopy
  <2>2. RangeOK'
    BY <1>5, <2>1, AssignsBlocks
  <2> QED
    BY <2>1, <2>2 DEF JaggedRangeInv
<1>6. CASE CallUnique
  <2>1. work' \in {"unique", "kept"}
    BY <1>6 DEF CallUnique
  <2> QED
    BY <2>1 DEF JaggedRangeInv
<1>7. CASE UniqueStep
  <2>1. work' \in {"unique", "kept"}
    BY <1>7 DEF UniqueStep
  <2> QED
    BY <2>1 DEF JaggedRangeInv
<1>8. CASE UNCHANGED jaggedRangeVars
  <2>1. /\ values' = values /\ seps0' = seps0 /\ seps1' = seps1 /\ work' = work /\ view' = view
        /\ perm' = perm /\ copied' = copied /\ copy' = copy
    BY <1>8 DEF jaggedRangeVars, rangeData, callVars
  <2>2. NBlocks' = NBlocks /\ ViewSize' = ViewSize /\ CopySizes' = CopySizes /\ CopyIndices' = CopyIndices
    BY <2>1 DEF NBlocks, ViewSize, CopySizes, CopyIndices, Moved
  <2>3. \A k : Moved(k)' = Moved(k)
    BY <2>1 DEF Moved
  <2>4. RangeOK => RangeOK'
    BY <2>1, <2>2 DEF RangeOK
  <2>5. CallOK => CallOK'
    BY <2>1, <2>2 DEF CallOK
  <2>6. CopyOK => CopyOK'
    BY <2>1, <2>2, <2>3, Zenon DEF CopyOK
  <2> QED
    BY <1>1, <2>1, <2>4, <2>5, <2>6, Zenon DEF JaggedRangeInv
<1> QED
  BY <1>2, <1>3, <1>4, <1>5, <1>6, <1>7, <1>8 DEF JaggedRangeNext

THEOREM JaggedRangeInvariant == JaggedRangeSpec => []JaggedRangeInv
BY JaggedRangeInvInit, JaggedRangeInvStep, PTL DEF JaggedRangeSpec

----------------------------------------------------------------------------
(* The refinement: the blocks that the range shows are those of the          *)
(* specification of a vector of vectors.                                     *)

Shown == IF work \in {"unique", "kept"} THEN before ELSE BlocksOf(AllBlocks)

LEMMA ShownFact ==
  ASSUME RangeOK, work \in {"idle", "permute"}
  PROVE  Shown = BlocksIn(values, seps0) /\ DOMAIN BlocksIn(values, seps0) = 1 .. NBlocks
<1>1. values \in Seq(Elements) /\ IsSeparators(seps0, Len(values))
  BY DEF RangeOK
<1>2. /\ BlocksOf([values |-> values, seps |-> seps0, off |-> 0]) = BlocksIn(values, seps0)
      /\ DOMAIN BlocksIn(values, seps0) = 1 .. Len(seps0) - 1
  BY <1>1, BlocksAre, BlocksType
<1> QED
  BY <1>2 DEF Shown, AllBlocks, NBlocks

LEMMA ShownNextFact ==
  ASSUME RangeOK', work' \in {"idle", "permute"}
  PROVE  Shown' = BlocksIn(values', seps0')
<1>1. values' \in Seq(Elements) /\ IsSeparators(seps0', Len(values'))
  BY DEF RangeOK
<1>2. BlocksOf([values |-> values', seps |-> seps0', off |-> 0]) = BlocksIn(values', seps0')
  BY <1>1, BlocksAre
<1> QED
  BY <1>2 DEF Shown, AllBlocks

\* Reordered, from the blocks of the view to themselves.
LEMMA ReorderedFact ==
  ASSUME RangeOK, CallOK, ViewSize # 0
  PROVE  LET p == [k \in view[1] + 1 .. view[2] |-> Reordered(k)]
         IN  /\ p \in Bijection(view[1] + 1 .. view[2], view[1] + 1 .. view[2])
             /\ view[1] + 1 \in 1 .. NBlocks /\ view[2] \in 1 .. NBlocks
<1> DEFINE a == view[1]
           b == view[2]
           n == ViewSize
           X == a + 1 .. b
           p == [k \in X |-> Reordered(k)]
<1>1. NBlocks \in Nat
  BY RangeFact
<1>2. /\ a \in 0 .. NBlocks /\ b \in 0 .. NBlocks /\ a <= b /\ n = b - a
      /\ perm \in [1 .. n -> 0 .. n - 1] /\ \A i, j \in 1 .. n : i # j => perm[i] # perm[j]
      /\ n # 0
  BY DEF CallOK, ViewSize
<1>3. \A k \in X : p[k] = a + perm[k - a] + 1
  BY DEF Reordered, Moved
<1> HIDE DEF a, b, n, p
<1>4. n \in Nat /\ \A k \in X : k - a \in 1 .. n
  BY <1>1, <1>2
<1>5. \A k \in X : perm[k - a] \in 0 .. n - 1
  BY <1>2, <1>4
<1>6. p \in [X -> X]
  <2>1. ASSUME NEW k \in X PROVE p[k] \in X
    <3> DEFINE q == perm[k - a]
    <3>1. q \in 0 .. n - 1 /\ p[k] = a + q + 1
      BY <1>3, <1>5
    <3> HIDE DEF q
    <3> QED
      BY <1>2, <3>1
  <2>2. p = [k \in DOMAIN p |-> p[k]] /\ DOMAIN p = X
    BY DEF p
  <2> QED
    BY <2>1, <2>2
<1>7. ASSUME NEW i \in X, NEW j \in X, p[i] = p[j] PROVE i = j
  <2> DEFINE x == perm[i - a]
             y == perm[j - a]
  <2>1. x \in 0 .. n - 1 /\ y \in 0 .. n - 1 /\ a + x + 1 = a + y + 1
    BY <1>3, <1>5, <1>7
  <2>2. i - a \in 1 .. n /\ j - a \in 1 .. n
    BY <1>4
  <2>3. x = y => i - a = j - a
    BY <1>2, <2>2
  <2> HIDE DEF x, y
  <2>4. x = y
    <3>1. x \in Int /\ y \in Int /\ a \in Int
      BY <1>1, <1>2, <1>4, <2>1
    <3> QED
      BY <2>1, <3>1
  <2>5. i \in Int /\ j \in Int /\ a \in Int
    BY <1>2
  <2> QED
    BY <2>3, <2>4, <2>5
<1>8. ASSUME NEW k \in X PROVE \E i \in X : p[i] = k
  <2>1. k - (a + 1) \in 0 .. n - 1
    BY <1>2
  <2>2. \A l \in 0 .. n - 1 : \E j \in 1 .. n : perm[j] = l
    <3>1. /\ n \in Nat /\ perm \in [1 .. n -> 0 .. n - 1]
          /\ \A i, j \in 1 .. n : i # j => perm[i] # perm[j]
      BY <1>2, <1>4
    <3> HIDE DEF X
    <3> QED
      BY <3>1, PermutationOnto
  <2>3. PICK j \in 1 .. n : perm[j] = k - (a + 1)
    BY <2>1, <2>2
  <2>4. a + j \in X /\ (a + j) - a = j
    BY <1>2, <2>3
  <2>5. p[a + j] = a + (k - (a + 1)) + 1
    BY <1>3, <2>3, <2>4
  <2>6. a + (k - (a + 1)) + 1 = k
    BY <1>2
  <2> QED
    BY <2>4, <2>5, <2>6
<1>9. p \in Bijection(X, X)
  <2>1. p \in Injection(X, X)
    BY <1>6, <1>7 DEF Injection, IsInjective
  <2>2. p \in Surjection(X, X)
    BY <1>6, <1>8 DEF Surjection
  <2> QED
    BY <2>1, <2>2 DEF Bijection
<1>10. a + 1 \in 1 .. NBlocks /\ b \in 1 .. NBlocks
  BY <1>1, <1>2
<1> QED
  BY <1>9, <1>10 DEF a, b, p


\* A step of the range is one of the vector of vectors, or shows the same blocks.
LEMMA ShownStep ==
  ASSUME JaggedRangeInv, JaggedRangeInv', [JaggedRangeNext]_jaggedRangeVars
  PROVE  [AsBlocks!BlocksNext]_<<Shown, IntervalLengths(seps1)>>
<1> DEFINE B == BlocksIn(values, seps0)
           G == IntervalLengths(seps1)
           Same == Shown' = Shown /\ G' = G
<1>1. /\ work \in {"idle", "permute"} => RangeOK
      /\ work = "permute" => CallOK /\ CopyOK
      /\ work' \in {"idle", "permute"} => RangeOK'
  BY DEF JaggedRangeInv
<1>2. CASE Modify
  <2>1. work = "idle" /\ work' = "idle" /\ RangeOK /\ RangeOK'
    BY <1>1, <1>2 DEF Modify, callVars
  <2>2. Shown = B /\ DOMAIN B = 1 .. NBlocks /\ Shown' = B'
    BY <2>1, ShownFact, ShownNextFact
  <2>3. ASSUME Separator1 PROVE AsBlocks!AddGroup
    <3>1. B' = B /\ G' = Append(G, 0)
      BY <2>1, <2>3, AddsGroup
    <3>2. Shown' = Shown
      BY <2>2, <3>1
    <3> QED
      BY <3>1, <3>2 DEF AsBlocks!AddGroup, Shown
  <2>4. ASSUME Separator0 PROVE Shown' # <<>> /\ AsBlocks!AddBlock(Shown'[Len(Shown')])
    <3>1. B' = Append(B, <<>>) /\ G # <<>> /\ G' = [G EXCEPT ![Len(G)] = @ + 1]
      BY <2>1, <2>4, AddsBlock
    <3>2. B \in Seq(Seq(Elements))
      BY <2>1, BlocksType DEF RangeOK
    <3> HIDE DEF B, G
    <3>3. Shown' = Append(Shown, <<>>) /\ Shown' # <<>> /\ Shown'[Len(Shown')] = <<>>
      <4>1. B' \in Seq(Seq(Elements)) /\ Len(B') = Len(B) + 1 /\ B'[Len(B) + 1] = <<>> /\ Len(B) \in Nat
        BY <3>1, <3>2
      <4> QED
        BY <2>2, <3>1, <4>1
    <3> QED
      BY <3>1, <3>3 DEF AsBlocks!AddBlock, Shown, G
  <2>5. ASSUME NEW v \in Values, PushBack(v) PROVE AsBlocks!AddValue(v)
    <3>1. B # <<>> /\ seps1' = seps1 /\ B' = [B EXCEPT ![Len(B)] = Append(@, v)]
      BY <2>1, <2>5, AddsValue
    <3>2. Shown # <<>> /\ G' = G /\ Shown' = [Shown EXCEPT ![Len(Shown)] = Append(@, v)]
      BY <2>2, <3>1
    <3> QED
      BY <3>2 DEF AsBlocks!AddValue, Shown
  <2>6. ASSUME NEW i \in 0 .. NBlocks - 1, NEW b \in [1 .. Len(BlockAt(AllBlocks, i)) -> Values],
               AssignBlock(i, b)
        PROVE  \E k \in DOMAIN Shown : Len(Shown') = Len(Shown) /\ AsBlocks!Replace(k, Shown'[k])
    <3>1. /\ seps1' = seps1 /\ i + 1 \in DOMAIN B /\ Len(b) = Len(B[i + 1])
          /\ B' = [B EXCEPT ![i + 1] = b]
      BY <2>1, <2>6, ReplacesBlock
    <3>2. NBlocks \in Nat
      BY <2>1, RangeFact
    <3> HIDE DEF B
    <3>3. Len(B') = Len(B) /\ B'[i + 1] = b
      <4>1. DOMAIN B' = 1 .. NBlocks /\ B'[i + 1] = b
        BY <2>2, <3>1
      <4> QED
        BY <2>2, <3>2, <4>1
    <3>4. /\ i + 1 \in DOMAIN Shown /\ Len(Shown') = Len(Shown) /\ Shown'[i + 1] = b
          /\ Len(b) = Len(Shown[i + 1]) /\ Shown' = [Shown EXCEPT ![i + 1] = b] /\ G' = G
      BY <2>2, <3>1, <3>3
    <3>5. AsBlocks!Replace(i + 1, b)
      BY <3>4 DEF AsBlocks!Replace, Shown
    <3> QED
      BY <3>4, <3>5
  <2>7. CASE Separator1
    BY <2>3, <2>7 DEF AsBlocks!BlocksNext, Shown
  <2>8. CASE Separator0
    BY <2>4, <2>8 DEF AsBlocks!BlocksNext, Shown
  <2>9. CASE \E v \in Values : PushBack(v)
    BY <2>5, <2>9 DEF AsBlocks!BlocksNext, Shown
  <2>10. CASE \E i \in 0 .. NBlocks - 1 : \E b \in [1 .. Len(BlockAt(AllBlocks, i)) -> Values] : AssignBlock(i, b)
    BY <2>6, <2>10 DEF AsBlocks!BlocksNext, Shown
  <2> QED
    BY <1>2, <2>7, <2>8, <2>9, <2>10 DEF Modify
<1>3. ASSUME NEW v \in Views, NEW p \in Permutations0(v[2] - v[1]), CallPermute(v, p)
      PROVE  Same
  BY <1>3 DEF CallPermute, rangeData, Shown, AllBlocks
<1>4. CASE CopyBlock
  BY <1>4 DEF CopyBlock, rangeData, Shown, AllBlocks
<1>5. CASE AssignCopy
  <2>1. work = "permute" /\ work' = "idle" /\ RangeOK /\ RangeOK' /\ CallOK /\ CopyOK /\ seps1' = seps1
    BY <1>1, <1>5 DEF AssignCopy
  <2>2. Shown = B /\ DOMAIN B = 1 .. NBlocks /\ Shown' = B'
    BY <2>1, ShownFact, ShownNextFact
  <2>3. /\ NBlocks' = NBlocks
        /\ \A k \in 1 .. NBlocks : BlockIn(values', seps0', k) = BlockIn(values, seps0, Reordered(k))
    BY <1>5, <2>1, AssignsBlocks
  <2>4. /\ NBlocks \in Nat /\ Len(seps0) - 1 = NBlocks /\ Len(seps0') - 1 = NBlocks
    BY <2>1, <2>3, RangeFact DEF NBlocks
  <2>5. \A k \in 1 .. NBlocks : Reordered(k) \in 1 .. NBlocks
    <3>1. NBlocks \in Nat /\ \A k \in 1 .. ViewSize : Moved(k) \in 1 .. NBlocks
      BY <2>1, <2>4, CopyFact
    <3>2. view[1] \in 0 .. NBlocks /\ view[2] \in 0 .. NBlocks /\ ViewSize = view[2] - view[1]
      BY <2>1 DEF CallOK, ViewSize
    <3>3. \A k \in view[1] + 1 .. view[2] : k - view[1] \in 1 .. ViewSize
      BY <3>1, <3>2
    <3> QED
      BY <3>1, <3>3 DEF Reordered
  <2>6. B' = [k \in 1 .. NBlocks |-> B[Reordered(k)]]
    <3>1. B' = [k \in 1 .. NBlocks |-> BlockIn(values', seps0', k)]
      BY <2>4 DEF BlocksIn
    <3>2. \A k \in 1 .. NBlocks : B[k] = BlockIn(values, seps0, k)
      BY <2>4 DEF BlocksIn
    <3> HIDE DEF B
    <3> QED
      BY <2>3, <2>5, <3>1, <3>2
  <2> HIDE DEF B
  <2>7. CASE ViewSize = 0
    <3>1. view[1] + 1 .. view[2] = {}
      <4>1. view[1] \in Int /\ view[2] \in Int /\ view[2] - view[1] = 0
        BY <2>1, <2>4, <2>7 DEF CallOK, ViewSize
      <4> QED
        BY <4>1
    <3>2. B' = [k \in 1 .. NBlocks |-> B[k]]
      BY <2>6, <3>1 DEF Reordered
    <3>3. B = [k \in DOMAIN B |-> B[k]]
      BY DEF B, BlocksIn
    <3> QED
      BY <2>1, <2>2, <3>2, <3>3
  <2>8. CASE ViewSize # 0
    <3> DEFINE X == view[1] + 1 .. view[2]
               p == [k \in X |-> Reordered(k)]
    <3>1. p \in Bijection(X, X) /\ view[1] + 1 \in 1 .. NBlocks /\ view[2] \in 1 .. NBlocks
      BY <2>1, <2>8, ReorderedFact
    <3>2. B' = [k \in DOMAIN B |-> IF k \in X THEN B[p[k]] ELSE B[k]]
      BY <2>2, <2>6 DEF Reordered
    <3> HIDE DEF p
    <3>3. Shown' = [k \in DOMAIN Shown |-> IF k \in X THEN Shown[p[k]] ELSE Shown[k]]
      BY <2>2, <3>2
    <3>4. \E q \in Bijection(X, X) :
            Shown' = [k \in DOMAIN Shown |-> IF k \in X THEN Shown[q[k]] ELSE Shown[k]]
      BY <3>1, <3>3
    <3>5. AsBlocks!Reorder(view[1] + 1, view[2])
      <4>1. G' = G
        BY <2>1
      <4>2. AsBlocks!Bijection(X, X) = Bijection(X, X)
        BY DEF AsBlocks!Bijection, AsBlocks!Injection, AsBlocks!Surjection, AsBlocks!IsInjective,
               Bijection, Injection, Surjection, IsInjective
      <4> HIDE DEF G
      <4> QED
        BY <3>4, <4>1, <4>2 DEF AsBlocks!Reorder, Shown, G
    <3>6. view[1] + 1 \in DOMAIN Shown /\ view[2] \in DOMAIN Shown
      BY <2>2, <3>1
    <3> QED
      BY <3>5, <3>6 DEF AsBlocks!BlocksNext, Shown
  <2> QED
    BY <2>7, <2>8
<1>6. CASE CallUnique
  <2>1. work = "idle" /\ work' \in {"unique", "kept"} /\ before' = BlocksOf(AllBlocks) /\ seps1' = seps1
    BY <1>6 DEF CallUnique, rangeData
  <2> QED
    BY <2>1 DEF Shown
<1>7. CASE UniqueStep
  <2>1. work = "unique" /\ work' \in {"unique", "kept"} /\ before' = before /\ seps1' = seps1
    BY <1>7 DEF UniqueStep, rangeData
  <2> QED
    BY <2>1 DEF Shown
<1>8. CASE UNCHANGED jaggedRangeVars
  BY <1>8 DEF jaggedRangeVars, rangeData, callVars, Shown, AllBlocks
<1> QED
  BY <1>2, <1>3, <1>4, <1>5, <1>6, <1>7, <1>8 DEF JaggedRangeNext


\* However its blocks are written, copied or reordered, a jagged range of rank 3
\* is a vector of vectors grouped as its separators say, whatever the values,
\* the sizes and the permutation: no other block changes.
THEOREM JaggedRangeIsBlocks == JaggedRangeSpec => ImplementsBlocks
<1>1. JaggedRangeInit => Shown = <<>> /\ IntervalLengths(seps1) = <<>>
  <2> SUFFICES ASSUME JaggedRangeInit PROVE Shown = <<>> /\ IntervalLengths(seps1) = <<>>
    OBVIOUS
  <2>1. work = "idle" /\ seps0 = <<0>> /\ seps1 = <<0>>
    BY DEF JaggedRangeInit
  <2>2. JaggedRangeInv
    BY JaggedRangeInvInit
  <2>3. Shown = BlocksIn(values, seps0)
    BY <2>1, <2>2, ShownFact DEF JaggedRangeInv
  <2>4. BlocksIn(values, seps0) = <<>>
    BY <2>1 DEF BlocksIn
  <2>5. IntervalLengths(seps1) = <<>>
    BY <2>1 DEF IntervalLengths, AdjacentDifferences
  <2> QED
    BY <2>3, <2>4, <2>5
<1>2. JaggedRangeInit => AsBlocks!BlocksInit
  BY <1>1 DEF AsBlocks!BlocksInit, Shown
<1>3. /\ JaggedRangeInv /\ JaggedRangeInv' /\ [JaggedRangeNext]_jaggedRangeVars
      => [AsBlocks!BlocksNext]_<<Shown, IntervalLengths(seps1)>>
  BY ShownStep
<1> QED
  BY <1>2, <1>3, JaggedRangeInvariant, PTL DEF JaggedRangeSpec, ImplementsBlocks, AsBlocks!BlocksSpec, Shown
=============================================================================
