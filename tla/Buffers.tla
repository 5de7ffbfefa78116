------------------------------- MODULE Buffers -------------------------------
(* Who owns a block of memory: vectors whose allocator can give the ownership   *)
(* up, owning buffers, spans, and the buffers and arrays that hide which of     *)
(* them they hold. The blocks are numbered in the order of their allocation.    *)
EXTENDS Integers, Sequences, FiniteSets

CONSTANTS Holders,       \* the variables of the program
          MaxAllocations

ASSUME BuffersAssumption == IsFiniteSet(Holders) /\ MaxAllocations \in Nat

VARIABLES holds,   \* what each variable holds
          flagOf,  \* the flags that allocators share: flagOf[f], TRUE for an owner
          freed,   \* how many times each block is deallocated
          manual,  \* the blocks that the program has to deallocate by itself
          dropped  \* the blocks that nobody is to deallocate any more

bufferVars == <<holds, flagOf, freed, manual, dropped>>

Memory == DOMAIN freed
NewBlock == Len(freed) + 1
CanAllocate == Len(freed) < MaxAllocations

Held(kind, block, flag, dealloc) == [kind |-> kind, block |-> block, flag |-> flag, dealloc |-> dealloc]
Nothing == Held("none", 0, 0, FALSE)
IsVector(v) == holds[v].kind \in {"vector", "given"}

(* is_owner. A vector owns its block if the flag of its allocator is up.        *)
IsOwner(v) == holds[v].block # 0 /\ IF IsVector(v) THEN flagOf[holds[v].flag] ELSE holds[v].dealloc
Owners(b) == {v \in Holders : holds[v].block = b /\ IsOwner(v)}
(* Mutant: the flag is not looked at.                                           *)
AfterDestroyedAlways(v) ==
  IF IsVector(v) \/ IsOwner(v) THEN [freed EXCEPT ![holds[v].block] = @ + 1] ELSE freed
(* Destructors, and deallocate.                                                 *)
AfterDestroyed(v) == IF IsOwner(v) THEN [freed EXCEPT ![holds[v].block] = @ + 1] ELSE freed

-----------------------------------------------------------------------------
BuffersInit ==
  /\ holds = [v \in Holders |-> Nothing]
  /\ flagOf = <<>> /\ freed = <<>>
  /\ manual = {} /\ dropped = {}

(* make_buffer_vector: an allocator, hence a flag, of its own.                  *)
MakeVector(v) ==
  /\ holds[v] = Nothing /\ CanAllocate
  /\ freed' = Append(freed, 0)
  /\ flagOf' = Append(flagOf, TRUE)
  /\ holds' = [holds EXCEPT ![v] = Held("vector", NewBlock, Len(flagOf) + 1, FALSE)]
  /\ UNCHANGED <<manual, dropped>>

(* The copy of a vector copies its allocator, and the flag is the same one: if  *)
(* it is down, nobody is to deallocate the block of the copy either.            *)
CopyVector(v, w) ==
  /\ holds[v].kind = "vector" /\ holds[w] = Nothing /\ CanAllocate
  /\ freed' = Append(freed, 0)
  /\ holds' = [holds EXCEPT ![w] = [holds[v] EXCEPT !.block = NewBlock]]
  /\ dropped' = IF flagOf[holds[v].flag] THEN dropped ELSE dropped \cup {NewBlock}
  /\ UNCHANGED <<flagOf, manual>>

(* push_back with no room left: the new block, then the deallocation of the old.*)
Reallocate(v) ==
  /\ holds[v].kind = "vector" /\ CanAllocate
  /\ freed' = Append(AfterDestroyed(v), 0)
  /\ holds' = [holds EXCEPT ![v].block = NewBlock]
  /\ dropped' = IF IsOwner(v) THEN dropped ELSE dropped \cup {NewBlock}
  /\ UNCHANGED <<flagOf, manual>>

(* to_buffer: the flag is lowered through the copy of the allocator that        *)
(* get_allocator returns; the vector keeps the address of its block until it is *)
(* destroyed. The blocks of the vectors that share the flag are dropped.        *)
ToBuffer(v, w) ==
  LET f == holds[v].flag
      sharing == {u \in Holders \ {v} : IsVector(u) /\ holds[u].flag = f /\ IsOwner(u)}
  IN /\ holds[v].kind = "vector" /\ holds[w] = Nothing
     /\ flagOf' = [flagOf EXCEPT ![f] = FALSE]
     /\ holds' = [holds EXCEPT ![v].kind = "given", ![w] = Held("buffer", holds[v].block, 0, TRUE)]
     /\ dropped' = (dropped \cup {holds[u].block : u \in sharing}) \ {holds[v].block}
     /\ UNCHANGED <<freed, manual>>

(* buffer_span, and polymorphic_array of a span; polymorphic_array of a vector, *)
(* whose memory it then owns.                                                   *)
MakeView(v, b, kind) ==
  /\ holds[v] = Nothing /\ freed[b] = 0
  /\ holds' = [holds EXCEPT ![v] = Held(kind, b, 0, FALSE)]
  /\ UNCHANGED <<flagOf, freed, manual, dropped>>
MakeArray(v) ==
  /\ holds[v] = Nothing /\ CanAllocate
  /\ freed' = Append(freed, 0)
  /\ holds' = [holds EXCEPT ![v] = Held("array", NewBlock, 0, TRUE)]
  /\ UNCHANGED <<flagOf, manual, dropped>>

(* owning_buffer(owning_buffer&&), and polymorphic_buffer(Buffer&&) around it:  *)
(* what is moved from keeps the address, without the deallocator.               *)
MoveBuffer(v, w, kind) ==
  /\ holds[v].kind = "buffer" /\ holds[w] = Nothing
  /\ holds' = [holds EXCEPT ![w] = [holds[v] EXCEPT !.kind = kind], ![v].dealloc = FALSE]
  /\ UNCHANGED <<flagOf, freed, manual, dropped>>
(* owning_buffer& operator=(owning_buffer&&): the block that the destination    *)
(* had, or the one of a buffer that is moved to itself, is not deallocated.     *)
AssignBuffer(v, w) ==
  /\ holds[v].kind = "buffer" /\ holds[w].kind = "buffer"
  /\ holds' = [[holds EXCEPT ![w] = holds[v]] EXCEPT ![v].dealloc = FALSE]
  /\ dropped' = IF IsOwner(w) THEN dropped \cup {holds[w].block} ELSE dropped
  /\ UNCHANGED <<flagOf, freed, manual>>

(* polymorphic_buffer and polymorphic_array are moved as the unique_ptr that    *)
(* they have, which deletes what it pointed to.                                 *)
Erased == {"polymorphic", "array"}
MoveErased(v, w) ==
  /\ v # w /\ holds[v].kind \in Erased /\ holds[w].kind \in {"none", holds[v].kind}
  /\ freed' = AfterDestroyed(w)
  /\ holds' = [holds EXCEPT ![w] = holds[v], ![v] = Nothing]
  /\ UNCHANGED <<flagOf, manual, dropped>>

(* release: the program gets the deallocator, nullptr if there is none to call. *)
(* It gets the whole content of a polymorphic_array, that is then null.         *)
Release(v) ==
  /\ holds[v].kind \in {"buffer", "polymorphic", "array"}
  /\ manual' = IF IsOwner(v) THEN manual \cup {holds[v].block} ELSE manual
  /\ holds' = [holds EXCEPT ![v] = IF @.kind = "array" THEN Nothing ELSE [@ EXCEPT !.dealloc = FALSE]]
  /\ UNCHANGED <<flagOf, freed, dropped>>
DeallocateReleased(b) ==
  /\ b \in manual
  /\ freed' = [freed EXCEPT ![b] = @ + 1]
  /\ manual' = manual \ {b}
  /\ UNCHANGED <<holds, flagOf, dropped>>

Destroy(v) ==
  /\ holds[v] # Nothing
  /\ freed' = AfterDestroyed(v)
  /\ holds' = [holds EXCEPT ![v] = Nothing]
  /\ UNCHANGED <<flagOf, manual, dropped>>

BuffersNext ==
  \/ \E v \in Holders :
       \/ MakeVector(v) \/ Reallocate(v) \/ MakeArray(v) \/ Release(v) \/ Destroy(v)
       \/ \E b \in Memory, kind \in {"buffer", "array"} : MakeView(v, b, kind)
       \/ \E w \in Holders :
            \/ CopyVector(v, w) \/ ToBuffer(v, w) \/ AssignBuffer(v, w) \/ MoveErased(v, w)
            \/ \E kind \in {"buffer", "polymorphic"} : MoveBuffer(v, w, kind)
  \/ \E b \in Memory : DeallocateReleased(b)

BuffersSpec == BuffersInit /\ [][BuffersNext]_bufferVars

-----------------------------------------------------------------------------
(* A block is deallocated once at most, by the only one that owns it, and never *)
(* while somebody has still to deallocate it. The only blocks that are lost are *)
(* those of which a buffer is assigned over, or whose vector shares the flag of *)
(* another vector that has been made a buffer.                                  *)
OwnedOnce ==
  \A b \in Memory :
    LET n == Cardinality(Owners(b)) + (IF b \in manual THEN 1 ELSE 0)
    IN /\ freed[b] + n <= 1
       /\ freed[b] + n = 0 <=> b \in dropped
=============================================================================
