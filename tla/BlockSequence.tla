---------------------------- MODULE BlockSequence -----------------------------
(* What a range of blocks promises, however it is stored: it is a vector of     *)
(* vectors. Values are added to the last block, blocks to the last group,       *)
(* groups at the end; a block is replaced by another one of its size, and the   *)
(* blocks of an interval are reordered.                                         *)
EXTENDS Naturals, Sequences, Functions

CONSTANT Values

VARIABLES blocks,  \* a sequence of sequences of values
          groups   \* how many blocks are in each group

BlocksInit == blocks = <<>> /\ groups \in {<<>>, <<0>>}

AddGroup == groups' = Append(groups, 0) /\ UNCHANGED blocks

AddBlock(b) ==
  /\ groups # <<>>
  /\ blocks' = Append(blocks, b)
  /\ groups' = [groups EXCEPT ![Len(groups)] = @ + 1]

AddValue(v) ==
  /\ blocks # <<>>
  /\ blocks' = [blocks EXCEPT ![Len(blocks)] = Append(@, v)]
  /\ UNCHANGED groups

Replace(i, b) ==
  /\ Len(b) = Len(blocks[i])
  /\ blocks' = [blocks EXCEPT ![i] = b]
  /\ UNCHANGED groups

Reorder(first, last) ==
  /\ \E perm \in Bijection(first .. last, first .. last) :
       blocks' = [i \in DOMAIN blocks |->
                    IF i \in first .. last THEN blocks[perm[i]] ELSE blocks[i]]
  /\ UNCHANGED groups

BlocksNext ==
  \/ AddGroup
  \/ blocks' # <<>> /\ AddBlock(blocks'[Len(blocks')])
  \/ \E v \in Values : AddValue(v)
  \/ \E i \in DOMAIN blocks : Len(blocks') = Len(blocks) /\ Replace(i, blocks'[i])
  \/ \E first, last \in DOMAIN blocks : Reorder(first, last)

BlocksSpec == BlocksInit /\ [][BlocksNext]_<<blocks, groups>>
=============================================================================
