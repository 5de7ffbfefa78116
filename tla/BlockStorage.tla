---------------------------- MODULE BlockStorage -----------------------------
(* A block_range, whose blocks all have BlockSize values, and an ivblock_range, *)
(* where each block comes after its size. Both are views of one flat memory:    *)
(* an iterator on the first jumps over BlockSize values, one on the second      *)
(* reads in the memory how far to jump. Positions in the memory are from 0.     *)
EXTENDS Sequences, SequencesExt, Integers

CONSTANTS Contents,                  \* the values, natural numbers
          BlockSize,                 \* the size of the blocks of a block_range
          MaxBlockSize, MaxMemory    \* sizes of an interleaved block, of the memory

ASSUME BlockStorageAssumption ==
  /\ BlockSize \in Nat \ {0} /\ MaxBlockSize \in Nat /\ MaxMemory \in Nat
  /\ Contents \subseteq Nat

VARIABLES layout,    \* "fixed" or "interleaved"
          mem,
          copyMem,   \* the memory of the range that is copied to, if any
          source, target  \* where the iterators of the copy are

storageVars == <<layout, mem, copyMem, source, target>>

StorageInit ==
  /\ layout \in {"fixed", "interleaved"}
  /\ mem = <<>> /\ copyMem = <<>> /\ source = 0 /\ target = 0

-----------------------------------------------------------------------------
(* The reference at position p of m: where its values are.                      *)
HeaderSize == IF layout = "fixed" THEN 0 ELSE 1
SizeAt(m, p) == IF layout = "fixed" THEN BlockSize ELSE m[p + 1]
Deref(m, p) == SubSeq(m, p + HeaderSize + 1, p + HeaderSize + SizeAt(m, p))

(* operator++: past the size and the values.                                    *)
Advanced(m, p) == p + HeaderSize + SizeAt(m, p)

(* begin(), the positions that ++ reaches from it, and end().                   *)
Positions(m) ==
  LET at[p \in 0 .. Len(m)] == IF p = Len(m) THEN <<>> ELSE <<p>> \o at[Advanced(m, p)]
  IN  at[0]
(* operator[] of a block_range, and += of its iterator. (The operator[] of the  *)
(* iterator, that adds i where += adds N*i, is called by nothing in the library,*)
(* and neither is vblock_iterator::block_size, that subtracts a pointer from an *)
(* offset: they are not modelled.)                                              *)
PositionOf(i) == i * BlockSize

(* assign_through: the size, then the values.                                   *)
AssignedThrough(m, p, b) ==
  LET written == IF layout = "fixed" THEN b ELSE <<Len(b)>> \o b
  IN  [q \in DOMAIN m |-> IF q - p \in DOMAIN written THEN written[q - p] ELSE m[q]]

(* operator== and operator< of ivblock_ref: with the sizes.                     *)
LexLess(x, y) ==
  \/ IsStrictPrefix(x, y)
  \/ \E k \in DOMAIN x \cap DOMAIN y : SubSeq(x, 1, k - 1) = SubSeq(y, 1, k - 1) /\ x[k] < y[k]
InterleavedLess(x, y) == LexLess(<<Len(x)>> \o x, <<Len(y)>> \o y)
InterleavedEqual(x, y) == <<Len(x)>> \o x = <<Len(y)>> \o y
(* operator< of vblock_ref                                                      *)
VBlockLess(x, y) == Len(x) < Len(y) \/ (Len(x) = Len(y) /\ LexLess(x, y))

-----------------------------------------------------------------------------
Free == copyMem = <<>>
BlocksOfSize(n) == [1 .. n -> Contents]
Resized(m, n) == m \o [k \in 1 .. n |-> 0]

(* push_back: the memory grows, then the size and the values are written.       *)
PushBlock(b) ==
  LET resized == Resized(mem, HeaderSize + Len(b))
  IN  /\ Free /\ Len(resized) <= MaxMemory
      /\ mem' = AssignedThrough(resized, Len(mem), b)
      /\ UNCHANGED <<layout, copyMem, source, target>>

(* *it = b, of the size of the block.                                           *)
AssignAt(p, b) ==
  /\ Free
  /\ mem' = AssignedThrough(mem, p, b)
  /\ UNCHANGED <<layout, copyMem, source, target>>

(* iter_swap of two blocks of a block_range: through a value, since a reference *)
(* to the first one sees what is written to it.                                 *)
SwapBlocks(i, j) ==
  LET tmp == Deref(mem, PositionOf(i))
      first == AssignedThrough(mem, PositionOf(i), Deref(mem, PositionOf(j)))
  IN  /\ Free /\ layout = "fixed"
      /\ mem' = AssignedThrough(first, PositionOf(j), tmp)
      /\ UNCHANGED <<layout, copyMem, source, target>>

(* ranges::copy to a range of zeros of the same total size: the target advances *)
(* by the size that has just been written to it.                                *)
CallCopy ==
  /\ Free /\ mem # <<>>
  /\ copyMem' = Resized(<<>>, Len(mem)) /\ source' = 0 /\ target' = 0
  /\ UNCHANGED <<layout, mem>>
CopyNext ==
  /\ ~Free /\ source < Len(mem)
  /\ copyMem' = AssignedThrough(copyMem, target, Deref(mem, source))
  /\ target' = Advanced(copyMem', target)
  /\ source' = Advanced(mem, source)
  /\ UNCHANGED <<layout, mem>>
(* The copy is what is left.                                                    *)
CopyEnd ==
  /\ ~Free /\ source = Len(mem)
  /\ mem' = copyMem /\ copyMem' = <<>> /\ source' = 0 /\ target' = 0
  /\ UNCHANGED layout

StorageNext ==
  \/ \E n \in (IF layout = "fixed" THEN {BlockSize} ELSE 0 .. MaxBlockSize) :
       \E b \in BlocksOfSize(n) : PushBlock(b)
  \/ \E p \in ToSet(Positions(mem)) : \E b \in BlocksOfSize(SizeAt(mem, p)) : AssignAt(p, b)
  \/ \E i, j \in 0 .. Len(mem) \div BlockSize - 1 : i < j /\ SwapBlocks(i, j)
  \/ CallCopy \/ CopyNext \/ CopyEnd

StorageSpec == StorageInit /\ [][StorageNext]_storageVars

-----------------------------------------------------------------------------
StoredBlocks == [k \in DOMAIN Positions(mem) |-> Deref(mem, Positions(mem)[k])]

(* Found by walking through one memory, of which the sizes are a part, the      *)
(* blocks are a vector of vectors: what is pushed, written through a reference, *)
(* swapped, or copied block by block changes no other block.                    *)
StoredAsBlocks == INSTANCE BlockSequence WITH
  Values <- Contents,
  blocks <- StoredBlocks,
  groups <- <<Len(StoredBlocks)>>
StorageImplementsBlocks == StoredAsBlocks!BlocksSpec

(* The copy has the blocks that the iterator has been through, and its own      *)
(* iterator is after them; operator[] of a block_range finds what ++ of its     *)
(* iterator finds; and the order of interleaved blocks is that of vblock_ref,   *)
(* and total.                                                                   *)
IteratorsAgree ==
  /\ ~Free => target = source /\ SubSeq(copyMem, 1, target) = SubSeq(mem, 1, source)
  /\ layout = "fixed" => \A k \in DOMAIN Positions(mem) : Positions(mem)[k] = PositionOf(k - 1)
  /\ layout = "interleaved" =>
       \A x, y \in ToSet(StoredBlocks) :
         /\ InterleavedLess(x, y) = VBlockLess(x, y)
         /\ InterleavedEqual(x, y) = (x = y)
         /\ Cardinality({r \in 1 .. 3 : \/ r = 1 /\ InterleavedLess(x, y)
                                        \/ r = 2 /\ x = y
                                        \/ r = 3 /\ InterleavedLess(y, x)}) = 1
=============================================================================
