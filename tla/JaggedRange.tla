----------------------------- MODULE JaggedRange ------------------------------
(* A jagged_vector of rank 3: built value by value, written block by block      *)
(* through proxies that hold a pointer to the values and one to the separators, *)
(* and whose blocks are permuted through a copy, or made unique in place. They  *)
(* are permuted through a view of rank 2 that has no offset: it is made of all  *)
(* the values, and of all the separators or of a part of them. operator[] gives *)
(* other views, of one group, whose values start at the group: their blocks are *)
(* read and assigned here, through operator[] again, and nothing else is done   *)
(* with them (see ValuesTreatTheOffset).                                        *)
EXTENDS Intervals

CONSTANTS Values,                          \* what the blocks hold
          MaxValues, MaxBlocks, MaxGroups  \* how much is added at most

ASSUME JaggedRangeAssumption ==
  MaxValues \in Nat /\ MaxBlocks \in Nat /\ MaxGroups \in Nat

VARIABLES values, seps0, seps1,
          work,     \* "idle", "permute", "unique" or "kept": what is called
          view,     \* the first and the last separator that the call sees
          perm,     \* the permutation of its blocks
          copied,   \* how many blocks are written to the copy
          copy,     \* the copy: its values and separators
          src, dest,\* the iterators of unique, from 0
          before    \* the blocks before unique is called

rangeData == <<values, seps0, seps1>>
callVars == <<work, view, perm, copied, copy, src, dest, before>>
jaggedRangeVars == <<rangeData, callVars>>

JaggedRangeInit ==
  /\ values = <<>> /\ seps0 = <<0>> /\ seps1 = <<0>>
  /\ work = "idle" /\ view = <<0, 0>> /\ perm = <<>>
  /\ copied = 0 /\ copy = [values |-> <<>>, seps |-> <<0>>]
  /\ src = 0 /\ dest = 0 /\ before = <<>>

LastIncremented(seps) == [seps EXCEPT ![Len(seps)] = @ + 1]

(* separator<1>, separator<0> and push_back: in this order, as in the           *)
(* constructor from lists of lists of lists.                                    *)
Separator1 ==
  /\ Len(seps1) <= MaxGroups
  /\ seps1' = Append(seps1, Last(seps1))
  /\ UNCHANGED <<values, seps0>>
Separator0 ==
  /\ Len(seps1) > 1 /\ Len(seps0) <= MaxBlocks
  /\ seps0' = Append(seps0, Last(seps0))
  /\ seps1' = LastIncremented(seps1)
  /\ UNCHANGED values
PushBack(v) ==
  /\ Len(seps0) > 1 /\ Len(values) < MaxValues
  /\ values' = Append(values, v)
  /\ seps0' = LastIncremented(seps0)
  /\ UNCHANGED seps1

-----------------------------------------------------------------------------
(* assign_through of a proxy on block i (from 0): the values are copied from    *)
(* where the block starts, and the block ends after them.                       *)
Written(vals, seps, i, b) ==
  [values |-> [p \in DOMAIN vals |->
                 IF p - seps[i + 1] \in DOMAIN b THEN b[p - seps[i + 1]] ELSE vals[p]],
   seps |-> [seps EXCEPT ![i + 2] = seps[i + 1] + Len(b)]]

(* x[i] = b, of the size of the block: i is counted in the last level, and x[g] *)
(* [j] gives the same pointers.                                                 *)
AssignBlock(i, b) ==
  LET w == Written(values, seps0, i, b)
  IN  values' = w.values /\ seps0' = w.seps /\ UNCHANGED seps1

(* view_as_vblock_range2 of all the values, and of all the separators or of     *)
(* those of a group.                                                            *)
Views == {<<0, Len(seps0) - 1>>} \cup {<<seps1[g], seps1[g + 1]>> : g \in 1 .. Len(seps1) - 1}
ViewSeps == SubSeq(seps0, view[1] + 1, view[2] + 1)

(* permute_copy_vblock_range: a range of zeros of the same sizes.               *)
CallPermute(v, p) ==
  /\ work = "idle"
  /\ work' = "permute" /\ view' = v /\ perm' = p
  /\ copied' = 0
  /\ copy' = [values |-> [k \in DOMAIN values |-> 0], seps |-> [k \in 1 .. v[2] - v[1] + 1 |-> 0]]
  /\ UNCHANGED <<rangeData, src, dest, before>>

(* One iteration of std::transform: a block starts where the last one written   *)
(* ends. The blocks are read through iterators, which find in a view without    *)
(* offset what operator[] finds.                                                *)
CopyBlock ==
  /\ work = "permute" /\ copied < Len(perm)
  /\ copy' = Written(copy.values, copy.seps, copied,
                     BlockAt([values |-> values, seps |-> ViewSeps, off |-> 0], perm[copied + 1]))
  /\ copied' = copied + 1
  /\ UNCHANGED <<rangeData, work, view, perm, src, dest, before>>

(* Mutant: the separators of the copy are not shifted.                          *)
AssignCopyNoShift ==
  LET first == ViewSeps[1]
      size == Last(copy.seps) - copy.seps[1]
  IN  /\ work = "permute" /\ copied = Len(perm)
      /\ values' = [p \in DOMAIN values |->
                      IF p - first \in 1 .. size THEN copy.values[copy.seps[1] + p - first] ELSE values[p]]
      /\ seps0' = [k \in DOMAIN seps0 |->
                     IF k - 1 \in view[1] .. view[2] THEN copy.seps[k - view[1]] ELSE seps0[k]]
      /\ work' = "idle" /\ view' = <<0, 0>> /\ perm' = <<>>
      /\ copied' = 0 /\ copy' = [values |-> <<>>, seps |-> <<0>>]
      /\ UNCHANGED <<seps1, src, dest, before>>
(* assign: the values of the copy, and its separators shifted to where the view *)
(* starts.                                                                      *)
AssignCopy ==
  LET first == ViewSeps[1]
      size == Last(copy.seps) - copy.seps[1]
      shift == first - copy.seps[1]
  IN  /\ work = "permute" /\ copied = Len(perm)
      /\ values' = [p \in DOMAIN values |->
                      IF p - first \in 1 .. size THEN copy.values[copy.seps[1] + p - first] ELSE values[p]]
      /\ seps0' = [k \in DOMAIN seps0 |->
                     IF k - 1 \in view[1] .. view[2] THEN copy.seps[k - view[1]] + shift ELSE seps0[k]]
      /\ work' = "idle" /\ view' = <<0, 0>> /\ perm' = <<>>
      /\ copied' = 0 /\ copy' = [values |-> <<>>, seps |-> <<0>>]
      /\ UNCHANGED <<seps1, src, dest, before>>

-----------------------------------------------------------------------------
AllBlocks == [values |-> values, seps |-> seps0, off |-> 0]
NBlocks == Len(seps0) - 1

(* unique: the first of two adjacent equal blocks, if there are some.           *)
CallUnique ==
  LET same == SelectInSeq([k \in 1 .. NBlocks - 1 |-> k],
                          LAMBDA k : BlockAt(AllBlocks, k - 1) = BlockAt(AllBlocks, k))
  IN  /\ work = "idle" /\ NBlocks > 0
      /\ before' = BlocksOf(AllBlocks)
      /\ IF same = 0
           THEN work' = "kept" /\ dest' = NBlocks - 1 /\ src' = NBlocks
           ELSE work' = "unique" /\ dest' = same - 1 /\ src' = same
      /\ UNCHANGED <<rangeData, view, perm, copied, copy>>

(* The next block, if it differs from the last that is kept, is moved after it: *)
(* the block that was there is overwritten, and maybe a part of the next ones.  *)
UniqueStep ==
  LET next == src + 1
  IN  /\ work = "unique"
      /\ src' = next
      /\ IF next = NBlocks THEN work' = "kept" /\ UNCHANGED <<rangeData, dest>>
         ELSE IF BlockAt(AllBlocks, dest) = BlockAt(AllBlocks, next) THEN UNCHANGED <<rangeData, work, dest>>
         ELSE LET w == Written(values, seps0, dest + 1, BlockAt(AllBlocks, next))
              IN  /\ dest' = dest + 1
                  /\ values' = w.values /\ seps0' = w.seps
                  /\ UNCHANGED <<seps1, work>>
      /\ UNCHANGED <<view, perm, copied, copy, before>>

-----------------------------------------------------------------------------
Permutations0(n) == {[k \in 1 .. n |-> p[k] - 1] : p \in Bijection(1 .. n, 1 .. n)}

Modify ==
  /\ work = "idle"
  /\ \/ Separator1 \/ Separator0 \/ \E v \in Values : PushBack(v)
     \/ \E i \in 0 .. NBlocks - 1 :
          \E b \in [1 .. Len(BlockAt(AllBlocks, i)) -> Values] : AssignBlock(i, b)
  /\ UNCHANGED callVars

JaggedRangeNext ==
  \/ Modify
  \/ \E v \in Views : \E p \in Permutations0(v[2] - v[1]) : CallPermute(v, p)
  \/ CopyBlock \/ AssignCopy \/ CallUnique \/ UniqueStep

JaggedRangeSpec == JaggedRangeInit /\ [][JaggedRangeNext]_jaggedRangeVars

-----------------------------------------------------------------------------
(* The range is a vector of vectors: a block that is assigned through operator[]*)
(* changes no other block, and those that are permuted through a view of their  *)
(* separators that has no offset are permuted, and no other block changes,      *)
(* although sizes and separators are rewritten block by block. (unique only     *)
(* promises the blocks that it keeps. Of the views that operator[] gives of a   *)
(* group this is not true: see ValuesTreatTheOffset.)                           *)
AsBlocks == INSTANCE BlockSequence WITH
  blocks <- IF work \in {"unique", "kept"} THEN before ELSE BlocksOf(AllBlocks),
  groups <- IntervalLengths(seps1)
ImplementsBlocks == AsBlocks!BlocksSpec

(* unique keeps one block of each run of equal ones, in order, although it      *)
(* compares and moves blocks whose separators it has already rewritten.         *)
UniqueKeepsRuns ==
  work = "kept" =>
    SubSeq(BlocksOf(AllBlocks), 1, dest + 1) =
      FoldLeft(LAMBDA acc, b : IF acc # <<>> /\ Last(acc) = b THEN acc ELSE Append(acc, b), <<>>, before)

(* The groups, seen through operator[] twice, are the blocks of the range, in   *)
(* order, and operator[] of a range without offset finds the blocks that its    *)
(* iterators and values() find; two groups that have as many blocks are equal if*)
(* their blocks are; the separators of the groups are found again from where    *)
(* their values are, with the same values in each group; and the partition by   *)
(* sizes is one.                                                                *)
ViewsAgree ==
  work = "idle" =>
    LET x == [values |-> values, seps0 |-> seps0, seps1 |-> seps1]
        group == [g \in 1 .. Len(seps1) - 1 |-> SubRange(x, g - 1)]
        upper == Upscaled(seps1, seps0)
        p == PartitionByBlockSize(seps0)
        SizeOf(k) == IntervalLengths(seps0)[p.perm[k] + 1]
    IN  /\ FlattenSeq([g \in DOMAIN group |-> BlocksOf(group[g])]) = BlocksOf(AllBlocks)
        /\ ValuesInterval(AllBlocks) = Interval(0, Len(values))
        /\ \A i \in 0 .. NBlocks - 1 : IteratedInterval(AllBlocks, i) = BlockInterval(AllBlocks, i)
        /\ \A g, h \in DOMAIN group :
             Len(group[g].seps) = Len(group[h].seps) =>
               EqualRanges(group[g], group[h]) = (BlocksOf(group[g]) = BlocksOf(group[h]))
        /\ Upscaled(Downscaled(upper, seps0), seps0) = upper
        /\ (\A i \in 0 .. NBlocks - 1 : BlockAt(AllBlocks, i) # <<>>) => Downscaled(upper, seps0) = seps1
        /\ \A k, l \in 1 .. NBlocks :
             /\ k < l => SizeOf(k) < SizeOf(l) \/ (SizeOf(k) = SizeOf(l) /\ p.perm[k] < p.perm[l])
             /\ (SizeOf(k) = SizeOf(l)) = (IntervalIndex(k - 1, p.indices) = IntervalIndex(l - 1, p.indices))

(* "use values that also treats the offset pb" (jagged_range.hpp:222): values() *)
(* of a group that has values is these values, and its iterators find the blocks*)
(* that operator[] finds. Otherwise assign and the algorithms on block ranges   *)
(* read and write outside of the group.                                         *)
ValuesTreatTheOffset ==
  work = "idle" =>
    \A g \in 0 .. Len(seps1) - 2 :
      LET x == SubRange([values |-> values, seps0 |-> seps0, seps1 |-> seps1], g)
      IN  x.values # <<>> =>
            /\ ValuesInterval(x) = Interval(0, Len(x.values))
            /\ \A i \in 0 .. Len(x.seps) - 2 : IteratedInterval(x, i) = BlockInterval(x, i)
=============================================================================
