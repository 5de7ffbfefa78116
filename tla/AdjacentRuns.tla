----------------------------- MODULE AdjacentRuns ----------------------------
(* unique_compress: of each run of equal adjacent elements the first one is     *)
(* kept, moved to the front in place or copied, while a function reduces the    *)
(* run. Positions are numbered from 0 as in the code; an element of the range   *)
(* is known by the place where it was at first, and Moved is left in its place  *)
(* by std::move. A copy is written through a back_inserter, for which *result = *)
(* appends and ++result does nothing, or through an iterator on a range, each   *)
(* element of which is Unwritten at first.                                      *)
EXTENDS Intervals

CONSTANTS MaxWord,  \* the largest size of the range
          RunKeys   \* what adjacent elements are compared by

ASSUME RunsAssumption == MaxWord \in Nat /\ RunKeys \subseteq Int

Moved == 0
Unwritten == -1

VARIABLES word,       \* the key of each element
          array,      \* the range, in place
          runFirst, runNext, runResult,  \* first, next, result
          inserting,  \* are the outputs of the copy back inserters?
          compressed, \* what unique_compress_copy writes
          copyResult, \* its result, when that is not a back inserter
          positions,  \* old_to_new_positions
          reduced     \* what the function has made of each run

runVars ==
  <<word, array, runFirst, runNext, runResult, inserting, compressed, copyResult, positions, reduced>>

(* The end of the run at first, and its elements in the order in which they are *)
(* reduced. They are all compared with the first one.                           *)
AccumulateWhileAdjacent(rng, first) ==
  LET next == Min({pos \in first + 1 .. Len(rng) - 1 : word[rng[first + 1]] # word[rng[pos + 1]]}
                  \cup {Len(rng)})
  IN [next |-> next, init |-> SubSeq(rng, first + 1, next)]

(* std_e::unique: the array, and the size of what is kept. An element that is   *)
(* already in its place is not moved to itself.                                 *)
Unique(s) ==
  LET Visit(acc, first) ==
        IF acc.s[acc.result] = acc.s[first] THEN acc
        ELSE [result |-> acc.result + 1, s |-> [acc.s EXCEPT ![acc.result + 1] = acc.s[first]]]
  IN IF s = <<>> THEN <<>>
     ELSE LET all == FoldLeft(Visit, [result |-> 1, s |-> s], [k \in 1 .. Len(s) - 1 |-> k + 1])
          IN SubSeq(all.s, 1, all.result)

(* unique_compress_strides_copy: the sizes of the runs are known, and not 0.    *)
StridesCopy(s, strides) ==
  LET runs[k \in 0 .. Len(strides)] ==
        IF k = 0 THEN [first |-> 0, res |-> <<>>]
        ELSE LET acc == runs[k - 1]
             IN [first |-> acc.first + strides[k],
                 res |-> Append(acc.res, SubSeq(s, acc.first + 1, acc.first + strides[k]))]
  IN runs[Len(strides)].res

-----------------------------------------------------------------------------
(* *result = elt, n times.                                                      *)
Filled(res, pos, n, elt) ==
  IF inserting THEN res \o [k \in 1 .. n |-> elt]
  ELSE [k \in DOMAIN res |-> IF k \in pos + 1 .. pos + n THEN elt ELSE res[k]]

(* Not called on an empty range: only the copy tests for it.                    *)
RunsInit ==
  /\ \E n \in 1 .. MaxWord : word \in [1 .. n -> RunKeys]
  /\ array = [pos \in DOMAIN word |-> pos]
  /\ inserting \in BOOLEAN
  /\ LET acc == AccumulateWhileAdjacent(array, 0)
         res == IF inserting THEN <<>> ELSE [pos \in DOMAIN word |-> Unwritten]
     IN /\ runNext = acc.next
        /\ reduced = <<acc.init>>
        /\ compressed = Filled(res, 0, 1, 1)
        /\ positions = Filled(res, 0, acc.next, 0)
  /\ runFirst = 0 /\ runResult = 0 /\ copyResult = 0

(* Mutant: a longer run is not told from a run of one element.                  *)
InPlaceLonger == runFirst = runResult
(* The first loop, as long as the runs are of one element: nothing to move.     *)
InPlace == runFirst = runResult /\ runNext = runFirst + 1

(* In the first loop the copy writes and then goes to the next place, in the    *)
(* second one it goes to the next place first. The function is given a copy of  *)
(* old_to_new_positions, each time as it was at first.                          *)
NextRun ==
  /\ runNext < Len(word)
  /\ LET acc == AccumulateWhileAdjacent(array, runNext)
     IN /\ runNext' = acc.next
        /\ reduced' = Append(reduced, acc.init)
        /\ positions' = Filled(positions, 0, acc.next - runNext, Len(reduced))
  /\ runFirst' = runNext
  /\ runResult' = runResult + 1
  /\ array' = IF InPlace THEN array
              ELSE [array EXCEPT ![runNext + 1] = Moved, ![runResult + 2] = array[runNext + 1]]
  /\ compressed' = Filled(compressed, IF InPlace THEN copyResult ELSE copyResult + 1, 1, runNext + 1)
  /\ copyResult' = copyResult + 1
  /\ UNCHANGED <<word, inserting>>

RunsSpec == RunsInit /\ [][NextRun]_runVars

-----------------------------------------------------------------------------
Kept == SubSeq(array, 1, runResult + 1)

(* Through back inserters the copy keeps the same elements as in place, and the *)
(* position given for each old element is that of its run. Through other        *)
(* iterators the elements that the first loop writes are one place before their *)
(* own, the first of all is lost, and the place after theirs is not written;    *)
(* the positions are written over each other.                                   *)
CopyGoesOn ==
  LET runs == DOMAIN reduced
      alone == Max({n \in 0 .. Len(reduced) - 1 : \A k \in 1 .. n : Len(reduced[k]) = 1})
  IN IF inserting
     THEN /\ compressed = Kept
          /\ Len(positions) = runNext
          /\ \A pos \in 1 .. runNext : pos \in ToSet(reduced[positions[pos] + 1])
     ELSE /\ copyResult = runResult
          /\ \A k \in runs :
               compressed[k] = CASE k <= alone -> Kept[k + 1]
                                 [] k = alone + 1 /\ alone > 0 -> Unwritten
                                 [] OTHER -> Kept[k]
          /\ \A pos \in DOMAIN word :
               positions[pos] = Max({k - 1 : k \in {k \in runs : pos <= Len(reduced[k])}} \cup {Unwritten})

(* The elements that are kept are the first of each run, and no element is read *)
(* that has been moved; the copy is what CopyGoesOn says; the runs are those    *)
(* that std_e::unique, mismatch_indices and the version with strides go by.     *)
RunsAreCompressed ==
  LET Key(s) == [k \in DOMAIN s |-> word[s[k]]]
      strides == [k \in DOMAIN reduced |-> Len(reduced[k])]
      read == SubSeq(word, 1, runNext)
  IN /\ [k \in DOMAIN reduced |-> reduced[k][1]] = Kept
     /\ \A pos \in runNext + 1 .. Len(word) : array[pos] = pos
     /\ FlattenSeq(reduced) = [k \in 1 .. runNext |-> k]
     /\ CopyGoesOn
     /\ Unique(read) = Key(Kept)
     /\ PartialSums(strides, 0) = MismatchIndices(read)
     /\ StridesCopy(read, strides) = [k \in DOMAIN reduced |-> Key(reduced[k])]
=============================================================================
