----------------------------- MODULE Permutation -----------------------------
(* permute: the permutation of a range in place, cycle by cycle, with one bit   *)
(* per element. Positions are numbered from 0 as in the code: element i of a    *)
(* range s is s[i+1]. It is shown to compute Permuted, which the other *)
(* modules take for it.                                                         *)
EXTENDS PermutationOps, FiniteSets, Functions

CONSTANT MaxPermuted  \* the largest size of the range

ASSUME PermutationAssumption == MaxPermuted \in Nat

Permutations0(n) == {p \in [1 .. n -> 0 .. n - 1] : IsInjective(p)}

VARIABLES rng,   \* the range to permute
          p,     \* the permutation
          moved, \* the range, in place
          done,  \* the positions that have their element
          head, prev, next  \* i, prev_j, j

permVars == <<rng, p, moved, done, head, prev, next>>

PermInit ==
  /\ \E n \in 0 .. MaxPermuted :
       /\ p \in Permutations0(n)
       /\ rng = [k \in 1 .. n |-> k]  \* different elements tell the most
  /\ moved = rng
  /\ done = {}
  /\ head = 0 /\ prev = 0 /\ next = 0

InCycle == head \in done /\ head # next

(* ++i: the position is done, or its cycle is at its end.                       *)
SkipDone ==
  /\ head < Len(p) /\ head \in done /\ ~InCycle
  /\ head' = head + 1
  /\ next' = head + 1
  /\ UNCHANGED <<rng, p, moved, done, prev>>

BeginCycle ==
  /\ head < Len(p) /\ head \notin done
  /\ done' = done \cup {head}
  /\ prev' = head
  /\ next' = p[head + 1]
  /\ UNCHANGED <<rng, p, moved, head>>

(* Mutant: the next place is that of the start.                                 *)
FollowSamePlace ==
  /\ InCycle
  /\ moved' = [moved EXCEPT ![prev + 1] = moved[next + 1], ![next + 1] = moved[prev + 1]]
  /\ done' = done \cup {next}
  /\ prev' = next
  /\ next' = p[head + 1]
  /\ UNCHANGED <<rng, p, head>>
(* Mutant: the swap is with the start of the cycle.                             *)
FollowFromHead ==
  /\ InCycle
  /\ moved' = [moved EXCEPT ![head + 1] = moved[next + 1], ![next + 1] = moved[head + 1]]
  /\ done' = done \cup {next}
  /\ prev' = next
  /\ next' = p[next + 1]
  /\ UNCHANGED <<rng, p, head>>
FollowCycle ==
  /\ InCycle
  /\ moved' = [moved EXCEPT ![prev + 1] = moved[next + 1], ![next + 1] = moved[prev + 1]]
  /\ done' = done \cup {next}
  /\ prev' = next
  /\ next' = p[next + 1]
  /\ UNCHANGED <<rng, p, head>>

PermNext == SkipDone \/ BeginCycle \/ FollowCycle

PermuteInPlace == PermInit /\ [][PermNext]_permVars

-----------------------------------------------------------------------------
(* A position that has its element keeps it, except the last one that a cycle   *)
(* has reached, which holds the first element of the cycle until its end; what  *)
(* is not done is as it was.                                                    *)
DoneIsPlaced ==
  \A k \in 0 .. Len(p) - 1 :
    moved[k + 1] = IF InCycle /\ k = prev THEN rng[head + 1]
                   ELSE IF k \in done THEN rng[p[k + 1] + 1] ELSE rng[k + 1]

(* In the end the range is the permuted one, and inv_permute gives back what    *)
(* permute was given.                                                           *)
RangeIsPermuted ==
  head = Len(p) => moved = Permuted(rng, p) /\ InvPermuted(moved, p) = rng
(* permute puts every element where p says, in place and with one swap each.    *)
PermutesInPlace == DoneIsPlaced /\ RangeIsPermuted

=============================================================================
