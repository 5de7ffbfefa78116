----------------------------- MODULE UniformRange -----------------------------
(* A range-based for loop over a uniform_distribution_range: the generator is   *)
(* incremented until it is equal to the sentinel.                               *)
EXTENDS Distribution

CONSTANTS MaxSize,     \* the largest number of elements
          MaxSlot,     \* the largest number of slots they are distributed over
          FewElements  \* whether there may be fewer elements than slots

ASSUME RangeAssumption ==
  MaxSize \in Nat \ {0} /\ MaxSlot \in Nat \ {0} /\ FewElements \in BOOLEAN

VARIABLES start, sz, n_elt,  \* the arguments of uniform_distribution_range
          gen,               \* the generator: the value i,
          n_round_up,        \*   the number of longer steps that remain
          visited            \* the values the body of the loop has seen

rangeVars == <<start, sz, n_elt, gen, n_round_up, visited>>

SpacingRoundDown == sz \div n_elt
AfterFinish == start + sz + SpacingRoundDown

RangeInit ==
  /\ start \in {0, MaxSize}
  /\ sz \in 1 .. MaxSize
  /\ n_elt \in 1 .. MaxSlot
  /\ FewElements \/ n_elt <= sz
  /\ gen = start
  /\ n_round_up = sz % n_elt
  /\ visited = <<>>

(* Mutant: the longer steps are not counted.                                    *)
IncrementUp ==
  /\ gen # AfterFinish
  /\ visited' = Append(visited, gen)
  /\ gen' = gen + SpacingRoundDown + (IF n_round_up > 0 THEN 1 ELSE 0)
  /\ UNCHANGED <<start, sz, n_elt, n_round_up>>

(* One turn of the loop: *gen, then ++gen.                                      *)
Increment ==
  /\ gen # AfterFinish
  /\ visited' = Append(visited, gen)
  /\ n_round_up' = IF n_round_up > 0 THEN n_round_up - 1 ELSE 0
  /\ gen' = gen + SpacingRoundDown + (IF n_round_up > 0 THEN 1 ELSE 0)
  /\ UNCHANGED <<start, sz, n_elt>>

RangeSpec == RangeInit /\ [][Increment]_rangeVars

-----------------------------------------------------------------------------
(* The loop sees the bounds that uniform_distribution writes, in order. The     *)
(* sentinel is compared with ==: the generator must fall exactly on it, or it   *)
(* would be incremented for ever.                                               *)
VisitsTheDistribution ==
  /\ gen <= AfterFinish
  /\ Len(visited) <= n_elt + 1
  /\ visited = SubSeq(UniformKnots(start, sz, n_elt), 1, Len(visited))

(* "we want the distribution to *include* finish, so end() has to return one    *)
(* past finish" (uniform_range.hpp:132).                                        *)
FinishIsIncluded ==
  gen = AfterFinish => /\ visited # <<>>
                       /\ visited[Len(visited)] = start + sz
                       /\ Len(visited) = n_elt + 1

=============================================================================
