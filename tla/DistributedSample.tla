-------------------------- MODULE DistributedSample --------------------------
(* uniform_sample_local and partial_distribution: each rank computes, from the  *)
(* place of its part in the whole array, which of the n_sample samples it owns. *)
(* No message says who takes what: the ranks must agree by arithmetic alone.    *)
EXTENDS Distribution

CONSTANTS NRank,         \* the number of ranks
          MaxTotal       \* the largest size of the whole array

ASSUME SampleAssumption == NRank \in Nat \ {0} /\ MaxTotal \in Nat

VARIABLES sizes,      \* the size of the part of each rank
          n_sample,   \* the number of samples asked for
          samples     \* what each rank has taken: global indices

sampleVars == <<sizes, n_sample, samples>>

Ranks == 1 .. NRank

(* ex_scan and all_reduce: where the part of a rank starts and finishes.        *)
Finish(r) == LET Upto[q \in 0 .. NRank] ==
                   IF q = 0 THEN 0 ELSE Upto[q - 1] + sizes[q]
             IN  Upto[r]
Start(r) == Finish(r - 1)
SizeTot == Finish(NRank)

SampleInit ==
  /\ sizes \in [Ranks -> 0 .. MaxTotal]
  /\ SizeTot <= MaxTotal
  /\ n_sample \in 0 .. SizeTot
  /\ samples = [r \in Ranks |-> <<>>]

(* The rank r takes its samples.                                                *)
SampleLocal(r) ==
  /\ samples' = [samples EXCEPT ![r] =
                   UniformTicksInSubInterval(Start(r), Finish(r), SizeTot,
                                             n_sample)]
  /\ UNCHANGED <<sizes, n_sample>>

SampleNext == \E r \in Ranks : SampleLocal(r)

SampleSpec == SampleInit /\ [][SampleNext]_sampleVars

-----------------------------------------------------------------------------
AllTaken == UNION {{samples[r][i] : i \in 1 .. Len(samples[r])} : r \in Ranks}

Sampled == \A r \in Ranks :
  samples[r] # <<>> \/ UniformTicksInSubInterval(Start(r), Finish(r), SizeTot,
                                                 n_sample) = <<>>

(* uniform_sample_exclude_ends takes n_sample different indices, in order, and  *)
(* leaves out the first one as soon as it can: the values of the pivots never   *)
(* come from outside the sorted sample (median_of_3.hpp:92).                    *)
EndsAreExcluded ==
  LET index == SampleExcludeEnds(SizeTot, n_sample)
  IN  /\ \A i \in 1 .. n_sample : index[i] \in 0 .. SizeTot - 1
      /\ \A i, j \in 1 .. n_sample : i < j => index[i] < index[j]
      /\ n_sample > 0 /\ n_sample < SizeTot => index[1] > 0
      /\ n_sample > 0 /\ n_sample + 1 < SizeTot => index[n_sample] < SizeTot - 1

(* A rank only takes elements of its own part, so x[sample - d.start] is inside *)
(* the local array (uniform_sample.hpp:31). When all ranks have taken theirs,   *)
(* there are exactly n_sample samples, none of them twice, the ends included:   *)
(* this is what all_gather then concatenates. The gaps between neighbouring     *)
(* samples differ by one at most, whatever the ranks they come from. The pivots *)
(* are then taken inside the sample.                                            *)
Gaps == {b - a : <<a, b>> \in
           {p \in AllTaken \X AllTaken :
              p[1] < p[2] /\ \A c \in AllTaken : c <= p[1] \/ c >= p[2]}}
SamplesAreUniform ==
  /\ \A r \in Ranks : \A i \in 1 .. Len(samples[r]) :
       Start(r) <= samples[r][i] /\ samples[r][i] < Finish(r)
  /\ Sampled =>
       /\ Cardinality(AllTaken) = n_sample
       /\ \A r, q \in Ranks : \A i \in 1 .. Len(samples[r]), j \in 1 .. Len(samples[q]) :
            samples[r][i] = samples[q][j] => r = q /\ i = j
       /\ n_sample >= 2 => {0, SizeTot - 1} \subseteq AllTaken
       /\ \A g, h \in Gaps : g - h <= 1
  /\ EndsAreExcluded

(* The two ways the code computes a uniform distribution agree, and its parts   *)
(* differ by one at most: sort_by_rank aims at the points of the first and its  *)
(* callers distribute by the second. number_of_ticks_in_interval counts the     *)
(* ticks j*n, for j in [1,n_tick], that are in [(n_tick+1)i,(n_tick+1)(i+1)),   *)
(* as its comment says.                                                         *)
DistributionsAgree ==
  SizeTot > 0 =>
    \A n \in 1 .. MaxTotal :
      LET knots == UniformKnots(0, SizeTot, n)
      IN  /\ \A i \in 0 .. n : knots[i + 1] = UniformDistributionPoint(SizeTot, n, i)
          /\ knots[n + 1] = SizeTot
          /\ \A i, j \in 1 .. n :
               (knots[i + 1] - knots[i]) - (knots[j + 1] - knots[j]) \in {-1, 0, 1}
          /\ \A i \in 0 .. n - 1 :
               NumberOfTicksInInterval(n, n_sample, i)
                 = Cardinality({j \in 1 .. n_sample :
                                  /\ (n_sample + 1) * i <= j * n
                                  /\ j * n < (n_sample + 1) * (i + 1)})

=============================================================================
