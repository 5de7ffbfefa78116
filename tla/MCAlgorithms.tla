---------------------------- MODULE MCAlgorithms -----------------------------
(* Instances of the algorithms that have no state of their own: one of them is  *)
(* called, with any of its small inputs, and the others are left with an input  *)
(* for which there is next to nothing to do.                                    *)
EXTENDS DistributedSample, UniformRange, BalancedDistribution, SearchIntervals,
        PivotPartition, Permutation, QuickSort, AdjacentRuns, SequenceOps

VARIABLE called  \* the function that is called

algoVars == <<called, sampleVars, rangeVars, balancedVars, searchVars, pivotVars, permVars,
              quickSortVars, runVars, sequenceVars>>

SampleIdle ==
  sizes = [r \in Ranks |-> 0] /\ n_sample = 0 /\ samples = [r \in Ranks |-> <<>>]
RangeIdle ==
  start = 0 /\ sz = 1 /\ n_elt = 1 /\ gen = 0 /\ n_round_up = 0 /\ visited = <<>>
BalancedIdle ==
  /\ n_slot = 1 /\ block_size = [b \in Blocks |-> 0] /\ block_weight = [b \in Blocks |-> 1]
  /\ dist = <<0, 0>> /\ weighted = <<0>> /\ bound = 2 /\ block = 1
  /\ partial_size = 0 /\ weighted_size = 0 /\ size = 0
SearchIdle ==
  /\ ticks = <<>> /\ inter = <<0, 1>> /\ max_distance = 0 /\ eq = FALSE
  /\ k = 0 /\ i = 0 /\ first_ticks = <<>> /\ inter_indices = <<>>
  /\ run = 0 /\ j = -1 /\ far_first_tick = -1 /\ n_far_tick = 0 /\ far = <<>> /\ near = <<>>
PivotIdle ==
  /\ variant = "less" /\ input = <<>> /\ pivots = <<>> /\ x = <<>> /\ out = <<>>
  /\ stack = <<[first |-> 0, last |-> 0, pf |-> 0, pl |-> 0, at |-> 0]>> /\ scan = <<>>
PermIdle ==
  rng = <<>> /\ p = <<>> /\ moved = <<>> /\ done = {} /\ head = 0 /\ prev = 0 /\ next = 0
QuickSortIdle == keys = <<>> /\ sorted = <<>> /\ frames = <<>> /\ crossing = <<>> /\ inserted = 0
RunsIdle ==
  /\ word = <<1>> /\ array = <<1>> /\ runFirst = 0 /\ runNext = 1 /\ runResult = 0
  /\ inserting = TRUE
  /\ compressed = <<1>> /\ copyResult = 0 /\ positions = <<0>> /\ reduced = <<<<1>>>>
SequencesIdle == left = <<>> /\ right = <<0>>

Callable == {"sample", "range", "balanced", "search", "pivot", "permute", "sort", "compress", "sequences"}

AlgoInit ==
  /\ called \in Callable
  /\ IF called = "sample" THEN SampleInit ELSE SampleIdle
  /\ IF called = "range" THEN RangeInit ELSE RangeIdle
  /\ IF called = "balanced" THEN BalancedInit ELSE BalancedIdle
  /\ IF called = "search" THEN SearchInit ELSE SearchIdle
  /\ IF called = "pivot" THEN PivotInit ELSE PivotIdle
  /\ IF called = "permute" THEN PermInit ELSE PermIdle
  /\ IF called = "sort" THEN QuickSortInit ELSE QuickSortIdle
  /\ IF called = "compress" THEN RunsInit ELSE RunsIdle
  /\ IF called = "sequences" THEN SequencesInit ELSE SequencesIdle

AlgoNext ==
  /\ UNCHANGED called
  /\ \/ called = "sample" /\ SampleNext
        /\ UNCHANGED <<rangeVars, balancedVars, searchVars, pivotVars, permVars, quickSortVars, runVars, sequenceVars>>
     \/ called = "range" /\ Increment
        /\ UNCHANGED <<sampleVars, balancedVars, searchVars, pivotVars, permVars, quickSortVars, runVars, sequenceVars>>
     \/ called = "balanced" /\ BalancedNext
        /\ UNCHANGED <<sampleVars, rangeVars, searchVars, pivotVars, permVars, quickSortVars, runVars, sequenceVars>>
     \/ called = "search" /\ SearchNext
        /\ UNCHANGED <<sampleVars, rangeVars, balancedVars, pivotVars, permVars, quickSortVars, runVars, sequenceVars>>
     \/ called = "pivot" /\ PivotNext
        /\ UNCHANGED <<sampleVars, rangeVars, balancedVars, searchVars, permVars, quickSortVars, runVars, sequenceVars>>
     \/ called = "permute" /\ PermNext
        /\ UNCHANGED <<sampleVars, rangeVars, balancedVars, searchVars, pivotVars, quickSortVars, runVars, sequenceVars>>
     \/ called = "sort" /\ QuickSortNext
        /\ UNCHANGED <<sampleVars, rangeVars, balancedVars, searchVars, pivotVars, permVars, runVars, sequenceVars>>
     \/ called = "compress" /\ NextRun
        /\ UNCHANGED <<sampleVars, rangeVars, balancedVars, searchVars, pivotVars, permVars, quickSortVars, sequenceVars>>
     \/ called = "sequences" /\ SequencesNext
        /\ UNCHANGED <<sampleVars, rangeVars, balancedVars, searchVars, pivotVars, permVars, quickSortVars, runVars>>

AlgoSpec == AlgoInit /\ [][AlgoNext]_algoVars

(* The call goes on as long as it can.                                          *)
FairAlgoSpec == AlgoSpec /\ WF_algoVars(AlgoNext)

-----------------------------------------------------------------------------
(* What is distributed is the same whichever function does it: the samples that *)
(* each rank takes by itself are those of the whole, the closed forms agree     *)
(* with the loops, and the slots of a weighted distribution, as it counts them  *)
(* or as elements_in_interval reads them back, are where the weights say.       *)
DistributionsAreEven == SamplesAreUniform /\ DistributionsAgree /\ SlotsAreBalanced

(* The versions of an algorithm that std_e has agree with each other: those on  *)
(* sequences, and unique_compress, in place, which overwrites the runs that it  *)
(* has read, or by copy.                                                        *)
AlgorithmsAgree == SequencesAgree /\ RunsAreCompressed

(* The loops and the recursions end: the generator falls on its sentinel, the   *)
(* last bound and the last tick are reached, no pivot is left, and no cycle of  *)
(* a permutation is followed for ever, and quicksort_loop comes to its end.     *)
Returned ==
  CASE called = "range" -> gen = AfterFinish
    [] called = "balanced" -> bound = n_slot + 2
    [] called = "search" -> Found
    [] called = "pivot" -> stack = <<>>
    [] called = "permute" -> head = Len(p)
    [] called = "sort" -> QuickSorted
    [] called = "compress" -> runNext = Len(word)
    [] OTHER -> TRUE
CallsReturn == <>Returned
=============================================================================
