--------------------------- MODULE SearchIntervals ---------------------------
(* The two loops of search_near_or_containing_interval (and of its variant for  *)
(* the knots of pivot_partition_eq_indices), step by step: the search of the    *)
(* intervals in one pass over the ticks and the intervals, then the sorting of  *)
(* the ticks of each interval into near and far ones.                           *)
EXTENDS Distribution, SequencesExt

CONSTANTS MaxTick,      \* the largest number of ticks
          MaxInterval,  \* the largest number of intervals
          MaxValue,     \* the values of the ticks and of the ends of the intervals
          MaxDistance   \* the largest distance of a near tick

ASSUME SearchAssumption ==
  MaxTick \in Nat /\ MaxInterval \in Nat \ {0} /\ MaxValue \in Nat /\ MaxDistance \in Nat

VARIABLES ticks, inter, max_distance, eq,         \* the arguments
          k, i,                                   \* the loop of search_intervals
          first_ticks, inter_indices,             \* its results, closed when i = n
          run, j, far_first_tick, n_far_tick,     \* the loops of the second pass
          far,                                    \* <<first, number, interval>>
          near                                    \* <<tick, knot>>

searchArgs == <<ticks, inter, max_distance, eq>>
firstPass == <<k, i, first_ticks, inter_indices>>
secondPass == <<run, j, far_first_tick, n_far_tick, far, near>>
searchVars == <<searchArgs, firstPass, secondPass>>

Increasing(m, n) == {s \in [1 .. m -> 0 .. n] : \A a, b \in 1 .. m : a < b => s[a] <= s[b]}

SearchInit ==
  /\ eq \in BOOLEAN
  /\ max_distance \in 0 .. MaxDistance
  /\ \E m \in 2 .. MaxInterval + 1 : inter \in Increasing(m, MaxValue)
  /\ \E m \in 0 .. MaxTick : ticks \in Increasing(m, MaxValue)
  /\ ticks # <<>> => inter[1] <= ticks[1] /\ Last(ticks) <= Last(inter)   \* (1)
  /\ k = 0 /\ i = 0
  /\ first_ticks = <<>> /\ inter_indices = <<>>
  /\ run = 0 /\ j = -1 /\ far_first_tick = -1 /\ n_far_tick = 0
  /\ far = <<>> /\ near = <<>>

InFirstPass == run = 0
Tick(n) == ticks[n + 1]

(* if (inter_indices.size()==0 || inter_indices.back()!=k), then ++i            *)
Record(n) ==
  /\ IF inter_indices = <<>> \/ Last(inter_indices) # n
       THEN /\ first_ticks' = Append(first_ticks, i)
            /\ inter_indices' = Append(inter_indices, n)
       ELSE UNCHANGED <<first_ticks, inter_indices>>
  /\ i' = i + 1

(* The end of the last interval.                                                *)
RecordEnd ==
  /\ InFirstPass /\ i < Len(ticks)
  /\ Tick(i) = Last(inter)
  /\ k' = Len(inter) - 2
  /\ Record(k')
  /\ UNCHANGED <<searchArgs, secondPass>>

Passed(sup) == Tick(i) >= sup

NextInterval ==
  /\ InFirstPass /\ i < Len(ticks)
  /\ Tick(i) # Last(inter)
  /\ Passed(inter[k + 2])
  /\ k' = k + 1
  /\ UNCHANGED <<searchArgs, i, first_ticks, inter_indices, secondPass>>

RecordTick ==
  /\ InFirstPass /\ i < Len(ticks)
  /\ Tick(i) # Last(inter)
  /\ ~Passed(inter[k + 2])
  /\ Record(k)
  /\ UNCHANGED <<searchArgs, k, secondPass>>

(* "proper ending", then the second pass begins.                                *)
CloseSearch ==
  /\ InFirstPass /\ i = Len(ticks)
  /\ first_ticks' = Append(first_ticks, i)
  /\ inter_indices' = Append(inter_indices, k + 1)
  /\ run' = 1
  /\ j' = first_ticks'[1]
  /\ UNCHANGED <<searchArgs, k, i, far_first_tick, n_far_tick, far, near>>

InRun == run \in 1 .. Len(first_ticks) - 1 /\ j < first_ticks[run + 1]
Inf == inter[inter_indices[run] + 1]
Sup == inter[inter_indices[run] + 2]
IsEqualRange == eq /\ inter_indices[run] % 2 = 1

RegisterNear(knot) ==
  /\ near' = Append(near, <<j, knot>>)
  /\ j' = j + 1
  /\ UNCHANGED <<searchArgs, firstPass, run, far_first_tick, n_far_tick, far>>

NearInEqualRange ==
  /\ InRun /\ IsEqualRange
  /\ RegisterNear(inter_indices[run] + IF Tick(j) - Inf <= Sup - Tick(j) THEN 0 ELSE 1)
NearInf ==
  /\ InRun /\ ~IsEqualRange
  /\ Abs(Tick(j) - Inf) <= max_distance
  /\ RegisterNear(inter_indices[run])
(* Mutant: the wrong end is registered.                                         *)
NearSupWrongEnd ==
  /\ InRun /\ ~IsEqualRange
  /\ Abs(Tick(j) - Inf) > max_distance
  /\ Abs(Tick(j) - Sup) <= max_distance
  /\ RegisterNear(inter_indices[run])
NearSup ==
  /\ InRun /\ ~IsEqualRange
  /\ Abs(Tick(j) - Inf) > max_distance
  /\ Abs(Tick(j) - Sup) <= max_distance
  /\ RegisterNear(inter_indices[run] + 1)
Far ==
  /\ InRun /\ ~IsEqualRange
  /\ Abs(Tick(j) - Inf) > max_distance
  /\ Abs(Tick(j) - Sup) > max_distance
  /\ far_first_tick' = IF n_far_tick = 0 THEN j ELSE far_first_tick
  /\ n_far_tick' = n_far_tick + 1
  /\ j' = j + 1
  /\ UNCHANGED <<searchArgs, firstPass, run, far, near>>

(* if (n_far_tick>0), and the next interval that contains ticks.                *)
RunEnd ==
  /\ run \in 1 .. Len(first_ticks) - 1
  /\ j = first_ticks[run + 1]
  /\ far' = IF n_far_tick > 0
              THEN Append(far, <<far_first_tick, n_far_tick, inter_indices[run]>>)
              ELSE far
  /\ n_far_tick' = 0
  /\ far_first_tick' = -1
  /\ run' = run + 1
  /\ UNCHANGED <<searchArgs, firstPass, j, near>>

SearchNext ==
  \/ RecordEnd \/ NextInterval \/ RecordTick \/ CloseSearch
  \/ NearInEqualRange \/ NearInf \/ NearSup \/ Far \/ RunEnd

SearchSpec == SearchInit /\ [][SearchNext]_searchVars

-----------------------------------------------------------------------------
Found == run > 0 /\ run = Len(first_ticks)

(* The loop invariant (2) of search_intervals, "inter[k] <= ticks[i]", and what *)
(* it is for: inter[k+1] exists for every k the inner loop comes to.            *)
SearchInvariant ==
  /\ InFirstPass => k + 1 < Len(inter)
  /\ InFirstPass /\ i < Len(ticks) => inter[k + 1] <= Tick(i)

(* The runs of ticks are the intervals that contain ticks, each once, and the   *)
(* ticks from first_ticks[r] to the next one are all in the interval.           *)
RunsAreIntervals ==
  \A r \in 1 .. Len(first_ticks) - 1 :
    /\ first_ticks[r] < first_ticks[r + 1] /\ inter_indices[r] < inter_indices[r + 1]
    /\ \A t \in first_ticks[r] .. first_ticks[r + 1] - 1 :
         inter_indices[r] = ContainingInterval(Tick(t), inter)

(* A group of far ticks is given by its first tick and their number: the far    *)
(* ticks of an interval follow each other, and no near one is between them.     *)
FarTicksAreGroups ==
  /\ {far[f][3] : f \in 1 .. Len(far)}
       = {n \in 0 .. Len(inter) - 2 : FarTicks(ticks, inter, max_distance, eq, n) # {}}
  /\ \A f \in 1 .. Len(far) :
       FarTicks(ticks, inter, max_distance, eq, far[f][3])
         = far[f][1] .. far[f][1] + far[f][2] - 1

(* Every other tick is near, once, and is registered at the knot that           *)
(* sort_by_rank expects; the knots are in the order of the ticks, so that the   *)
(* parts that are cut there do not overlap.                                     *)
NearTicksAreRegistered ==
  /\ {near[m][1] : m \in 1 .. Len(near)} = NearTicks(ticks, inter, max_distance, eq)
  /\ \A m \in 1 .. Len(near) :
       near[m][2] = NearKnot(Tick(near[m][1]), inter,
                             ContainingInterval(Tick(near[m][1]), inter),
                             max_distance, eq)
  /\ \A m, n \in 1 .. Len(near) :
       m < n => near[m][1] < near[n][1] /\ inter[near[m][2] + 1] <= inter[near[n][2] + 1]

(* What the first pass gives to the second, and what the second one returns:    *)
(* every tick is found, in one interval, and is near or far.                    *)
TicksAreFound ==
  /\ ~InFirstPass => RunsAreIntervals
  /\ Found => FarTicksAreGroups /\ NearTicksAreRegistered

=============================================================================
