----------------------------- MODULE Distribution -----------------------------
(* The arithmetic of std_e/algorithm/distribution: where the bounds of a        *)
(* uniform distribution are, and which of n_tick equally spaced ticks fall in a *)
(* sub-interval; and, as functions of their arguments, search_intervals and     *)
(* search_near_or_containing_interval, which look such ticks up. A C++ vector v *)
(* is a sequence: v[i] of the code is v[i+1] here; the indices that are values  *)
(* keep the numbers of the code.                                                *)
EXTENDS Integers, Sequences, FiniteSets

(* The i-th bound of the distribution of sz_tot elements over n_interval.       *)
UniformDistributionPoint(sz_tot, n_interval, i) ==
  LET spacing_round_down == sz_tot \div n_interval
      n_round_up == sz_tot % n_interval
  IN  IF i < n_round_up THEN (spacing_round_down + 1) * i
      ELSE (spacing_round_down + 1) * n_round_up
             + spacing_round_down * (i - n_round_up)

(* uniform_distribution(first,last,elt0,n_elt): an iota of step quotient+1,     *)
(* then one of step quotient that continues from its last value.                *)
UniformKnots(elt0, n_elt, n_interval) ==
  LET quotient == n_elt \div n_interval
      remainder == n_elt % n_interval
      lastUpper == elt0 + remainder * (quotient + 1)
  IN  [j \in 1 .. n_interval + 1 |->
         IF j <= remainder + 1 THEN elt0 + (j - 1) * (quotient + 1)
         ELSE lastUpper + (j - remainder - 1) * quotient]

(* The ticks a loop pushes that starts at first, takes nUp steps of up, then    *)
(* steps of down, and stops at the first value that is not below finish.        *)
TicksFrom(first, nUp, up, down, finish) ==
  LET Tick(j) == IF j <= nUp THEN first + j * up
                 ELSE first + nUp * up + (j - nUp) * down
      n == Cardinality({j \in 0 .. finish : Tick(j) < finish})
  IN  [j \in 1 .. n |-> Tick(j - 1)]

(* Of n_tick ticks spread over [0,end), those in [start,finish).                *)
UniformTicksInSubInterval(start, finish, end, n_tick) ==
  LET mid == ((end - 1) \div 2) + ((end - 1) % 2)
      n_partition == n_tick - 1
      down == (end - 1) \div n_partition
      up == down + 1
      n_round_up == (end - 1) % n_partition
      (* the number of steps that lead to the first tick not before start *)
      Steps(from, step) == (from \div step) + (IF from % step = 0 THEN 0 ELSE 1)
      inUp == Steps(start, up)
      inDown == Steps(start - n_round_up * up, down)
  IN  IF n_tick = 0 THEN <<>>
      ELSE IF n_tick = 1
        THEN IF start <= mid /\ mid < finish THEN <<mid>> ELSE <<>>
      ELSE IF start < n_round_up * up
        THEN TicksFrom(inUp * up, n_round_up - inUp, up, down, finish)
      ELSE TicksFrom(n_round_up * up + inDown * down, 0, up, down, finish)

(* The number of ticks of i_bucket, for n_tick ticks over n_buckets buckets.    *)
NumberOfTicksInInterval(n_buckets, n_tick, i_bucket) ==
  LET n == n_buckets
      inf == (n_tick + 1) * i_bucket
      sup == (n_tick + 1) * (i_bucket + 1)
      j_min == (inf \div n) + (IF inf % n > 0 \/ inf \div n = 0 THEN 1 ELSE 0)
      j_max == (sup \div n) - (IF sup % n = 0 THEN 1 ELSE 0)
  IN  IF j_max < j_min THEN 0 ELSE j_max - j_min + 1

(* The indices that uniform_sample_exclude_ends takes in a range of size sz.    *)
SampleExcludeEnds(sz, n_sample) ==
  IF sz = n_sample THEN [i \in 1 .. n_sample |-> i - 1]
  ELSE IF sz = n_sample + 1 THEN [i \in 1 .. n_sample |-> i]
  ELSE LET ticks == UniformTicksInSubInterval(0, sz, sz, n_sample + 2)
       IN  [i \in 1 .. n_sample |-> ticks[i + 1]]

-----------------------------------------------------------------------------
(* In which interval of inter each tick is, and whether it is near one end of   *)
(* it. Ticks, intervals and knots are numbered from 0, as in the code: tick i   *)
(* is ticks[i+1], and inter[k+1] begins the interval k.                         *)

(* The interval that contains a tick: the last one that begins at it or before  *)
(* it. The end of the last interval is in the last interval.                    *)
ContainingInterval(tick, inter) ==
  IF tick = inter[Len(inter)] THEN Len(inter) - 2
  ELSE CHOOSE k \in 0 .. Len(inter) - 2 : inter[k + 1] <= tick /\ tick < inter[k + 2]

Abs(n) == IF n < 0 THEN -n ELSE n

(* The knot a tick is registered at, or -1 if it is far from both ends of its   *)
(* interval k. With eq, the intervals of odd number hold equal elements and are *)
(* never divided.                                                               *)
NearKnot(tick, inter, k, max_distance, eq) ==
  LET inf == Abs(tick - inter[k + 1])
      sup == Abs(tick - inter[k + 2])
  IN  CASE eq /\ k % 2 = 1 -> IF inf <= sup THEN k ELSE k + 1
        [] OTHER -> IF inf <= max_distance THEN k
                    ELSE IF sup <= max_distance THEN k + 1 ELSE -1

(* What a search returns: the far ticks, grouped by interval, and the near ones.*)
FarTicks(ticks, inter, max_distance, eq, k) ==
  {i \in 0 .. Len(ticks) - 1 :
     /\ ContainingInterval(ticks[i + 1], inter) = k
     /\ NearKnot(ticks[i + 1], inter, k, max_distance, eq) = -1}

NearTicks(ticks, inter, max_distance, eq) ==
  {i \in 0 .. Len(ticks) - 1 :
     NearKnot(ticks[i + 1], inter, ContainingInterval(ticks[i + 1], inter),
              max_distance, eq) # -1}

=============================================================================
