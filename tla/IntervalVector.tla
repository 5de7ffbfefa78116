---------------------------- MODULE IntervalVector ----------------------------
(* An interval_vector that is built knot by knot, as its assertions allow.      *)
EXTENDS Intervals

CONSTANTS MaxKnot,  \* the greatest knot
          MaxKnots  \* how many knots are added at most

VARIABLE iv

KnotsInit == iv = <<>>

(* The assertion: the knots are ordered.                                        *)
PushKnot(x) == (iv # <<>> => Last(iv) <= x) /\ iv' = Append(iv, x)
PushLength(x) == iv # <<>> /\ iv' = Append(iv, Last(iv) + x)

KnotsNext ==
  /\ Len(iv) < MaxKnots
  /\ \/ \E x \in 0 .. MaxKnot : PushKnot(x)
     \/ \E x \in 0 .. (IF iv = <<>> THEN 0 ELSE MaxKnot - Last(iv)) : PushLength(x)

KnotsSpec == KnotsInit /\ [][KnotsNext]_iv

-----------------------------------------------------------------------------
(* The lengths and the first knot are the whole sequence, however it is rebuilt *)
(* from them; and the intervals tile it: any x is in the one that interval_index*)
(* says, past empty ones, before the first or after the last. The deprecated      *)
(* knot_sequence says the same.                                                 *)
IntervalsTile ==
  iv # <<>> =>
    LET n == NInterval(iv)
        lengths == IntervalLengths(iv)
    IN  /\ PartialSums(lengths, iv[1]) = iv
        /\ IndicesFromStrides(lengths) = [k \in DOMAIN iv |-> iv[k] - iv[1]]
        /\ IsKnotSequence(iv) /\ KnotsFromSizes(lengths) = IndicesFromStrides(lengths)
        /\ n > 0 => KnotLengths(iv) = lengths
        /\ \A i \in 0 .. n - 1 : LET r == KnotInterval(iv, i) IN Interval(r.first, r.last) = IntervalAt(iv, i)
        /\ IndicesFromStridesInplace(Append(lengths, MaxKnot), iv[1]) = iv
        /\ SumOver(Interval(1, n + 1), lengths) = Length(WholeInterval(iv))
        /\ \A i \in 0 .. n - 1 : Length(IntervalAt(iv, i)) = lengths[i + 1] /\ lengths[i + 1] >= 0
        /\ \A x \in -1 .. MaxKnot + 1 :
             LET i == IntervalIndex(x, iv)
             IN  /\ i = KnotIndex(x, iv)
                 /\ (i = -1) = (x < iv[1])
                 /\ (i = n) = (x >= Last(iv))
                 /\ \A j \in 0 .. n - 1 : (i = j) = IsIn(IntervalAt(iv, j), x)
        /\ \A i \in 0 .. n - 2 :
             /\ Contiguous(IntervalAt(iv, i), IntervalAt(iv, i + 1))
             /\ LET Closed(j) == Interval(iv[j + 1], iv[j + 2] - 1)
                IN  /\ ContiguousClosed(Closed(i), Closed(i + 1))
                    /\ ToClosedOpen(Closed(i)) = IntervalAt(iv, i)
                    /\ ClosedLength(Closed(i)) = lengths[i + 1]
                    /\ \A x \in 0 .. MaxKnot : IsInClosed(Closed(i), x) = IsIn(IntervalAt(iv, i), x)

(* With three knots: a rotation around the middle one of [first,last), position *)
(* by position, puts the second interval before the first.                      *)
RotationIsTracked ==
  Len(iv) = 3 =>
    LET moved == [i \in 0 .. MaxKnot |-> RotatedPosition(i, iv[1], iv[2], iv[3])]
        old == [i \in 1 .. iv[3] - iv[1] |-> CHOOSE j \in 0 .. MaxKnot : moved[j] = iv[1] + i - 1]
    IN  /\ \A i, j \in 0 .. MaxKnot : moved[i] = moved[j] => i = j
        /\ \A i \in 0 .. MaxKnot : ~IsIn(WholeInterval(iv), i) => moved[i] = i
        /\ IsInterval(SubSeq(old, 1, iv[3] - iv[2])) /\ IsInterval(SubSeq(old, iv[3] - iv[2] + 1, Len(old)))
        /\ iv[2] < iv[3] => old[1] = iv[2]

(* The check that only compares each interval that is not empty with the next   *)
(* of them says of any values whether all those of an interval are smaller than *)
(* all those of the following ones.                                             *)
PartitionIsSeen ==
  iv # <<>> /\ iv[1] = 0 /\ Last(iv) > 0 =>
    \A x \in [1 .. Last(iv) -> 1 .. 3] :
      IsPartitionedAtIndices(x, iv) =
        \A i, j \in 1 .. Last(iv) :
          IntervalIndex(i - 1, iv) < IntervalIndex(j - 1, iv) => x[i] < x[j]

(* The three of them, for every sequence of intervals.                          *)
IntervalsAgree == IntervalsTile /\ RotationIsTracked /\ PartitionIsSeen
=============================================================================
