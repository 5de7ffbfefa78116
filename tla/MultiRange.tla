------------------------------ MODULE MultiRange ------------------------------
(* A multi_vector: columns of the same length, zipped into rows. It is sorted   *)
(* by one of its columns: a permutation is made from that column, and applied   *)
(* to each column in turn. What is looked for in that column is then searched   *)
(* by bisection with <, whatever it is sorted with and whatever has been written*)
(* since. A jagged_multi_vector has an array of indices on top.                 *)
EXTENDS Intervals, Functions, PermutationOps

CONSTANTS Columns,            \* the columns, 0 .. n-1
          Keys,               \* what they hold, integers
          Comparators,        \* what a column is sorted with
          MaxRows

ASSUME MultiRangeAssumption ==
  /\ IsFiniteSet(Columns) /\ 0 \in Columns /\ Columns = 0 .. Cardinality(Columns) - 1
  /\ Keys \subseteq Int /\ MaxRows \in Nat
  /\ Comparators \subseteq {"less", "greater"}

VARIABLES column,             \* column[c]: a sequence
          sorted_rng_idx,     \* -1: none
          sortedWith,         \* what it is sorted with; "none": something has been written
          sorting,            \* -1, or the column that is sorted by
          comp,               \* what it is being sorted with
          order,              \* the permutation, from 0
          permuted,           \* how many columns are permuted
          unsorted,           \* the columns before
          levels              \* the index array; <<>>: a table, not a jagged range

multiRangeVars == <<column, sorted_rng_idx, sortedWith, sorting, comp, order, permuted, unsorted, levels>>

Rows == Len(column[0])
RowOf(columns, i) == [c \in Columns |-> columns[c][i]]

MultiRangeInit ==
  /\ column = [c \in Columns |-> <<>>]
  /\ sorted_rng_idx = -1 /\ sortedWith = "none"
  /\ sorting = -1 /\ comp = "none" /\ order = <<>> /\ permuted = 0 /\ unsorted = column
  /\ levels \in {<<>>, <<0>>}

NotSorting == sorting = -1
IsJagged == levels # <<>>

(* push_back: on a jagged range, in the last level. sorted_rng_idx stays.       *)
PushRow(row) ==
  /\ NotSorting /\ Rows < MaxRows
  /\ IsJagged => Len(levels) > 1
  /\ column' = [c \in Columns |-> Append(column[c], row[c])]
  /\ levels' = IF IsJagged THEN [levels EXCEPT ![Len(levels)] = @ + 1] ELSE levels
  /\ sortedWith' = "none"
  /\ UNCHANGED <<sorted_rng_idx, sorting, comp, order, permuted, unsorted>>
(* push_level                                                                   *)
PushLevel ==
  /\ NotSorting /\ IsJagged /\ Len(levels) <= MaxRows
  /\ levels' = Append(levels, Last(levels))
  /\ UNCHANGED <<column, sorted_rng_idx, sortedWith, sorting, comp, order, permuted, unsorted>>
(* An element is written through operator[], range or find_element.             *)
WriteElement(c, i, x) ==
  /\ NotSorting /\ ~IsJagged
  /\ column' = [column EXCEPT ![c][i] = x]
  /\ sortedWith' = "none"
  /\ UNCHANGED <<sorted_rng_idx, sorting, comp, order, permuted, unsorted, levels>>

(* To sort with > is to sort the opposites with <.                              *)
Compared(s, with) == IF with = "less" THEN s ELSE [k \in DOMAIN s |-> -s[k]]
InOrder(with, x, y) == IF with = "less" THEN x <= y ELSE x >= y

(* sort_by<index>(comp), sort(comp). reorder_by<index> does not use its argument*)
(* and sorts with <.                                                            *)
SortBy(index, with) ==
  /\ NotSorting /\ ~IsJagged
  /\ sorting' = index /\ comp' = with
  /\ order' \in SortPermutations(Compared(column[index], with))
  /\ permuted' = 0 /\ unsorted' = column
  /\ UNCHANGED <<column, sorted_rng_idx, sortedWith, levels>>
(* Mutant: the permutation is made again from a column that has moved.          *)
PermuteNextAgain ==
  /\ ~NotSorting /\ permuted < Cardinality(Columns)
  /\ \E p \in SortPermutations(Compared(column[sorting], comp)) :
       column' = [column EXCEPT ![permuted] = Permuted(@, p)]
  /\ permuted' = permuted + 1
  /\ UNCHANGED <<sorted_rng_idx, sortedWith, sorting, comp, order, unsorted, levels>>
(* apply_permutation__impl: one column.                                         *)
PermuteNext ==
  /\ ~NotSorting /\ permuted < Cardinality(Columns)
  /\ column' = [column EXCEPT ![permuted] = Permuted(@, order)]
  /\ permuted' = permuted + 1
  /\ UNCHANGED <<sorted_rng_idx, sortedWith, sorting, comp, order, unsorted, levels>>
(* The range does not keep what it is sorted with.                              *)
SortEnd ==
  /\ ~NotSorting /\ permuted = Cardinality(Columns)
  /\ sorted_rng_idx' = sorting /\ sortedWith' = comp
  /\ sorting' = -1 /\ comp' = "none" /\ order' = <<>> /\ permuted' = 0
  /\ UNCHANGED <<column, unsorted, levels>>

MultiRangeNext ==
  \/ \E row \in [Columns -> Keys] : PushRow(row)
  \/ PushLevel
  \/ \E c \in Columns : \E i \in 1 .. Rows : \E x \in Keys : WriteElement(c, i, x)
  \/ \E c \in Columns : \E with \in Comparators : SortBy(c, with)
  \/ PermuteNext \/ SortEnd

MultiRangeSpec == MultiRangeInit /\ [][MultiRangeNext]_multiRangeVars

-----------------------------------------------------------------------------
(* std::lower_bound, whatever the values: positions from 0.                     *)
LowerBound(s, x) ==
  LET from[len \in 0 .. Len(s)] ==
        LET half == len \div 2
        IN  [lo \in 0 .. Len(s) - len |->
               IF len = 0 THEN lo
               ELSE IF s[lo + half + 1] < x THEN from[len - half - 1][lo + half + 1]
               ELSE from[half][lo]]
  IN  from[Len(s)][0]
LinearFind(s, x) ==
  IF Contains(s, x) THEN SelectInSeq(s, LAMBDA y : y = x) - 1 ELSE Len(s)

FindIndex(index, x) ==
  IF index = sorted_rng_idx THEN LowerBound(column[index], x) ELSE LinearFind(column[index], x)
(* find_if_index, with the numbers of the rows that satisfy the predicate.      *)
FindIfIndex(satisfying) == IF satisfying = {} THEN Rows ELSE Min(satisfying) - 1
(* find_element, find_associate. The value is there: find asserts it.           *)
FindElement(search_index, found_index, x) == column[found_index][FindIndex(search_index, x) + 1]

(* make_span_n and make_span_ref_n: the same part of each column.               *)
SpanN(start, n) == [first |-> start, last |-> start + n]
(* make_span and make_span_ref of start_idx and finish_idx call them with       *)
(* finish_idx.                                                                  *)
SpanFromTo(start_idx, finish_idx) == SpanN(start_idx, finish_idx)
(* operator[] of a jagged_multi_vector.                                         *)
JaggedBlock(i) == SpanFromTo(levels[i + 1], levels[i + 2])

-----------------------------------------------------------------------------
(* A row is sorted as a whole: after all the columns have been permuted each    *)
(* row is there as many times as before, and the key column is in the order of  *)
(* the comparator.                                                              *)
RowsAreKept ==
  sortedWith # "none" /\ NotSorting =>
    /\ \E p \in Bijection(1 .. Rows, 1 .. Rows) :
         \A i \in 1 .. Rows : RowOf(column, i) = RowOf(unsorted, p[i])
    /\ \A i \in 1 .. Rows - 1 :
         InOrder(sortedWith, column[sorted_rng_idx][i], column[sorted_rng_idx][i + 1])

(* A column that is not the sorted one is searched linearly, and as long as what*)
(* is sorted with < has not been written, the binary search finds the row that a*)
(* linear one would find. After a sort it is one of the rows that have been put *)
(* together.                                                                    *)
FoundInTheirRow ==
  NotSorting =>
    \A c, d \in Columns : \A x \in Keys :
      (c = sorted_rng_idx => sortedWith = "less") =>
        IF Contains(column[c], x)
          THEN /\ FindIndex(c, x) = LinearFind(column[c], x)
               /\ FindIfIndex({i \in 1 .. Rows : column[c][i] = x}) = FindIndex(c, x)
               /\ sortedWith # "none" =>
                    \E i \in 1 .. Rows : unsorted[c][i] = x /\ unsorted[d][i] = FindElement(c, d, x)
          ELSE FindIndex(c, x) = IF c = sorted_rng_idx
                                   THEN Cardinality({i \in 1 .. Rows : column[c][i] < x}) ELSE Rows

(* What the binary search still promises of a column that is sorted with another*)
(* comparator, or to which rows have been added since: it stops between a key   *)
(* that is less than x, or the first row, and one that is not, or the last row. *)
(* So what find returns never has a smaller key, and may have a greater one.    *)
StopsBetweenKeys ==
  NotSorting /\ sorted_rng_idx # -1 =>
    \A x \in Keys :
      LET key == column[sorted_rng_idx]
          i == FindIndex(sorted_rng_idx, x)
      IN  /\ i \in 0 .. Rows
          /\ i > 0 => key[i] < x
          /\ i < Rows => key[i + 1] >= x

RowsAreFound == RowsAreKept /\ FoundInTheirRow /\ StopsBetweenKeys

(* "if a range has been sorted, calls to find on it will use a binary search"   *)
(* (multi_range.hpp:18): what is in a column that has just been sorted is found.*)
SortedKeysAreFound ==
  NotSorting /\ sortedWith # "none" =>
    \A x \in Keys :
      LET i == FindIndex(sorted_rng_idx, x)
      IN  Contains(column[sorted_rng_idx], x) => i < Rows /\ column[sorted_rng_idx][i + 1] = x

(* The blocks of a jagged_multi_vector are delimited by its index array.        *)
BlocksOfRows ==
  \A i \in 0 .. Len(levels) - 2 : JaggedBlock(i) = IntervalAt(levels, i)
=============================================================================
