------------------------------ MODULE MultiArray ------------------------------
(* Operators on multi-indices and on the shapes and views of multi_arrays       *)
(* (std_e/multi_index, std_e/multi_array); the generator of a multi_index_range;*)
(* and an array that owns its memory and is reshaped. Multi-indices are         *)
(* sequences, axes are numbered from 1. A shape is [extent, offset]; positions  *)
(* in the memory are from 0.                                                    *)
EXTENDS Intervals

CONSTANTS MaxRank,     \* axes
          MaxExtent,   \* values along an axis
          Elements,    \* what is written in the memory, not 0
          Extents      \* the extents along an axis of what is reshaped, 0 among them

ASSUME MultiIndexAssumption == MaxRank \in Nat /\ MaxExtent \in Nat
ASSUME LabeledAssumption == Extents \subseteq Nat /\ 0 \in Extents /\ 0 \notin Elements

Zeros(rank) == [a \in 1 .. rank |-> 0]
CartesianProductSize(dims) == FoldLeft(LAMBDA n, d : n * d, 1, dims)

(* Mutant: an axis that wraps is not set to 0 again.                            *)
IncrementedNoReset(dims, indices, order) ==
  LET Carry(acc, axis) ==
        IF ~acc.carry THEN acc
        ELSE [indices |-> [acc.indices EXCEPT ![axis] = @ + 1],
              carry |-> acc.indices[axis] + 1 = dims[axis]]
  IN  FoldLeft(Carry, [indices |-> indices, carry |-> TRUE], order).indices
(* increment_multi_index: the first axis of the order is incremented, and those *)
(* that wrap carry to the next one. fortran_order goes from the first axis to   *)
(* the last, c_order from the last to the first.                                *)
Incremented(dims, indices, order) ==
  LET Carry(acc, axis) ==
        IF ~acc.carry THEN acc
        ELSE LET i == acc.indices[axis] + 1
             IN  [indices |-> [acc.indices EXCEPT ![axis] = IF i = dims[axis] THEN 0 ELSE i],
                  carry |-> i = dims[axis]]
  IN  FoldLeft(Carry, [indices |-> indices, carry |-> TRUE], order).indices
FortranOrder(rank) == [k \in 1 .. rank |-> k]
COrder(rank) == [k \in 1 .. rank |-> rank + 1 - k]

(* multi_index_fortran_order and multi_index_c_order: the digits of a position. *)
MultiIndexInOrder(dims, idx_1d, order) ==
  LET Digit(acc, axis) == [res |-> [acc.res EXCEPT ![axis] = acc.idx % dims[axis]],
                           idx |-> acc.idx \div dims[axis]]
  IN  FoldLeft(Digit, [res |-> Zeros(Len(dims)), idx |-> idx_1d], order).res

(* The sum that fortran_order_from_dimensions and c_order_from_dimensions make, *)
(* with the stride that grows along the axes.                                   *)
FromDimensions(dims, offsets, indices, order) ==
  LET Add(acc, axis) == [res |-> acc.res + (offsets[axis] + indices[axis]) * acc.stride,
                         stride |-> acc.stride * dims[axis]]
  IN  FoldLeft(Add, [res |-> 0, stride |-> 1], order).res
FortranOrderFromDimensions(dims, offsets, indices) ==
  FromDimensions(dims, offsets, indices, FortranOrder(Len(dims)))
COrderFromDimensions(dims, offsets, indices) ==
  FromDimensions(dims, offsets, indices, COrder(Len(dims)))

(* fortran_strides_from_extent2; fortran_strides_from_extent skips the first.   *)
Strides(dims) == [k \in 1 .. Len(dims) + 1 |-> CartesianProductSize(SubSeq(dims, 1, k - 1))]
StridesFromExtent(dims) == [k \in 1 .. Len(dims) |-> CartesianProductSize(SubSeq(dims, 1, k))]
OrderFromStrides(strides, indices) ==
  FoldLeft(LAMBDA sum, k : sum + indices[k] * (IF k = 1 THEN 1 ELSE strides[k - 1]),
           0, FortranOrder(Len(indices)))
OrderFromStrides2(strides, indices) ==
  FoldLeft(LAMBDA sum, k : sum + indices[k] * (IF k = 1 THEN 1 ELSE strides[k]),
           0, FortranOrder(Len(indices)))

IsOneDimensional(dims) == Cardinality({k \in DOMAIN dims : dims[k] > 1}) <= 1

-----------------------------------------------------------------------------
Shape(extent, offset) == [extent |-> extent, offset |-> offset]

(* multi_array::linear_index                                                    *)
LinearIndex(shape, indices) ==
  IF indices = <<>> THEN 0 ELSE FortranOrderFromDimensions(shape.extent, shape.offset, indices)

(* make_sub_shape with the last axes fixed, or with given ones.                 *)
SubShapeRight(shape, right_restriction) ==
  LET rank == Len(shape.extent) - right_restriction
  IN  Shape(SubSeq(shape.extent, 1, rank), SubSeq(shape.offset, 1, rank))
SubShape(shape, fixed_axes) ==
  LET kept == SelectSeq(FortranOrder(Len(shape.extent)), LAMBDA a : ~Contains(fixed_axes, a))
  IN  Shape([k \in DOMAIN kept |-> shape.extent[kept[k]]], [k \in DOMAIN kept |-> shape.offset[kept[k]]])

(* make_sub_array: where it starts, and its shape. The offset of an axis that   *)
(* is left is counted in both.                                                  *)
SubArray(shape, right) ==
  LET start == LinearIndex(shape, Zeros(Len(shape.extent) - Len(right)) \o right)
  IN  [start |-> start, shape |-> SubShapeRight(shape, Len(right))]
SubArrayPosition(sub, indices) == sub.start + LinearIndex(sub.shape, indices)
(* make_span, column: the values of the first axis.                             *)
SpanOf(shape, right) == [start |-> SubArray(shape, right).start, n |-> shape.extent[1], stride |-> 1]

(* strided_array: the indices of the array, from those that are fixed and those *)
(* that are given, both in the order of the axes.                               *)
OriginIndices(fixed_axes, fixed, indices) ==
  LET Next(acc, axis) ==
        IF acc.k0 < Len(fixed) /\ axis = fixed_axes[acc.k0 + 1]
          THEN [acc EXCEPT !.k0 = @ + 1, !.is = Append(@, fixed[acc.k0 + 1])]
          ELSE [acc EXCEPT !.k1 = @ + 1, !.is = Append(@, indices[acc.k1 + 1])]
  IN  FoldLeft(Next, [k0 |-> 0, k1 |-> 0, is |-> <<>>], FortranOrder(Len(fixed) + Len(indices))).is
(* With no axis left the first value is given, whatever is fixed.               *)
StridedPosition(shape, fixed_axes, fixed, indices) ==
  IF indices = <<>> THEN 0 ELSE LinearIndex(shape, OriginIndices(fixed_axes, fixed, indices))

(* make_strided_span__impl, row: the offsets of the array are not used.         *)
StridedSpan(shape, axis, fixed) ==
  LET strides == Strides(shape.extent)
      at == SubSeq(fixed, 1, axis - 1) \o <<0>> \o SubSeq(fixed, axis, Len(fixed))
  IN  [start |-> FoldLeft(LAMBDA sum, k : sum + at[k] * strides[k], 0, FortranOrder(Len(at))),
       n |-> shape.extent[axis], stride |-> strides[axis]]
(* strided_span: element i                                                      *)
SpanPosition(span, i) == span.start + i * span.stride

(* block_view: the values of an interval of indices, counted from its first.    *)
BlockViewPosition(shape, first, indices) ==
  FortranOrderFromDimensions(shape.extent, [a \in DOMAIN first |-> first[a] + shape.offset[a]], indices)

(* reversed_indices_view                                                        *)
PermutedShape(shape) == Shape(Reverse(shape.extent), Reverse(shape.offset))
ReversedPosition(shape, indices) == LinearIndex(shape, Reverse(indices))

-----------------------------------------------------------------------------
(* The generator of a multi_index_range goes through the indices of an array,   *)
(* in Fortran order, in C order or in any order of the axes, up to its          *)
(* sentinel. On its way, each view of the array is asked where it finds the     *)
(* value of the current index.                                                  *)

VARIABLES array,      \* the shape of the array
          axes,       \* the order in which the axes are incremented
          indices, current_pos

multiIndexVars == <<array, axes, indices, current_pos>>

MultiIndexInit ==
  /\ \E rank \in 0 .. MaxRank :
       /\ \E extent \in [1 .. rank -> 0 .. MaxExtent] : \E offset \in [1 .. rank -> 0 .. 1] :
            array = Shape(extent, offset)
       /\ axes \in Bijection(1 .. rank, 1 .. rank)
       /\ indices = Zeros(rank)
  /\ current_pos = 0

(* operator++, until the generator compares equal to its sentinel.              *)
Generate ==
  /\ current_pos # CartesianProductSize(array.extent)
  /\ current_pos' = current_pos + 1
  /\ indices' = Incremented(array.extent, indices, axes)
  /\ UNCHANGED <<array, axes>>

MultiIndexSpec == MultiIndexInit /\ [][Generate]_multiIndexVars

-----------------------------------------------------------------------------
FromZero(s) == [a \in 0 .. Len(s) - 1 |-> s[a + 1]]
Rank == Len(array.extent)
NoOffset == Zeros(Rank)

(* The position of the generator is the rank of its index in the order of the   *)
(* axes: by the digits, by either of the two loops on the dimensions, by the    *)
(* strides, and by the sums of products of multi_interval.                      *)
GeneratorInOrder ==
  IF current_pos = CartesianProductSize(array.extent) THEN indices = Zeros(Rank)
  ELSE
    LET dims == array.extent
        indexF == IndexWithFortranLayout(FromZero(indices), FromZero(dims))
        indexC == IndexWithCLayout(FromZero(indices), FromZero(dims))
    IN  /\ MultiIndexInOrder(dims, current_pos, axes) = indices
        /\ FromDimensions(dims, NoOffset, indices, axes) = current_pos
        /\ axes = FortranOrder(Rank) => current_pos = indexF
        /\ axes = COrder(Rank) => current_pos = indexC
        /\ FortranOrderFromDimensions(dims, NoOffset, indices) = indexF
        /\ Rank > 0 => /\ COrderFromDimensions(dims, NoOffset, indices) = indexC
                       /\ OrderFromStrides(StridesFromExtent(dims), indices) = indexF
                       /\ OrderFromStrides2(Strides(dims), indices) = indexF
        /\ IsOneDimensional(dims) => indexF = indexC
        /\ MultiLength(indices, dims) = [a \in 1 .. Rank |-> dims[a] - indices[a]]

(* The views find the value where the array has it: at an index that is counted *)
(* from the offset, with the last axes fixed (when those that are left have no  *)
(* offset), with any axes fixed except all of them, along one axis (without any *)
(* offset), from the first index of a block, and with the indices reversed.     *)
ViewsFindTheValue ==
  current_pos < CartesianProductSize(array.extent) /\ axes = FortranOrder(Rank) /\ Rank > 0 =>
    LET index == [a \in 1 .. Rank |-> indices[a] - array.offset[a]]
        Fixed(keep) == SelectSeq(FortranOrder(Rank), LAMBDA a : a \notin keep)
        At(is) == [k \in DOMAIN is |-> index[is[k]]]
        without == Shape(array.extent, NoOffset)
    IN  /\ LinearIndex(array, index) = current_pos
        /\ \A n \in 0 .. Rank - 1 :
             LET left == Rank - n
                 sub == SubArray(array, SubSeq(index, left + 1, Rank))
             IN  (\A a \in 1 .. left : array.offset[a] = 0) =>
                   /\ SubArrayPosition(sub, SubSeq(index, 1, left)) = current_pos
                   /\ left = 1 => LET span == SpanOf(array, SubSeq(index, 2, Rank))
                                  IN  span.n = CartesianProductSize(sub.shape.extent)
                                      /\ SpanPosition(span, index[1]) = current_pos
        /\ \A keep \in SUBSET (1 .. Rank) :
             LET kept == SelectSeq(FortranOrder(Rank), LAMBDA a : a \in keep)
             IN  /\ keep # {} => StridedPosition(array, Fixed(keep), At(Fixed(keep)), At(kept)) = current_pos
                 /\ SubShape(array, Fixed(keep)).extent = [k \in DOMAIN kept |-> array.extent[kept[k]]]
                 /\ keep = 1 .. Cardinality(keep) =>
                      SubShape(array, Fixed(keep)) = SubShapeRight(array, Rank - Cardinality(keep))
        /\ \A a \in 1 .. Rank :
             LET fixed == Fixed({a})
                 span == StridedSpan(without, a, [k \in DOMAIN fixed |-> indices[fixed[k]]])
             IN  SpanPosition(span, indices[a]) = current_pos /\ indices[a] < span.n
        /\ \A shift \in [1 .. Rank -> 0 .. 1] :
             BlockViewPosition(array, shift, [a \in 1 .. Rank |-> index[a] - shift[a]]) = current_pos
        /\ ReversedPosition(array, Reverse(index)) = current_pos
        /\ PermutedShape(PermutedShape(array)) = array

MultiIndicesAgree == GeneratorInOrder /\ ViewsFindTheValue

-----------------------------------------------------------------------------
(* A multi_array that owns its memory and is reshaped, and a multi_labels_array *)
(* that is reshaped when labels are given to its axes. The memory is resized as *)
(* a vector is: nothing in it moves.                                            *)

Axes == 1 .. 2

VARIABLES labeled,   \* is it a multi_labels_array?
          labels,    \* how many labels each axis has
          extent, memory

labeledVars == <<labeled, labels, extent, memory>>

LabeledInit ==
  /\ labeled \in BOOLEAN
  /\ labels = Zeros(2) /\ extent = Zeros(2) /\ memory = <<>>

(* Mutant: the memory is allocated again.                                       *)
ReshapeAnew(dims) ==
  LET total_size == CartesianProductSize(dims)
  IN  extent' = dims /\ memory' = [k \in 1 .. total_size |-> 0]
(* reshape: the extents, then the memory.                                       *)
Reshape(dims) ==
  LET total_size == CartesianProductSize(dims)
  IN  /\ extent' = dims
      /\ memory' = [k \in 1 .. total_size |-> IF k \in DOMAIN memory THEN memory[k] ELSE 0]

ReshapeArray(dims) == ~labeled /\ Reshape(dims) /\ UNCHANGED <<labeled, labels>>

(* cons_reshape: the memory is the same.                                        *)
ConsReshape(dims) ==
  /\ ~labeled /\ CartesianProductSize(dims) = CartesianProductSize(extent)
  /\ extent' = dims
  /\ UNCHANGED <<labeled, labels, memory>>

(* set_labels and increment_direction, append_row, append_col.                  *)
SetLabels(i, n) ==
  /\ labeled
  /\ labels' = [labels EXCEPT ![i] = n]
  /\ Reshape([extent EXCEPT ![i] = n])
  /\ UNCHANGED labeled
IncrementDirection(i) ==
  /\ labeled /\ extent[i] + 1 \in Extents
  /\ labels' = [labels EXCEPT ![i] = @ + 1]
  /\ Reshape([extent EXCEPT ![i] = @ + 1])
  /\ UNCHANGED labeled

(* operator() is assigned to.                                                   *)
PositionIn(dims, is) == LinearIndex(Shape(dims, Zeros(2)), is) + 1
Indices(dims) == {is \in [Axes -> 0 .. Max(Extents) - 1] : \A a \in Axes : is[a] < dims[a]}
Assign(is, x) ==
  /\ memory' = [memory EXCEPT ![PositionIn(extent, is)] = x]
  /\ UNCHANGED <<labeled, labels, extent>>

LabeledNext ==
  \/ \E dims \in [Axes -> Extents] : ReshapeArray(dims) \/ ConsReshape(dims)
  \/ \E i \in Axes : \/ \E n \in Extents : SetLabels(i, n)
                     \/ IncrementDirection(i)
  \/ \E is \in Indices(extent) : \E x \in Elements : Assign(is, x)

LabeledSpec == LabeledInit /\ [][LabeledNext]_labeledVars

-----------------------------------------------------------------------------
(* One value for each index and one label for each row and column, after any    *)
(* changes; columns that are added or dropped at the end leave the others as    *)
(* they were, the new ones are default values, and what is written is read      *)
(* where it is written only. (Rows that are added move the values.)             *)
SizesAgree ==
  /\ Len(memory) = CartesianProductSize(extent)
  /\ labeled => labels = extent
  /\ {PositionIn(extent, is) : is \in Indices(extent)} = DOMAIN memory
ColumnsStay ==
  /\ extent'[1] = extent[1] /\ extent' # extent =>
       \A is \in Indices(extent') :
         memory'[PositionIn(extent', is)] = IF is \in Indices(extent) THEN memory[PositionIn(extent, is)] ELSE 0
  /\ extent' = extent =>
       Cardinality({is \in Indices(extent) : memory'[PositionIn(extent, is)] # memory[PositionIn(extent, is)]}) <= 1
ElementsStay == []SizesAgree /\ [][ColumnsStay]_labeledVars
=============================================================================
