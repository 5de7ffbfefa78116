------------------------------- MODULE AllToAll -------------------------------
(* The collective exchanges of std_e/parallel/mpi/collective: all_to_all on     *)
(* contiguous, jagged and nested ranges, all_gather, and partial_distribution.  *)
(* Each of them is a sequence of MPI calls with the same arguments' sizes       *)
(* computed on the way. A rank goes on once the ranks that its call depends on  *)
(* have made theirs: the ranks are not in the same call all the time.           *)
EXTENDS Intervals

CONSTANTS NProc,
          Shapes,    \* the sizes of the blocks that a rank may send to another
          SizeofInt  \* sizeof(int)

ASSUME AllToAllAssumption ==
  NProc \in Nat \ {0} /\ Shapes \subseteq Seq(Nat) /\ SizeofInt \in Nat \ {0}

-----------------------------------------------------------------------------
(* std_e/parallel/serialize.hpp: a memory of ints is a sequence of bytes, byte k*)
(* of the int v is <<v, k>>. Sizes and offsets are in bytes, numbers of elements*)
(* are not. The elements that are trivially copyable are ints.                  *)
BytesOf(ints) == FlattenSeq([i \in DOMAIN ints |-> [k \in 1 .. SizeofInt |-> <<ints[i], k>>]])

(* The int that starts after p bytes; -1, that nobody sends, if the bytes there *)
(* are not those of one int.                                                    *)
IntAt(bytes, p) ==
  LET v == bytes[p + 1][1]
  IN  IF p + SizeofInt <= Len(bytes) /\ SubSeq(bytes, p + 1, p + SizeofInt) = BytesOf(<<v>>)
        THEN v ELSE -1

(* deserialize_into a vector of trivially copyable elements: n/sizeof(T) of them.*)
(* (The overload that is given a function makes size/sizeof(int) of them,       *)
(* whatever T: as many if they are ints, too many or too few if they are not.)  *)
IntsOf(bytes) == [i \in 1 .. Len(bytes) \div SizeofInt |-> IntAt(bytes, (i - 1) * SizeofInt)]

(* serialize_array of elements that are not trivially copyable: parts[i] is     *)
(* what serialize gives for element i.                                          *)
SerializeArray(parts) ==
  [offsets |-> IndicesFromStrides([i \in DOMAIN parts |-> Len(parts[i])]), data |-> FlattenSeq(parts)]

(* Where the sections of n elements start: their number (section A), their      *)
(* offsets (B) and their data (C).                                              *)
StartOfB == SizeofInt
(* Mutant: the end of the last element is forgotten.                            *)
StartOfCShort(n) == (1 + n) * SizeofInt
StartOfC(n) == (1 + n + 1) * SizeofInt

(* serialize of a vector of vectors of ints: its ints (A and B) are copied where*)
(* an int* points, its data after (1+n_elt+1)*sizeof(int) bytes.                *)
Serialized(x) ==
  LET array == SerializeArray([i \in DOMAIN x |-> BytesOf(x[i])])
      n_elt == NInterval(array.offsets)
      ints == BytesOf(<<n_elt>> \o array.offsets)
      size == StartOfC(n_elt) + Len(array.data)
  IN  [p \in 1 .. size |-> IF p <= StartOfC(n_elt) THEN ints[p] ELSE array.data[p - StartOfC(n_elt)]]

(* deserialize_array_into: the data of element i is in interval i of offsets.   *)
PartsAt(data, offsets) ==
  [i \in 1 .. NInterval(offsets) |-> SubSeq(data, offsets[i] + 1, offsets[i] + Length(IntervalAt(offsets, i - 1)))]

(* deserialize_into a vector of vectors: where the sections are is read in the  *)
(* first one.                                                                   *)
NumberIn(v) == IntAt(v, 0)
OffsetsIn(v) == [i \in 1 .. NumberIn(v) + 1 |-> IntAt(v, StartOfB + (i - 1) * SizeofInt)]
Deserialized(v) ==
  LET elts == PartsAt(SubSeq(v, StartOfC(NumberIn(v)) + 1, Len(v)), OffsetsIn(v))
  IN  [i \in DOMAIN elts |-> IntsOf(elts[i])]
(* The assertion of deserialize_into.                                           *)
SectionsAddUp(v) ==
  SizeofInt + (NumberIn(v) + 1) * SizeofInt + Length(WholeInterval(OffsetsIn(v))) = Len(v)

-----------------------------------------------------------------------------
(* serialize_2 and deserialize_2 of std_e/serialize/serialize.hpp: the sizes of *)
(* the strings are kept apart, and their characters are their bytes.            *)
Serialized2(x) == [szs |-> [i \in DOMAIN x |-> Len(x[i])], serial |-> FlattenSeq(x)]
Deserialized2(szs, serial) ==
  LET Take(acc, sz) == [cnt |-> acc.cnt + sz, x |-> Append(acc.x, SubSeq(serial, acc.cnt + 1, acc.cnt + sz))]
  IN  FoldLeft(Take, [cnt |-> 0, x |-> <<>>], szs).x

-----------------------------------------------------------------------------
VARIABLES overload,
          sends,  \* sends[r][q]: the blocks that rank r has for rank q
          wire,   \* wire[r]: for each MPI call of rank r, what it gives to each rank
          got     \* got[r]: what the calls of rank r that returned have received

exchangeVars == <<overload, sends, wire, got>>

Ranks == 1 .. NProc
Collectives == [jagged2 |-> <<"counts", "data">>,
          tuple   |-> <<"counts", "data", "data">>,
          vectors |-> <<"counts", "data">>,
          jagged3 |-> <<"counts", "data", "counts", "data">>,
          strings |-> <<"sizes", "parts", "sizes", "parts">>,
          partial |-> <<"exscan", "reduce">>]

(* The blocks of rank r for rank q, of the given sizes, with values of their    *)
(* own.                                                                         *)
Filled(r, q, shape) ==
  [b \in DOMAIN shape |-> [k \in 1 .. shape[b] |-> 1000 * r + 100 * q + 10 * b + k]]

ExchangeInit ==
  /\ overload \in DOMAIN Collectives
  /\ \E shapes \in [Ranks \X Ranks -> Shapes] :
       sends = [r \in Ranks |-> [q \in Ranks |-> Filled(r, q, shapes[<<r, q>>])]]
  /\ wire = [r \in Ranks |-> <<>>]
  /\ got = [r \in Ranks |-> <<>>]

-----------------------------------------------------------------------------
(* The flat values of the blocks of rank r, the separators of the blocks and    *)
(* those of the groups.                                                         *)
Flat(r) == FlattenSeq(FlattenSeq(sends[r]))
Inner(r) == IndicesFromStrides([b \in DOMAIN FlattenSeq(sends[r]) |-> Len(FlattenSeq(sends[r])[b])])
Outer(r) == IndicesFromStrides([q \in Ranks |-> Len(sends[r][q])])

(* Mutant: the separators as they are for the sender.                           *)
NeighborIndicesAbsolute(inner, outer) == [j \in 1 .. Last(outer) |-> inner[j]]
(* neighbor_data_indices: the starts of the blocks, from that of their group.   *)
NeighborIndices(inner, outer) ==
  [j \in 1 .. Last(outer) |-> inner[j] - inner[outer[IntervalIndex(j - 1, outer) + 1] + 1]]

(* The buffer that call n of rank r sends and the separators of its parts; of   *)
(* the parts of the call whose counts call n sends.                             *)
Exchange(r, n) ==
  CASE overload = "jagged2" -> [data |-> Flat(r), offsets |-> Upscaled(Outer(r), Inner(r))]
    [] overload = "tuple" -> [data |-> IF n = 3 THEN [k \in DOMAIN Flat(r) |-> -Flat(r)[k]] ELSE Flat(r),
                          offsets |-> Upscaled(Outer(r), Inner(r))]
    [] overload = "vectors" -> SerializeArray([q \in Ranks |-> Serialized(sends[r][q])])
    [] overload = "jagged3" /\ n <= 2 -> [data |-> NeighborIndices(Inner(r), Outer(r)), offsets |-> Outer(r)]
    [] overload = "jagged3" /\ n > 2 -> [data |-> Flat(r), offsets |-> Upscaled(Outer(r), Inner(r))]

(* all_gather of strings: their sizes, then their bytes.                        *)
Gathered(r, n) ==
  LET serial == Serialized2(FlattenSeq(sends[r])) IN IF n <= 2 THEN serial.szs ELSE serial.serial

(* What call n of rank r gives to rank q.                                       *)
Given(r, n, q) ==
  LET call == Collectives[overload][n]
  IN  CASE call = "counts" -> <<IntervalLengths(Exchange(r, n).offsets)[q]>>
        [] call = "data" -> PartsAt(Exchange(r, n).data, Exchange(r, n).offsets)[q]
        [] call = "sizes" -> <<Len(Gathered(r, n))>>
        [] call = "parts" -> Gathered(r, n)
        [] OTHER -> <<Len(Flat(r))>>

Send(r) ==
  /\ Len(wire[r]) = Len(got[r]) /\ Len(got[r]) < Len(Collectives[overload])
  /\ LET n == Len(wire[r]) + 1
     IN  wire' = [wire EXCEPT ![r] = Append(@, [q \in Ranks |-> Given(r, n, q)])]
  /\ UNCHANGED <<overload, sends, got>>

(* The buffer of parts with the sizes that are expected from each rank; where   *)
(* nothing is received, what the vector is initialized with.                    *)
Initialized == IF overload = "vectors" THEN <<0, 1>> ELSE 0
Placed(parts, strides) ==
  LET offsets == IndicesFromStrides(strides)
      At(k) == LET q == IntervalIndex(k - 1, offsets) + 1
               IN  IF k - offsets[q] \in DOMAIN parts[q] THEN parts[q][k - offsets[q]] ELSE Initialized
  IN  [k \in 1 .. Last(offsets) |-> At(k)]

SumOf(parts) == FoldSeq(+, 0, FlattenSeq(parts))

Received(r, n) ==
  LET call == Collectives[overload][n]
      parts == [q \in Ranks |-> wire[q][n][r]]
      counts == Max({m \in 1 .. n - 1 : Collectives[overload][m] \in {"counts", "sizes"}})
  IN  CASE call \in {"counts", "sizes"} -> FlattenSeq(parts)
        [] call \in {"data", "parts"} -> Placed(parts, got[r][counts])
        [] call = "exscan" -> IF r = 1 THEN 0 ELSE SumOf(SubSeq(parts, 1, r - 1))
        [] call = "reduce" -> SumOf(parts)

(* A call returns when it has received from everybody, MPI_Exscan from the      *)
(* ranks below.                                                                 *)
Senders(r, n) == IF Collectives[overload][n] = "exscan" THEN 1 .. r - 1 ELSE Ranks
Return(r) ==
  /\ Len(wire[r]) = Len(got[r]) + 1
  /\ LET n == Len(wire[r])
     IN  /\ \A q \in Senders(r, n) : n <= Len(wire[q])
         /\ got' = [got EXCEPT ![r] = Append(@, Received(r, n))]
  /\ UNCHANGED <<overload, sends, wire>>

ExchangeNext == \E r \in Ranks : Send(r) \/ Return(r)

ExchangeSpec == ExchangeInit /\ [][ExchangeNext]_exchangeVars

-----------------------------------------------------------------------------
(* jagged_vector of rank 3 from what is received: the starts of the blocks are  *)
(* those of their senders' groups, and are moved to where the group is; the     *)
(* separators of the groups are then searched among them, by their values: the  *)
(* first one that is equal is found. (The code makes a range of ints of them,   *)
(* whatever T is: the values are ints.)                                         *)
Rebased(r) ==
  LET procs == IndicesFromStrides(got[r][1])
      datas == IndicesFromStrides(got[r][3])
      starts == [j \in DOMAIN got[r][2] |-> got[r][2][j] + datas[IntervalIndex(j - 1, procs) + 1]]
      seps0 == Append(starts, Last(datas))
  IN  [values |-> got[r][4], seps0 |-> seps0, seps1 |-> Downscaled(datas, seps0)]

(* partial_distribution: from MPI_Exscan and from MPI_Allreduce.                *)
PartialDistri(r) ==
  LET start == got[r][1] IN [start |-> start, finish |-> start + Len(Flat(r)), size_tot |-> got[r][2]]

Blocks2(r, n) == BlocksOf([values |-> got[r][n], seps |-> IndicesFromStrides(got[r][1]), off |-> 0])
Result(r) ==
  CASE overload = "jagged2" -> Blocks2(r, 2)
    [] overload = "tuple" -> <<Blocks2(r, 2), Blocks2(r, 3)>>
    [] overload = "vectors" ->
         LET array == PartsAt(got[r][2], IndicesFromStrides(got[r][1]))
         IN  [q \in DOMAIN array |-> Deserialized(array[q])]
    [] overload = "jagged3" -> [q \in Ranks |-> BlocksOf(SubRange(Rebased(r), q - 1))]
    [] overload = "strings" -> Deserialized2(got[r][2], got[r][4])
    [] overload = "partial" -> PartialDistri(r)

-----------------------------------------------------------------------------
Expected(r) ==
  LET ToMe(q) == FlattenSeq(sends[q][r])
  IN  CASE overload = "jagged2" -> [q \in Ranks |-> ToMe(q)]
        [] overload = "tuple" -> <<[q \in Ranks |-> ToMe(q)],
                               [q \in Ranks |-> [k \in DOMAIN ToMe(q) |-> -ToMe(q)[k]]]>>
        [] overload \in {"vectors", "jagged3"} -> [q \in Ranks |-> sends[q][r]]
        [] overload = "strings" -> FlattenSeq([q \in Ranks |-> FlattenSeq(sends[q])])
        [] overload = "partial" ->
             LET Before(q) == FoldFunctionOnSet(+, 0, [s \in Ranks |-> Len(Flat(s))], 1 .. q)
             IN  [start |-> Before(r - 1), finish |-> Before(r), size_tot |-> Before(NProc)]

SeparatorsAreOf(seps, values) ==
  /\ seps[1] = 0 /\ Last(seps) = Len(values)
  /\ \A k \in 1 .. Len(seps) - 1 : seps[k] <= seps[k + 1]

(* Where a group ends is found by the value of its separator, if its last block *)
(* is not empty.                                                                *)
IsSeparable(group) == group # <<>> => Last(group) # <<>>
GroupsAreFound(r) == overload = "jagged3" => \A q \in Ranks : IsSeparable(sends[q][r])

(* What rank r gets from rank q is what q has sent to r, block by block: the    *)
(* counts, the separators and the offsets that travel with the values are those *)
(* of the receiver when it uses them, in the unit it uses them in, and a call   *)
(* never receives more or less than the sizes that were received before         *)
(* announced. Of a range of rank 3 all the blocks are received, in order; they  *)
(* are in the right groups if no group ends with an empty one.                  *)
ExchangeIsTransposed ==
  \A r \in Ranks : Len(got[r]) = Len(Collectives[overload]) =>
    /\ overload = "jagged3" =>
         /\ SeparatorsAreOf(Rebased(r).seps0, got[r][4])
         /\ BlocksOf([values |-> got[r][4], seps |-> Rebased(r).seps0, off |-> 0]) = FlattenSeq(Expected(r))
    /\ GroupsAreFound(r) => Result(r) = Expected(r)
    /\ overload = "vectors" => \A v \in ToSet(PartsAt(got[r][2], IndicesFromStrides(got[r][1]))) : SectionsAddUp(v)
SizesAreAnnounced ==
  \A r, q \in Ranks : \A n \in 2 .. Len(got[r]) :
    Collectives[overload][n] \in {"data", "parts"} =>
      LET counts == Max({m \in 1 .. n - 1 : Collectives[overload][m] \in {"counts", "sizes"}})
      IN  Len(wire[q][n][r]) = got[r][counts][q]
ExchangesAgree == ExchangeIsTransposed /\ SizesAreAnnounced

(* "Similar to vector<vector<T>>, but values are stored in a flat array, with an*)
(* additional index array to keep track of the start and end of each inner      *)
(* array" (doc/user_manual/folders.rst:101): group q of a range of rank 3 that  *)
(* is exchanged is what rank q has sent, whatever blocks it ends with.          *)
GroupsArePreserved ==
  \A r \in Ranks : overload = "jagged3" /\ Len(got[r]) = Len(Collectives[overload]) => Result(r) = Expected(r)

-----------------------------------------------------------------------------
(* The shapes of the instances: no block, blocks that are empty at the start, or*)
(* at the end.                                                                  *)
InstanceShapes == {<<>>, <<1>>, <<1, 0>>, <<0, 2>>, <<2, 1>>}
=============================================================================
