---------------------------- MODULE JaggedGather -----------------------------
(* The gather of a dist_jagged_array: one graph with the three epochs of its    *)
(* strides, its displacements and its values. The strides that are gathered     *)
(* give the size of what is gathered next. One rank is looked at: nobody writes *)
(* to the windows, and the ranks do not wait for each other. Its tasks run in   *)
(* any order that the dependencies allow.                                       *)
EXTENDS PermutationOps, Intervals

CONSTANTS NRank, NElt, MaxStride,  \* ranks, elements of the array and their sizes
          MaxIds                   \* how many elements are gathered at most

ASSUME JaggedAssumption ==
  NRank \in Nat \ {0} /\ NElt \in Nat \ {0} /\ MaxStride \in Nat /\ MaxIds \in Nat

VARIABLES distri, stride,  \* stride[i]: the size of element i
          ids, places, new_to_old,
          done,            \* the tasks that are executed
          res,             \* res[task]: the value of its future
          blocks,          \* blocks[w]: what is read from window w
          pending          \* pending[w]: the blocks that are not read yet

inputs == <<distri, stride, ids, places, new_to_old>>
jaggedVars == <<inputs, done, res, blocks, pending>>

Elts == 0 .. NElt - 1
Windows == {"strides", "displs", "values"}
Tasks == {"open", "alloc", "get", "close"} \X Windows
         \cup {<<"indices", "raw">>, <<"perm", "strides">>, <<"indices", "final">>,
               <<"perm", "values">>, <<"extract", "result">>}
Garbage == -1

(* The parts of rank r: strides, displacements and values. The k-th value of    *)
(* element i is <<i, k>>.                                                       *)
PartStrides(r) == [k \in 1 .. distri[r + 2] - distri[r + 1] |-> stride[distri[r + 1] + k - 1]]
PartDispls(r) == IndicesFromStrides(PartStrides(r))
PartValues(r) ==
  LET displs == PartDispls(r)
      EltAt(v) == CHOOSE k \in 1 .. Len(displs) - 1 : v \in displs[k] + 1 .. displs[k + 1]
  IN  [v \in 1 .. displs[Len(displs)] |-> <<distri[r + 1] + EltAt(v) - 1, v - displs[EltAt(v)]>>]

JaggedInit ==
  /\ distri \in {d \in [1 .. NRank + 1 -> 0 .. NElt] :
                   /\ d[1] = 0 /\ d[NRank + 1] = NElt
                   /\ \A k \in 1 .. NRank : d[k] <= d[k + 1]}
  /\ stride \in [Elts -> 0 .. MaxStride]
  /\ \E n \in 0 .. MaxIds : ids \in [1 .. n -> Elts]
  /\ new_to_old \in NewToOlds(distri, ids)
  /\ places = Protocol(distri, ids, new_to_old).places
  /\ done = {}
  /\ res = [t \in Tasks |-> <<>>]
  /\ blocks = [w \in Windows |-> <<>>]
  /\ pending = [w \in Windows |-> {}]

-----------------------------------------------------------------------------
(* Mutant: the values do not wait for the displacements.                        *)
GetDepsNoDispls == {<<"alloc", "strides">>, <<"alloc", "displs">>, <<"close", "strides">>}
(* What the values wait for, on top of their own window and buffer.             *)
GetDeps ==
  {<<"alloc", "strides">>, <<"alloc", "displs">>, <<"close", "strides">>, <<"close", "displs">>}
Deps(t) ==
  CASE t[1] = "open" -> {}
    [] t = <<"alloc", "values">> -> {<<"indices", "raw">>}
    [] t = <<"get", "values">> -> {<<"open", "values">>, <<"alloc", "values">>} \cup GetDeps
    [] t[1] = "get" /\ t[2] # "values" -> {<<"open", t[2]>>, <<"alloc", t[2]>>}
    [] t[1] = "close" -> {<<"get", t[2]>>}
    [] t \in {<<"indices", "raw">>, <<"perm", "strides">>} -> {<<"alloc", "strides">>, <<"close", "strides">>}
    [] t = <<"indices", "final">> -> {<<"perm", "strides">>}
    [] t = <<"perm", "values">> ->
         {<<"indices", "raw">>, <<"indices", "final">>, <<"alloc", "values">>, <<"close", "values">>}
    [] t = <<"extract", "result">> -> {<<"indices", "final">>, <<"perm", "values">>}
    [] OTHER -> {}

Runs(t) == t \notin done /\ Deps(t) \subseteq done /\ done' = done \cup {t}
Returns(t, value) == res' = [res EXCEPT ![t] = value]
Garbages(n) == [k \in 1 .. n |-> Garbage]

(* open_epoch, and close_epoch, that waits for the gets of its window.          *)
Open(w) == Runs(<<"open", w>>) /\ UNCHANGED <<inputs, res, blocks, pending>>
Close(w) ==
  /\ Runs(<<"close", w>>)
  /\ pending[w] = {}
  /\ UNCHANGED <<inputs, res, blocks, pending>>

(* alloc_result_fn2, alloc_res_val_fn.                                          *)
AllocSize(w) ==
  IF w = "values" THEN LET indices == res[<<"indices", "raw">>] IN indices[Len(indices)] ELSE Len(ids)
Alloc(w) ==
  /\ Runs(<<"alloc", w>>)
  /\ Returns(<<"alloc", w>>, Garbages(AllocSize(w)))
  /\ UNCHANGED <<inputs, blocks, pending>>

(* get_protocol_indexed2: a block of one stride or displacement for each place; *)
(* for the values, blocks that follow each other in the buffer, of the strides, *)
(* and at the displacements, that the buffers hold when the type is made.       *)
Blocks(w) ==
  [n \in 1 .. Len(places) |->
     IF w = "values"
       THEN [rank |-> places[n][1], displ |-> res[<<"alloc", "displs">>][n],
             size |-> res[<<"alloc", "strides">>][n],
             at |-> IndicesFromStrides(res[<<"alloc", "strides">>])[n]]
       ELSE [rank |-> places[n][1], displ |-> places[n][2], size |-> 1, at |-> n - 1]]
Get(w) ==
  /\ Runs(<<"get", w>>)
  /\ blocks' = [blocks EXCEPT ![w] = Blocks(w)]
  /\ pending' = [pending EXCEPT ![w] = 1 .. Len(places)]
  /\ UNCHANGED <<inputs, res>>

(* MPI: a block is read.                                                        *)
Part(w, r) ==
  CASE w = "strides" -> PartStrides(r) [] w = "displs" -> PartDispls(r) [] OTHER -> PartValues(r)
Read(w, n) ==
  LET block == blocks[w][n]
  IN  /\ n \in pending[w]
      /\ pending' = [pending EXCEPT ![w] = @ \ {n}]
      /\ Returns(<<"alloc", w>>,
                 [k \in DOMAIN res[<<"alloc", w>>] |->
                    IF k - block.at \in 1 .. block.size
                      THEN Part(w, block.rank)[block.displ + k - block.at]
                      ELSE res[<<"alloc", w>>][k]])
      /\ UNCHANGED <<inputs, done, blocks>>

(* indices_from_strides_fn, on the gathered strides and on the permuted ones.   *)
IndicesRaw ==
  /\ Runs(<<"indices", "raw">>)
  /\ Returns(<<"indices", "raw">>, IndicesFromStrides(res[<<"alloc", "strides">>]))
  /\ UNCHANGED <<inputs, blocks, pending>>
IndicesFinal ==
  /\ Runs(<<"indices", "final">>)
  /\ Returns(<<"indices", "final">>, IndicesFromStrides(res[<<"perm", "strides">>]))
  /\ UNCHANGED <<inputs, blocks, pending>>

(* perm_fn2 works on a copy: the gathered strides are still needed.             *)
PermStrides ==
  /\ Runs(<<"perm", "strides">>)
  /\ Returns(<<"perm", "strides">>, InvPermuted(res[<<"alloc", "strides">>], new_to_old))
  /\ UNCHANGED <<inputs, blocks, pending>>
(* perm_fn3: block i of the result is block old_to_new[i] of the buffer.        *)
PermutedBlocks(indices, indices_new, local_array) ==
  LET old_to_new == InversePermutation(new_to_old)
      Size(i) == indices[old_to_new[i] + 2] - indices[old_to_new[i] + 1]
      BlockOf(v) == {i \in 1 .. Len(ids) : v - indices_new[i] \in 1 .. Size(i)}
  IN  [v \in DOMAIN local_array |->
         IF BlockOf(v) = {} THEN Garbage
         ELSE LET i == CHOOSE i \in BlockOf(v) : TRUE
              IN  local_array[indices[old_to_new[i] + 1] + v - indices_new[i]]]
PermValues ==
  /\ Runs(<<"perm", "values">>)
  /\ Returns(<<"perm", "values">>,
             PermutedBlocks(res[<<"indices", "raw">>], res[<<"indices", "final">>], res[<<"alloc", "values">>]))
  /\ UNCHANGED <<inputs, blocks, pending>>

(* extract_res_in_jagged_array_fn: the two are moved.                           *)
Extract ==
  /\ Runs(<<"extract", "result">>)
  /\ res' = [res EXCEPT ![<<"extract", "result">>] = <<res[<<"indices", "final">>], res[<<"perm", "values">>]>>,
                        ![<<"indices", "final">>] = <<>>, ![<<"perm", "values">>] = <<>>]
  /\ UNCHANGED <<inputs, blocks, pending>>

JaggedEnd == done = Tasks /\ UNCHANGED jaggedVars

JaggedNext ==
  \/ \E w \in Windows : \/ Open(w) \/ Close(w) \/ Alloc(w) \/ Get(w)
                        \/ \E n \in pending[w] : Read(w, n)
  \/ IndicesRaw \/ IndicesFinal \/ PermStrides \/ PermValues \/ Extract \/ JaggedEnd

JaggedSpec == JaggedInit /\ [][JaggedNext]_jaggedVars

-----------------------------------------------------------------------------
BlocksAreInWindow ==
  \A w \in Windows : \A n \in 1 .. Len(blocks[w]) :
    LET block == blocks[w][n]
    IN  /\ block.size >= 0 /\ block.displ >= 0
        /\ block.displ + block.size <= Len(Part(w, block.rank))
        /\ block.at + block.size <= Len(res[<<"alloc", w>>])
        /\ n > 1 => block.at = blocks[w][n - 1].at + blocks[w][n - 1].size

ElementsAreGathered ==
  done = Tasks =>
    LET indices == res[<<"extract", "result">>][1]
        values == res[<<"extract", "result">>][2]
    IN  /\ Len(indices) = Len(ids) + 1 /\ Len(values) = indices[Len(indices)]
        /\ \A n \in 1 .. Len(ids) :
             /\ indices[n + 1] - indices[n] = stride[ids[n]]
             /\ \A k \in 1 .. stride[ids[n]] : values[indices[n] + k] = <<ids[n], k>>

(* What is read of a window is inside of the part of the rank that owns it and  *)
(* goes inside of the buffer, block next to block: the sizes and the            *)
(* displacements that come from other ranks are complete when they are used.    *)
(* The result then has, in the order of the ids, all the values of each element.*)
JaggedIsGathered == BlocksAreInWindow /\ ElementsAreGathered
=============================================================================
