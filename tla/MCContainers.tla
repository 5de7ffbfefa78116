----------------------------- MODULE MCContainers -----------------------------
(* Instances of the containers, and of the collective exchanges and the         *)
(* one-sided gather that return them, and of the graphs: one of them is used,   *)
(* the others are left as they start, or with an input for which there is       *)
(* nothing to do.                                                               *)
EXTENDS JaggedGather, AllToAll, JaggedRange, BlockStorage, MultiRange,
        IntervalVector, MultiArray, Buffers, MCGraphs

VARIABLE used  \* the container, the exchange or "graph"

containerVars == <<used, jaggedVars, exchangeVars, jaggedRangeVars, storageVars,
                   multiRangeVars, iv, multiIndexVars, labeledVars, bufferVars, graphsVars>>

GatherIdle ==
  /\ distri = [k \in 1 .. NRank + 1 |-> IF k = 1 THEN 0 ELSE NElt]
  /\ stride = [i \in Elts |-> 0]
  /\ ids = <<>> /\ new_to_old = <<>> /\ places = <<>>
  /\ done = {} /\ res = [t \in Tasks |-> <<>>]
  /\ blocks = [w \in Windows |-> <<>>] /\ pending = [w \in Windows |-> {}]
ExchangeIdle ==
  /\ overload = "partial" /\ sends = [r \in Ranks |-> [q \in Ranks |-> <<>>]]
  /\ wire = [r \in Ranks |-> <<>>] /\ got = [r \in Ranks |-> <<>>]
StorageIdle == layout = "fixed" /\ mem = <<>> /\ copyMem = <<>> /\ source = 0 /\ target = 0
MultiRangeIdle == levels = <<>> /\ MultiRangeInit
IndexIdle == array = Shape(<<>>, <<>>) /\ axes = <<>> /\ indices = <<>> /\ current_pos = 0
LabeledIdle == labeled = FALSE /\ LabeledInit

Used == {"gather", "exchange", "jagged", "blocks", "rows", "knots", "index", "labels", "buffers", "graph"}

ContainersInit ==
  /\ used \in Used
  /\ IF used = "gather" THEN JaggedInit ELSE GatherIdle
  /\ IF used = "exchange" THEN ExchangeInit ELSE ExchangeIdle
  /\ JaggedRangeInit
  /\ IF used = "blocks" THEN StorageInit ELSE StorageIdle
  /\ IF used = "rows" THEN MultiRangeInit ELSE MultiRangeIdle
  /\ KnotsInit
  /\ IF used = "index" THEN MultiIndexInit ELSE IndexIdle
  /\ IF used = "labels" THEN LabeledInit ELSE LabeledIdle
  /\ BuffersInit
  /\ IF used = "graph" THEN GraphsInit ELSE GraphsIdle

ContainersNext ==
  /\ UNCHANGED used
  /\ \/ used = "gather" /\ JaggedNext
        /\ UNCHANGED <<exchangeVars, jaggedRangeVars, storageVars, multiRangeVars, iv, multiIndexVars, labeledVars, bufferVars, graphsVars>>
     \/ used = "exchange" /\ ExchangeNext
        /\ UNCHANGED <<jaggedVars, jaggedRangeVars, storageVars, multiRangeVars, iv, multiIndexVars, labeledVars, bufferVars, graphsVars>>
     \/ used = "jagged" /\ JaggedRangeNext
        /\ UNCHANGED <<jaggedVars, exchangeVars, storageVars, multiRangeVars, iv, multiIndexVars, labeledVars, bufferVars, graphsVars>>
     \/ used = "blocks" /\ StorageNext
        /\ UNCHANGED <<jaggedVars, exchangeVars, jaggedRangeVars, multiRangeVars, iv, multiIndexVars, labeledVars, bufferVars, graphsVars>>
     \/ used = "rows" /\ MultiRangeNext
        /\ UNCHANGED <<jaggedVars, exchangeVars, jaggedRangeVars, storageVars, iv, multiIndexVars, labeledVars, bufferVars, graphsVars>>
     \/ used = "knots" /\ KnotsNext
        /\ UNCHANGED <<jaggedVars, exchangeVars, jaggedRangeVars, storageVars, multiRangeVars, multiIndexVars, labeledVars, bufferVars, graphsVars>>
     \/ used = "index" /\ Generate
        /\ UNCHANGED <<jaggedVars, exchangeVars, jaggedRangeVars, storageVars, multiRangeVars, iv, labeledVars, bufferVars, graphsVars>>
     \/ used = "labels" /\ LabeledNext
        /\ UNCHANGED <<jaggedVars, exchangeVars, jaggedRangeVars, storageVars, multiRangeVars, iv, multiIndexVars, bufferVars, graphsVars>>
     \/ used = "buffers" /\ BuffersNext
        /\ UNCHANGED <<jaggedVars, exchangeVars, jaggedRangeVars, storageVars, multiRangeVars, iv, multiIndexVars, labeledVars, graphsVars>>
     \/ used = "graph" /\ GraphsNext
        /\ UNCHANGED <<jaggedVars, exchangeVars, jaggedRangeVars, storageVars, multiRangeVars, iv, multiIndexVars, labeledVars, bufferVars>>

ContainersSpec == ContainersInit /\ [][ContainersNext]_containerVars

-----------------------------------------------------------------------------
(* Positions, indices and sizes that are computed in several ways are the same: *)
(* in the sequences of intervals, in the multi-dimensional arrays, and in the   *)
(* ranges of blocks: operator[] and the views find the same blocks, begin() and *)
(* values() too where there is no offset, and unique keeps one of each run.     *)
PositionsAgree ==
  /\ IntervalsAgree /\ MultiIndicesAgree
  /\ UniqueKeepsRuns /\ ViewsAgree /\ IteratorsAgree

(* The other flat layouts: the blocks of a memory of blocks are the sequence    *)
(* that they stand for, and the elements of an array those that its indices     *)
(* name, whatever the sequence of the operations: nothing that is pushed,       *)
(* assigned, copied, resized or reshaped moves the contents of another block    *)
(* or index.                                                                    *)
FlatMemoryIsSound == StorageImplementsBlocks /\ ElementsStay
=============================================================================
