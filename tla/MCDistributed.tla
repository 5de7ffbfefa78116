---------------------------- MODULE MCDistributed ----------------------------
(* Instances of what the ranks do together: they sort an array, or they         *)
(* exchange the elements of a distributed one.                                  *)
EXTENDS SortByRank, DistExchange

VARIABLE doing  \* "sort" or "exchange"

SortIdle ==
  /\ shape = CHOOSE s \in Shapes : 0 \in s.totals
  /\ x = OnEach(<<>>) /\ shift = 0 /\ sz_tot = 0
  /\ pc = OnEach("sample once") /\ n_iter = OnEach(0) /\ i = OnEach(1)
  /\ rank_indices = OnEach(<<>>) /\ sub_ins = OnEach(<<>>) /\ new_sub_ins = OnEach(<<>>)
  /\ pivots = OnEach(<<>>) /\ sample = OnEach(<<>>) /\ partition = OnEach(<<>>) /\ tot = OnEach(<<>>)
  /\ x_part = OnEach(<<>>) /\ new_distri = OnEach(<<>>)
ExchIdle ==
  /\ ExchInit
  /\ distri = [k \in 1 .. NRank + 1 |-> IF k = 1 THEN 0 ELSE NElt]
  /\ sent = [r \in Ranks |-> IF r = 0 THEN [n \in 1 .. NElt |-> n - 1] ELSE <<>>]

DistributedInit ==
  /\ doing \in {"sort", "exchange"}
  /\ IF doing = "sort" THEN SortInit ELSE SortIdle
  /\ IF doing = "exchange" THEN ExchInit ELSE ExchIdle

DistributedNext ==
  /\ UNCHANGED doing
  /\ \/ doing = "sort" /\ SortNext /\ UNCHANGED exchVars
     \/ doing = "exchange" /\ ExchNext /\ UNCHANGED sortVars

DistributedSpec == DistributedInit /\ [][DistributedNext]_<<doing, sortVars, exchVars>>

-----------------------------------------------------------------------------
(* The sizes of what is sorted in the run of this module.                       *)
\* Every array of a few elements, repeated ones included, over three ranks.
Short == [n_rank |-> 3, n_value |-> 3, totals |-> 0 .. 5, occur |-> 5, max_shift |-> 1, max_iter |-> 64]
\* Longer arrays, for which the loop runs several times.
Long == [n_rank |-> 2, n_value |-> 5, totals |-> 9 .. 10, occur |-> 2, max_shift |-> 0, max_iter |-> 64]
\* The same with a limit that is reached.
Limited == [Long EXCEPT !.totals = {9}, !.max_iter = 1]

ShapesOfRun == {Short, Long, Limited}

(* What the ranks do in the run.                                                *)
ProgramOfRun == <<"assign", "scatter", "gather">>
\* A cycle of three ids, a repeated one and none.
WantedOfRun == [r \in 0 .. 1 |-> IF r = 0 THEN {<<2, 0, 1>>} ELSE {<<>>, <<1, 1>>}]
=============================================================================
