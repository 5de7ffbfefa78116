# Verification of std_e

TLA+ specifications of the parts of std_e whose correctness depends on the
order of events, or on index arithmetic that several ranks must do alike, with
TLC configurations that check them on small instances and TLAPS proofs of the
properties that matter most.

1. The system - 2. Modules - 3. Runs - 4. Fairness - 5. Proofs - 6. Findings -
7. What is not modelled - 8. Plan

## 1. The system

std_e is a C++20 header library. Most of it is sequential; what is concurrent
is `std_e/execution` (threads) and `std_e/parallel` (MPI processes).

| Component | State | Operations | Interacts with |
|---|---|---|---|
| Task graph construction (`execution/task.hpp`, `execution/future/`) | nodes (tasks), `in_indices`, `out_indices` | `input_data`, `then`, `then_comm`, `join` | builds what the schedules run |
| Sequential schedule (`execution/schedule/seq.hpp`) | loop index | `execute_seq` | runs the graph |
| Asynchronous schedule (`execution/schedule/async_comm.mpi.cpp`) | queue of ready tasks, `state_of_tasks`, `flying_tasks`, two counters | `execute_async_comm` | runs the graph, pushes lambdas to the pool, shares `done_flag`s and `current_comm` with them |
| Thread pool (`execution/thread_pool/thread_pool.hpp`) | one notification queue per thread, `idx` | `push_task`, `run`, destructor | executes the lambdas |
| Distributed arrays (`parallel/mpi/one_sided`, `parallel/struct`) | windows, epochs, exchange protocols | `gather`, `scatter`, `dist_guard` | their steps are tasks of a graph; MPI one-sided calls, a barrier |
| Distributed sort and search (`parallel/algorithm`) | cuts, sub-intervals, samples of each rank | `sort`, `sort_by_rank`, `search_intervals` | all_gather, all_reduce, all_to_all; the partitions and distributions below |
| Distributions (`algorithm/distribution`) | loop variables | uniform knots, ticks, samples, ranges; `balanced_distribution` | every rank computes the same ones without messages |
| Sequential algorithms (`algorithm`, `future/algorithm.hpp`, `future/sort`) | the range that is rearranged, a bit vector | `pivot_partition*`, `partition_sort*`, `permute`, sorts, `unique_compress*`, the constexpr versions of standard algorithms | exchange protocols, sort |
| Graphs (`graph`) | the stack of a traversal, the stacks of its visitors, the vectors of a `nested_tree`, both index lists and the permutation of an `io_graph` | search, prune, scan and find in depth; tree and graph builders; reduction; `merge_from_leaves` | callbacks of the visitors |
| Collective exchanges, serialization (`parallel/mpi/collective`, `parallel/serialize.hpp`) | what each rank has sent | `all_to_all*`, `all_gather`, `serialize*` | jagged ranges, MPI collectives |
| Ranges of blocks (`data_structure`) | flat values, separators or sizes between the values; columns | `push_back`, `push_level`, `assign`, permutations, `unique`, sort by a column | exchanges; `std_e::views`, `permute` |
| Intervals (`interval`) | the separators | `push_back`, lengths, `interval_index` | distributions, jagged ranges |
| Multi-arrays (`multi_array`, `multi_index`) | extents, offsets, memory, labels | `reshape`, `make_sub_array`, strided views, multi-index iteration, labels | sequential |
| Buffers (`buffer`) | address, deallocator, a flag shared by allocators | `to_buffer`, moves, `release`, destructors | the program, which may have to free |

The hard behaviours are: main and the pool's threads share flags and a counter
with relaxed memory order; completion order is arbitrary; waits may miss a
notification; tasks throw; the pool is destroyed with tasks in its queues; the
index of its queues wraps around; MPI reads and writes buffers at any time until an epoch
is closed, while other tasks may run; the ranks must go through the same
collective calls although each one decides by its own computations; indices
are computed over empty parts, empty intervals and repeated elements; a flat
vector and a vector of separators, or of extents, or of permutations, stand
together for something else, and every operation has to change both; a flag
that is copied with an allocator tells who frees the memory.
`PROJECT.json` lists every hazard at its line.

What makes each component correct:

* graph: the indices are a topological order, both directions of the wiring
  agree, with the same multiplicity, and the roots are the inputs;
* schedules: a task runs after its dependencies, once; the schedule returns
  when all of them have run (`TaskExecution`);
* asynchronous schedule: no lost wakeup, no wait without a communication in
  flight, no job writing to the locals of a function that has returned;
* pool: each pushed task is executed once, none is left at destruction, no
  notification is lost, the destructor returns (`TaskPool`);
* distributed arrays: a gather returns the elements whose ids were asked for,
  in that order; after a scatter and its barrier every rank sees every value;
* sort and search: the ranks stay in step, the cuts they look for are narrowed
  at each iteration, the array is sorted over the ranks at the end;
* distributions: the parts are balanced, and the ranks agree on who has what;
* algorithms: what they compute is what a definition without loops says, no
  element is lost on the way, and a loop without a test of its end has one;
* exchanges: each rank gets what each other rank has sent it, in blocks;
* ranges of blocks: any sequence of operations does to the flat representation
  what it does to a sequence of sequences (`BlockSequence`);
* intervals, multi-arrays: the positions that are computed in several ways are
  the same, and those of different indices are different;
* buffers: memory is freed once, by its owner;
* graphs: a visitor is called as by a recursion, even when the traversal steps
  out; a merged graph unfolds into the same trees as before, with everything
  that was equal there only once.

## 2. Modules

| Module | Models | How |
|---|---|---|
| `TaskGraph` | construction of graphs | `ThenTask` is `generic_then_task`: one action adds the node and both directions of its wiring; `inIdx`, `outIdx`, `kind` are the vectors of the nodes |
| `TaskExecution` | abstract: what a schedule promises | each task is waiting, running, done or failed |
| `SeqSchedule` | `execute_seq` | `ExecuteBegin`, `ExecuteEnd`, `ExecuteThrow`; implements `TaskExecution` with `Width = 1` |
| `AsyncComm` | `execute_async_comm` and the jobs it pushes | `pc` is where main is, one action per loop iteration or call; a job goes through the stages of the lambda of lines 98-103; implements `TaskExecution` with `Width = NWorkers + 1` |
| `TaskPool` | abstract: what a pool promises | each task is owned by its caller, the pool, a thread, nobody |
| `ThreadPool` | `thread_pool`, `notification_queue` | a critical section is one step, a notification a step of its own; `try_lock` may fail and waits may wake up for no reason, as the standard allows; implements `TaskPool` |
| `Distribution` | `uniform_distribution*`, `uniform_ticks_in_sub_interval`, `number_of_ticks_in_interval`, `uniform_sample_exclude_ends`; what `search_intervals` finds | operators |
| `DistributedSample` | `partial_distribution`, `uniform_sample_local` | each rank takes its samples, in any order |
| `UniformRange` | `uniform_distribution_range` | `Increment` is `operator++` of the generator; the loop ends on equality with the sentinel |
| `BalancedDistribution` | `balanced_distribution`, `elements_in_interval` | `CompleteBlock` and `ReachBound` are the two branches of the loop |
| `SearchIntervals` | `search_intervals`, `search_near_or_containing_interval(2)` | the two passes, one tick at a time |
| `PivotPartition` | the recursive partitions by several pivots | the calls that wait are a stack; the scan of `pivot_partition_eq` goes one element at a time, `std::partition` is any arrangement it may leave |
| `PermutationOps`, `Permutation` | `permute*`, `inverse_permutation`; `partition_sort_indices`, `indirect_partition_sort`, `apply_step`, `rank_offset` | `PermutationOps`: what they compute, and the protocol a rank makes of its ids; `Permutation`: the in-place one, swap by swap |
| `SortByRank` | `sort_by_rank`, `sort` | one program counter per rank; a collective call is one step when all the ranks are at it |
| `DistExchange` | eager `gather` and `scatter` of a `dist_array`, `dist_guard` | each rank runs the tasks of its graph in any order that respects `Deps`; each element goes at any time before the close; the buffer is one variable (section 7) |
| `JaggedGather` | `gather` of a `dist_jagged_array` | the same with its three windows, for one rank |
| `AllToAll` | `all_to_all*`, `all_to_all_v*`, `all_gather`; `serialize*`, `deserialize*` | `Send`, then the exchange as one step, then `Return`; what travels is made and read by the operators of `Intervals` and by those of serialization, which write and read the bytes of ints (`BytesOf`, `IntAt`), sizes in bytes and numbers in elements |
| `QuickSort` | `sort_ranges` | `quicksort_loop` with its frames, the scans that do not test for the ends (`Ascend`, `Descend`), then the insertions |
| `AdjacentRuns` | `unique_compress*`, `accumulate_while_adjacent` | `NextRun` is a turn of either loop, which skips the moves as long as there is nothing to move; the copy goes through a back inserter or through an iterator on a range (`inserting`, `Filled`) |
| `SequenceOps` | `future/algorithm.hpp`, `constexpr_quick_sort`, `sorting_network`, 3-way partition, rotation, ids, `concat_view`, `utils/vector.hpp` | operators, checked against definitions without loops while `append` makes all their inputs |
| `BlockSequence` | abstract: what a range of blocks is | a sequence of sequences, and what may be done to it |
| `JaggedRange` | `jagged_range`, `permute` and `unique` on ranges of blocks | `values`, `seps0`, `seps1` are the vectors; permutation and `unique` go block by block, through the assignment of proxies, on the whole range or on a view without offset (`Views`); what `operator[]`, the iterators and `values()` find of a sub-range are `BlockInterval`, `IteratedInterval` and `ValuesInterval`; implements `BlockSequence` |
| `BlockStorage` | the block ranges of fixed size and of interleaved sizes | `mem` is the memory, sizes included; `Positions` is what the iterators go through; implements `BlockSequence` |
| `MultiRange` | `multi_range`, `jagged_multi_vector` | the columns are permuted one after the other by `PermuteNext`; `sorted_rng_idx` is kept as the code does, whatever the comparator and what is added afterwards; `sortedWith` records what the code forgets |
| `Intervals`, `IntervalVector` | `interval*`, `interval_sequence`, `knot_sequence`, `is_partitioned_at_indices`; the blocks and the separators of `jagged_range` | operators, on all the vectors that `push_back` and `push_back_length` make |
| `MultiArray` | multi-indices, shapes, sub-arrays, strided and permuted views; the generators; `reshape` and labels | `Generate` is `operator++`; every operation of an array with labels is `Reshape` of the extents and of the memory |
| `Buffers` | `buffer_vector`, `owning_buffer`, `buffer_span`, `polymorphic_*` | blocks of memory are numbered; `flagOf` is the flag that copies of an allocator share |
| `GraphTraversal` | `tree_builder`, `bidirectional_graph_builder`, `visitor_for_reduction`, `nested_tree`; the loops of `algo_base.hpp` | what each visitor does to its own stack when it is called; the nested trees by `AppendChild`, the steps of the child iterator, and the preorder traversal; one loop for all of them: `Calls` says which functions of the visitor an algorithm calls and `Answers` what these may answer; scan visits the root outside the loop |
| `MergeFromLeaves` | `merge_from_leaves` | level by level; `std::sort` is not stable, so it leaves any order that is sorted |
| `MCGraphs` | | composes the two; the references of the traversals are recursive definitions |
| `MCExecution`, `MCDistributed`, `MCContainers`, `MCAlgorithms` | | instances for TLC: one of the components they extend is used, the others are idle |
| `*Proofs`, `SeqLemmas` | | section 5 |

`TaskGraph` is extended by both schedules and by `TaskExecution`, which the
schedules instantiate with a refinement mapping. Of the pool `AsyncComm` assumes
in the guard of `JobBegin` what `TaskPool` promises - a pushed job is begun once,
at most as many at a time as there are threads - and `ThreadPool` is shown to
implement `TaskPool`. In the same way `SortByRank` uses what `Distribution` and
`EqIndices` say the search and the partition compute, and `SearchIntervals` and
`PivotPartition` check the loops that compute it; `AllToAll` sends what
`Intervals` makes of separators, `JaggedRange` is permuted by `PermutationOps`.
`DistExchange` and `JaggedGather` take any order of the tasks that respects the
dependencies, which is what `TaskExecution` promises of both schedules.

A C++ vector is a sequence: `v[i]` of the code is `v[i+1]`; indices that are
values keep the numbers of the code. Unsigned counters are counted modulo
`CommMod` and `IdxMod`. `IdxMod` is 2 in the run of the pool, so that the index
of the queues is 0 again after the second push; the counters of communications
do not wrap around, in the code because a graph has an `int` of tasks, in the run
because `MaxTasks < CommMod`.

## 3. Runs

| Run | Instance | What it shows |
|---|---|---|
| `execution` | `MCExecution`: the sequential schedule or the pool. Every graph of 4 tasks, joins of up to 3, with repetitions; 2 callers, 2 tasks, 2 threads, `IdxMod` 2 | `TopologicalOrder`, `SameMultiplicity` of the graph; `DepsExecutedFirst`, `SeqImplementsExecution`: dependencies first, though they are never looked at; refinement of `TaskExecution`, exceptions included. Of the pool: no lost notification, every task runs, the destructor returns, refinement of `TaskPool` |
| `async_comm` | every graph of 4 tasks, 2 pool threads, `CommMod` 5 | launch order, soundness of what main believes, no lost wakeup, nothing written after the return, termination, refinement of `TaskExecution` |
| `async_repeated_deps` | the same with a future twice in a join | section 6 |
| `algorithms` | `MCAlgorithms`: one function is called with any of its small inputs, the others are idle | `DistributionsAreEven` (the samples are those of the whole and the pivots inside of it, the closed forms agree with the loops, weighted slots are where the weights say): up to 8 elements on 3 ranks, 3 blocks of up to 3 elements of weights 0 to 3; `VisitsTheDistribution`: ranges of 9; `TicksAreFound`: 3 ticks, 3 intervals, empty ones included; `RangeIsPartitioned` (each pivot is looked for where it is, and is at the index written for it), `IndicesAreFinal`: partitions of 4 elements by 3 pivots; `SortsInside`, `PermutesInPlace`: permutations of 6, sorts of up to 6 elements of 3 values with a threshold of 2; `AlgorithmsAgree`: two sequences of 4 and 3, compression of words of 5, in place and with both kinds of output; `CallsReturn` |
| `uniform_range_few`, `balanced_weightless` | inputs that the `algorithms` run leaves out | section 6 |
| `distributed` | `MCDistributed`: the sort, on 3 ranks with up to 5 elements, 2 ranks with 9 or 10 so that the loop iterates, and with a limit of iterations that is reached; or the exchanges of 2 ranks, 3 elements, the program assign, scatter, gather | `RanksAgree`, `CutsConverge` (a sub-interval is a cut between samples, the cuts found are those of this iteration), `IterationsShrink`, `SortedOverRanks`; `ScatterIsVisible`, `GatherReturnsArray`, `CommunicationIsCovered` |
| `containers` | `MCContainers`: one container, exchange or graph is used, the others are idle. 2 ranks, 3 ids, any of the shapes of `InstanceShapes` (no block, empty ones first or last) from rank to rank, ints of 4 bytes, blocks of up to 2 values, 3 blocks, 2 groups of rank 3; 3 rows of 2 columns, sorted with < or >; knots up to 5; arrays of ranks 1 to 3 and extents up to 3; 3 variables and 2 blocks of memory; every rooted graph of up to 4 nodes with up to 2 children each, its visitor answering anything; merges of graphs of up to 5 nodes with 2 labels, those of 5 with one root only and parents that are all equal | `JaggedIsGathered`; `ExchangesAgree`: what is received is what was sent, byte for byte, and of rank 3 all the blocks, in the right groups if these do not end with an empty one; `PositionsAgree`: intervals, multi-indices, iterators, views, sub-ranges and `unique`; `RowsAreFound`: rows stay together, a search finds what a linear one finds as long as it may, and otherwise stops between two keys; `OwnedOnce`; `ImplementsBlocks`: `JaggedRange` implements `BlockSequence`; `FlatMemoryIsSound`: so does `BlockStorage`, and the elements of an array stay at their indices (`ElementsStay`); `TraversalsAgree`: the visitor is called as by the recursion (`DepthFirst`), and the trees and reductions that the visitors build with their stacks are those of the graph (`VisitorsAgree`); `MergeIsSound`: both index lists hold the same edges, and what a merge leaves is there once |
| `jagged_multi_vector` | 3 rows | section 6 |
| `jagged_sub_range` | 2 values, 2 blocks, 2 groups | section 6 |
| `multi_range_greater` | 2 rows, sorted with > | section 6 |
| `all_to_all_empty_block` | the exchanges of `containers` | section 6 |

Why these bounds are enough to see the interesting cases. Four tasks make
diamonds, chains and two communications in flight while main computes; two
threads are enough for a thief and its victim, two callers for `idx` to be
raced for. It wraps around when the number of queues divides its range, as with
2^32 and two threads; where it does not divide it (three threads) the order of the
queues breaks off there, which only the theorems cover, with any `IdxMod`. Two
ranks have at most one part without element: that several of them in a row are
skipped is `ExchangeCovered`, for any number of ranks. Parts, intervals and blocks may be
empty, values repeated, ids repeated and unsorted. The sort has samples "as any
elements of a part", hence the unluckiest ones, and nine elements need several
iterations. The threshold of the sort is 16 in the code and 2 in the run, so
that six elements are split more than once. Two groups of two blocks are enough
for separators that have to be shifted, relative to the group and to the rank;
two blocks of memory and three variables for a copy, the buffer that is made of
the original and one more holder. Every property has a mutant of the code,
listed in `PROJECT.json`, under which the same run finds it violated: the
operators with a comment that begins with "Mutant" are used for nothing else.

The local steps of the ranks in `SortByRank` are done in the order of the ranks
(`Turn`): they only touch the variables of their rank, so that other orders
reach the same states at the collective calls.

The type invariants are `GraphTypeOK`, `SeqTypeOK`, `AsyncTypeOK` and
`ThreadPoolTypeOK`; those of `Buffers` and `DistExchange` are stated with their
proofs (`BuffersTypeOK`, `ControlTypeOK`, `MemoryTypeOK`). All are proved
(section 5).

## 4. Fairness

* `FairAsyncSpec`: weak fairness of main once it is called, of the steps of
  each job, and of the visibility of each raised flag. main and the threads are
  OS threads (forward progress of the C++ standard, [intro.progress]) and a
  store becomes visible in finite time. Nothing obliges a caller to attach one
  more task or to call the schedule: `Build` is not fair.
* `FairThreadPoolSpec`, and `FairExecutionSpec` of the run, which repeats it when the
  pool is used: weak fairness of each thread, of each caller inside of
  `push_task`, and of the destructor once it has begun. The mutexes are not
  assumed to be starvation-free beyond that, and `try_lock` may fail for ever.
* `FairAlgoSpec`: the sequential code goes on.

Safety properties are checked without using fairness.

## 5. Proofs

`TaskGraphProofs`. `GraphInv` adds to the type invariant that the free places
of the vectors are empty, and the topological order, the agreement of the two
directions and the shape of the roots together: each is needed to add a task.
From it `GraphOrder`; and `MultiplicityCorrect`, that a future is recorded as
often in `out_indices` as in `in_indices`, by counting the positions a
`push_back` adds.

`ExecutionProofs`. For the sequential schedule, `SeqInv`: the tasks below the loop index have been
executed and those above have not; with the topological order of the graph it
gives `SeqOrder`. `SeqRefinement`: every step of the loop is a step of
`TaskExecution`.

`AsyncCommProofs`. `AsyncInv` is the inductive invariant, for any number of
tasks, of threads and any modulus greater than the number of tasks:
* `QueueInv`, `JobsInv`, `FlyingInv`: what is queued is ready and has not been
  started; there is one job per launched task, and its stage tells how often
  the task was entered and left; the flying jobs are those main has not
  acknowledged;
* `TaskInv`: the counts of executions are 0 or 1;
* `PushInv`, `RootsInv`, `ReadyInv`: which ready tasks are not in the queue yet,
  because the loop that queues them has not come to them - needed for the
  absence of a wait for nothing;
* `CountInv`: `n_task_remaining` is the number of unfinished tasks;
* `CommInv`: the difference of `current_comm` and `last_recorded_comm`, modulo
  `CommMod`, is the number of counted jobs that are not acknowledged less the
  number of acknowledged jobs that are not counted. This is what makes the wait
  safe: when main sleeps and nobody is left to notify, both are zero and
  something is flying, which is a contradiction.

From it `LaunchOrder`, `SoundKnowledge`, `SafeWait`, `CleanReturn` and
`AsyncTypeCorrect`; `AsyncWidth`, that at most `NWorkers + 1` tasks run at a
time, because the running ones are those of the threads and main's; then, one
lemma per action, `AsyncRefinement`: every step is a step of `TaskExecution` or a
stutter. They assume `~ RepeatedDeps`: without this the
code breaks `LaunchedAfterCompletion` (section 6). The constants have the
assumptions of `AsyncCommAssumption`, of which `MaxTasks < CommMod` holds because
the size of a graph is an `int` and the counters are `unsigned`.

The module also has the pool. `ThreadPoolInv`, for any number of threads, of callers and
of tasks, and any modulus of `idx`, is `NoLostNotification` and
* `HoldInv`: a caller holds a task exactly while it is in `push_task`, a thread
  exactly while it is about to call it;
* `PlaceInv`: a task is in one place at most, once: an argument, a queue, the
  hands of a thread. Without it a task that is popped could still be elsewhere;
* `OnceInv`: a task that was given is in one of these places or has run once;
* `DtorInv`: how far the destructor is, as a relation of its loop index with
  `done` and with the threads that have left; a thread that has left has an
  empty queue, and nobody pushes once the destructor has begun.

From it `PoolNotifies` (a thread that sleeps with a task in its queue, or told
to stop, has a notification to come), `PoolRunsOnce`, and `PoolRefinement`:
every step of `ThreadPool` is a step of `TaskPool` or a stutter. What
`AsyncComm` assumes of the pool is no more than `TaskPool`; that it assumes
exactly this is read from `JobBegin`, not proved.

`ContainerProofs`. `BuffersInv` is the invariant of `Buffers`, for any number of
variables and of blocks of memory. `OwnedOnce` looks at the owners only, and a
move makes one of a holder that was none. `HoldsInv`: what each kind of holder
points to, and in which state the flag it shares is; `VectorsInv`: no two vectors
have the same block, or giving the memory of one away would leave another one
with it; `OwnersInv`: a block has one owner, or the program has to free it, or
it is freed once, or it is lost. From it `BuffersOwnedOnce`. It does not say that
all the memory is freed: the assignment of an `owning_buffer` forgets what it
held (`dropped`).

For `MultiRange`, any number of columns and of rows. `SortingInv`: while a
multi_vector is being sorted, the columns that have been moved are those of
before, by the permutation made from the key column, and the others are as they
were; `SortedInv`: once it is sorted, and until something is written, one
permutation gives all the columns. `LowerBoundIs`: the binary search of a sorted
column counts the elements that are less, by an explicit form of the recursion
that halves the range. `LowerBoundStops` needs no order: wherever the bisection
ends, what is just before is less and what is there is not. It is what is left of
`find` when the column was sorted with another comparator, or has been written
since, and `RowsAreFound` has both parts (`FoundInTheirRow`, `StopsBetweenKeys`).
From them `MultiRangeCorrect`.

For `JaggedRange`, any values, sizes, numbers of blocks and of groups: the
refinement of `BlockSequence`. `RangeOK`: the separators begin at 0, end at the
number of values (of blocks, for those of the groups) and never decrease.
`CopyOK`: while the blocks of a view are permuted, those that are written to the
copy are where `CopyIndices`, the sums of the sizes in the order of the
permutation, put them. The copy of a view has the size of the view
(`TotalOfPermuted`), so that its separators, once shifted to where the view
begins, meet those of the blocks before and after (`AssignedSeparators`): from
this `AssignsBlocks`, the blocks of the view are reordered and the others are
the same. The steps that write the copy show nothing, an `AssignCopy` is a
`Reorder` by the bijection `Reordered`, or a stutter when the view has no block,
and the other operations are each one action of `BlockSequence`
(`JaggedRangeIsBlocks`). `unique` writes over the blocks that it drops and only
promises those that it keeps: from its call on the refinement shows the blocks
that it was given, and what it keeps is left to TLC (`UniqueKeepsRuns`). The views
are those of `view_as_vblock_range2`, made of all the values and of consecutive
separators, without offset. Nothing of this is true of the sub-ranges that
`operator[]` of rank 3 gives: their `values()` and iterators are not those of the
group, so `assign` and the algorithms write elsewhere (section 6).

It also has the gather of a `dist_jagged_array`, for any distribution, any sizes
of the elements (none included), any ids, and any order of the tasks and of the
reads of the blocks. `JaggedInv` gives each buffer its final content in advance:
`WindowInv` says that what is not pending of a window is at its place, hence that
the strides and the displacements are complete once their epochs are closed,
which is when the third exchange takes its sizes from them; `ComputedInv`, that
what has been computed is `GatheredIndices` in the order of the protocol, and
`ResultStrides`, `ResultIndices` and the values in the order of the ids. The
lemmas on strides are what it rests on: `IndicesFact` (`indices_from_strides`
starts each block where the one before ends, proved of the recursive function by
`LeastNatural`), `BlocksApart` and `BlocksCover` (each place of a buffer is in
exactly one block), and `TotalOfPermuted` (strides that are permuted need a buffer
of the same size: an injection of places both ways). From it `JaggedGathers`. Of
MPI it takes, as the model does, that the reads of an epoch are done when the
epoch is closed.

`ExchangeProofs`. Everything is for any number of ranks, any distribution of the
elements (with empty parts), any ids, unsorted and repeated, any program of
`assign`, `scatter` and `gather`, any order of the tasks and of the elements
that travel. The algebra of the protocols is in `SeqLemmas`: `PermutationOnto` (a
permutation of 1..n reaches everything), `InvPermutedFact` (`InvPermuted` undoes
`Permuted`), `OffsetFact` (`rank_offset` finds the part that has an element, empty
parts are skipped), `GroupedPartition` and `GroupedProtocol` (the partition by
rank of the ids gives a protocol with the places of the ids, in the order
`new_to_old` tells). Then three invariants, each relying on the
previous ones:
* `ControlInv`: the tasks that are done are closed under `Deps`, the epoch is
  open between its two tasks, what is pending lies between the call and the
  close; `SyncInv`: between two ranks that are not at the same operation there
  are only gathers, because the others end with a barrier (`BarrierInv`).
  `ExchangeCovered`: communications are in their epochs, at the places
  `rank_offset` gives;
* `DataInv`: what a rank is to put is in its buffer, in the order of its
  protocol; what it has put, and what was written before its operation, is in
  the memory of the owner or has been overwritten by a later operation
  (`Reached`). `ExchangeVisible`: after the scatter of a rank, its part holds
  what all the ranks wrote;
* `GatherInv` and `ResultInv`: what a gather has read of an element is as recent
  as the last write before the gather (`Fresh`), and is in the order of the
  protocol before `perm`, of the ids after it. `ExchangeFresh`: this holds of
  what is returned, in every program.

`ExchangeGathers` is `GatherReturnsArray`: with the writes before the gathers
(`WritesFirst`), what is gathered is exactly the last write. The hypothesis is
needed: a gather returns without a barrier, so that in assign, gather, assign a
rank may read what another one writes next; TLC shows it as soon as the program
of the run is replaced by this one. This is the missing synchronisation that
section 6 tells of.

`SortProofs`. `RanksAgree` compares the ranks that are at a collective operation,
and says nothing of those that are on their way to one. `SortInv` compares
`Coming(r)`, the next collective operation of rank r and what r will then have:
the sub-interval it is at, the number of ticks and the position of all of them,
the pivots, the number of indices. Between two collective operations this is a
function of what the last one has given, although the ranks compute it from
their own arrays: what differs, the values that are sampled and the ends of the
sub-intervals, decides nothing. A step of a rank leaves its `Coming` as it is
(one lemma per step, `LocalStep`), a collective operation changes it in the same
way for all (`CollectiveStep`). The rest of the invariant says that the indices
of the loop are inside the vectors, one list of pivots per sub-interval the rank
has come to, and it bounds the lengths: `PivotsOf` gives as many pivots as asked
whatever the sample (`LengthsFact`), the partition has two more ends than pivots,
or twice as many and two (`IndicesFact`), and the sub-intervals that are left
depend on the sums only (`SubIntervalsFact`). From it `SortInStep`, for any
number of ranks and of elements, any shift and any limit of iterations.

`AlgorithmProofs`. The permutation in place, for any permutation of any range:
`PermInv` adds to `DoneIsPlaced` that what is done is closed (`DoneIsClosed`), but
for the two ends of the cycle that is being followed: the place an element comes
from is done, and the place it goes to. As p is injective, the next place of a
cycle is not done unless it is the beginning of the cycle; hence
`PermuteCorrect`.

The search of the ticks, for any number of ticks and of intervals, some of them
empty. `FirstPassInv`: the vectors of the first pass give the interval of every
tick before i (`RunsCover`), and the current interval begins at the next tick or
before it, from which it is never stepped out of the last one.
`SecondPassInv`: before j, the far ticks of the run are those that are
counted from `far_first_tick` on, and the groups and the near ticks are what they
should be. The count is enough because no near tick is between two far ones of an
interval (`FarTogether`), and the knots of the near ticks are in their order
(`KnotsInOrder`). At the end each tick is in one run (`RunOfTick`), from which
`SearchCorrect`: `SearchInvariant` in every step and `TicksAreFound`.

The sort, for a range of any size, any keys and any threshold. `QuickSortInv` has
what the scans have passed (`ScanInv`: an element that stops each of them is
left inside the part, the median at first, then the two that were swapped), the
prefix that the insertions have sorted (`PrefixInv`), and `LeastInv`, which is
what the missing test of the beginning relies on: there is a place e such that
what is before e is not more than the rest (`Divided`), and e is at most the
threshold, or the part [0, e) has still to be split. A split of this part at its cut
gives the next e (`CutDivides`); what the other parts swap, and an insertion, which
shifts elements either below e or above it, leave it so (`DividedMoves`). From it
`QuickSortCorrect`, of which `[]TurnsLeft` is the hypothesis: when `quicksort_loop`
gives up a large part after `MaxLoop` turns the first part may be longer than the
threshold (section 6). `ShortRangesSorted` discharges it for a range of at most
`MaxLoop` elements, because each turn makes the part smaller (`CallsInv`).

The partitions by pivots, for a range, elements and sorted pivots of any number,
in their four variants. `PivotInv` says of each call on the stack that the
elements of its range are between the pivots outside of it (`HoldsBetween`),
that those of the other ranges are not between its own (`NotBetween`), and that
nothing is written for these but, by `partition_sort`, its first one at the
beginning of the range (`ToBeWritten`); of what is written, that it cuts the
range at the pivot (`CutsAt`); and that each pivot is written or in a call. A
step moves elements inside of the range of the current call only: no cut inside
of it is written yet, so that those that are written are kept (`CutKept`), and
the counts are those of the input (`SameCountsInside`, `PartCut`). For
`pivot_partition_eq` the range of a call ends where its neighbours' indices do
(`EndsAtCuts`), and of several equal pivots one owns what is equal to them
(`OwnedBy`): when a middle pivot is equal to one that is already written, its
range has nothing for it to own. `ScanSplit` is the invariant of the scan. From it
`PivotCorrect` (no element is lost, `RecursionNarrows`, and in the end the indices
are the counts) and `IndicesKept`. Of `std::partition` and `std::partition_point`
it takes what the model does.

The generator of `uniform_distribution_range`, for any start, size and number of
slots: after c turns of the loop it is at the bound c of the distribution
(`BoundAt`, in `RangeInv`), with as many longer steps to come. `BoundsAreKnots`
says that `uniform_distribution` writes the same bounds, `BoundsInside` that the
sentinel is met after all of them, or at `finish` when the step is 0; hence
`RangeCorrect`, and `FinishIsReached` when there are at least as many elements as
slots: `uniform_range_few` needs fewer of them (section 6).

`SeqLemmas` has the facts the proofs share: what removing or appending an element
of a sequence does to the range and to injectivity, that a sequence that is
sorted from each place to the next is sorted, permutations, and the protocol of
an exchange (with `ExchangeProofs` above). `LeastNatural` is the
induction they use: a property of naturals that fails somewhere has a least
counterexample, which the well-foundedness of the strict subsets of a finite
set gives. The property is a set, not an operator.

Only model-checked: liveness (`Terminates`, `EveryTaskRuns`,
`DestructorReturns`, `CallsReturn`), which is out of the prover's reach; the
samples of the ranks, the weighted distribution, the versions of an algorithm that
agree with each other (`AlgorithmsAgree`); that the cuts of `SortByRank`
converge and that what it returns is sorted, which are about sums over data;
`AllToAll`; `unique` and the views of jagged ranges; the other containers (block
ranges, intervals, arrays), whose steps are recursive or compare with a recursive
definition; graphs, for the same reason.

## 6. Findings

* `async_repeated_deps`: a join that holds the same multi-shot future twice
  puts the joined task twice in `out_indices` (`execution/task.hpp:63`), and
  `push_to_queue_if_deps_satisfied` queues it once per record. The task is
  executed twice and a dependent may read its result meanwhile, whereas
  `doc/user_manual/execution.rst:19` says a task is executed once its
  dependencies have. `execute_seq` is not affected.
* `uniform_range_few`: `uniform_distribution_range` with fewer elements than
  slots does not include `finish` (`algorithm/distribution/uniform_range.hpp`).
* `jagged_multi_vector`: block i of a `jagged_multi_vector` has as many rows as
  the index at which it ends, and reads past the values:
  `data_structure/jagged_range.hpp:343` passes both ends of the block to a
  `make_span_ref` that hands the second one over as a size
  (`multi_range.hpp:453`). Block 0, the one the test reads, is right.
* `jagged_sub_range`: `operator[]` of a range of rank 3 gives a sub-range whose
  separators are those of the whole, with an offset. `operator[]` of rank 2
  subtracts the offset; `values()` (`jagged_range.hpp:237`) and the iterators
  (`:213`) do not, and find what is past the values of the group. `assign`
  (`:191`), the permutations and `unique` go through them.
* `multi_range_greater`: `sort_by` with another comparator than `<` records the
  column as sorted, and `find` searches it by `std::lower_bound` with `<`
  (`multi_range.hpp:105`): in a column sorted with `std::greater` a key that is
  there is not found.
* `all_to_all_empty_block`: after `all_to_all_v` of rank 3 the separators of the
  groups are searched among those of the blocks, by value (`all_to_all.hpp:234`):
  the empty blocks that a group ends with are in the next one. The blocks and the
  values are all there, in order.
* `balanced_weightless`: trailing elements of weight 0 are in no slot
  (`algorithm/distribution/weighted.hpp`).

What no run shows but a reader should know. Nothing synchronises the end of a
`gather` with a later write of the array by another rank, so a caller has to.
An exception of a computation task leaves `execute_async_comm` while jobs still
hold references to its locals. A `multi_range` to which rows are added after a
sort is still searched by bisection (`multi_range.hpp:181` asks how to avoid it).
`all_to_all_v` of rank 3 returns a `jagged_vector<int,3>` whatever the values are
(`all_to_all.hpp:235`), and the `deserialize_into` that is given a function
resizes by `sizeof(int)` whatever the elements are (`serialize.hpp:258`).
`block_iterator::operator[]` (`block_iterator.hpp:93`) goes i elements further,
not i blocks, and `vblock_iterator::block_size` (`vblock_iterator.hpp:33`)
subtracts a pointer. `unique_compress_copy_with_index_position` captures the
output of the positions by value and ignores what `std::fill_n` returns
(`unique_compress.hpp:65-68`): right for a back inserter, otherwise the positions
of the runs are written over each other. `unique_compress_copy` writes the first
element and does not advance the output (`unique_compress.hpp:36`), while its first
loop writes before it advances and its second one after: through an iterator on a
range, when the first run has one element and there are others, its element is
overwritten and the last place of the first loop is left out. A back inserter,
which the function on vectors and the tests use, does not show it; `CopyGoesOn`, a
part of `AlgorithmsAgree`, says exactly what either output is given. The last loop of
`unique_compress` and `interval_lengths` assume a range that is not empty.
After 300 turns `quicksort_loop` leaves parts longer than the threshold, in
which the unguarded insertion may run past the beginning; this needs more than
300 elements (`ShortRangesSorted`). `append_row` of a
labelled array keeps the memory, hence moves every value of the columns after
the first one.

## 7. What is not modelled

* The values of tasks (moved or referenced results), input data by value or by
  reference.
* Exceptions of communication tasks: they end the program.
* Tasks of the pool that push tasks: no code does it.
* Of the exchanges: `all_to_all_v_from_strides`, which reads a variable in its
  own initialiser (`all_to_all.hpp:182`), the datatypes, and the lazy scatter.
* The copies of a buffer. The tasks that start the reads of a gather return their
  buffer by value while `MPI_Get` is pending on it (`communication.hpp:150-152`,
  `communication2.hpp:186-188`). Nothing reads that copy: the tasks after the close
  are joined to the result of the task that has allocated the buffer, and this is
  the one buffer of the model.
* Of the serialization: elements that are not ints, and the overloads on
  functions; of the block iterators, `operator[]` and `block_size`.
* `indirect_sort`, and the partitions with another comparison than `<`.
* Of the graphs: zipped graphs, the values of edges, the output in dot. A merge
  starts from the heights that `bidirectional_graph_builder` gives the nodes:
  `merge_from_leaves` reads them from the node values and requires them.
* Of the ranges: heterogeneous ranges, `variant_range`, `hierarchical_zip`,
  `table`, the second `multi_range`: typed views over the same vectors.
* Of the buffers: the move of a `buffer_vector`, after which its allocator has
  no flag, the comparisons, `polymorphic_buffer_allocator`.
* `knot_sequence`, deprecated: only its intervals and algorithms, with knots of
  type `int`. Shapes that cache their strides.
* Logging, polynomials (commented out), metaprogramming, `operation/` (tables of
  functors), types of the standard library (span, tuple, zip, views), code that
  nothing includes.

## 8. Plan

Done, in this order: task graph, schedules, pool; distributions; partitions,
search, sort; permutations, exchanges of distributed arrays; traversals, nested
trees and merges of graphs; jagged ranges, block ranges, `multi_range`,
intervals, multi-arrays; all-to-all exchanges and serialization; sorts,
compression and the other sequential algorithms; buffers. What is left to model
is listed in section 7.

Next, by theorem: `ElementsStay`; `ExchangesAgree`, with the lemmas on strides;
`UniqueKeepsRuns`; the steps of `BlockStorage` that do not depend on the
recursion over the memory as steps of `BlockSequence`.
