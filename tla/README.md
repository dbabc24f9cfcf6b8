# TLA+ models of PyBuda

PyBuda compiles neural networks for Tenstorrent chips and runs them on
pipelines of devices. This directory holds TLA+ modules for the parts of it that
carry their own control logic, TLC configurations that check them on small
instances, and TLAPS proofs for every value of the constants. `PROJECT.json`
maps every definition to the lines it models, and lists runs, mutants, hazards
and theorems. Paths below are relative to `src/pybuda/`.

## 1. Inventory

### Run-time (Python, `pybuda/`)

| Part | State | Operations | What is hard |
|---|---|---|---|
| `BackendAPI` feeder (`backend.py`) | a FIFO of commands and tokens, a thread, the shutdown event | `schedule_run_*`, `sync`, `shutdown`, `feeder_thread_main` | a command leaves the queue before it has run; the thread may die silently; `sync` and `shutdown` wait for it |
| Device process (`device.py`, `cpudevice.py`, `ttdevice.py`) | command and response queue, transfer threads, saved forward data | `get_next_command`, `run_next_command`, `_try_run`, `_drain_queue`, `dc_transfer_thread`, `forward`, `backward` | errors, interrupts and timeouts in any of several threads of several processes |
| Connectors (`device_connector.py`) | queues between devices, pusher thread, queue descriptors | `push`, `read`, `pop`, `transfer`, `pusher_thread_main`, `shutdown` | bounded queues, reads that give up, a pusher that dies, a device closed under a pusher |
| Run control (`run/impl.py`, `run/context.py`) | the context: processes, event, barrier, loop thread | `_initialize_pipeline`, `_run_forward`, `_run_training_loop`, `_run_command`, `_shutdown`, `_error_shutdown` | commands are sent ahead of the devices; two threads share a response queue; the clean end and the error end race |

The main process sends commands through one queue per device and reads answers
from another. Data passes from device to device through multiprocessing queues
or queues on the chip. One `shutdown_event` and one `final_barrier` are shared by
all processes: an error sets the event and aborts the barrier, a clean end sends
QUIT to every device and meets all of them at the barrier. The run-time is right
if results come out in order and complete, no device is closed under another,
weights and gradients of all devices stay in step, and every wait ends, whatever
fails.

### Compiler (C++, `csrc/`)

| Part | State | Operations | What is hard |
|---|---|---|---|
| Op fusion (`passes/fuse_ops.cpp`) | groups of ops, the schedules and buffers of a fused op | grow, prune, order, allocate, replace | the order of hash maps; one output, no cycle, few buffers |
| Scheduler (`scheduler/`) | none: functions of the graph | the policies, orderings, pairs, processed ops | several orders at once must be met |
| Graph solver (`balancer/legalizer/graph_solver.cpp`) | models left per op, pairs left per edge, cuts, selections | `resolve`, `set`, `cut`, `buffer`, filters | pruning to a fixpoint, self-cuts that start over |
| Policy manager (`balancer/policies/policy_manager.cpp`) | three copies of the solver, schedule, breaks, the epoch's ops | `commit_op`, `finish_current_epoch`, `rewind_epoch`, buffering | taking back half an epoch in the solver, the placer and the schedule alike |
| Interactive placer (`placer/interactive_placer.cpp`) | epochs, chips left, grids | `place_op`, `next_epoch`, `rewind_*`, `commit` | two nested epoch counters; replay of an epoch |
| Placer (`placer/placer.cpp`, `grid_placer.cpp`, `chip_id_assignment.cpp`) | remaining and placed ops, device grid, epochs | `get_next_epoch`, chip assignment | an op with a fixed position takes an epoch back; retries counted |
| `BestFitAllocator` | two free indexes and a map of used blocks per channel | `allocate`, `deallocate`, `clear_allocated_blocks` | splitting and merging; the order of a hash map |
| `DramAllocator`, `place_dram_queues` | a heap per virtual channel and for the p2p region, a picker, queue placements | static and dynamic allocation, fallback, second calls | memory reused over epochs; undoing a half-finished attempt; handing heaps over |
| `HostMemoryAllocator`, `place_host_queues` | current channel and address | `allocate_memory` | alignment, moving to the next channel |
| Op library (`pybuda/op/eval`), decomposing passes, autograd (`passes/decomposing_context.cpp`, `autograd/`, `optimizers.py`) | the graph of ops with TMs on its edges, gradients so far | sweeps of `decompose`, `backward`, optimizer traces, rank fix-ups | every rule is right only if elements land in the right place for all sizes modulo a tile; shapes are announced, not computed; the sweeps must end |
| Other passes, legalizer and policies, lowering | graphs and tables | rewrites and searches | sequential; see section 8 |

A compilation is right if the rewritten graph computes what it did, every op is
placed once, after its operands and where no other op is, epochs are cut exactly
where they end, two queues never use the same memory in the same epoch, and
every search ends.

## 2. Plan

Order of the work, most important behaviour first; the items marked * are done.

1. * `BackendFeeder` and its proofs. 2. * `DevicePipeline` and its proofs.
3. * `BestFit`, `MemoryPool`, `BestFitAllocator`, refinement and proofs.
4. * `DramAllocator` over the heaps of `BestFit`. 5. * `HostMemoryAllocator` and
its proofs. 6. * `TrainingLoop`. 7. * `PipelineSetup`: commands and answers,
pushers. 8. * `DeviceGrid`, `InteractivePlacer`, `EpochPlacer`.
9. * `GraphSolver`. 10. * `FuseOps`. 11. * `Scheduler` and `PolicyManager`, the
composition of scheduler, solver and placer. 12. * The op library, the
decomposing passes and autograd: `SymTensor` to `GraphPasses`.
13. Proofs for * `TrainingLoop` (`NoTornCheckpoint`, `BatchesKeptApart`),
* `DramAllocator` (disjoint live buffers, from the lemmas on sound heaps), * the
outputs of `DevicePipeline`, * `EpochPlacer` (the attempts suffice, temporal epochs
are complete, solutions are sound), * `GraphSolver` (pruning is sound, offers are
reconciled, what is finished is a solution), * `PipelineSetup` (descriptors, pushes
to open devices, sync), * `InteractivePlacer` (committed epochs are complete, records
agree, replays fit) and `FuseOps`.
14. The legalizer's enumeration of op models, the buffering of fork-joins that
`PolicyManager` leaves open, the ribbon2 policy. 15. `generate`, initialization
on a context that is still there, the active subgraph read by the feeder.

Composition: `DramAllocator` extends `BestFit` and keeps one heap per channel;
`BestFitAllocator` extends `BestFit` and instantiates `MemoryPool`;
`InteractivePlacer` and `EpochPlacer` extend `DeviceGrid`; `PolicyManager`
extends `Scheduler` and instantiates `InteractivePlacer`. `DevicePipeline` and
`TrainingLoop` use the feeder as `BackendFeeder` shows it to behave: commands run
in order, and a `sync` that returns has seen them all.

## 3. Modules and how they correspond to the code

**`BackendFeeder`** (`backend.py`). `queue` is `feeder_thread_queue`; a program
is its number, a token 0, the poison pill -1. `ScheduleCmd` and `ScheduleToken`
are the two puts of `_schedule_feeder_cmd`; `ScheduleDirect` is the mode without
a thread. `Sync*` are the polling loop and `wait_for_idle` of `sync()`,
`Shutdown*` the put, the join and `finish`. `FeederGet`, `FeederRun`,
`FeederFails`, `FeederSeesShutdown` are the thread. `shared` says whether the
object was given the event: `TTDevice` passes none, so there neither `sync` nor
the thread ever sees it. The device (external) completes programs in order.

**`DevicePipeline`** (`run/impl.py`, `device.py`, `cpudevice.py`, `backend.py`,
`device_connector.py`). A main thread, the loop thread, N device processes and
their transfer threads, with command queues, data places, event and barrier.
`LoopPush`/`LoopCheck` are `_run_forward`; `NextCommand` to `ExitProcess` are
`Device.run` with `run_next_command`, `_try_run`, `_drain_queue` and
`_shutdown_threads`; `Thread` is `dc_transfer_thread`; `SendQuit` to `Reap` are
`_shutdown`. Inputs are numbers. `Faults` selects what may go wrong: a module
raises, a read from a device times out, a program fails, a keyboard interrupt that
reaches a process while it waits for a command (`Interrupt`, which the code handles)
or elsewhere (`Escape`, where it bypasses every `except Exception`). A process that
has left its loop ends by `ExitProcess` when its threads have ended; that of a TT
device whose feeder thread is alive does not (`Lingers`) and is left to `Reap`.
`Patience` says when the user calls `shutdown()`.

**`PipelineSetup`** (`run/impl.py`, `device.py`, `device_connector.py`). The
calling thread's script (compile each device, hand out descriptors, push, run,
sync, shut down) and the training thread's, the request/response queues they
share, and the pusher thread of each connector with its bounded queue. Processes
and transfer threads are kept only as far as they order the pushes.

**`TrainingLoop`** (`run/impl.py`, `device.py`, `cpudevice.py`, `ttdevice.py`).
`lpc` and `at` are the position of `_run_training_loop` in its nested loops;
`Look` is `_error_raised()` between two commands, so a command may still be sent
after an error. `ToFeeder` hands a command of a TT device to its feeder;
`Forward`, `RunBackward` (one microbatch at a time), `Optimizer` are the passes;
`AnswerCheckpoint` waits for the feeder first. A gradient is the sequence of
pairs (forward pass, incoming gradient) it is the sum of, a weight the number of
optimizer steps. `PassRaises` is an exception with `_try_run`: the queue is
drained and the process goes on with what arrives later. `FeederDies` is a program
that fails on a TT device: its feeder is in `dead`, no event is set, and the
device's part of a checkpoint is not answered any more.

**`FuseOps`** (`passes/fuse_ops.cpp`). Growing a group, legalizing it, replacing
tile broadcasts and ordering the schedules are phases; one call of
`expand_search`, one op taken out, one sub-op emitted is a step. A hash map is
walked in any order. What a fused op computes is the tree of its ops; the
buffers and the dest register are replayed against it.

**`GraphSolver`** (`graph_solver.cpp`). `bitset` and `paths` are the models and
pairs left. `resolve` is a pass over all nodes with a stack of updates;
a self-cut ends the pass and starts another. The costs of edges and the pairs
that fit are a problem from a set of problems.

**`DeviceGrid`** are the cells of a chip and where an op fits, **`InteractivePlacer`**
the placer a policy drives op by op, **`EpochPlacer`** the one that fills epochs
from a schedule. Each turn of their loops is a step, since the loops are what
might not end. `ConfigsAssumption` is what the callers hand in: chips once each and at
least one, every op with a shape, and for the list placer every op with a type, and
scheduled once. On Grayskull every backward and optimizer op belongs to a forward op; the
`.at()` of `chip_id_assignment.cpp` throws for one that does not.

**`Scheduler`** (`scheduler.cpp`, `longest_path.cpp`, graph helpers) is a set of
operators on a graph record. **`PolicyManager`** (`policy_manager.cpp`,
`policy_utils.cpp`) walks the schedule: `Commit*` is `commit_op` up to the call
of the placer, whose own steps follow, `*Placed` is what it does with the answer;
`BufferEpoch` to `BalancingComplete` are `finish_current_epoch`, `RewindEpoch`
`rewind_epoch`. The manager's members, the solver copies among them, are the
record `m`. Which op model a policy selects and which buffers
`insert_fork_join_buffering` asks for are nondeterministic.

**`BestFit`** are the heap operations of `best_fit_allocator.cpp` as operators;
**`BestFitAllocator`** is the state machine over them, with
`clear_allocated_blocks` step by step in any order; **`MemoryPool`** is the
abstract specification: a request is granted at some run of cells that nobody
holds and refused only if there is none.

**`DramAllocator`** (`dram.cpp`, `dram_allocator.cpp`). `Schedule` decides
between an all-static and a dynamic attempt, `PlaceInP2P` and `PlaceInChannel`
place one buffer, `StaticFails`, `ClearChannel`, `ClearP2P`, `Fallback` undo a
static attempt, `FreeBuffer` and `NextEpoch` release dynamic queues,
`Finish` maps virtual to real channels, `AgainWithSame` and `AgainRebuilt` are
the second calls. The parameters of a queue (kind, size, buffers, first and last
epoch) are inputs.

**`HostMemoryAllocator`** (`host_memory_allocator.cpp`, `host_memory.cpp`,
`buda_passes.cpp`): a bump allocator in bytes with the real alignment rules;
`Recreate` is the allocator made anew from the last address.

**`SymTensor`** to **`GraphPasses`** (`pybuda/op/eval`, `decomposing_context.cpp`,
`autograd.cpp`, `optimizers.py`). A tensor element is the set of input elements
its number is computed from, so that a decomposition that moves, drops or mixes
elements is seen, for all numbers at once, and one that counts an element twice
is not; what the numbers are is abstracted (a constant is `Unit`, a known zero is
empty). `OpShapes` is `shape()`,
`OpEval` is `eval()`, `OpGraph` the graph and the decomposing context (a
replacement is a term, the same op on the same operands once), `SparsePickers` the
picker matrices, `EltwiseOps`, `NnDecompose`, `TmDecompose` and `TmReshape` the
decompositions, `OpBackward` `backward()` and the optimizers, `Autograd` the
engine. `GraphPasses` is the machine: `DecomposeNode`, `EndSweep` and `AdaptRank`
are `decompose_pybuda_graph`, `BackwardNode` and `OptimizeParameter` the loops of
the engine, `Verified` states are those `do_verify` looks at.

The `MC*` modules hold the instances. Definitions introduced by "Plausible bug"
or "as a mutant of" belong to no specification: each is a wrong version of the
definition that follows it, and `PROJECT.json` names the property that rejects
it. A few further definitions state what section 7 reports to be violated, or are the
inputs that violate it (`MCDeviatingShapes`, `MCStridedPrefix`), and are used by no run:
put in a `.cfg` they reproduce it.

## 4. Runs

| Run | What it shows |
|---|---|
| `feeder` | `CloseAfterLast`, `SyncIsComplete`, `BlockingCallsReturn`: with failures anywhere, `sync()` never returns early, and returns unless the feeder thread has died unseen; `shutdown()` always returns. |
| `pipeline` | `OutputsDelivered`, `NoEarlyClose`, `BrokenMeansEvent`, `ShutdownReturns`: `shutdown()` right after the last command loses and reorders no output and closes no device early. After an error at any point the loop thread ends, every process ends or, that of a TT device, has left its loop and waits to be terminated, and `shutdown()` returns. With an interrupt that no handler sees, nothing is lost either when `shutdown()` returns without an error, and it can wait for ever only for the process interrupted. |
| `pipeline_setup` | `DescriptorsOfPeers`, `PushesHitOpenDevice`, `SyncMeansIdle`, `ProgramEnds`: answers reach the caller they are for as far as the code ensures it, no push hits a closed device, and the program ends but for the two ways to hang that the property names. |
| `training` | `NoTornCheckpoint`, `BatchesKeptApart`, `TrainingEnds`: devices stay in step though nobody waits for them; the loop thread ends unless it waits for a part of a checkpoint behind a dead feeder. |
| `fuse_ops` | `SchedulesCompute`, `FusedGraphSound`: a fused op computes what its ops did with the buffers it has, the graph stays acyclic and complete. |
| `graph_solver` | `Reconciled`, `NothingLost`, `SolutionLegal`, `CallsEnd`: what is left is consistent, no solution is pruned away, what was set stays set, `finish` can assert what it asserts and hands over a solution. |
| `policy_manager` | `EpochStateAgrees`, `CutsSeparateEpochs`, `BreaksHonoured`, `NoAssertionFails`, `BalancingEnds`: solver, placer and schedule agree after every rewind; edges are cut exactly where epochs end; the user's breaks are kept. |
| `interactive_placer` | `PlacementsHold`, `CommittedEpochsComplete`: no core twice, replays fit, every chip has an epoch. |
| `epoch_placer` | `SolutionSound`, `TemporalEpochsComplete`, `AttemptsSuffice`, `PlacementEnds`: every op once, in order, without overlap; the placer gives up only if no chip will do. |
| `best_fit` | `NoCellTwice`, `ClearRestores`, and the refinement `PoolSpec`. |
| `dram_placement` | `BuffersPlacedRight`, `HeapsHoldWhatQueuesOwn` for every mix of three queues under every picker on both architectures, with failing static attempts and second calls. |
| `graph_passes` | `ShapesAgree`, `SameOutputs`, `GradsAdjoint`, `PassesEnd`: announced shapes are computed shapes, no pass changes what an output element is computed from, the gradient of an input element is made of the losses of exactly the outputs it reaches, every pass reaches its fixpoint. |

Deadlock checking is off where the system may stop: the user may stop calling,
a pipeline that has ended does nothing, a placement is over.

## 5. Bounds

* `feeder`: three programs, so that one can be running, one queued with its token
  and one not yet scheduled. The proofs remove the bound.
* `pipeline`: a CPU and a TT device (both transfer threads), two inputs (something
  to reorder), every fault at any point, `MaxEscapes` = 1: one process may be interrupted
  where no handler sees it. The invariant is proved for any number of each.
* `pipeline_setup`: two devices, every choice of TT devices that are not
  adjacent, three inputs against a pusher queue of two (three in the code), so
  that it fills and has to drain.
* `training`: a TT and a CPU device, either of which may fail; at most
  `MaxMicrobatches` = 4 microbatches spread in every way over epochs, steps, mini-batches and microbatches, which
  gives two of each, but not two of all at once; a checkpoint at every step, or
  at the third of four. The proofs remove the bounds.
* `fuse_ops`: graphs of up to six ops; `NumBuffers` 3 (8 in the code), `MaxInputs`
  6, `MaxDramInputs` 4, so that small groups reach every limit.
* `graph_solver`: a graph with a fork, a join and a NOP, two models per op, three
  resolve retries. The proofs remove the bounds.
* `policy_manager`: graphs of five to seven ops on grids of up to six cores, one
  or two chips, `MaxTemporalEpochs` 8, `MaxInstructions` 2 buffering instructions
  of `MaxNops` 2 NOPs; each graph is chosen for a case (skip connection, two
  convolutions, training, fracture, control edges, data parallel) and run under
  the schedulers and policies that tell it apart.
* `interactive_placer`, `epoch_placer`: three and four ops, grids of a few cores,
  up to two and three chips: enough for an epoch that spills over, a temporal
  epoch that is half used and an op that fits nowhere. The proofs remove the bounds
  of `epoch_placer`.
* `best_fit`: seven cells hold three blocks with gaps on either side, the largest
  pattern a split or merge looks at. The proofs remove the bound.
* `dram_placement`: two channels, four on wormhole after the split, seven usable
  cells each, a p2p region of two; three queues, so that one can end, one begin
  and one stay in the same epoch; epochs 0 to 2 and `Forever`. `UInt32` is scaled
  to 64, above every sum that occurs. The proofs remove these bounds.

* `graph_passes`: tiles of two by two (32 in the code), so that three is a tile
  and a part of one and four are two tiles. Every reshape of six elements between
  ranks two to four with W of one, and some larger ones, which together take every
  plan of `TmReshape` but the first (a broadcast operand, which no op before the
  pass leaves on the edge of a reshape). About a hundred ops with their attributes,
  slices of each dimension with and without strides among them, and graphs of a few
  ops with forks, shared parameters, several outputs and a loss. Left out are the
  attributes section 7 lists. `MaxSweeps` 4.

## 6. Fairness

Weak fairness only. Threads and processes are scheduled by the operating system
and poll their queues with timeouts of at most a second, so each of them that can
take a step takes one. The device finishes what it was given. In
`DevicePipeline` the user pushes the inputs that were announced but need not
call `shutdown()`, and fairness of all work together (`Work`) says as much as fairness of
each process, since each takes so many steps and no more; in `BackendFeeder` the
caller need not call anything. Nothing has to fail: faults carry no fairness, except that a read that waits for ever
does give up after its ten timeouts where the code counts them. The compiler is
sequential code: a call that has begun is executed, a policy goes on until it has
balanced the graph. `PolicyManager` writes weak fairness of its next-state
relation out as "ended, or a step, infinitely often", which is the same since a
step is possible until it has ended.

## 7. What the checks and the modelling showed

Most properties hold. The following disagree with a comment, a doc, or what a
reader expects; each was reproduced on the model or read off the code.

Run-time:

* The final weights are not checkpointed when any checkpoint was taken in the
  last epoch although the last step had none (`run/impl.py:885`, `:922`, `:932`;
  `run/api.py:126` promises "the final set of weights"). `FinalWeightsSaved`
  states it: three steps and an interval of two violate it.
* `_shutdown` sends QUIT and waits at the barrier before it joins the loop thread
  (`run/impl.py:1274-1283`). If `shutdown()` is called while commands are still
  being issued, QUIT overtakes commands on one device and not on another; the
  second waits for data that never comes. A request of the loop thread behind
  QUIT is never answered, and is waited for.
* In training, `sync()` can take the answer to the loop thread's checkpoint
  request (`run/api.py:467`), and the loop thread then gets the answer to `sync`
  and ends everything. `SyncMeansIdle` and `ProgramEnds` name the case.
* Nobody notices a dead pusher thread: the next push on the full queue blocks
  (`device_connector.py:46`, `:316`). The second "quit" put needs a queue of two.
* Two adjacent TT devices push through a copy of the connector whose queues were
  set in another process. `Command.get_device_intermediates` (`run/impl.py:850`)
  does not exist. A compile error is raised without a shutdown, and the next
  initialization reuses the context (`run/impl.py:366`).
* `BackendAPI` objects of a `TTDevice` have no shutdown event (`ttdevice.py:832`), so
  a `sync()` whose feeder thread died polls for ever (`backend.py:137`). A failed
  program kills the feeder (`:265`), and `get_parameter_checkpoint` begins with a
  `sync()` (`ttdevice.py:1056`): the loop thread that collects a checkpoint never
  gets that device's part, nor `None`, and nobody sets the event, which violates
  `CheckpointAnswered`; `TrainingEnds` excepts it as `Stranded`.
* Nor does the feeder thread, which is no daemon (`backend.py:92`), end by the event: a
  TT process that leaves its loop by the event or a broken barrier, against
  `device.py:365`, does not end. It is left to the terminate of `_shutdown`
  (`Lingers`), and violates `EventEndsProcesses`.
* A keyboard interrupt outside `get_next_command` is not an `Exception`: it passes
  the handlers of `Device.run`, sets no event and leaves the barrier to wait for ever
  (`LeftWaiting` in `ShutdownReturns`).
* `_error_shutdown` aborts the barrier before it sets the event (`run/impl.py:496`).
  It is called when the put of a command fails, which an unbounded queue does not,
  and is not modelled; `BrokenMeansEvent` would not hold in between.
* After a failure a checkpoint can mix weights before and after a step, and can
  hold empty parts; it is still put in the queue. Learning rate schedulers are
  stepped on the loop thread's own copies of the devices.

Memory:

* A second call of `place_dram_queues` on the same allocators puts a queue over a
  dynamic queue of the first call that is in use in the same epoch
  (`buda_passes.cpp:521`; `LatePlacementDisjoint`).
* On wormhole the upper half of channel 0 is rebuilt from the blocks of the lower
  half (`dram_allocator.cpp:225`), and a heap handed over without a free block is
  taken for a missing one (`best_fit_allocator.cpp:11`).
* A host allocator created anew after it has moved past channel 0 restarts in
  channel 0 over used memory. Its first channel begins at address 0, later ones
  at the configured start.
* The estimate that decides for an all-static attempt sums one buffer per queue,
  in 32 bits. It is only a heuristic: the attempt falls back.

Placement:

* The loop that looks for a requested chip goes on after it found one
  (`interactive_placer.cpp:394`): with two requested chips in the pool the current
  chip is put back twice (`ChipsNotRepeated`). With pipelined chips on Nebula the
  assignment never ends when an epoch mixes output and other ops.
  `policy_ribbon2.cpp:1332` commits without the chip breaks and trips an assertion
  in pipelined mode. `num_epochs` leaves trailing empty graphs out.
* An op that fills the grid followed by one with a user's `grid_start` makes empty
  epochs for ever (`grid_placer.hpp:72`; `EpochsPopulated`). The assertion that
  nothing is left to be placed again can be reached with two overridden ops; an
  override without `grid_start` throws; an empty epoch in the middle makes `.at`
  throw.

Balancing:

* The assertion of `self_cut` that not every node affected by a cut is set
  (`graph_solver.cpp:520`) can fail. In the modelled instance it does not, since
  there is one order in which the ops can be set. It was reached on a five-op graph
  with `self_cut` "producer" and a policy that selects in a topological order other
  than the solver's. So no run states that the state "asserted" is
  out of reach; for `finish` it is proved (`FinishHolds`). A wipe-out found while
  `resolve` updates is fatal although a self-cut would help, and invalidating
  suboptimal models can make a solvable graph fail. The comment above `buffer()`
  promises that selections are reset and returned; they are not.
* A chip break on the sparse matmul of a pair is ignored: the pair is placed with
  the dense op's (`policy_manager.cpp:215-225`).
* `schedule_dependencies` keeps one predecessor per op (`scheduler.cpp:183`), so of
  two orderings on one op one is lost, against what `config.py:1082` promises;
  the reordering of the backward pass and of pairs ignores orderings.
* With one op per epoch, `finish_current_epoch` is called after the op was placed,
  and the next epoch starts off by one op and with the previous op's type.
  Without buffering and ribbons the epoch's selected models are never cleared.
* An op with two edges from one fractured operand is scheduled twice
  (`all_operands_visited` is not reset). A buffer inserted before a backward op
  that has only control edges has no forward op, and is dropped from the schedule.
  The longest-path policy does not keep epoch types apart.

Fusion:

* `should_fuse_node` looks at operand edges only (`fuse_ops.cpp:1548`), so an op
  reached late joins a group though its edge to a member has TMs a fused op cannot
  apply, or is input 1 of the reducing matmul; the assertion at `:333` tests a
  string literal. The limits can be exceeded after legalizing has pruned and a
  failed attempt leaves its `has_reduce` and AMP properties to the next. An op that
  reads a tile broadcast on both ports breaks `replace_tile_broadcasts`.

Op library (the attributes `graph_passes` leaves out):

* The compiler trusts `shape()`, and `eval()` computes another one for an unsqueeze
  on a negative axis (`tm.py:677`, `:386`), a stack on one (`eltwise_nary.py:143`, `:73`),
  a maximum with a stride along another dimension than Z (`reduce.py:62`, `:23`) and a
  broadcast of a dimension behind the last (`tm.py:551`, `:192`). `MCDeviatingShapes` has
  the four, and `ShapesAgree` fails for each. In the same way a squeeze of a dimension that is not one drops it in the shape
  only, and `index_copy` announces the largest dimension of its three operands, the
  index among them (`eltwise_nary.py:136`).
* `eval()` raises for a `grouped_reduce_avg` of dimension -1 (`reduce.py:43`) and for
  `batchnorm`, whose names are not defined.
* A slice of Z with a stride keeps too many slices when `stop` cuts some off
  (`tm.py:1095`; `SameOutputs` fails for `MCStridedPrefix`). A slice with a stride of a tensor with W above one
  rounds down (`tm.py:1149`) and is right where the stride divides the dimension.
* A zero pad in another mode than constant leaves a nop behind that nobody reads
  (`tm.py:1180`); the plan that follows replaces it.
* The plan that turns a column into a matrix multiplies a picker of rank two with all
  slices (`tm.py:1811`); with Z above one the picker's broadcast counts its dimension
  from the front of the padded shape (`matmul.py:123`) and hits the picker's X, as for
  (1, 2, 6, 1) into (1, 2, 2, 3). Other reshapes with W above one lose W or are left
  as they are, and a vector (rank one) has no Y for the plans that pad it.

## 8. What is not modelled

* In the run-time: building connectors, a second initialization, `generate`, the
  epoch looping of `_run_forward_with_fw_looping`, the sequential mode, two
  adjacent TT devices, recording of gradients for verification, tensorflow
  devices.
* In the placement: linked queues, the choice of the chip of a queue, the
  distances of the closest-core picker (any channel may be nearest), blackhole's
  DRAM limit, groups of several ops, harvested rows in the epoch placer, matching
  of names to overrides.
* In the balancer: the op models and costs (any small table), the partial reset of
  the solver, partial datacopies, the pruning of single paths, similarity matching
  in `set()`; the policies' choice of an op model; `force_current_epoch_break` and
  the interactive scheduler, which nothing uses.
* The rest of the compiler. `PROJECT.json` lists each part with its reason.

## 9. Proofs

`tlapm` checks the proofs of eight modules. Components may share a module:
`DevicePipelineProofs` extends the feeder too, `AllocatorProofs` instantiates the
host memory allocator as `Host`. `DeviceGridTheorems` holds what the proofs about
both placers need: filters and sorted sets, the order of the chips, and that a place
found on a grid is free.

* **The feeder thread** (in `DevicePipelineProofs`), for any number of programs. The
  properties are not inductive by themselves: that the feeder holds the next program
  depends on what is in the queue. `FeederInv` says at which place of the history of
  puts every queued item stands (programs at odd places, tokens at even ones, the
  pill last) and relates the number of gets to the number of programs handed over.
  From it follow `FeederOrder`, `FeederClose`, and, as an action property,
  `SyncCompleteness`: an empty queue with every token taken means every program was
  submitted.
* **`DevicePipelineProofs`**, for any number of devices, any choice of TT devices,
  inputs and faults. `PipelineInv` ties the barrier to the device states: a party
  counts as arrived until it leaves, the barrier opens when all have arrived, a
  device arrives without transfer threads, every other way to end but an interrupt
  that escapes comes after the event, and a process that escaped before the barrier
  never comes to it (`StraysStay`), so that the barrier does not open and no
  `shutdown()` returns as if nothing had happened (`JoinedInv`).
  `NoDeviceClosedEarly` and `NoSilentAbort` follow. A second invariant follows the inputs through the commands, devices and transfer threads, and gives
  `OutputsStayInOrder`: what has come out is, at any time and under any fault, an
  initial piece of what was pushed. `CleanShutdownDelivers` is `OutputsDelivered`:
  when a `shutdown()`
  that met no error returns, nothing is missing either. It assumes that `shutdown()`
  is called once all commands were issued or all outputs have arrived
  (`Patience # "pushed"`); called while the loop thread is still sending
  commands it may send QUIT ahead of them (section 7).
* **`TrainingLoopProofs`**, from `TrainingAssumption`: any number of devices, steps,
  accumulation and microbatch counts, any checkpoint interval and fault. That the
  devices stay in step though nobody waits for them rests on an invariant about
  commands on their way: the commands queued for a device lead, one position
  (forward passes, backward passes, optimizer steps) after another, from where the
  device is to where the loop thread wants it to be. Data between two devices is a
  stretch of consecutive microbatches that starts where the consumer stands and
  ends where the producer does; a gradient is the sum of the current batch as far
  as it was processed; a checkpoint request is the last command in a queue, and the
  answers in the response queues are of this step. All of it is said until something
  fails, when queues are drained. `NoCheckpointTorn` and `BatchesStayApart` follow.
* **`AllocatorProofs`**, the three allocators, after lemmas about one heap. The
  channel allocator: for any
  channel with `First < Last` and any set of
  positive sizes. The invariant is that the heap is `Sound`: blocks are disjoint
  intervals in the channel, both free indexes agree, free neighbours are merged
  and no cell is lost. `CarveSound` and `DeallocateSound` show that the two
  operations keep it. Merging is what makes `ImplementsPool` true: in a sound
  heap a run of unheld cells lies inside one free block (`RefusalJustified`), so
  a refusal is justified. `ClearGivesFreshHeap` follows since a sound heap without
  used blocks is a fresh one (`EmptyIsFresh`).
  The DRAM placement: from `ConfigAssumption` and `GraphsAssumption` (the p2p
  region lies inside channel 0, sizes and numbers of buffers are positive, epochs
  are unsigned) for any queues, sizes and pickers. In the invariant every heap is
  `Sound` in a range of its own, its used blocks are exactly those of the buffers
  that own memory there, no block belongs to two of them, and two buffers share
  memory only if their epochs do not meet. `HeapsMatchQueues` needs nothing more.
  `PlacementIsRight` has the hypothesis that no two heaps cover the same cells
  (`OwnRanges`), which the code breaks in one case only: on Wormhole a second call
  that rebuilds the heaps gives the upper half of channel 0 the blocks of the lower
  half (section 7). `PlacementIsRightWithOwnRanges` states it for all other calls.
  The host memory allocator has its theorems in the same module, as an instance
  beside the others, from `HostAssumption`. `LaidOut` says that in the current
  channel everything lies below the current address and no later channel is used;
  with it `HostBuffersDisjoint` holds as long as the allocator is created anew in
  channel 0 only. `HostBuffersWellPlaced` needs no such condition. There is no run
  of `HostMemoryAllocator`: the theorems cover every layout.
* **`PipelineSetupProofs`**, from `PipelinesAssumption`: any number and kind of
  devices, inputs, depth of the pushers' queues and set of faults. A good part of it
  says what the scripts are: a loop over the devices is the concatenation of pieces
  that keep a form (`FlattenIn`, `GoodFlatten`), and what the calling thread still
  has to send is counted (`Tally`, `TallyFlatten`, `RestNext`).
  `AnswerInv` is about the one response queue of a device: until the end of the
  setup at most one request is out per device, so the answer in the queue is the one
  asked for, every `set_queues` carries the descriptors its connector is there for,
  and `DescriptorsOfPeers` follows, whatever fails. `QuietInv` says what holds until
  the first error: descriptors that were sent are queued or set, and before the first
  command that moves a tensor (`SetsSent`, `PushersSet`); nothing moves during the setup
  (`Ranges`); QUIT is the last command but for a checkpoint (`QuitQueued`, `QuitDone`),
  and no device closes before all of them are at the barrier (`Barrier`); a device
  whose SYNC was answered gets nothing but QUIT (`SyncedIdle`). These alone are not
  enough, since nobody ever asks a pusher. The missing part counts tensors (`Flow`):
  there is an f such that f[p] tensors have gone through place p, the difference between
  two places is what waits between them, in the queue, in the pusher's queue or in its
  hand, and the programs still to be sent, queued or running on the last device
  are the inputs that have not gone through it. So once the last device has nothing
  left to run, nothing is left in any pusher before it: `SyncMeansIdle` and
  `PushesHitOpenDevice`. A step keeps `Flow` because it moves one tensor over a stretch
  of places (`FlowShift`). TLC checked both invariants for one, two and three devices
  with faults before they were proved.
* **`EpochPlacerProofs`**, from `ConfigsAssumption`: any schedule, grid, chips, breaks
  and overrides, on the three architectures. The calls of `place_onto_chip` divide
  the schedule (`LoadsPartition`): by type, by type and chip, or by kind, each op is
  in one of them. `PlaceInv` follows the call in progress: the ops of the epochs it
  completed, of the open epoch, those to be placed again and those to be placed are
  the ops of the call, one after the other, so that taking an epoch back moves a
  boundary and loses nothing; the occupied cores are those of the open epoch, and
  every epoch is legal. The epochs of the calls that are over hold exactly their
  ops (`Solves`). `SolutionIsSound` is that at the end. `TemporalInv` says how far
  the temporal epochs are apart: on a galaxy the chips used in the current one lie
  behind the cursor in the row, in the summary temporal epochs grow with the epoch
  ids, strictly where a chip comes again, a type begins or a user breaks, and the
  empty epochs fill exactly the gaps; with it, `TemporalEpochsAreComplete`.
  `TriedInv` says which chips an epoch was tried on, from the number of attempts
  and the direction of the cursor; after 2 * chips of them, snaking or not, these
  are all, which is `GivesUpLast`. The recursion over the schedule on Grayskull and
  the order of `Filter` are handled by the least counterexample: a set of naturals
  without a least element is empty, from `WFMin` of the library.
* **`InteractivePlacerProofs`**, from `ConfigsAssumption` (the chips and the order of a
  galaxy are listed once, every op has a shape): any graph, chips, grids, overrides,
  breaks, and any order of calls, rewinds and commits. Three hypotheses remain, each
  for something the code does:
  - `Op # {}`: a graph without ops would be committed without its first epoch.
  - `OneRequested`: outputs kept on the host ask for at most one chip. The loop at
    `interactive_placer.cpp:394` puts the current chip back once for every requested
    chip that is left, so with two of them the epoch index is counted down twice
    (section 7).
  - `PairsAlike`, for the replay only: where the first op of a pair that fits as a block
    may run, the second may too. `place_two_ops_rowwise` asks whether an op fits onto a
    chip for the first op of the pair only (`interactive_placer.cpp:439-470`), so that
    for a pair whose second op is an output kept on the host, say, the replay in
    `rewind_to`, which places them one by one, may not fit.

  `EpochsInv` is about epochs. The temporal epoch that is placed is `Spread` over
  consecutive epochs on distinct chips, the chips left are the others, and every
  earlier temporal epoch is whole (`PastWhole`). It is kept when a chip goes back to the
  pool (`SpreadBack`), when a broken-off epoch is filled up (`FilledUp`) and when the
  epochs of a pipelined commit get their chips one after the other (`AssignedUpTo`).
  `ChipsAlways` and `CommittedAlways` follow. `Agree` and `OpenAgree` say of every epoch
  and every name that the four records tell the same, and that the ops of the open
  temporal epoch are those placed from its first epoch on, which is why a rewind forgets
  the right ones; with them the records agree as long as no replay aborted. That none
  does needs the order: `InOrder` says that the ops of the temporal epoch were placed in the
  order of their epochs, each where it may run, and `Again` that what is left to
  replay goes to the current chip or to one still in the pool, epoch by epoch, on
  cores that are free there. So a turn of the loop moves on exactly when no op of
  the current chip is left to place again (`NextChipAgain`), and finds the old place
  free otherwise (`AgainFits`). Both are `PlacementsAlways`. TLC checked the invariants
  on instances with three and four ops before they were proved.
* **`GraphSolverProofs`**, from `SolverAssumption`: any graph of ops and NOPs, any
  models, edge costs, limit, number of retries and policy. The loops of the solver
  are recursive functions; `LoopExists` gives the values after each round and
  `Induct` carries a fact from one to the next, so that `update`,
  `apply_cumulative_costs`, the node processor and the expansion of a call each
  get lemmas that say what a loop over any sequence of edges keeps.
  `TypeCorrect`: an edge has a path set or is on the agenda, and between calls
  nothing is left to do. `SolutionsAreKept`: a choice within the limit is affordable
  for as long as it is on offer (`OfferedIsAffordable`, since the cheapest paths of the
  other edges add up to no more than its own), so no loop takes a path of it away, and
  what a pass discards is disabled too. `OffersAreReconciled` rests on `Tracks`: a
  round of `update_solver` reports, in `changed` and `path_changed`, every node that
  lost a model, so an edge is consistent or one of its ends is on the work list
  (`Checked`), and the list is empty between calls. `SolutionIsLegal` adds that a
  selected node has every model but one disabled through all cuts and buffering
  (`Picked`), that a node left without edges is not pruned (`Lonely`), and that once a
  node and its neighbours are selected, the round at the node had one path per
  edge and so checked exactly the costs of the selection (`CostChecked`, `RoundChecks`).
  `FinishHolds` is the assertion of `finish`. All six invariants were checked with
  TLC on the instance of the run before they were proved.

Only model-checked:

* all liveness properties, which are out of the prover's reach;
* fusion (`FuseOps`), which has no proofs;
* the policy manager and the graph passes, since `Scheduler`, `OpGraph` and
  `EltwiseOps` use recursive operators, which the prover cannot work with, and so
  does what extends them.
