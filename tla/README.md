# Einsums in TLA+

Einsums is a C++ library of tensor operations. A program records operations
into a *compute graph*; passes rewrite the graph; an executor replays it, many
nodes at a time, on a *task pool* whose threads share a machine-wide *width
budget*. This directory holds TLA+ models of that core, TLC configurations
that check them on small instances, and TLAPS proofs about them for all
instances. The models are translated from the sources under
`src/libs/Einsums`; `PROJECT.json` maps each definition to the lines it models.

## 1. Inventory

Paths are relative to `src/libs/Einsums`.

### Compute graph (`ComputeGraph`)

- **Graph and its dependencies** (`Graph.cpp`). State: the node list, tensor
  handles with alias links and boxes, position-keyed dependency lists
  (`_deps`), the flags `_sorted` and `_deps_valid`, an analysis version.
  Operations: capture, `for_each_hazard_edge`, `topological_sort`,
  `rebuild_levels`, `link_alias_storage`, `execute`. Hard: an edge that is
  missing breaks only concurrent replays; accesses are retired from the scan to
  keep the edge set small; boxes make disjoint slices independent; lists go
  stale when a pass reorders nodes. Correct when every conflict is ordered,
  nothing else is, and position-keyed lists always fit the order.
- **Executors** (`Executor.cpp`). `SequentialExecutor` is a loop,
  `OpenMPExecutor` runs level after level, `DataflowExecutor` submits a node to
  the task pool when its last predecessor completes, `MPIExecutor` is the
  sequential one on every rank. The dataflow executor keeps a scaffold per
  `execute()`: countdowns, the count of completed nodes, an exception, the
  byte counter and the list of deferred nodes. It calls the width budget,
  whose continuations call back into it, and the task pool; every node's body
  may start a nested `execute()`. Hard: three submission paths (batch,
  successor, resumed), two gates (memory, width), failure and draining, async
  nodes as two tasks, reuse of the scaffold. Correct when each node is over
  exactly once after its predecessors and `execute()` returns.
- **Control flow** (`Graph::add_loop`, `add_conditional`). A node's task
  replays a graph of its own; thread-local scopes say what the thread holds.
- **Passes** (`Passes/`, `Optimizer.cpp`). A pipeline of rewrites of the node list,
  each of which may be disabled. State: the nodes, the redirects of captured
  slots, slices of an arena. Hard: a pass reasons with the lists of operands
  while the executor reads captured slots, and both must say the same;
  later passes take the position of a node for program order; a graph is
  replayed many times, so storage freed by one replay must be there for the
  next. Correct when optimizing changes nothing the caller can see.
- **Captured operations, string dispatch.** Builders of nodes: what each records
  of its operands is what the passes know of it.

### Task pool (`TaskPool`)

- **Width budget** (`WidthBudget.cpp`). State under one mutex: total, charged
  width, queues of parked requests by rank, peak. Operations: acquire,
  release, recharge, sync, reset; scopes that lend width. Hard: parked
  continuations run after the mutex is dropped, on the releasing thread;
  width is taken back without asking; the total moves lazily. Correct when
  width is conserved, nobody waits who could run, and nobody starves.
- **Work-stealing deque**, **task pool**, **task handles**
  (`WorkStealingDeque.hpp`, `TaskPool.cpp`, `TaskHandle.hpp`). State: atomic
  indices and a growable buffer; an external queue, parked workers, shutdown;
  shared results with continuations. Hard: relaxed memory orders, growth under
  a thief, lost wake-ups, helping, shutdown with work queued.

### Files, profiling and the rest

- **Tensor files, checkpoints** (`TensorIO`). State: the file, its header, data and
  entry table written in place, and the table and next offset of the object that
  has it open. Hard: an append overwrites the table; a write or a crash between
  the three writes of the metadata. Correct when what was stored last is what
  is read, by this object, by the next one, and after a crash when `flush()` had
  promised it.
- **Profiler** (`Profile`). Per-thread ring buffers and a consumer thread;
  hard: a full buffer.
- **Buffer allocator, block manager.** A byte quota under a lock.
- **Runtime, options, communication, GPU.** Start-up and shutdown order,
  observers of options, thin wrappers of MPI and of vendor streams.
- **Tensors, algebra, kernels, vendors, bindings, support libraries.**
  Sequential numerical or structural code without a protocol.

`PROJECT.json` lists all of these with their status and, under `hazards`, what
is hard to test in this code, at its line, with the properties that cover it.

## 2. Modules

```
WidthBudget  <-- EXTENDS --  DataflowExecutor -- implements --> DagRun
     ^                          ^
     |                          +-- DataflowFaults (submissions that throw)
     +----------- EXTENDS --  NestedReplay

GraphDeps    <-- EXTENDS --  GraphRun

WidthBudgetProofs <-- EXTENDS -- DataflowExecutorProofs, NestedReplayProofs

WorkStealingDeque -- implements --> TaskDeque

PassIR       <-- EXTENDS --  Passes                  TaskPool, TensorFile
```

| module | models | how |
|---|---|---|
| `WidthBudget` | `WidthBudget.cpp` | one action per operation; the loop that drains the queue and the continuations it resumes are actions of the thread that released |
| `DagRun` | the promise of `Executor.hpp` | abstract: each node over once, after its predecessors, then return |
| `DataflowExecutor` | one `DataflowExecutor::execute()` | each thread has a stack of the scaffold's functions it is inside of; one action per access to shared state; node `i` is request `i` of `WidthBudget` |
| `DataflowFaults` | the same, with a throwing task submission | one fault action added |
| `NestedReplay` | loops, `HoldScope`, `BlockedScope`, `WidthGuard` | runs inside runs, threads that help |
| `GraphDeps` | hazard scan, Kahn, levels | the graph is met access by access, so behaviours are all graphs within the bounds |
| `GraphRun` | `OpenMPExecutor` by levels, or any executor by edges | nodes read when they start and write when they end; a cell's value is its last writer |
| `TaskDeque` | the promise of `WorkStealingDeque.hpp` | abstract: push, pop and steal as single steps |
| `WorkStealingDeque` | the deque of one worker | a pc for the owner and for each thief, the owner's store buffer, one step per read of something another thread writes |
| `TaskPool` | `TaskPool.cpp`, `TaskHandle.hpp`, the loops of `TaskPool.hpp` | callers and tasks are small programs; each thread has a stack of the bodies and pool functions it is inside of, one step per access to shared state |
| `PassIR` | captured nodes, storage, a replay | a tensor is two elements of a prime field, a replay computes |
| `Passes` | ten passes and the pass manager | behaviours capture a program, then optimize it; a pass is the set of graphs it may leave |
| `TensorFile` | `TensorFile.cpp` | a file is a sequence of cells of 32 bytes; one action per operation; the files a crash may leave are part of the state |
| `MC*` | instances for TLC | constants only |
| `*Proofs` | theorems | see section 5 |

Correspondence of the main variables: in `WidthBudget`, `total`, `inUse`, `peak`,
`seq` and `parked` are the members of the class and `mutex` their lock, while `phase`
and `grant` follow each request through its life; `stack` in `DataflowExecutor` stands
for the program counters inside `submit`, `admit`, `run_node`,
`drain_deferred` and `complete`; `memory` is `mem_current`, an unsigned counter
modulo `WordSize`; `deferred` and `scan` are the deferred list and the place of
the walk under its mutex. In `GraphDeps`, `writers` and `readers` are the
lists of the scan (tensors and parameters share one function, their keys are
disjoint), a box is the set of cells it covers and `Whole` is the null box:
interval boxes of one owner overlap exactly when their cells do. `edges` and
`inDegree` count a pair of nodes once where the code counts each emission; both
sides of the countdown do so alike. `accs`, `saw` and `runs` are history.

In `WorkStealingDeque`, `mem` is what other threads see of `_bottom`, `_buffer` and
the slots, `stores` the owner's stores on their way there. The order is x86's: stores
become visible one by one and in order, loads are not reordered, the compare-and-swap
and the fence wait for the store buffer. A slot is assigned in two stores, so a
thief may copy half of a task; what the model shows of such a copy is that it is never
returned, for `_top` has moved; that the copy itself is undefined behaviour in
C++ is beyond it. `NullWindow` says whether the build keeps the null store of a
moved-from `_buffer`; the passing run takes the build that does not, the run of
finding 3 the one that does. `DataflowExecutor` takes the pool for a bag of
tasks, which is less than a `TaskDeque` per worker gives.

In `TaskPool`, `external`, `deque`, `shutdown` and `acc` are the members and locals of
that name, `loop` is the step of `worker_loop()` a worker is at, and `outcome` and
`handlers` are a `SharedState`. A deque's operations are single steps, which
`WorkStealingDeque` implements. A worker counts itself as parked before it sleeps; both
moments are one here, since a wake-up between them is lost like one before.
`submitted` and `registered` are history: the tasks that were enqueued, and what
`on_complete()` was called on with what it runs. A program (`Body`) is any sequence of
operations per caller and task; `PoolAssumption` says of it only what the interfaces
give: a result is new when it is returned, so that one operation creates it, and
`when_all()` of nothing needs no pool. `NothingLost`, which the executors take for granted of the
pool, speaks of these two histories.

In `PassIR`, `ins` and `outs` are the lists of a node, `slots` what its executor
captured, `redirect` the slot redirections and `arena` the slices of the graph.
Field elements make prefactors compose without rounding; the two elements of a
tensor are an off-diagonal pair, so that a transposed operand is told from a plain
one. `expected` is program order over storage that is all there. A pass whose
loop iterates a hash table, or sorts unstably, is a set of outcomes.

In `TensorFile`, `file` is what any reader sees, `images` the files that a crash at this
moment may leave: each write since the last `fsync()` is kept or lost as one (a
torn write of data is covered by slices, whose cells are separate writes, and one
of metadata matters only while nothing is promised or the bytes do not change).
`content` is what the program stored last, `durable` what of it a crash must leave.

Boxes and keys are inputs of `GraphDeps`: that `resolve_alias` gives
overlapping storage one key is taken for granted here and is the subject of
the planned `AliasLinks`.

## 3. Runs

| run | asks | bounds |
|---|---|---|
| `width_budget` | Is width conserved, is admission head-of-line, is nobody stranded or starved? | 3 requests of widths 1, 2 and 4, a worker and a caller, a machine of 2 or 3 |
| `dataflow` | Does one run implement `DagRun`, through both gates, failures and an async node? | 8 nodes, 3 threads, 4 bytes, a machine of 2 (as planned) or 3 (stale plan) |
| `nested_replay` | Is width lent and taken back once, is everything left as it was found, do all runs return? | 4 runs of 6 nodes, 2 callers, 1 worker |
| `graph_run` | Does every graph, sorted and run concurrently, behave as in program order? | 4 nodes, 4 accesses, a tensor of 2 cells, a parameter |
| `work_stealing` | Does the deque implement `TaskDeque`, does an empty pop mean empty, is every task taken? | 2 thieves, 3 tasks, a buffer of 1 that grows to 4 |
| `task_pool` | Is no task or continuation lost, run twice or run before its inputs, and does every call return? | 2 workers, 2 callers, 6 tasks, 1 join |
| `passes` | Does an optimized program compute what the captured one does, twice, on any executor? | programs of 4 nodes from 15 operations, 7 tensors, 10 passes, each but one optional |
| `tensor_file` | Is what is read what was stored last, after failures, reopening and a crash? | 2 tensors of 1 and 2 cells, 3 storing operations, 1 crash |
| `memory_cycle`, `dataflow_faults`, `deque_grow`, `permute_fusion` | the findings of section 4 | the smallest instance that shows each |

Why the bounds are enough to be interesting:

- `width_budget`: two requests tie in rank, one exceeds the machine and is
  clamped, and the two widths that fit alone do not fit together, so parking,
  overtaking, draining and lending past the total all occur.
- `dataflow`: the instance is built so that a deferred node is walked past by
  one Free and admitted by a later one, a parked root is resumed during
  seeding, a failed node's successors are drained, one allocation exceeds the
  whole budget, the Free of the largest tensor waits for two predecessors, and
  the plan may be stale. The instance meets the hypotheses of the theorems about
  memory (`MCHypotheses`).
- `nested_replay`: body nodes as wide as the machine need exactly the width
  the loop holds; one body node may fail; the second caller may help with the
  first one's nodes.
- `graph_run`: four accesses suffice for a retirement of a retirement
  (a write covered by a write covered by a write, then a read), for the
  uncovered rest of a reader, and for a node in conflict with itself. The
  cells are symmetric and the symmetry set is used; the run checks no liveness.

- `work_stealing`: the buffer grows twice while both thieves may be anywhere in
  `steal()`, its only slot is reused before it grows, and all three end up racing for
  one task. Without the fence TLC finds a task taken twice.
- `task_pool`: a batch of two tasks, one of which may throw, is joined while the
  results arrive; the continuation waits for a task of its own, which sits in
  the deque of the worker that waits; a second caller helps with a reduction
  and shuts the pool down when the first is done. Every step of
  `worker_loop()`, a share of the external queue, thefts by workers and helpers and
  lost wake-ups occur.
- `passes`: four nodes are a producer, a writer of its operand, and two readers,
  which every hazard of section 1 needs at most; the menu has two tensors that may
  be merged, two that may share a slice, a permute with its reader, and both kinds
  of deferred tensors. TLC found each of the disagreements about passes of section 4
  with it. Deadlock is not checked since the pipeline ends.
- `tensor_file`: an entry table is longer than a tensor, so an append overwrites part
  of it and the next table may end before or after the old one; one tensor's end
  is not aligned; a name may be stored twice, and reserved and filled slice by slice.

`Finished` and `Done` let a run that is over stutter, so that TLC's deadlock
check finds every other stop; in `graph_run` it is what shows that Kahn's
algorithm never gets stuck and that neither executor waits on itself.

### Fairness

- `WidthBudget.FairSpec`: a thread inside the budget continues (weak); a task
  that holds width ends and a lender takes its width back (strong, because
  the mutex in between disables these steps again and again). The code has no
  unbounded wait inside the budget, and kernels end.
- `ExecFairness`, `NestFairness`: strong for each thread's next step, for the
  same mutex; weak for *some* thread taking a queued task, since workers and
  helpers poll the queues. Nothing says which one.
- `DagRun` asks for weak fairness of its steps, which the refinement discharges.
- `WorkStealingDeque.Fairness`: stores reach memory, and the owner pops again
  (weak), as `worker_loop()` does until shutdown. Thieves may stall for good.
- `TaskPool.Fairness`: a thread that can continue does, and the timeout of a parked
  worker expires (weak); the random victims of a worker that looks for work again
  and again include one that has some (strong, for each attempt may miss).
  Thefts by helpers get none: `help_until()` may miss for good, workers do the rest.
- `GraphRun`, `Passes` and `TensorFile` need none: their properties are invariants.

## 4. Findings

1. **Two operands that fit the memory budget only one at a time**
   (`memory_cycle`). The second Materialize is deferred, the Free it waits for
   waits for the node that uses both. The comment at `Executor.cpp:672`
   says parked allocations always drain.
2. **A throwing submission loses the successors behind it**
   (`dataflow_faults`), although the comment at `Executor.cpp:523` names this hang.
3. **A thief may read a null buffer while the owner grows it** (`deque_grow`).
   `grow()` moves `_buffer` away before it assigns the new one
   (`WorkStealingDeque.hpp:141-142`), and `steal()` reads it unsynchronised.
4. **A permute is removed though its source changes before the permuted tensor is
   read** (`permute_fusion`). `permute P <- A; A := A + C; C := P*B` becomes
   `A := A + C; C := A'*B`, which reads the new `A`.

The run `passes` keeps to programs without five patterns (`Assumed` in its cfg). The
first is finding 4 ("sources"); take any of the other names out of the set and TLC
shows what the pass makes of it:

- "permutes": a tensor permuted into twice. `PermuteFusion` keeps the last producer
  of a name, so a reader between the two gets the second one's source.
- "operands": an overwrite that reads its own destination. `CSE` looks for writers
  strictly between two equal nodes (`CSE.cpp:576`), so it merges
  `axpby T := 2A` behind `axpby A := 2A` with it.
- "producers": a tensor declared zero that is read before its first writer.
  `InplaceOptimization` hands its storage to the reader's result.
- "written": an eager intermediate that the caller fills and no node writes.
  `FreeInsertion` frees it after its last read and pairs no Materialize with the
  Free, for it has no first writer (`FreeInsertion.cpp:164-167`), so the second
  replay reads released storage.

Smaller disagreements, read or seen in the models but checked by no run:

- Executors and budget. A nested run on a helping caller is under the ceiling of
  one thread and sets the machine's total to one while its loop is admitted
  (`Executor.cpp:412, 601-603`), though `WidthBudget.hpp:102-103` says a total never
  changes under admitted tasks. Materialize nodes made for declared tensors carry 0
  bytes and their Free nodes carry the size (`Materialization.cpp:40-74`,
  `FreeInsertion.cpp:260`), so the unsigned counter at `Executor.cpp:616` passes below
  zero, where `Executor.hpp:166-171` says that live memory is tracked.
  `ComputeGraph/docs/optimization_passes.rst:650` says the submitter waits where `submit` defers;
  the clamped grant documented in `WidthBudget.hpp:89-92` is not what `WidthGuard`
  receives (`Executor.cpp:601`); after `recharge()` has taken the charge past the
  total, `reset_peak()` makes the peak start above it (`WidthBudget.hpp:115-121`).
- Task pool. `TaskPool.hpp:316-319` says `help_until` is used by `TaskHandle::wait`,
  but `get()` and `wait()` block without helping: as many waiting tasks as there are
  workers stop the pool. The comment at `TaskPool.hpp:204-205` says that slot 0 of a reduction
  belongs to the calling thread and that the offset makes slots disjoint; line 214 gives
  slot 0 to every thread that is not a worker, and `help_until()` takes whatever is queued.
  So a second thread outside the pool that waits in a loop of its own runs chunks of the
  reduction next to the caller, and an update is lost: let `c1` in `MCTaskPool` help
  until `d` is there instead of waiting, and TLC finds `ReductionComplete` violated. Tasks that are queued at shutdown are dropped with
  their handles never ready, and `help_until()` then returns with nodes
  outstanding, against `Executor.cpp:844-846`. `TaskPool/docs/index.rst:326` says that workers
  do not call `omp_set_num_threads()`; `worker_loop()` does.
- Tensor files. `flush()` ignores a failing `fsync()`; `save()` truncates the old
  checkpoint first; a crash after an append and before the next `flush()` may lose
  every tensor of the file, for the append overwrites the table. A moved-from
  `TensorFile` keeps the descriptor and an empty table (`= default` move), so its
  destructor writes a header without entries. Names are cut to 63 characters when
  stored and not when looked up; `read()` does not check the type; `restore()`
  counts missing tensors as read. Nodes of `GraphIO.hpp` record no dependency through
  the file they share.
- `ConstantFolding` finds nothing to fold: `create_tensor` inserts an Alloc node
  that names the tensor among its outputs (`Graph.hpp:1035-1039`), and the pass
  counts every node's outputs as written (`ConstantFolding.cpp:42-47`), while
  `ComputeGraph/docs/optimization_passes.rst:141-150` describes intermediates that
  no node writes.

## 5. Proofs

All proofs are checked by `tlapm` to the last leaf. They assume only the named
assumptions of the modules (`BudgetAssumption`, `ExecutorAssumption`,
`RequestAssumption`, `GraphAssumption`, `NestedAssumption`, `DequeAssumption`,
`PoolAssumption`, `TensorFileAssumption`), which TLC evaluates on the instances, and, where
stated, hypotheses of the theorem.

The library's induction theorems cannot be instantiated here, so inductions use
a lemma of our own (`Induction`, `Ascent`): a set of numbers that has 0 and each successor is
`Nat`, shown with the least number missing from it.

**`WidthBudgetProofs`.** The module starts with what `SumFunctionOnSet` of the community
modules does when an element joins or leaves a set, and that it is monotone, respects
equal functions and does not change under renaming, by induction on cardinality; the
proofs about the executor use these lemmas too. `IInv` is the type invariant with four more
conjuncts: a request that waits has an entry in the queue (`Queued`), a request
whose continuation is due has left it (`DueServed`), with the mutex free the
most urgent entry does not fit (`HeadBlocked`), and every entry fits the whole
machine (`ParkedFits`). A release makes the head fit for a moment, so
`HeadBlocked` speaks of the moments the mutex is free, and is re-established by
the end of the drain. `NoStranding` needs both of the last two: what fits the whole
machine but not now is kept out by width that is charged. From `IInv`: `TypeCorrect`,
`HeadAlwaysBlocked`, `ParkedAlwaysFits`, `NeverStranded`, and the action properties
`HeadOfLine` and `AdmissionsFit`. The accounts need more: that each request has one
entry, or one due continuation, and that `inUse` is the sum of the grants in the
charged phases (`Account`). Every step moves one request between phases, so one sum
gains or loses one element, whence `ChargeConserved` and `OvershootBounded`.

**`DataflowExecutorProofs`.** The executor's steps are steps of the budget or
leave it alone, so a run implements the budget's specification
(`KeepsContract`) and inherits its theorems. The work is in `StackTypeOK`: the
frames, tasks and deferred entries always name nodes, which is what makes each
call one of the budget's own operations.

One run, for any graph, any plan, any failures and any number
of threads. The state is spread over stacks, queues, lists and counters, and no
conjunct about one of them is inductive: that a countdown reaches zero once
depends on where its predecessors are. The invariant `RunInv` says instead that
there is an *account* of the run that the state agrees with: the stage `st[i]`
each node has reached, the place `sp[i]` of the frame that has it (thread and
depth from the bottom, so that calls and returns move no other frame), and the
edges `cnt` that were counted down. Each node is in one place at a time:
- a frame's node is at the stage the frame's label says, and the frame is the
  node's place, so no two frames are about one node (`FramesIn`); tasks, batch,
  deferred nodes and parked requests agree likewise (`TasksIn`, `DeferredIn`, `PhasesIn`);
- a countdown is the number of uncounted edges, and a node waits as long as there is
  one (`CountsIn`); `completed` is the number of nodes that are done (`CompletedIn`);
- the byte ledger (`LedgerIn`): the counter is, up to a multiple of the word,
  what was charged minus what was refunded.

A step moves one node from one stage to the next (`MoveRun`), and each action has a
lemma that says which. `RunsTheGraph` follows: each step is a step of `DagRun` or
none of its business. It is the safety half of `ImplementsDagRun`; the
fairness of `DagRun` stays with TLC. When the caller has left, all nodes are done and
so in no place at all: `ScaffoldAlwaysUnused`, `WidthAlwaysReturned`. The counts give
`CountersInRange`, which is the type invariant.

The theorems about memory have hypotheses, and need them. `RoomForTwo`: twice the budget
fits the machine word; otherwise a sum that wraps looks as if it fitted.
`FreesFit`: no Free is larger than the budget, whose Materialize would have failed and
charged nothing. With both `MemoryBudgetKept` holds although the counter may wrap in
between. `FreesMatch(m)`: each Free `f` comes after a Materialize `m[f]` of the same size,
which no other Free is paired with; `FreeInsertion` builds such pairs
(`FreeInsertion.cpp:229-282`). Then the balance is never negative (`NeverOverdrawn`: the
nodes that ran are closed under predecessors), the counter *is* the balance and stays
between 0 and the budget (`CounterStaysInBudget`), so the test of the gate means what
it says, and `NothingDeferredLost` is inductive: charges only shrink the room, a Free
is followed by its own walk, and a walk that has passed an entry has found no room
for it or leaves it to one that has still to start. Without `FreesMatch` the counter
wraps below zero, which is the hazard at `Executor.cpp:616` (section 4), and the
gate then defers nodes for which there is room.

**`NestedReplayProofs`.** Runs inside runs: any graphs and bodies, any nesting, any
number of threads that help each other. The frames of one run and its nodes are spread
over the stacks of all threads, with frames of other runs above and below. First, the
executor is a client that keeps the budget's contract (`KeepsTheContract`), so every
theorem about the budget holds under nested runs. Then, as above, the invariant
`NestAccount` asserts an account: the stage and the place of each node and of each run.
- *The shape of a stack* (`Nested`): a run is on top of a body, a node on top of a run
  that waits.
- *The account* (`RunAccount`): a frame is where the account places it, so no two
  frames are of one node or one run; a run knows which of its nodes are to do or in
  its batch, the queue which are queued, `completed` which are done; a list
  of runs to start names none that was started (`Unstarted`), for which it matters that
  each execution has one caller (`StartedOnce` in `NestedAssumption`: a run is one
  `execute()`).
- *The budget's view* (`PhasesFit`): the stage of a node tells where its
  request is, which is judged once, when the run makes its plan.
- *The scopes* (`Scopes`): what a thread holds and the ceiling it sees are functions of its
  stack (`HeldNow`, `IcvNow`). The node of a body is charged unless a run on top of it
  has got past `LendWidth`; a run's frame remembers exactly what it found, a body's that
  nothing was held. `HoldMatches` alone is not inductive: `EndRun` restores what
  the frame remembers, so what every frame *below* the top will restore has to be known.

Each action has a lemma that says what it does to the stack (`Turns`, `Pushes`, `Pops`,
`Calls`, `Cuts`: the frames up to a depth stay), to the account and to the scopes.
`HoldAlwaysMatches` follows since a node has one place, hence one holder;
`AlwaysLeftAsFound` since empty stacks place no run, so no node is under way, no request is
charged, parked or due and nothing is queued; `NestTypeCorrect` from the
count of the nodes that are done.

**`GraphRunProofs`.** The argument, for any graph:
- *Nothing is forgotten too early.* For every transitive `R` that contains the
  edges, and for each cell of each access met so far, the scan still remembers
  either the read itself or a write to that cell whose node is, or is behind in `R`, the
  access's node (`Remembered`). With this, a new access needs edges only to what is
  remembered: any older conflict is ordered through it (`OrderedBy(R)`). Neither
  half is inductive without the other, and quantifying over `R` replaces the
  transitive closure, which would need recursion.
- *Levels.* "Is on a lower level" is a transitive relation that contains the edges,
  so it orders all conflicts (`LevelsSeparateConflicts`).
- *Edges.* "Has not started unless the other is over" is one too; hence, in both
  modes, no node starts before the earlier nodes it conflicts with are over
  (`ConflictsRunInOrder`), which gives `RunIsRaceFree`, and with the invariant that a
  cell holds the last write, in program order, of the nodes that are over,
  `RunSeesProgramOrder` and `RunLeavesProgramOrder`.
- *Kahn.* The counts are those of the producers not yet placed, all edges lead
  forward, so the next position of program order is always ready and the smallest
  (`SortKeepsProgramOrder`): the code's branch that scans a second time and its
  exception for a cycle are unreachable, which is why the model has neither.

**`TaskDequeProofs`.** `HandedOnce` for the abstract deque and any set of tasks: the
deque holds each task once and none that was handed out.

**`WorkStealingDequeProofs`.** The deque on x86, with any number of thieves and tasks
and both builds of `NullWindow`. Besides the ranges of the constants it assumes
`MaxPush <= Cap[NumBuffers]`: the bound on the buffers leaves room for the bound on the
tasks, so it restricts nothing (`DequeTypeCorrect`). The proof looks at memory as a sequence of *views*:
`View(n, l)` is what memory holds at `l` once the oldest `n` stores of the owner have
reached it; view 0 is memory now and the last view is what the owner reads. A thief
reads `_bottom`, `_buffer` and a slot at three moments, hence in three views that only
move forward, and the invariant is about any three:
- `Published`: who sees `_bottom` above `i` in one view and a buffer in the same or a later
  one finds task `i` in that buffer in this and all later views, as long as `_top` has
  not passed `i`. This is where the order of the stores in `push()` and `grow()` enters,
  and that a slot is reused only when its index is a whole capacity above `_top`.
- `OnItsWay`: so a thief whose `_top` is still current holds a buffer, then a copy, of
  the oldest task. If its compare-and-swap fails what it copied does not matter.
- `Claimed`, `Window`: in `pop()` past the fence there is a single view, the bottom the
  thieves see is the owner's, and what waits fits the buffer.
- `Handed`: what waits are tasks that were pushed, each once and never returned.

A flush drops the oldest view, a store adds one, and all actions are described
by a map from the new views to the old (`Moves`); `PushViews` describes the views `push()`
adds with all of `grow()`. Then every step is one step of `TaskDeque` or leaves
`Waiting` as it was (`StepRefines`): `DequeImplementsTaskDeque`. The steps of `TaskDeque` are `Push`
itself, `PopTake` or a won race for the last task, and a thief's won compare-and-swap. From the same
invariant follow `DequeHandsOutOnce`, for the deque as it is and not only for
what it implements, and `EmptyPopFindsNothing`. `Cap` is
a recursive function; that it is defined and doubles is proved as well, by induction on sets
of numbers (`CapDefined`, `CapDoubles`).

**`TaskPoolProofs`.** The pool with any number of workers and callers and any
programs. A task is on its way through a queue or a deque, in a frame of some thread,
or waits behind handlers that are themselves in a list, in the hands of a thread that runs them, or
taken from it. No conjunct about one of these places is inductive: that a task is not in
the queue twice depends on its not being in a frame, and that a countdown reaches zero once
on the handlers that are still to run. `Accounted` says that there is an account the state agrees
with: the stage `st` and the seat `sp` (thread and depth) of each caller, task and
join; the stage `tk` and the seat `tp` of each *pair* of a result and what is
registered on it; and `at`, how far each body has got:
- a frame's owner is at the frame's seat, and the handlers a frame still has to run are
  exactly the pairs that are firing there (`FramesIn`, `Seated`); queues, deques and
  handler lists agree likewise, each without repetition (`QueuesIn`, `HandlersIn`);
- a pair is registered once it has a stage; it is a handler as long as the result is not there
  and no longer (`PairsIn`), which is where `on_complete()` and `set` share the lock;
- a task is new until its operation or all of its inputs bring it about; a result is
  `Deserved`, an exception by the task itself or by one of its inputs (`StagesIn`);
- `remaining` is the inputs not counted, and a join is new as long as some are left and
  none has failed (`JoinsIn`);
- what the rest of a body brings about is new (`AheadIn`), so that nothing is
  submitted or registered twice.

`NothingEverLost`, `InputsAlwaysFirst` and `PoolTypeCorrect` follow; the last needs `JoinsIn`,
for a countdown stays at least zero only because each input is counted once.
`ReductionAlwaysComplete` needs more, and two hypotheses. `ChunksPlain`: a chunk of a
reduction is its two accesses to the slot, as `parallel_reduce` makes it. `OneHelper`: at most
one of the threads outside the pool helps, which is what the code's comment takes for
granted and section 4 shows to be needed. The invariant `Reduction` is that a chunk
between its two accesses is the innermost frame of its thread and holds what the slot still
holds (for no other thread with that slot runs a body), that a chunk that has written is in
one slot and in no queue, and that one whose result is there has written.

**`TensorFileProofs`.** The file for any names, sizes and values and any number of entries,
operations and crashes. The program's promise is about cells, the code's data are
a table of entries and three writes in place, so the invariant ties them together:
- `TypeInv`: the file and every image a crash may leave are made of the cells the code
  writes, and the next append goes behind all entries; while `fsync()` is
  pending, the file has the metadata of the object's entries (`Stored`).
- `FileHolds`: for *some* list of entries, which is the object's own if one is open and is in the
  file's table if none is open or it only reads, each name that has contents has an entry
  that shares no cell with another (`Alone`) and the file has the contents there (`Kept`). An
  object that writes need not agree with the table, for an append overwrites it.
- `CrashHolds`: as long as a crash must leave something, *every* image has the same
  table and keeps what was promised. This is where an append gives the promise up, and why
  the slices and the three writes of a later `write_metadata()` do not: each call of theirs,
  alone or in any company, keeps header, table and data of the entries as they are.

An operation is a sequence of calls, `file` and `images` are folds over it.
`FoldSolved` shows that the fold's recursive definition has a solution, `DoKeeps` that what
every call keeps the file and all images keep, `DoLeaves` that what one call brings about and
the later ones keep is there in the end. `StoredReads` is that a table is read as it was
written, `MetadataStored` that the header, the table and the exact size are there after the
three calls, whatever the file was. From the invariant: `StoredIsReadBack` and `FileTypeCorrect`.

**Only model-checked**: all liveness (`EveryParkedResumed`, the fairness of
`ImplementsDagRun`, `EveryRunReturns`, `EveryTaskRuns`, `EveryCallReturns`), which
is beyond the prover; and the three properties of `Passes`, whose replay folds over the
nodes: that it computes the same is an induction on data.

## 6. Not modelled, and why

- Exceptions out of the seeding loop and out of the width gate inside
  `drain_deferred` (only the successor loop's, in `DataflowFaults`).
- The pooling of scaffolds over several runs: `ScaffoldUnused` says when one
  may be pooled.
- Failures of nodes under `OpenMPExecutor`; the sequential and MPI executors.
- Flags that guard stale dependency lists, alias linking, the capture of operations
  with views. `StorageOrdered` uses that edges are conflicts, which `graph_run` checks.
- Passes: what concerns views, control flow, tiles, devices and distribution in the ten that
  are modelled, and the others: `ConstantFolding`, `GEMMBatching`,
  `SymmetrizedAccumulation`, `LinearCombinationContractionFolding`, `DistributiveFactoring`,
  `LoopInvariantHoisting`, `ScratchPrivatization`, `ContractionPlanning`, `IOPrefetch`,
  `StreamContractionFusion`, `SymmetryPropagation`, `ThreadPlanning`, which
  reason about costs, shapes or nested graphs.
- The pool: threads outside that leave while the pool shuts down (callers are
  joined first); pinning and OpenMP settings.
- Store orders weaker than x86's under the deque: its plain stores to `_buffer` and
  to the new buffer's slots have no order there that a thief may rely on.
- Tensor files: several ranks, types and shapes, the walk of a slab, two objects
  on one file, a failing truncation (the code goes on); distributed files and the
  text form of graphs.
- The profiler and the byte quota of the buffer allocator: next section. The components that
  compute numbers are out of a model checker's reach; generated wrappers and
  vendored code are left aside.

## 7. Plan

Done, in this order: `WidthBudget`, `DagRun`, `DataflowExecutor`, `NestedReplay`,
`GraphDeps`, `GraphRun`, `TaskDeque`, `WorkStealingDeque`, `TaskPool`, `PassIR`,
`Passes`, `TensorFile`, and the proofs of section 5. Next:

1. `GraphOrder`: `_sorted`, `_deps_valid` and the analysis version under passes
   that add, drop and reorder nodes; no executor reads lists of another order.
   `AliasLinks`: overlapping storage resolves to one root.
2. Smaller ones: the profiler's ring buffer, the byte quota, distributed files.

## 8. Running

```
tlc -config GraphRun.cfg MCGraphRun        # and likewise for each cfg
tlapm GraphRunProofs.tla                   # and the other *Proofs
```
