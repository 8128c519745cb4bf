-------------------------- MODULE DataflowExecutor --------------------------
(***************************************************************************)
(* One DataflowExecutor::execute() of a compute graph (ComputeGraph,       *)
(* Executor.cpp): the roots are seeded in one batch, every other node is   *)
(* submitted by the thread that completed its last predecessor, and the    *)
(* caller helps until the count of completed nodes reaches n.  A           *)
(* submission passes the memory gate (over-budget Materialize nodes are    *)
(* deferred until a Free returns bytes) and then the width budget, of      *)
(* which this module is a client: node i is request i of WidthBudget.      *)
(*                                                                         *)
(* Each thread has a stack of the scaffold's functions it is inside of,    *)
(* innermost first, and one action is one access to shared state.  The     *)
(* task pool is the bag of queued tasks any free thread may take from; its *)
(* own queues are the subject of other modules.                            *)
(***************************************************************************)
EXTENDS WidthBudget, FiniteSets, SequencesExt

CONSTANTS
  Main,          \* the thread that calls execute()
  NumNodes,      \* n, the nodes are the positions 1 .. n
  Preds,         \* DependencyInfo::predecessors
  Kind,          \* OpKind of a node, as far as the executor looks at it
  Bytes,         \* Node::estimated_bytes
  MemoryBudget,  \* _memory_budget, 0 for none
  WordSize,      \* 2^w of the byte counter
  ThreadWidth,   \* Node::thread_width, 0 for an unplanned node
  PlannedRank,   \* Node::admission_priority, 0 for an unplanned node
  PlannedCount,  \* Graph::planned_thread_count(), 0 for a hand-set plan
  MayThrow       \* the nodes whose work may fail

Nodes == 1 .. NumNodes

ASSUME ExecutorAssumption ==
  /\ Main \in Threads \ Workers
  /\ NumNodes \in Nat \ {0}
  /\ Requests = Nodes
  /\ \A i \in Nodes : Preds[i] \subseteq 1 .. (i - 1)
  /\ Kind \in [Nodes -> {"compute", "materialize", "free", "async"}]
  /\ Bytes \in [Nodes -> Nat]
  /\ MemoryBudget \in Nat /\ WordSize \in Nat /\ MemoryBudget < WordSize
  /\ ThreadWidth \in [Nodes -> Nat]
  /\ PlannedRank \in [Nodes -> Nat]
  /\ MayThrow \subseteq Nodes

VARIABLES
  stack,         \* per thread: the frames of the scaffold code it is inside of
  queue,         \* the tasks handed to the pool and not taken
  batch,         \* root_batch, seeded and not submitted
  remaining,     \* predecessors left per node
  completed,     \* the count help_until() waits for
  failed,        \* some node or submission failed
  memory,        \* mem_current
  deferred,      \* the Materialize nodes waiting for bytes, in order
  scan,          \* 0, or where drain_deferred() is in them under deferred_mutex
  widthsActive,  \* the graph is planned, and for this machine
  runs,          \* history: how often each node was run or drained
  returned       \* execute() has returned and the scaffold is pooled again

scaffold == <<batch, remaining, completed, failed, memory, deferred, scan, widthsActive>>
execVars == <<stack, queue, scaffold, runs, returned>>
vars == <<budgetVars, execVars>>

-----------------------------------------------------------------------------
(* Frames. *)

\* A function the thread is inside of: the node it is about, the nodes its loop
\* has still to visit, and those drain_deferred() has charged.
Frame(at, i) == [at |-> at, node |-> i, todo |-> {}, runnable |-> <<>>]
NodeLabels == {"submit", "admit", "run", "astart", "afinish", "free", "drain", "scan",
               "readmit", "complete", "succ"}
CallerLabels == {"reset", "seed", "help"}

Top(t) == Head(stack[t])
At(t, label) == AtRest(t) /\ stack[t] # <<>> /\ Top(t).at = label

\* The top frame of t is replaced by f, left standing below a callee, or left.
Goto(t, f) == stack' = [stack EXCEPT ![t] = <<f>> \o Tail(@)]
Call(t, f, callee) == stack' = [stack EXCEPT ![t] = <<callee, f>> \o Tail(@)]
Leave(t) == stack' = [stack EXCEPT ![t] = Tail(@)]

\* The loops visit their nodes in ascending order.
NextToVisit(t, j) == j \in Top(t).todo /\ \A k \in Top(t).todo : j <= k

Successors(i) == {j \in Nodes : i \in Preds[j]}
Roots == {i \in Nodes : Preds[i] = {}}

\* enqueue_task(): an async node is queued as its start half.
TaskOf(i) == <<i, IF Kind[i] = "async" THEN "astart" ELSE "run">>

-----------------------------------------------------------------------------
(* Arithmetic of the byte counter, an unsigned machine word. *)

AddBytes(m, b) == (m + b) % WordSize
SubBytes(m, b) == (m - b) % WordSize

\* Variant: the room is tested before the bytes are added.
BytesFitIfAnyLeft(m, b) == m < MemoryBudget

BytesFit(m, b) == AddBytes(m, b) <= MemoryBudget

\* submit(): only a Materialize node with a size is gated, and only with a budget.
Gated(i) == MemoryBudget > 0 /\ Kind[i] = "materialize" /\ Bytes[i] > 0

\* Where submit(i) starts.
SubmitFrame(i) == Frame(IF Gated(i) THEN "submit" ELSE "admit", i)

-----------------------------------------------------------------------------
(* What reset() derives from the graph and the plan. *)

AnyWide == \E i \in Nodes : ThreadWidth[i] > 1

\* effective_width(): an unplanned node of a planned graph counts as one thread.
EffectiveWidth(i) == IF ThreadWidth[i] = 0 THEN 1 ELSE ThreadWidth[i]

\* fill_structural_priorities(): the longest hop count to a sink.
HopsToSink[i \in Nodes] == 1 + Max({0} \cup {HopsToSink[j] : j \in Successors(i)})

\* fill_priorities(): one planned rank anywhere means the ranks are the plan's.
PriorityOf(i) == IF \E j \in Nodes : PlannedRank[j] # 0 THEN PlannedRank[i] ELSE HopsToSink[i]

\* Node i asks the budget for its effective width at its own priority.
ASSUME RequestAssumption ==
  \A i \in Nodes : /\ Width[i] = EffectiveWidth(i)
                   /\ Rank[i] = PriorityOf(i)
                   /\ Tiebreak[i] = i

-----------------------------------------------------------------------------
Init ==
  /\ BudgetInit
  /\ stack = [t \in Threads |-> IF t = Main THEN <<Frame("reset", 0)>> ELSE <<>>]
  /\ queue = {}
  /\ batch = {}
  /\ remaining = [i \in Nodes |-> 0]
  /\ completed = 0
  /\ failed = FALSE
  /\ memory = 0
  /\ deferred = <<>>
  /\ scan = 0
  /\ widthsActive = FALSE
  /\ runs = [i \in Nodes |-> 0]
  /\ returned = FALSE

\* reset(): a planned graph adopts the machine's width while the budget is idle,
\* and drops its widths when the plan counted on another machine.
Reset(m) ==
  /\ At(Main, "reset")
  /\ IF AnyWide THEN SyncMachineWidth(Main, m) ELSE UNCHANGED budgetVars
  /\ widthsActive' = (AnyWide /\ (PlannedCount = 0 \/ PlannedCount = total'))
  /\ remaining' = [i \in Nodes |-> Cardinality(Preds[i])]
  /\ Goto(Main, [Frame("seed", 0) EXCEPT !.todo = Roots])
  /\ UNCHANGED <<queue, batch, completed, failed, memory, deferred, scan, runs, returned>>

\* The seeding loop of execute(): submit(i, &root_batch) for every root.
SeedRoot ==
  /\ At(Main, "seed")
  /\ \E i \in Nodes :
       /\ NextToVisit(Main, i)
       /\ Call(Main, [Top(Main) EXCEPT !.todo = @ \ {i}], SubmitFrame(i))
  /\ UNCHANGED <<budgetVars, queue, scaffold, runs, returned>>

\* submit_bare_batch(), after which the caller helps.
SubmitBatch ==
  /\ At(Main, "seed") /\ Top(Main).todo = {}
  /\ queue' = queue \cup batch
  /\ batch' = {}
  /\ Goto(Main, Frame("help", 0))
  /\ UNCHANGED <<budgetVars, remaining, completed, failed, memory, deferred, scan, widthsActive,
                 runs, returned>>

-----------------------------------------------------------------------------
(* The memory gate: submit(). *)

\* A node larger than the whole budget fails the run and completes on the spot.
SubmitOverBudget(t) ==
  /\ At(t, "submit") /\ Bytes[Top(t).node] > MemoryBudget
  /\ failed' = TRUE
  /\ runs' = [runs EXCEPT ![Top(t).node] = @ + 1]
  /\ Goto(t, Frame("complete", Top(t).node))
  /\ UNCHANGED <<budgetVars, queue, batch, remaining, completed, memory, deferred,
                 scan, widthsActive, returned>>

\* A node that does not fit now is deferred; nobody waits for it here.
SubmitDeferred(t) ==
  LET i == Top(t).node IN
  /\ At(t, "submit") /\ scan = 0 /\ Bytes[i] <= MemoryBudget
  /\ ~ BytesFit(memory, Bytes[i])
  /\ deferred' = Append(deferred, i)
  /\ Leave(t)
  /\ UNCHANGED <<budgetVars, queue, batch, remaining, completed, failed, memory,
                 scan, widthsActive, runs, returned>>

\* A node that fits is charged and goes on to admit().
SubmitCharged(t) ==
  LET i == Top(t).node IN
  /\ At(t, "submit") /\ scan = 0 /\ Bytes[i] <= MemoryBudget
  /\ BytesFit(memory, Bytes[i])
  /\ memory' = AddBytes(memory, Bytes[i])
  /\ Goto(t, Frame("admit", i))
  /\ UNCHANGED <<budgetVars, queue, batch, remaining, completed, failed, deferred,
                 scan, widthsActive, runs, returned>>

-----------------------------------------------------------------------------
(* The width gate: admit(), and enqueue_task(). *)

\* Only the seeding loop passes a batch.
Seeding(t) == Len(stack[t]) > 1 /\ stack[t][2].at = "seed"

EnqueueTask(i, toBatch) ==
  IF toBatch THEN batch' = batch \cup {TaskOf(i)} /\ UNCHANGED queue
             ELSE queue' = queue \cup {TaskOf(i)} /\ UNCHANGED batch

AdmitUngated(t) ==
  /\ At(t, "admit") /\ ~ widthsActive
  /\ EnqueueTask(Top(t).node, Seeding(t))
  /\ Leave(t)
  /\ UNCHANGED <<budgetVars, remaining, completed, failed, memory, deferred, scan, widthsActive,
                 runs, returned>>

AdmitGranted(t, m) ==
  /\ At(t, "admit") /\ widthsActive
  /\ AcquireGranted(t, Top(t).node, m)
  /\ EnqueueTask(Top(t).node, Seeding(t))
  /\ Leave(t)
  /\ UNCHANGED <<remaining, completed, failed, memory, deferred, scan, widthsActive,
                 runs, returned>>

\* acquire() returned 0: the continuation owns the node.
AdmitParked(t, m) ==
  /\ At(t, "admit") /\ widthsActive
  /\ AcquireParked(t, Top(t).node, m)
  /\ Leave(t)
  /\ UNCHANGED <<queue, scaffold, runs, returned>>

\* The drain of the budget on behalf of an acquire or a release of ours.
DrainBudget(t) == (DrainHead(t) \/ DrainStop(t)) /\ UNCHANGED execVars

\* The continuation of a parked node queues its task.
ResumeParked(t) ==
  /\ Resume(t)
  /\ queue' = queue \cup {TaskOf(Head(ready[t]))}
  /\ UNCHANGED <<stack, scaffold, runs, returned>>

-----------------------------------------------------------------------------
(* The tasks: run_node(), run_async_start(), run_async_finish(). *)

\* A worker that is idle, or the caller inside help_until().
MayTake(t) ==
  IF t = Main THEN At(t, "help") /\ completed # NumNodes
              ELSE AtRest(t) /\ stack[t] = <<>>

TakeTask(t) ==
  /\ MayTake(t)
  /\ \E task \in queue :
       /\ queue' = queue \ {task}
       /\ stack' = [stack EXCEPT ![t] = <<Frame(task[2], task[1])>> \o @]
  /\ UNCHANGED <<budgetVars, scaffold, runs, returned>>

\* What a node's body does to `failed`: nothing, or an exception is recorded.
\* After a failure the body is not entered.
BodyOutcome(i) ==
  \/ UNCHANGED failed
  \/ ~ failed /\ i \in MayThrow /\ failed' = TRUE

IsFree(i) == MemoryBudget > 0 /\ Kind[i] = "free" /\ Bytes[i] > 0

RunNode(t) ==
  LET i == Top(t).node IN
  /\ At(t, "run")
  /\ BodyOutcome(i)
  /\ runs' = [runs EXCEPT ![i] = @ + 1]
  /\ Goto(t, Frame(IF IsFree(i) THEN "free" ELSE "complete", i))
  /\ UNCHANGED <<budgetVars, queue, batch, remaining, completed, memory, deferred,
                 scan, widthsActive, returned>>

\* Variant: the bytes go back and nobody looks at the deferred nodes.
FreeBytesNoDrain(t) ==
  /\ At(t, "free")
  /\ memory' = SubBytes(memory, Bytes[Top(t).node])
  /\ Goto(t, Frame("complete", Top(t).node))
  /\ UNCHANGED <<budgetVars, queue, batch, remaining, completed, failed, deferred,
                 scan, widthsActive, runs, returned>>

\* A Free returns its bytes, whether or not it ran ...
FreeBytes(t) ==
  /\ At(t, "free")
  /\ memory' = SubBytes(memory, Bytes[Top(t).node])
  /\ Goto(t, Frame("drain", Top(t).node))
  /\ UNCHANGED <<budgetVars, queue, batch, remaining, completed, failed, deferred,
                 scan, widthsActive, runs, returned>>

\* ... and drain_deferred() walks the deferred nodes in order, under the lock
\* submit() takes for its test too, while other Frees return bytes without it.
DrainStart(t) ==
  /\ At(t, "drain") /\ scan = 0
  /\ scan' = 1
  /\ Goto(t, Frame("scan", Top(t).node))
  /\ UNCHANGED <<budgetVars, queue, batch, remaining, completed, failed, memory, deferred,
                 widthsActive, runs, returned>>

DrainTake(t) ==
  LET i == deferred[scan] IN
  /\ At(t, "scan") /\ scan \in DOMAIN deferred
  /\ BytesFit(memory, Bytes[i])
  /\ memory' = AddBytes(memory, Bytes[i])
  /\ deferred' = SubSeq(deferred, 1, scan - 1) \o SubSeq(deferred, scan + 1, Len(deferred))
  /\ Goto(t, [Top(t) EXCEPT !.runnable = Append(@, i)])
  /\ UNCHANGED <<budgetVars, queue, batch, remaining, completed, failed, scan, widthsActive,
                 runs, returned>>

DrainSkip(t) ==
  /\ At(t, "scan") /\ scan \in DOMAIN deferred
  /\ ~ BytesFit(memory, Bytes[deferred[scan]])
  /\ scan' = scan + 1
  /\ UNCHANGED <<budgetVars, stack, queue, batch, remaining, completed, failed, memory,
                 deferred, widthsActive, runs, returned>>

DrainEnd(t) ==
  /\ At(t, "scan") /\ scan > Len(deferred)
  /\ scan' = 0
  /\ Goto(t, [Top(t) EXCEPT !.at = "readmit"])
  /\ UNCHANGED <<budgetVars, queue, batch, remaining, completed, failed, memory, deferred,
                 widthsActive, runs, returned>>

\* The nodes taken are admitted after the lock is dropped: their bytes are charged.
Readmit(t) ==
  LET top == Top(t) IN
  /\ At(t, "readmit")
  /\ IF top.runnable = <<>>
     THEN Goto(t, Frame("complete", top.node))
     ELSE Call(t, [top EXCEPT !.runnable = Tail(@)], Frame("admit", Head(top.runnable)))
  /\ UNCHANGED <<budgetVars, queue, scaffold, runs, returned>>

\* Variant: the start half completes the node as well.
RunAsyncStartCompletes(t) ==
  LET i == Top(t).node IN
  /\ At(t, "astart")
  /\ BodyOutcome(i)
  /\ queue' = queue \cup {<<i, "afinish">>}
  /\ Goto(t, Frame("complete", i))
  /\ UNCHANGED <<budgetVars, batch, remaining, completed, memory, deferred, scan, widthsActive,
                 runs, returned>>

\* The start half queues the finish half and does not complete the node.
RunAsyncStart(t) ==
  LET i == Top(t).node IN
  /\ At(t, "astart")
  /\ BodyOutcome(i)
  /\ queue' = queue \cup {<<i, "afinish">>}
  /\ Leave(t)
  /\ UNCHANGED <<budgetVars, batch, remaining, completed, memory, deferred, scan, widthsActive,
                 runs, returned>>

RunAsyncFinish(t) ==
  LET i == Top(t).node IN
  /\ At(t, "afinish")
  /\ BodyOutcome(i)
  /\ runs' = [runs EXCEPT ![i] = @ + 1]
  /\ Goto(t, Frame("complete", i))
  /\ UNCHANGED <<budgetVars, queue, batch, remaining, completed, memory, deferred,
                 scan, widthsActive, returned>>

-----------------------------------------------------------------------------
(* complete(): the width goes back, the successors are counted down, and the  *)
(* node is counted last.                                                      *)

\* Variant: a node drained after a failure keeps its width.
ReturnWidthUnlessFailed(t) ==
  LET i == Top(t).node IN
  /\ At(t, "complete")
  /\ IF phase[i] = "held" /\ ~ failed THEN Return(t, i) ELSE UNCHANGED budgetVars
  /\ Goto(t, [Frame("succ", i) EXCEPT !.todo = Successors(i)])
  /\ UNCHANGED <<queue, scaffold, runs, returned>>

ReturnWidth(t) ==
  LET i == Top(t).node IN
  /\ At(t, "complete")
  /\ IF phase[i] = "held" THEN Return(t, i) ELSE UNCHANGED budgetVars
  /\ Goto(t, [Frame("succ", i) EXCEPT !.todo = Successors(i)])
  /\ UNCHANGED <<queue, scaffold, runs, returned>>

\* Variant: every predecessor submits the successor.
CountDownEach(t) ==
  /\ At(t, "succ")
  /\ \E j \in Nodes :
       LET rest == [Top(t) EXCEPT !.todo = @ \ {j}] IN
       /\ NextToVisit(t, j)
       /\ remaining' = [remaining EXCEPT ![j] = @ - 1]
       /\ Call(t, rest, SubmitFrame(j))
  /\ UNCHANGED <<budgetVars, queue, batch, completed, failed, memory, deferred, scan,
                 widthsActive, runs, returned>>

\* The last predecessor to count a successor down submits it.
CountDown(t) ==
  /\ At(t, "succ")
  /\ \E j \in Nodes :
       LET rest == [Top(t) EXCEPT !.todo = @ \ {j}] IN
       /\ NextToVisit(t, j)
       /\ remaining' = [remaining EXCEPT ![j] = @ - 1]
       /\ IF remaining[j] = 1 THEN Call(t, rest, SubmitFrame(j)) ELSE Goto(t, rest)
  /\ UNCHANGED <<budgetVars, queue, batch, completed, failed, memory, deferred, scan,
                 widthsActive, runs, returned>>

CountCompleted(t) ==
  /\ At(t, "succ") /\ Top(t).todo = {}
  /\ completed' = completed + 1
  /\ Leave(t)
  /\ UNCHANGED <<budgetVars, queue, batch, remaining, failed, memory, deferred, scan, widthsActive,
                 runs, returned>>

\* Variant: help_until() stops one node early.
ReturnOneEarly ==
  /\ At(Main, "help") /\ completed >= NumNodes - 1
  /\ returned' = TRUE
  /\ Leave(Main)
  /\ UNCHANGED <<budgetVars, queue, scaffold, runs>>

\* help_until() sees completed = n; the scaffold goes back to its pool.
ReturnToCaller ==
  /\ At(Main, "help") /\ completed = NumNodes
  /\ returned' = TRUE
  /\ Leave(Main)
  /\ UNCHANGED <<budgetVars, queue, scaffold, runs>>

-----------------------------------------------------------------------------
\* What thread t does next, once it is inside the executor.
Step(t) ==
  \/ SubmitOverBudget(t) \/ SubmitDeferred(t) \/ SubmitCharged(t)
  \/ AdmitUngated(t)
  \/ \E m \in MachineWidths(t) : AdmitGranted(t, m) \/ AdmitParked(t, m)
  \/ DrainBudget(t) \/ ResumeParked(t)
  \/ RunNode(t) \/ FreeBytes(t)
  \/ DrainStart(t) \/ DrainTake(t) \/ DrainSkip(t) \/ DrainEnd(t) \/ Readmit(t)
  \/ RunAsyncStart(t) \/ RunAsyncFinish(t)
  \/ ReturnWidth(t) \/ CountDown(t) \/ CountCompleted(t)

CallerStep == SeedRoot \/ SubmitBatch \/ ReturnToCaller \/ \E m \in MachineWidths(Main) : Reset(m)

\* The run is over; nothing is left to happen.
Done == returned /\ UNCHANGED vars

ExecNext == CallerStep \/ Done \/ \E t \in Threads : Step(t) \/ TakeTask(t)

(***************************************************************************)
(* Every thread runs on and every node's body ends.  A task in the pool is *)
(* taken by some thread that is free; a thread that waits for the mutex of *)
(* the budget gets it in the end, which the mutex being held in between    *)
(* makes strong fairness.                                                  *)
(***************************************************************************)
ExecFairness ==
  /\ SF_vars(CallerStep)
  /\ \A t \in Threads : SF_vars(Step(t))
  /\ WF_vars(\E t \in Threads : TakeTask(t))

ExecSpec == Init /\ [][ExecNext]_vars /\ ExecFairness
-----------------------------------------------------------------------------
(* Type invariant. *)

Frames == [at : NodeLabels, node : Nodes, todo : SUBSET Nodes, runnable : Seq(Nodes)]
            \cup [at : CallerLabels, node : {0}, todo : SUBSET Nodes, runnable : {<<>>}]
Tasks == Nodes \X {"run", "astart", "afinish"}

\* Frames name nodes of the graph and the counters stay inside their ranges.
StackTypeOK ==
  /\ stack \in [Threads -> Seq(Frames)]
  /\ queue \subseteq Tasks /\ batch \subseteq Tasks
  /\ deferred \in Seq(Nodes) /\ scan \in Nat

\* ... and no node is run, counted or counted down more often than it should be.
ExecTypeOK ==
  /\ TypeOK /\ StackTypeOK
  /\ remaining \in [Nodes -> 0 .. NumNodes]
  /\ completed \in 0 .. NumNodes
  /\ failed \in BOOLEAN /\ widthsActive \in BOOLEAN /\ returned \in BOOLEAN
  /\ memory \in 0 .. (WordSize - 1)
  /\ runs \in [Nodes -> 0 .. 1]

(* Safety. *)

\* The bytes of the nodes of a kind that ran; an over-budget one only drains.
BytesOf(kind) ==
  MapThenSumSet(LAMBDA i : Bytes[i],
                {i \in Nodes : Kind[i] = kind /\ runs[i] = 1 /\ Bytes[i] <= MemoryBudget})

\* What is really allocated, the materialized nodes minus the freed ones, stays
\* within the memory budget whichever threads materialize, free and drain.
AllocatedWithinBudget ==
  MemoryBudget > 0 => BytesOf("materialize") - BytesOf("free") <= MemoryBudget

\* No wake-up is lost between the gate and a Free: a deferred node that fits is
\* still ahead of the thread that walks them, or of one that has yet to start.
NoLostDeferred ==
  \A k \in DOMAIN deferred :
    BytesFit(memory, Bytes[deferred[k]]) =>
      \E t \in Threads :
        /\ stack[t] # <<>>
        /\ Top(t).at = "drain" \/ (Top(t).at = "scan" /\ scan <= k)

\* When execute() returns, no queued task, no thread and no continuation still
\* refers to the scaffold it gives back.
ScaffoldUnused ==
  returned => /\ queue = {} /\ batch = {} /\ deferred = <<>>
              /\ \A t \in Threads : stack[t] = <<>> /\ ready[t] = <<>>

\* A run, failed or not, leaves no width charged and no request parked behind it,
\* so it cannot wedge a later one.
WidthReturned == returned => inUse = 0 /\ parked = {} /\ mutex = NoThread

(* What the comments of the executor say, on graphs its own passes build. *)

\* "Frees are never gated, so parked allocations always drain": a deferred
\* Materialize does not stay deferred.
DeferredAlwaysDrains ==
  \A i \in Nodes : i \in Range(deferred) ~> i \notin Range(deferred)

\* The counter help_until() waits for is reached whatever fails on the way.
CallerReturns == <> returned

(* The graphs and budgets the proofs about memory are for. *)

\* Two allocations of the whole budget do not overflow the byte counter.
RoomForTwo == 2 * MemoryBudget < WordSize

\* No Free is of a tensor that can never be allocated.
FreesFit == \A i \in Nodes : Kind[i] = "free" => Bytes[i] <= MemoryBudget

\* i runs after j: every set of nodes with i and all its predecessors has j.
After(i, j) == \A S \in SUBSET Nodes : i \in S /\ (\A k \in S : Preds[k] \subseteq S) => j \in S

\* The pairs FreeInsertion makes: a Free returns what a Materialize of its own,
\* m[i], charged before.
FreesMatch(m) ==
  /\ \A i \in Nodes : IsFree(i) => /\ m[i] \in Nodes /\ Kind[m[i]] = "materialize"
                                   /\ Bytes[m[i]] = Bytes[i] /\ Bytes[i] <= MemoryBudget
                                   /\ After(i, m[i])
  /\ \A i, j \in Nodes : IsFree(i) /\ IsFree(j) /\ m[i] = m[j] => i = j

(* Refinement. *)

Dag == INSTANCE DagRun

\* The countdowns, the two gates and the failure paths together implement the
\* abstract run: each node once, in dependency order, and execute() returns.
ImplementsDagRun == Dag!DagSpec

=============================================================================
