---------------------------- MODULE NestedReplay ----------------------------
(***************************************************************************)
(* Runs inside runs (ComputeGraph Executor.cpp, Graph.cpp add_loop; the    *)
(* scopes of TaskPool WidthBudget.cpp).  A Loop node's task replays its    *)
(* body through a nested execute(), which a thread of the pool or a caller *)
(* that helps may be inside of several deep.  Around a node's body the     *)
(* executor keeps two thread-local facts: the width the thread holds       *)
(* (HoldScope), which a nested run lends to its nodes (BlockedScope), and  *)
(* the OpenMP ceiling of the thread (WidthGuard), which a nested run       *)
(* started there takes for the size of the machine.                        *)
(*                                                                         *)
(* A run is one execute() of one graph; each iteration of a loop is a run  *)
(* of its own.  The nodes of a run are independent here: dependencies and  *)
(* memory are the subject of DataflowExecutor.                             *)
(***************************************************************************)
EXTENDS WidthBudget, FiniteSets, SequencesExt

CONSTANTS
  Runs,         \* the executions of graphs
  NodesOf,      \* the nodes of each run, which are the budget's requests
  TopRuns,      \* the runs each thread that is not a worker starts, in order
  BodyRuns,     \* the runs of a node's body, <<>> for a node that computes
  ThreadWidth,  \* Node::thread_width, 0 for an unplanned node
  PlannedFor,   \* Graph::planned_thread_count() of each run's graph, 0 for none
  Ceiling,      \* the OpenMP ceiling each thread starts with
  MayThrow,     \* the computing nodes whose work may fail
  NoNode        \* nothing held, nothing lent

\* A run is one execute(): one caller starts it, or one iteration of one loop.
StartedOnce ==
  /\ \A t \in Threads \ Workers : IsInjective(TopRuns[t])
  /\ \A i \in Requests : IsInjective(BodyRuns[i])
  /\ \A t, u \in Threads \ Workers : t # u => Range(TopRuns[t]) \cap Range(TopRuns[u]) = {}
  /\ \A i, j \in Requests : i # j => Range(BodyRuns[i]) \cap Range(BodyRuns[j]) = {}
  /\ \A t \in Threads \ Workers, i \in Requests : Range(TopRuns[t]) \cap Range(BodyRuns[i]) = {}

ASSUME NestedAssumption ==
  /\ NodesOf \in [Runs -> SUBSET Requests]
  /\ \A g \in Runs : IsFiniteSet(NodesOf[g])
  /\ \A g, h \in Runs : g # h => NodesOf[g] \cap NodesOf[h] = {}
  /\ TopRuns \in [Threads \ Workers -> Seq(Runs)]
  /\ BodyRuns \in [Requests -> Seq(Runs)]
  /\ StartedOnce
  /\ PlannedFor \in [Runs -> Nat]
  /\ Ceiling \in [Threads -> Ceilings]
  \* A ceiling reads what the thread started with, or what a WidthGuard set.
  /\ ThreadWidth \in [Requests -> Ceilings \cup {0}]
  /\ MayThrow \subseteq Requests
  /\ NoNode \notin Requests

VARIABLES
  frames,     \* per thread: the runs and nodes it is inside of, innermost last
  toStart,    \* per outside thread: the top-level runs it has still to start
  queue,      \* the tasks of the pool
  hold,       \* per thread: tls_hold, as the node whose width it is
  icv,        \* per thread: omp_get_max_threads()
  active,     \* per run: widths_active
  completed,  \* per run: nodes completed
  failed,     \* per run: a node failed
  over        \* the runs that have returned

nestVars == <<frames, toStart, queue, hold, icv, active, completed, failed, over>>
vars == <<budgetVars, nestVars>>

-----------------------------------------------------------------------------
(* Frames: a run frame remembers what its BlockedScope lent, a node frame    *)
(* what its HoldScope and its WidthGuard have to restore.                    *)

RunFrame(g) == [at |-> "enter", run |-> g, lent |-> NoNode, todo |-> NodesOf[g], batch |-> {}]
NodeFrame(i) == [at |-> "start", node |-> i, prevHold |-> NoNode, prevIcv |-> 0, bodies |-> BodyRuns[i]]

Top(t) == Last(frames[t])
At(t, label) == AtRest(t) /\ frames[t] # <<>> /\ Top(t).at = label

Goto(t, s) == frames' = [frames EXCEPT ![t] = Front(@) \o s]

RunOf(i) == CHOOSE g \in Runs : i \in NodesOf[g]
AnyWide(g) == \E i \in NodesOf[g] : ThreadWidth[i] > 1

\* machine_width() of thread t: a worker knows the pool, any other thread
\* reports the ceiling it has at the moment.
MachineSeenBy(t) == IF t \in Workers THEN PoolSize ELSE icv[t]

Init ==
  /\ BudgetInit
  /\ frames = [t \in Threads |-> <<>>]
  /\ toStart = TopRuns
  /\ queue = {}
  /\ hold = [t \in Threads |-> NoNode]
  /\ icv = Ceiling
  /\ active = [g \in Runs |-> FALSE]
  /\ completed = [g \in Runs |-> 0]
  /\ failed = [g \in Runs |-> FALSE]
  /\ over = {}

-----------------------------------------------------------------------------
(* execute(). *)

StartTopRun(t) ==
  /\ t \notin Workers /\ AtRest(t) /\ frames[t] = <<>>
  /\ toStart[t] # <<>>
  /\ frames' = [frames EXCEPT ![t] = <<RunFrame(Head(toStart[t]))>>]
  /\ toStart' = [toStart EXCEPT ![t] = Tail(@)]
  /\ UNCHANGED <<budgetVars, queue, hold, icv, active, completed, failed, over>>

\* Variant: BlockedScope forgets to clear the hold it lends.
LendWidthStillHeld(t) ==
  /\ At(t, "enter")
  /\ IF hold[t] # NoNode THEN Lend(t, hold[t]) ELSE UNCHANGED budgetVars
  /\ Goto(t, <<[Top(t) EXCEPT !.at = "sync", !.lent = hold[t]]>>)
  /\ UNCHANGED <<toStart, queue, hold, icv, active, completed, failed, over>>

\* Variant: no BlockedScope, the waiting node keeps its width.
KeepWidth(t) ==
  /\ At(t, "enter")
  /\ Goto(t, <<[Top(t) EXCEPT !.at = "sync"]>>)
  /\ UNCHANGED <<budgetVars, toStart, queue, hold, icv, active, completed, failed, over>>

\* BlockedScope(): what the thread holds goes back for the time of the run.
LendWidth(t) ==
  /\ At(t, "enter")
  /\ IF hold[t] # NoNode THEN Lend(t, hold[t]) ELSE UNCHANGED budgetVars
  /\ Goto(t, <<[Top(t) EXCEPT !.at = "sync", !.lent = hold[t]]>>)
  /\ hold' = [hold EXCEPT ![t] = NoNode]
  /\ UNCHANGED <<toStart, queue, icv, active, completed, failed, over>>

\* reset(): a graph with a wide node asks for the machine's width first ...
SyncWidth(t) ==
  /\ At(t, "sync")
  /\ IF AnyWide(Top(t).run) /\ t \notin Workers
     THEN SyncMachineWidth(t, MachineSeenBy(t))
     ELSE UNCHANGED <<budgetVars>>
  /\ Goto(t, <<[Top(t) EXCEPT !.at = "plan"]>>)
  /\ UNCHANGED <<toStart, queue, hold, icv, active, completed, failed, over>>

\* ... and then, under a lock of its own, reads the total to judge the plan.
JudgePlan(t) ==
  LET g == Top(t).run IN
  /\ At(t, "plan") /\ mutex = NoThread
  /\ active' = [active EXCEPT ![g] = AnyWide(g) /\ PlannedFor[g] \in {0, total}]
  /\ Goto(t, <<[Top(t) EXCEPT !.at = "seed"]>>)
  /\ UNCHANGED <<budgetVars, toStart, queue, hold, icv, completed, failed, over>>

\* The seeding loop: each node is queued with the batch, or waits for its width.
SeedUngated(t) ==
  LET top == Top(t) IN
  /\ At(t, "seed") /\ ~ active[top.run]
  /\ top.todo # {}
  /\ Goto(t, <<[top EXCEPT !.todo = {}, !.batch = top.todo]>>)
  /\ UNCHANGED <<budgetVars, toStart, queue, hold, icv, active, completed, failed, over>>

\* The nodes are seeded in the order of the list, which is the tiebreak.
NextToSeed(t, i) ==
  /\ At(t, "seed") /\ active[Top(t).run]
  /\ i \in Top(t).todo
  /\ \A j \in Top(t).todo : Tiebreak[i] <= Tiebreak[j]

SeedGranted(t, i) ==
  /\ NextToSeed(t, i)
  /\ AcquireGranted(t, i, MachineSeenBy(t))
  /\ Goto(t, <<[Top(t) EXCEPT !.todo = @ \ {i}, !.batch = @ \cup {i}]>>)
  /\ UNCHANGED <<toStart, queue, hold, icv, active, completed, failed, over>>

SeedParked(t, i) ==
  /\ NextToSeed(t, i)
  /\ AcquireParked(t, i, MachineSeenBy(t))
  /\ Goto(t, <<[Top(t) EXCEPT !.todo = @ \ {i}]>>)
  /\ UNCHANGED <<toStart, queue, hold, icv, active, completed, failed, over>>

SubmitBatch(t) ==
  /\ At(t, "seed") /\ Top(t).todo = {}
  /\ queue' = queue \cup Top(t).batch
  /\ Goto(t, <<[Top(t) EXCEPT !.at = "help", !.batch = {}]>>)
  /\ UNCHANGED <<budgetVars, toStart, hold, icv, active, completed, failed, over>>

\* The budget's drain, and the continuations it runs after the unlock.
DrainBudget(t) == (DrainHead(t) \/ DrainStop(t)) /\ UNCHANGED nestVars

ResumeParked(t) ==
  /\ Resume(t)
  /\ queue' = queue \cup {Head(ready[t])}
  /\ UNCHANGED <<frames, toStart, hold, icv, active, completed, failed, over>>

\* An idle worker, or any thread inside help_until(), takes any task there is.
TakeTask(t) ==
  /\ \/ t \in Workers /\ AtRest(t) /\ frames[t] = <<>>
     \/ At(t, "help") /\ completed[Top(t).run] # Cardinality(NodesOf[Top(t).run])
  /\ \E i \in queue :
       /\ queue' = queue \ {i}
       /\ frames' = [frames EXCEPT ![t] = Append(@, NodeFrame(i))]
  /\ UNCHANGED <<budgetVars, toStart, hold, icv, active, completed, failed, over>>

\* An exception of the nested run leaves the loop and fails the node's run.
Unwind(t, g) ==
  LET below == Front(frames[t]) IN
  IF below = <<>> \/ ~ failed[g]
  THEN /\ frames' = [frames EXCEPT ![t] = below]
       /\ UNCHANGED failed
  ELSE /\ frames' = [frames EXCEPT ![t] = Append(Front(below), [Last(below) EXCEPT !.bodies = <<>>])]
       /\ failed' = [failed EXCEPT ![RunOf(Last(below).node)] = TRUE]

\* help_until() is over: ~BlockedScope() takes the width back, and execute()
\* returns or throws.
EndRun(t) ==
  LET top == Top(t) IN
  /\ At(t, "help") /\ completed[top.run] = Cardinality(NodesOf[top.run])
  /\ IF top.lent # NoNode THEN Reclaim(t, top.lent) ELSE UNCHANGED budgetVars
  /\ hold' = [hold EXCEPT ![t] = top.lent]
  /\ over' = over \cup {top.run}
  /\ Unwind(t, top.run)
  /\ UNCHANGED <<toStart, queue, icv, active, completed>>

-----------------------------------------------------------------------------
(* run_node() and complete(). *)

\* Variant: a node drained after a failure is counted here and in complete().
EnterNodeCountsDrained(t) ==
  LET top == Top(t)
      i == top.node
      g == RunOf(i)
  IN
  /\ At(t, "start")
  /\ IF failed[g]
     THEN /\ Goto(t, <<[top EXCEPT !.at = "complete"]>>)
          /\ completed' = [completed EXCEPT ![g] = @ + 1]
          /\ UNCHANGED <<hold, icv>>
     ELSE /\ Goto(t, <<[top EXCEPT !.at = "body", !.prevHold = hold[t], !.prevIcv = icv[t]]>>)
          /\ hold' = IF active[g] THEN [hold EXCEPT ![t] = i] ELSE hold
          /\ UNCHANGED <<icv, completed>>
  /\ UNCHANGED <<budgetVars, toStart, queue, active, failed, over>>

\* A node of a failed run is drained; any other gets its scopes.
EnterNode(t) ==
  LET top == Top(t)
      i == top.node
      g == RunOf(i)
  IN
  /\ At(t, "start")
  /\ IF failed[g]
     THEN /\ Goto(t, <<[top EXCEPT !.at = "complete"]>>)
          /\ UNCHANGED <<hold, icv>>
     ELSE /\ Goto(t, <<[top EXCEPT !.at = "body", !.prevHold = hold[t], !.prevIcv = icv[t]]>>)
          /\ hold' = IF active[g] THEN [hold EXCEPT ![t] = i] ELSE hold
          /\ icv' = IF active[g] /\ ThreadWidth[i] > 0
                    THEN [icv EXCEPT ![t] = ThreadWidth[i]]
                    ELSE icv
  /\ UNCHANGED <<budgetVars, toStart, queue, active, completed, failed, over>>

\* A Loop node replays its body once more.
NestedRun(t) ==
  LET top == Top(t) IN
  /\ At(t, "body") /\ top.bodies # <<>>
  /\ Goto(t, <<[top EXCEPT !.bodies = Tail(@)], RunFrame(Head(top.bodies))>>)
  /\ UNCHANGED <<budgetVars, toStart, queue, hold, icv, active, completed, failed, over>>

\* The body is over or has thrown; both scopes restore what they found.
LeaveNode(t) ==
  LET top == Top(t)
      g == RunOf(top.node)
  IN
  /\ At(t, "body") /\ top.bodies = <<>>
  /\ \/ UNCHANGED failed
     \/ top.node \in MayThrow /\ ~ failed[g] /\ failed' = [failed EXCEPT ![g] = TRUE]
  /\ Goto(t, <<[top EXCEPT !.at = "complete"]>>)
  /\ hold' = [hold EXCEPT ![t] = top.prevHold]
  /\ icv' = [icv EXCEPT ![t] = top.prevIcv]
  /\ UNCHANGED <<budgetVars, toStart, queue, active, completed, over>>

\* Variant: a drained node keeps its width.
CompleteUnlessFailed(t) ==
  LET top == Top(t)
      g == RunOf(top.node)
  IN
  /\ At(t, "complete")
  /\ IF active[g] /\ ~ failed[g] THEN Return(t, top.node) ELSE UNCHANGED budgetVars
  /\ Goto(t, <<[top EXCEPT !.at = "count"]>>)
  /\ UNCHANGED <<toStart, queue, hold, icv, active, completed, failed, over>>

\* complete(): the width goes back, whatever became of the node ...
Complete(t) ==
  LET top == Top(t) IN
  /\ At(t, "complete")
  /\ IF active[RunOf(top.node)] THEN Return(t, top.node) ELSE UNCHANGED budgetVars
  /\ Goto(t, <<[top EXCEPT !.at = "count"]>>)
  /\ UNCHANGED <<toStart, queue, hold, icv, active, completed, failed, over>>

\* ... and the node is counted last.
CountCompleted(t) ==
  /\ At(t, "count")
  /\ completed' = [completed EXCEPT ![RunOf(Top(t).node)] = @ + 1]
  /\ Goto(t, <<>>)
  /\ UNCHANGED <<budgetVars, toStart, queue, hold, icv, active, failed, over>>

-----------------------------------------------------------------------------
Step(t) ==
  \/ StartTopRun(t) \/ LendWidth(t) \/ SyncWidth(t) \/ JudgePlan(t)
  \/ SeedUngated(t) \/ SubmitBatch(t) \/ EndRun(t)
  \/ \E i \in Requests : SeedGranted(t, i) \/ SeedParked(t, i)
  \/ DrainBudget(t) \/ ResumeParked(t)
  \/ EnterNode(t) \/ NestedRun(t) \/ LeaveNode(t) \/ Complete(t) \/ CountCompleted(t)

AllOver == \A t \in Threads : frames[t] = <<>> /\ (t \notin Workers => toStart[t] = <<>>)

Done == AllOver /\ UNCHANGED vars

NestNext == Done \/ \E t \in Threads : Step(t) \/ TakeTask(t)

(***************************************************************************)
(* Kernels end and threads run on; SF because the mutex of the budget      *)
(* comes and goes.  A queued task is taken by some thread that looks for   *)
(* work, which one is left open.                                           *)
(***************************************************************************)
NestFairness ==
  /\ \A t \in Threads : SF_vars(Step(t))
  /\ WF_vars(\E t \in Threads : TakeTask(t))

NestSpec == Init /\ [][NestNext]_vars /\ NestFairness
-----------------------------------------------------------------------------
(* Type invariant. *)

RunFrames == [at : {"enter", "sync", "plan", "seed", "help"}, run : Runs,
              lent : Requests \cup {NoNode}, todo : SUBSET Requests, batch : SUBSET Requests]
NodeFrames == [at : {"start", "body", "complete", "count"}, node : Requests,
               prevHold : Requests \cup {NoNode}, prevIcv : Nat, bodies : Seq(Runs)]

\* A run counts each of its nodes once, and frames name what there is.
NestTypeOK ==
  /\ TypeOK
  /\ frames \in [Threads -> Seq(RunFrames \cup NodeFrames)]
  /\ toStart \in [Threads \ Workers -> Seq(Runs)]
  /\ queue \subseteq Requests
  /\ hold \in [Threads -> Requests \cup {NoNode}]
  /\ icv \in [Threads -> Nat \ {0}]
  /\ active \in [Runs -> BOOLEAN] /\ failed \in [Runs -> BOOLEAN]
  /\ \A g \in Runs : completed[g] \in 0 .. Cardinality(NodesOf[g])
  /\ over \subseteq Runs

(* Safety. *)

InBody(t) == frames[t] # <<>> /\ Top(t).at = "body"

\* However deep the runs are nested, a thread inside a node of a gated run holds
\* that node's width and no other, the width is charged, and no second thread
\* holds it: nothing computes on width it lent, and nothing is lent twice.
HoldMatches ==
  \A t \in Threads :
    /\ hold[t] # NoNode =>
         /\ phase[hold[t]] \in {"held", "resumed"}
         /\ \A u \in Threads \ {t} : hold[u] # hold[t]
    /\ InBody(t) /\ active[RunOf(Top(t).node)] => hold[t] = Top(t).node

\* Runs leave behind what they found, those that threw out of a nested replay
\* included: a thread that helped, a caller or a worker, comes out of its last node
\* with the thread count it went in with, and when all runs are over no width is
\* charged and no request or task is left.
LeftAsFound ==
  /\ \A t \in Threads : frames[t] = <<>> => icv[t] = Ceiling[t]
  /\ AllOver => inUse = 0 /\ parked = {} /\ queue = {}

(* Liveness. *)

\* Every run returns, one whose body asks for the whole machine while the loop
\* it belongs to was admitted to a part of it included.
EveryRunReturns == <> AllOver

=============================================================================
