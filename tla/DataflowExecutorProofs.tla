----------------------- MODULE DataflowExecutorProofs -----------------------
(***************************************************************************)
(* The executor is a client of the width budget: whatever it does, to the  *)
(* budget it is a sequence of the budget's own operations.  So every       *)
(* theorem about the budget holds inside a run of any graph, planned or    *)
(* not, on any number of threads.                                          *)
(*                                                                         *)
(* What has to be shown is that the node of every call is a node: that a   *)
(* thread which submits, admits or completes stands in a frame about one.  *)
(***************************************************************************)
EXTENDS DataflowExecutor, WidthBudgetProofs, SequenceTheorems

-----------------------------------------------------------------------------
(* Stacks. *)

NodeFrames == [at : NodeLabels, node : Nodes, todo : SUBSET Nodes, runnable : Seq(Nodes)]

\* What Goto, Call and Leave make of a stack.
LEMMA StackOps ==
  ASSUME NEW S, NEW s \in Seq(S), s # <<>>, NEW f \in S, NEW g \in S
  PROVE  /\ Head(s) \in S
         /\ Tail(s) \in Seq(S)
         /\ <<f>> \o Tail(s) \in Seq(S)
         /\ <<f, g>> \o Tail(s) \in Seq(S)
         /\ <<f>> \o s \in Seq(S)
  OBVIOUS

\* A thread at the label of a node's function is in a frame about a node.
LEMMA TopFrame ==
  ASSUME StackTypeOK, NEW t \in Threads, NEW l \in NodeLabels, At(t, l)
  PROVE  /\ stack[t] \in Seq(Frames) /\ stack[t] # <<>>
         /\ Top(t) \in NodeFrames /\ Top(t).node \in Nodes
         /\ Top(t).todo \in SUBSET Nodes /\ Top(t).runnable \in Seq(Nodes)
  <1>1. stack[t] \in Seq(Frames) /\ stack[t] # <<>> /\ Top(t) \in Frames /\ Top(t).at = l
    BY StackOps DEF StackTypeOK, At, Top
  <1>2. l \notin CallerLabels
    BY DEF NodeLabels, CallerLabels
  <1>3. Top(t) \in NodeFrames
    BY <1>1, <1>2 DEF Frames, NodeFrames
  <1>4. QED
    BY <1>1, <1>3 DEF NodeFrames

\* A fresh frame about a node is well formed.
LEMMA FreshFrame ==
  ASSUME NEW i \in Nodes, NEW l \in NodeLabels
  PROVE  Frame(l, i) \in NodeFrames /\ Frame(l, i) \in Frames
  BY DEF Frame, NodeFrames, Frames

-----------------------------------------------------------------------------
(* Every step is one of the budget. *)

\* A step of thread t inside the executor is one of the budget or none.
LEMMA StepContract ==
  ASSUME TypeOK, StackTypeOK, NEW t \in Threads, Step(t)
  PROVE  [Next]_budgetVars
  <1>1. CASE \E m \in MachineWidths(t) : AdmitGranted(t, m) \/ AdmitParked(t, m)
    <2>1. PICK m \in MachineWidths(t) : AdmitGranted(t, m) \/ AdmitParked(t, m)
      BY <1>1
    <2>2. At(t, "admit") /\ Acquire(t, Top(t).node, m)
      BY <2>1 DEF AdmitGranted, AdmitParked, Acquire
    <2>3. Top(t).node \in Requests
      BY <2>2, TopFrame, ExecutorAssumption DEF NodeLabels
    <2>4. QED
      BY <2>2, <2>3 DEF Next
  <1>2. CASE DrainBudget(t)
    BY <1>2 DEF DrainBudget, Next
  <1>3. CASE ResumeParked(t)
    BY <1>3 DEF ResumeParked, Next
  <1>4. CASE ReturnWidth(t)
    <2>1. Top(t).node \in Requests
      BY <1>4, TopFrame, ExecutorAssumption DEF NodeLabels, ReturnWidth
    <2>2. Return(t, Top(t).node) \/ UNCHANGED budgetVars
      BY <1>4 DEF ReturnWidth
    <2>3. QED
      BY <2>1, <2>2 DEF Next
  <1>5. CASE \/ SubmitOverBudget(t) \/ SubmitDeferred(t) \/ SubmitCharged(t)
             \/ AdmitUngated(t) \/ RunNode(t) \/ FreeBytes(t)
    BY <1>5 DEF SubmitOverBudget, SubmitDeferred, SubmitCharged, AdmitUngated, RunNode, FreeBytes
  <1>6. CASE \/ DrainStart(t) \/ DrainTake(t) \/ DrainSkip(t) \/ DrainEnd(t) \/ Readmit(t)
    BY <1>6 DEF DrainStart, DrainTake, DrainSkip, DrainEnd, Readmit
  <1>7. CASE RunAsyncStart(t) \/ RunAsyncFinish(t) \/ CountDown(t) \/ CountCompleted(t)
    BY <1>7 DEF RunAsyncStart, RunAsyncFinish, CountDown, CountCompleted
  <1>8. QED
    BY <1>1, <1>2, <1>3, <1>4, <1>5, <1>6, <1>7 DEF Step

\* So is a step of the caller, of a thread that takes a task, or of nobody.
LEMMA ExecContract ==
  ASSUME TypeOK, StackTypeOK, [ExecNext]_vars
  PROVE  [Next]_budgetVars
  <1>1. ASSUME NEW m \in MachineWidths(Main), Reset(m) PROVE [Next]_budgetVars
    <2>1. Main \in Threads
      BY ExecutorAssumption
    <2>2. SyncMachineWidth(Main, m) \/ UNCHANGED budgetVars
      BY <1>1 DEF Reset
    <2>3. QED
      BY <2>1, <2>2 DEF Next
  <1>2. CASE CallerStep
    BY <1>1, <1>2 DEF CallerStep, SeedRoot, SubmitBatch, ReturnToCaller
  <1>3. CASE Done \/ UNCHANGED vars
    BY <1>3 DEF Done, vars
  <1>4. ASSUME NEW t \in Threads, TakeTask(t) PROVE UNCHANGED budgetVars
    BY <1>4 DEF TakeTask
  <1>5. QED
    BY <1>2, <1>3, <1>4, StepContract DEF ExecNext

-----------------------------------------------------------------------------
(* The stacks stay well formed. *)

\* Every transition of a stack the actions are written with keeps it well formed.
LEMMA StackStep ==
  ASSUME StackTypeOK, NEW t \in Threads, NEW f \in Frames, NEW g \in Frames,
         \/ stack[t] # <<>> /\ (Goto(t, f) \/ Call(t, f, g) \/ Leave(t))
         \/ stack' = [stack EXCEPT ![t] = <<f>> \o @]
  PROVE  stack' \in [Threads -> Seq(Frames)]
  <1> DEFINE s == stack[t]
  <1>1. s \in Seq(Frames) /\ stack \in [Threads -> Seq(Frames)]
    BY DEF StackTypeOK
  <1>2. CASE s # <<>> /\ Goto(t, f)
    <2>1. <<f>> \o Tail(s) \in Seq(Frames)
      BY <1>1, <1>2, StackOps
    <2>2. QED
      BY <1>1, <1>2, <2>1 DEF Goto
  <1>3. CASE s # <<>> /\ Call(t, f, g)
    <2>1. <<g, f>> \o Tail(s) \in Seq(Frames)
      BY <1>1, <1>3, StackOps
    <2>2. QED
      BY <1>1, <1>3, <2>1 DEF Call
  <1>4. CASE s # <<>> /\ Leave(t)
    <2>1. Tail(s) \in Seq(Frames)
      BY <1>1, <1>4, StackOps
    <2>2. QED
      BY <1>1, <1>4, <2>1 DEF Leave
  <1>5. CASE stack' = [stack EXCEPT ![t] = <<f>> \o @]
    <2>1. <<f>> \o s \in Seq(Frames)
      BY <1>1
    <2>2. QED
      BY <1>1, <1>5, <2>1
  <1>6. QED
    BY <1>2, <1>3, <1>4, <1>5

\* What a submission starts with, and the task it ends with.
LEMMA SubmissionTyped ==
  ASSUME NEW i \in Nodes
  PROVE  SubmitFrame(i) \in Frames /\ TaskOf(i) \in Tasks
  BY DEF SubmitFrame, TaskOf, Tasks, Frame, Frames, NodeLabels

\* Steps that replace the top frame by a fresh one about the same node.
LEMMA RelabelStack ==
  ASSUME StackTypeOK, NEW t \in Threads, NEW l \in NodeLabels, NEW k \in NodeLabels,
         At(t, l), Goto(t, Frame(k, Top(t).node)), UNCHANGED <<queue, batch, deferred>>,
         scan' \in Nat
  PROVE  StackTypeOK'
  <1>1. Frame(k, Top(t).node) \in Frames /\ stack[t] # <<>>
    BY TopFrame, FreshFrame
  <1>2. stack' \in [Threads -> Seq(Frames)]
    BY <1>1, StackStep
  <1>3. QED
    BY <1>2 DEF StackTypeOK

\* Steps that leave the function for good.
LEMMA LeaveStack ==
  ASSUME StackTypeOK, NEW t \in Threads, NEW l \in NodeLabels, At(t, l), Leave(t)
  PROVE  stack' \in [Threads -> Seq(Frames)]
  <1>1. Top(t) \in Frames /\ stack[t] # <<>>
    BY TopFrame DEF NodeFrames, Frames
  <1>2. QED
    BY <1>1, StackStep

\* submit() keeps the stacks well formed, and defers and forwards nodes only.
LEMMA SubmitStack ==
  ASSUME StackTypeOK, NEW t \in Threads,
         SubmitOverBudget(t) \/ SubmitDeferred(t) \/ SubmitCharged(t)
  PROVE  StackTypeOK'
  <1>1. CASE SubmitOverBudget(t)
    BY <1>1, RelabelStack DEF SubmitOverBudget, NodeLabels, StackTypeOK
  <1>2. CASE SubmitDeferred(t)
    <2>1. Top(t).node \in Nodes
      BY <1>2, TopFrame DEF SubmitDeferred, NodeLabels
    <2>2. stack' \in [Threads -> Seq(Frames)]
      BY <1>2, LeaveStack DEF SubmitDeferred, NodeLabels
    <2>3. QED
      BY <1>2, <2>1, <2>2 DEF SubmitDeferred, StackTypeOK
  <1>3. CASE SubmitCharged(t)
    BY <1>3, RelabelStack DEF SubmitCharged, NodeLabels, StackTypeOK
  <1>4. QED
    BY <1>1, <1>2, <1>3

\* So does admit(), whichever way the budget answers.
LEMMA AdmitStack ==
  ASSUME StackTypeOK, NEW t \in Threads,
         AdmitUngated(t) \/ \E m \in MachineWidths(t) : AdmitGranted(t, m) \/ AdmitParked(t, m)
  PROVE  StackTypeOK'
  <1>1. At(t, "admit") /\ Leave(t)
    BY DEF AdmitUngated, AdmitGranted, AdmitParked
  <1>2. Top(t).node \in Nodes /\ stack' \in [Threads -> Seq(Frames)]
    BY <1>1, TopFrame, LeaveStack DEF NodeLabels
  <1>3. TaskOf(Top(t).node) \in Tasks
    BY <1>2, SubmissionTyped
  <1>4. /\ UNCHANGED <<deferred, scan>>
        /\ \/ UNCHANGED <<queue, batch>>
           \/ EnqueueTask(Top(t).node, Seeding(t))
    BY DEF AdmitUngated, AdmitGranted, AdmitParked, scaffold
  <1>5. queue' \subseteq Tasks /\ batch' \subseteq Tasks
    BY <1>3, <1>4 DEF EnqueueTask, StackTypeOK
  <1>6. QED
    BY <1>2, <1>4, <1>5 DEF StackTypeOK

\* So do the budget's drain and the continuations of the parked nodes.
LEMMA BudgetStack ==
  ASSUME TypeOK, StackTypeOK, NEW t \in Threads, DrainBudget(t) \/ ResumeParked(t)
  PROVE  StackTypeOK'
  <1>1. CASE DrainBudget(t)
    BY <1>1 DEF DrainBudget, execVars, scaffold, StackTypeOK
  <1>2. CASE ResumeParked(t)
    <2>1. ready[t] \in Seq(Requests) /\ ready[t] # <<>>
      BY <1>2 DEF ResumeParked, Resume, TypeOK
    <2>2. Head(ready[t]) \in Nodes
      BY <2>1, ExecutorAssumption
    <2>3. TaskOf(Head(ready[t])) \in Tasks
      BY <2>2, SubmissionTyped
    <2>4. QED
      BY <1>2, <2>3 DEF ResumeParked, scaffold, StackTypeOK
  <1>3. QED
    BY <1>1, <1>2

\* So do the bodies of the tasks and the return of a Free's bytes.
LEMMA TaskStack ==
  ASSUME StackTypeOK, NEW t \in Threads,
         RunNode(t) \/ FreeBytes(t) \/ RunAsyncStart(t) \/ RunAsyncFinish(t)
  PROVE  StackTypeOK'
  <1>1. CASE RunNode(t)
    <2>1. PICK k \in NodeLabels : Goto(t, Frame(k, Top(t).node))
      BY <1>1 DEF RunNode, NodeLabels
    <2>2. At(t, "run") /\ UNCHANGED <<queue, batch, deferred, scan>>
      BY <1>1 DEF RunNode
    <2>3. QED
      BY <2>1, <2>2, RelabelStack DEF NodeLabels, StackTypeOK
  <1>2. CASE FreeBytes(t)
    BY <1>2, RelabelStack DEF FreeBytes, NodeLabels, StackTypeOK
  <1>3. CASE RunAsyncStart(t)
    <2>1. Top(t).node \in Nodes
      BY <1>3, TopFrame DEF RunAsyncStart, NodeLabels
    <2>2. stack' \in [Threads -> Seq(Frames)]
      BY <1>3, LeaveStack DEF RunAsyncStart, NodeLabels
    <2>3. QED
      BY <1>3, <2>1, <2>2 DEF RunAsyncStart, Tasks, StackTypeOK
  <1>4. CASE RunAsyncFinish(t)
    BY <1>4, RelabelStack DEF RunAsyncFinish, NodeLabels, StackTypeOK
  <1>5. QED
    BY <1>1, <1>2, <1>3, <1>4

\* So does drain_deferred(), which takes its nodes out of the deferred ones.
LEMMA DrainStack ==
  ASSUME StackTypeOK, NEW t \in Threads,
         DrainStart(t) \/ DrainTake(t) \/ DrainSkip(t) \/ DrainEnd(t) \/ Readmit(t)
  PROVE  StackTypeOK'
  <1>1. CASE DrainStart(t)
    BY <1>1, RelabelStack DEF DrainStart, NodeLabels
  <1>2. CASE DrainTake(t)
    <2> DEFINE i == deferred[scan]
               f == [Top(t) EXCEPT !.runnable = Append(@, i)]
    <2>1. i \in Nodes /\ scan \in 1 .. Len(deferred)
      BY <1>2 DEF DrainTake, StackTypeOK
    <2>2. Top(t) \in NodeFrames /\ stack[t] # <<>>
      BY <1>2, TopFrame DEF DrainTake, NodeLabels
    <2>3. f \in Frames
      <3>1. Top(t).runnable \in Seq(Nodes)
        BY <2>2 DEF NodeFrames
      <3>2. Append(Top(t).runnable, i) \in Seq(Nodes)
        BY <2>1, <3>1
      <3>3. QED
        BY <2>2, <3>2 DEF NodeFrames, Frames
    <2>4. stack' \in [Threads -> Seq(Frames)]
      BY <1>2, <2>2, <2>3, StackStep DEF DrainTake
    <2>5. deferred' \in Seq(Nodes)
      <3>1. deferred \in Seq(Nodes)
        BY DEF StackTypeOK
      <3>2. /\ SubSeq(deferred, 1, scan - 1) \in Seq(Nodes)
            /\ SubSeq(deferred, scan + 1, Len(deferred)) \in Seq(Nodes)
        BY <2>1, <3>1
      <3>3. QED
        BY <1>2, <3>2 DEF DrainTake
    <2>6. QED
      BY <1>2, <2>4, <2>5 DEF DrainTake, StackTypeOK
  <1>3. CASE DrainSkip(t)
    BY <1>3 DEF DrainSkip, StackTypeOK
  <1>4. CASE DrainEnd(t)
    <2> DEFINE f == [Top(t) EXCEPT !.at = "readmit"]
    <2>1. Top(t) \in NodeFrames /\ stack[t] # <<>>
      BY <1>4, TopFrame DEF DrainEnd, NodeLabels
    <2>2. f \in Frames
      BY <2>1 DEF NodeFrames, Frames, NodeLabels
    <2>3. stack' \in [Threads -> Seq(Frames)]
      BY <1>4, <2>1, <2>2, StackStep DEF DrainEnd
    <2>4. QED
      BY <1>4, <2>3 DEF DrainEnd, StackTypeOK
  <1>5. CASE Readmit(t)
    <2> DEFINE top == Top(t)
               f == [top EXCEPT !.runnable = Tail(@)]
    <2>1. top \in NodeFrames /\ stack[t] # <<>>
      BY <1>5, TopFrame DEF Readmit, NodeLabels
    <2>2. CASE top.runnable = <<>>
      <3>1. Goto(t, Frame("complete", top.node)) /\ Frame("complete", top.node) \in Frames
        BY <1>5, <2>1, <2>2, FreshFrame DEF Readmit, NodeFrames, NodeLabels
      <3>2. QED
        BY <1>5, <2>1, <3>1, StackStep DEF Readmit, scaffold, StackTypeOK
    <2>3. CASE top.runnable # <<>>
      <3>1. top.runnable \in Seq(Nodes)
        BY <2>1 DEF NodeFrames
      <3>2. Head(top.runnable) \in Nodes /\ Tail(top.runnable) \in Seq(Nodes)
        BY <2>3, <3>1
      <3>3. f \in Frames /\ Frame("admit", Head(top.runnable)) \in Frames
        BY <2>1, <3>2, FreshFrame DEF NodeFrames, Frames, NodeLabels
      <3>4. Call(t, f, Frame("admit", Head(top.runnable)))
        BY <1>5, <2>3 DEF Readmit
      <3>5. QED
        BY <1>5, <2>1, <3>3, <3>4, StackStep DEF Readmit, scaffold, StackTypeOK
    <2>4. QED
      BY <2>2, <2>3
  <1>6. QED
    BY <1>1, <1>2, <1>3, <1>4, <1>5

\* So does complete(), which calls submit() for nodes of the graph.
LEMMA CompleteStack ==
  ASSUME StackTypeOK, NEW t \in Threads,
         ReturnWidth(t) \/ CountDown(t) \/ CountCompleted(t)
  PROVE  StackTypeOK'
  <1>1. CASE ReturnWidth(t)
    <2> DEFINE f == [Frame("succ", Top(t).node) EXCEPT !.todo = Successors(Top(t).node)]
    <2>1. Top(t).node \in Nodes /\ stack[t] # <<>>
      BY <1>1, TopFrame DEF ReturnWidth, NodeLabels
    <2>2. Frame("succ", Top(t).node) \in NodeFrames /\ Successors(Top(t).node) \in SUBSET Nodes
      BY <2>1, FreshFrame DEF NodeLabels, Successors
    <2>3. f \in Frames
      BY <2>2 DEF NodeFrames, Frames
    <2>4. stack' \in [Threads -> Seq(Frames)]
      BY <1>1, <2>1, <2>3, StackStep DEF ReturnWidth
    <2>5. QED
      BY <1>1, <2>4 DEF ReturnWidth, scaffold, StackTypeOK
  <1>2. CASE CountDown(t)
    <2>1. Top(t) \in NodeFrames /\ stack[t] # <<>>
      BY <1>2, TopFrame DEF CountDown, NodeLabels
    <2>2. PICK j \in Nodes :
            LET rest == [Top(t) EXCEPT !.todo = @ \ {j}]
            IN  Call(t, rest, SubmitFrame(j)) \/ Goto(t, rest)
      BY <1>2 DEF CountDown
    <2> DEFINE rest == [Top(t) EXCEPT !.todo = @ \ {j}]
    <2>3. rest \in Frames /\ SubmitFrame(j) \in Frames
      BY <2>1, SubmissionTyped DEF NodeFrames, Frames
    <2>4. stack' \in [Threads -> Seq(Frames)]
      BY <2>1, <2>2, <2>3, StackStep
    <2>5. QED
      BY <1>2, <2>4 DEF CountDown, StackTypeOK
  <1>3. CASE CountCompleted(t)
    <2>1. stack' \in [Threads -> Seq(Frames)]
      BY <1>3, LeaveStack DEF CountCompleted, NodeLabels
    <2>2. QED
      BY <1>3, <2>1 DEF CountCompleted, StackTypeOK
  <1>4. QED
    BY <1>1, <1>2, <1>3

\* So do the steps of execute() itself.
LEMMA CallerStack ==
  ASSUME StackTypeOK, CallerStep
  PROVE  StackTypeOK'
  <1>1. Main \in Threads /\ stack \in [Threads -> Seq(Frames)]
    BY ExecutorAssumption DEF StackTypeOK
  <1>2. ASSUME NEW l \in CallerLabels, At(Main, l)
        PROVE  /\ stack[Main] # <<>> /\ Top(Main) \in Frames
               /\ Top(Main) \in [at : CallerLabels, node : {0}, todo : SUBSET Nodes, runnable : {<<>>}]
    <2>1. stack[Main] # <<>> /\ Top(Main) \in Frames /\ Top(Main).at \in CallerLabels
      BY <1>1, <1>2, StackOps DEF At, Top
    <2>2. Top(Main) \notin NodeFrames
      BY <2>1 DEF NodeFrames, NodeLabels, CallerLabels
    <2>3. QED
      BY <2>1, <2>2 DEF NodeFrames, Frames
  <1>3. CASE \E m \in MachineWidths(Main) : Reset(m)
    <2>1. [Frame("seed", 0) EXCEPT !.todo = Roots] \in Frames
      BY DEF Frame, Frames, CallerLabels, Roots
    <2>2. stack' \in [Threads -> Seq(Frames)]
      BY <1>1, <1>2, <1>3, <2>1, StackStep DEF Reset, CallerLabels
    <2>3. QED
      BY <1>3, <2>2 DEF Reset, StackTypeOK
  <1>4. CASE SeedRoot
    <2>1. PICK i \in Nodes : Call(Main, [Top(Main) EXCEPT !.todo = @ \ {i}], SubmitFrame(i))
      BY <1>4 DEF SeedRoot
    <2>2. /\ stack[Main] # <<>>
          /\ Top(Main) \in [at : CallerLabels, node : {0}, todo : SUBSET Nodes, runnable : {<<>>}]
      BY <1>2, <1>4 DEF SeedRoot, CallerLabels
    <2>3. [Top(Main) EXCEPT !.todo = @ \ {i}] \in Frames
      BY <2>2 DEF Frames
    <2>4. stack' \in [Threads -> Seq(Frames)]
      BY <1>1, <2>1, <2>2, <2>3, SubmissionTyped, StackStep
    <2>5. QED
      BY <1>4, <2>4 DEF SeedRoot, scaffold, StackTypeOK
  <1>5. CASE SubmitBatch
    <2>1. Frame("help", 0) \in Frames
      BY DEF Frame, Frames, CallerLabels
    <2>2. stack' \in [Threads -> Seq(Frames)]
      BY <1>1, <1>2, <1>5, <2>1, StackStep DEF SubmitBatch, CallerLabels
    <2>3. QED
      BY <1>5, <2>2 DEF SubmitBatch, StackTypeOK
  <1>6. CASE ReturnToCaller
    <2>1. stack' \in [Threads -> Seq(Frames)]
      BY <1>1, <1>2, <1>6, StackStep DEF ReturnToCaller, CallerLabels
    <2>2. QED
      BY <1>6, <2>1 DEF ReturnToCaller, scaffold, StackTypeOK
  <1>7. QED
    BY <1>3, <1>4, <1>5, <1>6 DEF CallerStep

\* A taken task starts the function it was queued for, about its own node.
LEMMA TakeTaskStack ==
  ASSUME StackTypeOK, NEW t \in Threads, TakeTask(t)
  PROVE  StackTypeOK'
  <1>1. PICK task \in queue :
          /\ queue' = queue \ {task}
          /\ stack' = [stack EXCEPT ![t] = <<Frame(task[2], task[1])>> \o @]
    BY DEF TakeTask
  <1>2. task[1] \in Nodes /\ task[2] \in NodeLabels
    BY <1>1 DEF StackTypeOK, Tasks, NodeLabels
  <1>3. Frame(task[2], task[1]) \in Frames
    BY <1>2, FreshFrame
  <1>4. stack' \in [Threads -> Seq(Frames)]
    BY <1>1, <1>3, StackStep
  <1>5. QED
    BY <1>1, <1>4 DEF TakeTask, scaffold, StackTypeOK

\* No step leaves a frame, a task or a deferred entry that is not about a node.
LEMMA ExecStack ==
  ASSUME TypeOK, StackTypeOK, [ExecNext]_vars
  PROVE  StackTypeOK'
  <1>1. CASE CallerStep
    BY <1>1, CallerStack
  <1>2. CASE Done \/ UNCHANGED vars
    BY <1>2 DEF Done, vars, execVars, scaffold, StackTypeOK
  <1>3. ASSUME NEW t \in Threads, Step(t) PROVE StackTypeOK'
    BY <1>3, SubmitStack, AdmitStack, BudgetStack, TaskStack, DrainStack, CompleteStack DEF Step
  <1>4. ASSUME NEW t \in Threads, TakeTask(t) PROVE StackTypeOK'
    BY <1>4, TakeTaskStack
  <1>5. QED
    BY <1>1, <1>2, <1>3, <1>4 DEF ExecNext

-----------------------------------------------------------------------------
(* The results. *)

\* A fresh executor has an unused budget and well-formed stacks.
LEMMA InitContract == Init => BudgetInit /\ StackTypeOK
  <1> SUFFICES ASSUME Init PROVE StackTypeOK
    BY DEF Init
  <1>1. <<Frame("reset", 0)>> \in Seq(Frames) /\ <<>> \in Seq(Frames)
    BY DEF Frame, Frames, CallerLabels
  <1>2. QED
    BY <1>1 DEF Init, StackTypeOK

\* The invariant of the budget and the shape of the stacks hold together: each
\* needs the other one for a step.
THEOREM ExecutorInvariance == ExecSpec => [](IInv /\ StackTypeOK)
  <1>1. Init => IInv /\ StackTypeOK
    BY InitContract, InitIInv
  <1>2. IInv /\ StackTypeOK /\ [ExecNext]_vars => (IInv /\ StackTypeOK)'
    <2> SUFFICES ASSUME IInv, StackTypeOK, [ExecNext]_vars PROVE IInv' /\ StackTypeOK'
      OBVIOUS
    <2>1. TypeOK
      BY DEF IInv
    <2>2. QED
      BY <2>1, ExecContract, ExecStack, NextIInv
  <1>3. QED
    BY <1>1, <1>2, PTL DEF ExecSpec

\* A run of a graph keeps the contract of the width budget: its every step is one
\* of the budget's operations or none of its business.
THEOREM KeepsContract == ExecSpec => Spec
  <1>1. IInv /\ StackTypeOK /\ [ExecNext]_vars => [Next]_budgetVars
    BY ExecContract DEF IInv
  <1>2. QED
    BY <1>1, InitContract, ExecutorInvariance, PTL DEF ExecSpec, Spec

\* Within a run a parked node always waits for width some node holds.
THEOREM ExecutorNeverStrands == ExecSpec => []NoStranding
  BY KeepsContract, NeverStranded, PTL

\* Within a run no node is admitted past a more urgent one that waits.
THEOREM ExecutorHeadOfLine == ExecSpec => NoOvertaking
  BY KeepsContract, HeadOfLine, PTL

-----------------------------------------------------------------------------
(***************************************************************************)
(* What one run of a graph does, for any graph, any plan and any number of *)
(* threads: every node is run or drained once, after all its predecessors, *)
(* and when execute() returns nothing of the run is left behind.           *)
(*                                                                         *)
(* The invariant follows each node on its way.  At every moment a node is  *)
(* in one place only: waiting, in one frame of one stack, in the batch, in *)
(* the pool, among the deferred, or parked at the width budget.  The state *)
(* does not say so by itself, so the invariant asserts that there is an    *)
(* account of it, the stage st[i] each node has reached, the place sp[i]   *)
(* of the frame that has it, and the edges cnt that were counted down, and *)
(* that the state agrees with the account.                                 *)
(***************************************************************************)

-----------------------------------------------------------------------------
(* Places on the stacks. *)

Depth(t) == Len(stack[t])

\* The frame of t at depth d; the outermost one is at depth 1, so that calls and
\* returns do not move the frames below them.
Bot(t, d) == stack[t][Len(stack[t]) + 1 - d]

\* A step of t leaves the frames of the others and its own up to depth k alone.
Kept(t, k) ==
  /\ k <= Depth(t)'
  /\ \A u \in Threads :
       /\ u # t => Depth(u)' = Depth(u)
       /\ \A d \in 1 .. Depth(u) : u # t \/ d <= k => Bot(u, d)' = Bot(u, d)

\* The places are those of frames, and the deepest one is the top.
LEMMA Places ==
  ASSUME StackTypeOK, NEW t \in Threads
  PROVE  /\ Depth(t) \in Nat /\ stack[t] \in Seq(Frames)
         /\ stack[t] # <<>> <=> Depth(t) >= 1
         /\ stack[t] # <<>> => Bot(t, Depth(t)) = Top(t)
         /\ \A d \in 1 .. Depth(t) : Bot(t, d) \in Frames
  <1>1. stack[t] \in Seq(Frames)
    BY DEF StackTypeOK
  <1>2. ASSUME NEW d \in 1 .. Depth(t) PROVE Bot(t, d) \in Frames
    <2>1. Len(stack[t]) + 1 - d \in 1 .. Len(stack[t])
      BY <1>1 DEF Depth
    <2>2. QED
      BY <1>1, <2>1 DEF Bot
  <1>3. QED
    BY <1>1, <1>2 DEF Depth, Bot, Top

\* Goto replaces the top ...
LEMMA GotoPlaces ==
  ASSUME StackTypeOK, NEW t \in Threads, stack[t] # <<>>, NEW f, Goto(t, f),
         NEW D, D = Depth(t)
  PROVE  Kept(t, D - 1) /\ Depth(t)' = D /\ Bot(t, D)' = f
  <1>1. stack \in [Threads -> Seq(Frames)] /\ stack[t] \in Seq(Frames)
    BY DEF StackTypeOK
  <1>2. /\ stack'[t] = <<f>> \o Tail(stack[t])
        /\ \A u \in Threads : u # t => stack'[u] = stack[u]
    BY <1>1 DEF Goto
  <1> DEFINE r == stack'[t]
  <1>3. /\ Len(r) = D /\ r[1] = f
        /\ \A n \in 2 .. D : r[n] = stack[t][n]
    BY <1>1, <1>2 DEF Depth
  <1> HIDE DEF r
  <1>4. ASSUME NEW d \in 1 .. D, d <= D - 1 PROVE r[Len(r) + 1 - d] = stack[t][Len(stack[t]) + 1 - d]
    BY <1>1, <1>3, <1>4 DEF Depth
  <1>5. D - 1 <= Len(r)
    BY <1>1, <1>3 DEF Depth
  <1>6. Kept(t, D - 1)
    BY <1>2, <1>3, <1>4, <1>5 DEF Kept, Depth, Bot, r
  <1>7. QED
    BY <1>1, <1>3, <1>6 DEF Depth, Bot, r

\* ... Call puts a callee on top of it ...
LEMMA CallPlaces ==
  ASSUME StackTypeOK, NEW t \in Threads, stack[t] # <<>>, NEW f, NEW g, Call(t, f, g),
         NEW D, D = Depth(t)
  PROVE  /\ Kept(t, D - 1) /\ Depth(t)' = D + 1
         /\ Bot(t, D)' = f /\ Bot(t, D + 1)' = g
  <1>1. stack \in [Threads -> Seq(Frames)] /\ stack[t] \in Seq(Frames)
    BY DEF StackTypeOK
  <1>2. /\ stack'[t] = <<g, f>> \o Tail(stack[t])
        /\ \A u \in Threads : u # t => stack'[u] = stack[u]
    BY <1>1 DEF Call
  <1> DEFINE r == stack'[t]
  <1>3. /\ Len(r) = D + 1 /\ r[1] = g /\ r[2] = f
        /\ \A n \in 2 .. D : r[n + 1] = stack[t][n]
    BY <1>1, <1>2 DEF Depth
  <1> HIDE DEF r
  <1>4. ASSUME NEW d \in 1 .. D, d <= D - 1 PROVE r[Len(r) + 1 - d] = stack[t][Len(stack[t]) + 1 - d]
    BY <1>1, <1>3, <1>4 DEF Depth
  <1>5. D - 1 <= Len(r)
    BY <1>1, <1>3 DEF Depth
  <1>6. Kept(t, D - 1)
    BY <1>2, <1>3, <1>4, <1>5 DEF Kept, Depth, Bot, r
  <1>7. QED
    BY <1>1, <1>3, <1>6 DEF Depth, Bot, r

\* ... Leave takes it off ...
LEMMA LeavePlaces ==
  ASSUME StackTypeOK, NEW t \in Threads, stack[t] # <<>>, Leave(t),
         NEW D, D = Depth(t)
  PROVE  Kept(t, D - 1) /\ Depth(t)' = D - 1
  <1>1. stack \in [Threads -> Seq(Frames)] /\ stack[t] \in Seq(Frames)
    BY DEF StackTypeOK
  <1>2. /\ stack'[t] = Tail(stack[t])
        /\ \A u \in Threads : u # t => stack'[u] = stack[u]
    BY <1>1 DEF Leave
  <1> DEFINE r == stack'[t]
  <1>3. /\ Len(r) = D - 1
        /\ \A n \in 1 .. D - 1 : r[n] = stack[t][n + 1]
    BY <1>1, <1>2 DEF Depth
  <1> HIDE DEF r
  <1>4. ASSUME NEW d \in 1 .. D, d <= D - 1 PROVE r[Len(r) + 1 - d] = stack[t][Len(stack[t]) + 1 - d]
    BY <1>1, <1>3, <1>4 DEF Depth
  <1>5. D - 1 <= Len(r)
    BY <1>1, <1>3 DEF Depth
  <1>6. Kept(t, D - 1)
    BY <1>2, <1>3, <1>4, <1>5 DEF Kept, Depth, Bot, r
  <1>7. QED
    BY <1>1, <1>3, <1>6 DEF Depth, Bot, r

\* ... and a task that is taken starts on top of what there is.
LEMMA PushPlaces ==
  ASSUME StackTypeOK, NEW t \in Threads, NEW f,
         stack' = [stack EXCEPT ![t] = <<f>> \o @], NEW D, D = Depth(t)
  PROVE  Kept(t, D) /\ Depth(t)' = D + 1 /\ Bot(t, D + 1)' = f
  <1>1. stack \in [Threads -> Seq(Frames)] /\ stack[t] \in Seq(Frames)
    BY DEF StackTypeOK
  <1>2. /\ stack'[t] = <<f>> \o stack[t]
        /\ \A u \in Threads : u # t => stack'[u] = stack[u]
    BY <1>1
  <1> DEFINE r == stack'[t]
  <1>3. /\ Len(r) = D + 1 /\ r[1] = f
        /\ \A n \in 1 .. D : r[n + 1] = stack[t][n]
    BY <1>1, <1>2 DEF Depth
  <1> HIDE DEF r
  <1>4. ASSUME NEW d \in 1 .. D PROVE r[Len(r) + 1 - d] = stack[t][Len(stack[t]) + 1 - d]
    BY <1>1, <1>3, <1>4 DEF Depth
  <1>5. D <= Len(r)
    BY <1>1, <1>3 DEF Depth
  <1>6. Kept(t, D)
    BY <1>2, <1>3, <1>4, <1>5 DEF Kept, Depth, Bot, r
  <1>7. QED
    BY <1>1, <1>3, <1>6 DEF Depth, Bot, r

-----------------------------------------------------------------------------
(* The account of a run. *)

\* Where a node can be: in a frame at a label, or at one of these.
Stages == NodeLabels \cup {"waiting", "deferred", "runnable", "budget", "batched", "queued",
                           "finishing", "done"}

\* The stages in which some frame names the node.
InFrame == NodeLabels \cup {"runnable"}

\* The stages before the width gate, and those after the node was run or drained.
FreshStages == {"waiting", "submit", "deferred", "runnable", "admit"}
RanStages == {"free", "drain", "scan", "readmit", "complete", "succ", "done"}

\* The frame f of t at depth d agrees with the account: its node is at its label
\* here, what drain_deferred() took is here, and what complete() has still to
\* count down is not counted down.  A submission always has a caller below it,
\* and the functions of the caller are the outermost of Main.
FrameIn(f, t, d, st, sp, cnt) ==
  /\ d = 1 => f.at \notin {"submit", "admit"}
  /\ f.at \in CallerLabels <=> t = Main /\ d = 1
  /\ f.at \in NodeLabels =>
       /\ st[f.node] = f.at /\ sp[f.node] = <<t, d>>
       /\ \A n \in DOMAIN f.runnable : st[f.runnable[n]] = "runnable" /\ sp[f.runnable[n]] = <<t, d>>
       /\ \A m, n \in DOMAIN f.runnable : f.runnable[m] = f.runnable[n] => m = n
       /\ f.at = "succ" => \A j \in f.todo : f.node \in Preds[j] /\ <<f.node, j>> \notin cnt
  /\ f.at = "seed" => \A i \in f.todo : st[i] = "waiting" /\ Preds[i] = {}

FramesIn(st, sp, cnt) ==
  \A t \in Threads : \A d \in 1 .. Depth(t) : FrameIn(Bot(t, d), t, d, st, sp, cnt)

\* execute() has returned when the caller has left it, and a thread with work to
\* do for the budget is inside of some function.
CallersIn ==
  /\ returned <=> stack[Main] = <<>>
  /\ \A t \in Threads : mutex = t \/ ready[t] # <<>> => stack[t] # <<>>

\* A task is queued once, for the half of the node that is next.
TasksIn(st) ==
  /\ \A task \in queue : \/ task = <<task[1], "afinish">> /\ st[task[1]] = "finishing"
                         \/ task = TaskOf(task[1]) /\ st[task[1]] = "queued"
  /\ \A task \in batch : task = TaskOf(task[1]) /\ st[task[1]] = "batched"

DeferredIn(st) ==
  /\ \A k \in DOMAIN deferred : st[deferred[k]] = "deferred"
  /\ \A k, l \in DOMAIN deferred : deferred[k] = deferred[l] => k = l

\* A node asks for width once, and has handed it back before it counts down.
PhaseFits(s, p) ==
  /\ s \in FreshStages => p = "idle"
  /\ s = "budget" <=> p \in {"parked", "drained"}
  /\ s \in {"succ", "done"} => p \in {"idle", "returned"}
  /\ p \notin {"lent", "resumed"}
PhasesIn(st) == \A i \in Nodes : PhaseFits(st[i], phase[i])

RunsIn(st) == runs = [i \in Nodes |-> IF st[i] \in RanStages THEN 1 ELSE 0]

\* reset() is over.
Started == stack[Main] # <<>> => Bot(Main, 1).at # "reset"

\* The predecessors of j that have not counted it down.
Open(j, cnt) == {p \in Preds[j] : <<p, j>> \notin cnt}

\* The count of j is of those, and j waits as long as there is one.
CountIn(j, st, cnt) ==
  /\ remaining[j] = Cardinality(Open(j, cnt))
  /\ Preds[j] # {} => (st[j] = "waiting" <=> remaining[j] # 0)
CountsIn(st, cnt) ==
  /\ remaining \in [Nodes -> Nat]
  /\ \A p, j \in Nodes : <<p, j>> \in cnt => st[p] \in {"succ", "done"}
  /\ ~ Started => cnt = {} /\ \A i \in Nodes : st[i] = "waiting" /\ remaining[i] = 0
  /\ Started => \A j \in Nodes : CountIn(j, st, cnt)

CompletedIn(st) ==
  /\ completed = Cardinality({i \in Nodes : st[i] = "done"})
  /\ returned => completed = NumNodes

\* The nodes whose bytes are charged to the memory budget, those whose bytes went
\* back to it, and what is left of the charge.
UnpaidStages == {"waiting", "submit", "deferred"}
RefundedStages == RanStages \ {"free"}
Bounded(i) == Gated(i) /\ Bytes[i] <= MemoryBudget
Charged(st) == {i \in Nodes : Bounded(i) /\ st[i] \notin UnpaidStages}
Refunded(st) == {i \in Nodes : IsFree(i) /\ st[i] \in RefundedStages}
Outstanding(st) == SumFunctionOnSet(Bytes, Charged(st)) - SumFunctionOnSet(Bytes, Refunded(st))

\* Only nodes of a kind reach some stages.
KindFits(i, s) ==
  /\ s = "submit" => Gated(i)
  /\ s = "deferred" => Bounded(i)
  /\ s \in {"astart", "finishing", "afinish"} => Kind[i] = "async"
  /\ s = "free" => IsFree(i)

\* A node moves from stage l to s and no bytes do.
Weightless(i, l, s) ==
  /\ KindFits(i, s)
  /\ Bounded(i) => (l \in UnpaidStages <=> s \in UnpaidStages)
  /\ IsFree(i) => (l \in RefundedStages <=> s \in RefundedStages)

\* The counter is what is left of the charge, up to a multiple of the word, and
\* that is within the budget.
LedgerIn(st) ==
  /\ \A i \in Nodes : KindFits(i, st[i])
  /\ memory \in 0 .. WordSize - 1
  /\ \E q \in Int : memory = Outstanding(st) + q * WordSize
  /\ RoomForTwo => Outstanding(st) <= MemoryBudget

\* A step that moves i from l to s keeps the ledger.
LedgerMoves(i, l, s) ==
  \A st \in [Nodes -> Stages] : LedgerIn(st) /\ st[i] = l => LedgerIn([st EXCEPT ![i] = s])'

Accounts(st, sp, cnt) ==
  /\ st \in [Nodes -> Stages]
  /\ sp \in [Nodes -> Threads \X Nat]
  /\ cnt \in SUBSET (Nodes \X Nodes)

RunIn(st, sp, cnt) ==
  /\ Accounts(st, sp, cnt)
  /\ FramesIn(st, sp, cnt) /\ CallersIn /\ TasksIn(st) /\ DeferredIn(st)
  /\ PhasesIn(st) /\ RunsIn(st) /\ CountsIn(st, cnt) /\ CompletedIn(st) /\ LedgerIn(st)

RunInv == \E st, sp, cnt : RunIn(st, sp, cnt)

-----------------------------------------------------------------------------
(* What follows for the frame a thread is about to leave. *)

LEMMA TopPlace ==
  ASSUME StackTypeOK, NEW st, NEW sp, NEW cnt, FramesIn(st, sp, cnt),
         NEW t \in Threads, NEW l \in NodeLabels, At(t, l), NEW D, D = Depth(t),
         NEW i, i = Top(t).node
  PROVE  /\ D \in Nat /\ D >= 1 /\ Bot(t, D) = Top(t) /\ i \in Nodes
         /\ st[i] = l /\ sp[i] = <<t, D>>
         /\ t = Main => D >= 2
         /\ l \in {"submit", "admit"} => D >= 2
         /\ FrameIn(Top(t), t, D, st, sp, cnt)
  <1>1. stack[t] # <<>> /\ i \in Nodes /\ Top(t).at = l
    BY TopFrame DEF At
  <1>2. D \in Nat /\ D >= 1 /\ Bot(t, D) = Top(t)
    BY <1>1, Places
  <1>3. FrameIn(Bot(t, D), t, D, st, sp, cnt)
    BY <1>2 DEF FramesIn
  <1>4. FrameIn(Top(t), t, D, st, sp, cnt)
    BY <1>2, <1>3
  <1>5. l \notin CallerLabels
    BY DEF NodeLabels, CallerLabels
  <1>6. st[i] = l /\ sp[i] = <<t, D>> /\ (t = Main => D # 1) /\ (l \in {"submit", "admit"} => D # 1)
    BY <1>1, <1>4, <1>5 DEF FrameIn
  <1>7. QED
    BY <1>1, <1>2, <1>4, <1>6

\* A node that is not in a frame at all, or in one that goes, is in no frame that
\* stays: the account of those is the same after it has moved.
Untouched(t, k, st, sp, cnt, st2, sp2, cnt2) ==
  /\ \A y \in Nodes :
       st[y] \in InFrame /\ ~ (sp[y][1] = t /\ sp[y][2] > k) =>
         /\ st2[y] = st[y] /\ sp2[y] = sp[y]
         /\ \A j \in Nodes : <<y, j>> \in cnt2 => <<y, j>> \in cnt
  /\ t # Main \/ k # 0 =>
       \A y \in Nodes : st[y] = "waiting" /\ Preds[y] = {} => st2[y] = "waiting"

LEMMA FrameKept ==
  ASSUME NEW st, NEW sp, NEW cnt, NEW st2, NEW sp2, NEW cnt2,
         NEW t \in Threads, NEW k \in Nat, NEW u \in Threads, NEW d \in Nat, d >= 1,
         u # t \/ d <= k, NEW f \in Frames,
         FrameIn(f, u, d, st, sp, cnt), Untouched(t, k, st, sp, cnt, st2, sp2, cnt2)
  PROVE  FrameIn(f, u, d, st2, sp2, cnt2)
  <1>1. CASE f.at \in NodeLabels
    <2>1. f \in NodeFrames
      BY <1>1 DEF Frames, NodeFrames, NodeLabels, CallerLabels
    <2>2. /\ f.node \in Nodes /\ f.todo \in SUBSET Nodes
          /\ \A n \in DOMAIN f.runnable : f.runnable[n] \in Nodes
      BY <2>1 DEF NodeFrames
    <2>3. /\ st[f.node] = f.at /\ sp[f.node] = <<u, d>>
          /\ \A n \in DOMAIN f.runnable : st[f.runnable[n]] = "runnable" /\ sp[f.runnable[n]] = <<u, d>>
          /\ \A m, n \in DOMAIN f.runnable : f.runnable[m] = f.runnable[n] => m = n
          /\ f.at = "succ" => \A j \in f.todo : f.node \in Preds[j] /\ <<f.node, j>> \notin cnt
      BY <1>1 DEF FrameIn
    <2>4. ASSUME NEW y \in Nodes, st[y] \in InFrame, sp[y] = <<u, d>>
          PROVE  /\ st2[y] = st[y] /\ sp2[y] = sp[y]
                 /\ \A j \in Nodes : <<y, j>> \in cnt2 => <<y, j>> \in cnt
      BY <2>4 DEF Untouched
    <2>5. f.at # "seed"
      BY <1>1 DEF NodeLabels
    <2>6. /\ st2[f.node] = f.at /\ sp2[f.node] = <<u, d>>
          /\ f.at = "succ" => \A j \in f.todo : f.node \in Preds[j] /\ <<f.node, j>> \notin cnt2
      BY <1>1, <2>2, <2>3, <2>4 DEF InFrame
    <2>7. ASSUME NEW n \in DOMAIN f.runnable
          PROVE  st2[f.runnable[n]] = "runnable" /\ sp2[f.runnable[n]] = <<u, d>>
      BY <2>2, <2>3, <2>4 DEF InFrame
    <2>8. /\ d = 1 => f.at \notin {"submit", "admit"}
          /\ f.at \in CallerLabels <=> u = Main /\ d = 1
      BY DEF FrameIn
    <2>9. QED
      BY <1>1, <2>3, <2>5, <2>6, <2>7, <2>8 DEF FrameIn
  <1>2. CASE f.at \notin NodeLabels
    <2>1. f.at \in CallerLabels /\ f.todo \in SUBSET Nodes
      BY <1>2 DEF Frames
    <2>2. u = Main /\ d = 1
      BY <2>1 DEF FrameIn
    <2>3. t # Main \/ k # 0
      BY <2>2
    <2>4. \A y \in Nodes : st[y] = "waiting" /\ Preds[y] = {} => st2[y] = "waiting"
      BY <2>3 DEF Untouched
    <2>5. QED
      BY <1>2, <2>1, <2>4 DEF FrameIn
  <1>3. QED
    BY <1>1, <1>2

\* The frames of t deeper than k agree with the account after the step.
NewFrames(t, k, st, sp, cnt) ==
  \A d \in Nat : k < d /\ d <= Depth(t)' => FrameIn(Bot(t, d)', t, d, st, sp, cnt)

LEMMA FramesStep ==
  ASSUME StackTypeOK, StackTypeOK', NEW st, NEW sp, NEW cnt, NEW st2, NEW sp2, NEW cnt2,
         NEW t \in Threads, NEW k \in Nat, k <= Depth(t),
         FramesIn(st, sp, cnt), Kept(t, k), Untouched(t, k, st, sp, cnt, st2, sp2, cnt2),
         NewFrames(t, k, st2, sp2, cnt2)
  PROVE  FramesIn(st2, sp2, cnt2)'
  <1> SUFFICES ASSUME NEW u \in Threads, NEW d \in 1 .. Depth(u)'
               PROVE  FrameIn(Bot(u, d)', u, d, st2, sp2, cnt2)
    BY DEF FramesIn
  <1>1. Depth(u) \in Nat /\ Depth(t) \in Nat /\ Depth(u)' \in Nat
    BY Places DEF Depth, StackTypeOK
  <1>2. d \in Nat /\ d >= 1 /\ d <= Depth(u)'
    BY <1>1
  <1>3. CASE u = t /\ d > k
    BY <1>2, <1>3 DEF NewFrames
  <1>4. CASE u # t \/ d <= k
    <2>1. d \in 1 .. Depth(u)
      BY <1>1, <1>2, <1>4 DEF Kept
    <2>2. Bot(u, d)' = Bot(u, d)
      BY <1>4, <2>1 DEF Kept
    <2>3. Bot(u, d) \in Frames
      BY <2>1, Places
    <2>4. FrameIn(Bot(u, d), u, d, st, sp, cnt)
      BY <2>1 DEF FramesIn
    <2>5. FrameIn(Bot(u, d), u, d, st2, sp2, cnt2)
      BY <1>2, <1>4, <2>3, <2>4, FrameKept
    <2>6. QED
      BY <2>2, <2>5
  <1>5. QED
    BY <1>2, <1>3, <1>4

-----------------------------------------------------------------------------
(* One node moves. *)

\* The caller has started once a frame of it, or a node, is past the beginning.
LEMMA StartedBy ==
  ASSUME NEW st, NEW cnt, CountsIn(st, cnt), NEW x \in Nodes, st[x] # "waiting"
  PROVE  Started
  BY DEF CountsIn

LEMMA StartedKept ==
  ASSUME StackTypeOK, StackTypeOK', Started, NEW t \in Threads, NEW k \in Nat, k <= Depth(t),
         Kept(t, k), t = Main => k >= 1
  PROVE  Started' /\ (stack[Main] = <<>> <=> stack[Main]' = <<>>)
  <1>1. Main \in Threads
    BY ExecutorAssumption
  <1>2. /\ Depth(Main) \in Nat /\ (stack[Main] # <<>> <=> Depth(Main) >= 1)
        /\ stack[Main] \in Seq(Frames)
    BY <1>1, Places
  <1>3. stack[Main]' \in Seq(Frames)
    BY <1>1 DEF StackTypeOK
  <1>4. stack[Main]' # <<>> <=> Depth(Main)' >= 1
    BY <1>3 DEF Depth
  <1>5. CASE stack[Main] = <<>>
    <2>1. t # Main
      BY <1>2, <1>5
    <2>2. Depth(Main)' = Depth(Main)
      BY <2>1, <1>1 DEF Kept
    <2>3. QED
      BY <2>2, <1>2, <1>4, <1>5 DEF Started
  <1>6. CASE stack[Main] # <<>>
    <2>1. Bot(Main, 1)' = Bot(Main, 1)
      <3>1. 1 \in 1 .. Depth(Main) /\ (Main # t \/ 1 <= k)
        BY <1>2, <1>6
      <3>2. QED
        BY <3>1, <1>1 DEF Kept
    <2>2. Depth(Main)' >= 1
      <3>1. CASE t # Main
        BY <3>1, <1>1, <1>2, <1>6 DEF Kept
      <3>2. CASE t = Main
        <4>1. Depth(Main)' \in Nat
          BY <1>3 DEF Depth
        <4>2. k <= Depth(Main)' /\ k >= 1
          BY <3>2 DEF Kept
        <4>3. QED
          BY <4>1, <4>2
      <3>3. QED
        BY <3>1, <3>2
    <2>3. QED
      BY <2>1, <2>2, <1>4, <1>6 DEF Started
  <1>7. QED
    BY <1>5, <1>6

LEMMA NodesFinite ==
  /\ IsFiniteSet(Nodes) /\ Cardinality(Nodes) = NumNodes
  /\ \A j \in Nodes : IsFiniteSet(Preds[j]) /\ Preds[j] \subseteq Nodes /\ j \notin Preds[j]
                      /\ Cardinality(Preds[j]) \in 0 .. NumNodes
  <1>1. NumNodes \in Nat /\ \A j \in Nodes : j \in Nat /\ j <= NumNodes /\ Preds[j] \subseteq 1 .. (j - 1)
    BY ExecutorAssumption DEF Nodes
  <1>2. IsFiniteSet(Nodes) /\ Cardinality(Nodes) = NumNodes
    <2>1. IsFiniteSet(1 .. NumNodes) /\ Cardinality(1 .. NumNodes) = IF 1 > NumNodes THEN 0 ELSE NumNodes - 1 + 1
      BY <1>1, FS_Interval
    <2>2. QED
      BY <1>1, <2>1 DEF Nodes
  <1>3. ASSUME NEW j \in Nodes
        PROVE  IsFiniteSet(Preds[j]) /\ Preds[j] \subseteq Nodes /\ j \notin Preds[j]
               /\ Cardinality(Preds[j]) \in 0 .. NumNodes
    <2>1. Preds[j] \subseteq Nodes /\ j \notin Preds[j]
      BY <1>1 DEF Nodes
    <2>2. IsFiniteSet(Preds[j]) /\ Cardinality(Preds[j]) <= NumNodes
      BY <1>2, <2>1, FS_Subset
    <2>3. Cardinality(Preds[j]) \in Nat
      BY <2>2, FS_CardinalityType
    <2>4. QED
      BY <1>1, <2>1, <2>2, <2>3
  <1>4. QED
    BY <1>2, <1>3

\* The bytes move with the node: those it is charged in submit() or under the
\* lock of drain_deferred(), those its Free hands back.
LEMMA LedgerFacts ==
  /\ WordSize \in Nat \ {0} /\ MemoryBudget \in Nat /\ MemoryBudget < WordSize
  /\ \A i \in Nodes : Bytes[i] \in Nat
  /\ \A st : /\ IsFiniteSet(Charged(st)) /\ IsFiniteSet(Refunded(st))
             /\ SumFunctionOnSet(Bytes, Charged(st)) \in Int
             /\ SumFunctionOnSet(Bytes, Refunded(st)) \in Int
             /\ Outstanding(st) \in Int
  <1>1. WordSize \in Nat \ {0} /\ MemoryBudget \in Nat /\ MemoryBudget < WordSize /\ \A i \in Nodes : Bytes[i] \in Nat
    BY ExecutorAssumption
  <1>2. ASSUME NEW st
        PROVE  /\ IsFiniteSet(Charged(st)) /\ IsFiniteSet(Refunded(st))
               /\ SumFunctionOnSet(Bytes, Charged(st)) \in Int
               /\ SumFunctionOnSet(Bytes, Refunded(st)) \in Int
               /\ Outstanding(st) \in Int
    <2>1. Charged(st) \subseteq Nodes /\ Refunded(st) \subseteq Nodes
      BY DEF Charged, Refunded
    <2>2. IsFiniteSet(Charged(st)) /\ IsFiniteSet(Refunded(st))
      BY <2>1, NodesFinite, FS_Subset
    <2>3. \A S \in {Charged(st), Refunded(st)} : \A x \in S : Bytes[x] \in Int
      BY <1>1, <2>1
    <2>4. SumFunctionOnSet(Bytes, Charged(st)) \in Int /\ SumFunctionOnSet(Bytes, Refunded(st)) \in Int
      BY <2>2, <2>3, SumSplit
    <2>5. QED
      BY <2>2, <2>4 DEF Outstanding
  <1>3. QED
    BY <1>1, <1>2

\* A node moves and no bytes do.
LEMMA LedgerKept ==
  ASSUME NEW st \in [Nodes -> Stages], LedgerIn(st), UNCHANGED memory,
         NEW x \in Nodes, NEW s, Weightless(x, st[x], s)
  PROVE  LedgerIn([st EXCEPT ![x] = s])'
  <1> DEFINE st2 == [st EXCEPT ![x] = s]
  <1>1. st2[x] = s /\ \A y \in Nodes : y # x => st2[y] = st[y]
    OBVIOUS
  <1> HIDE DEF st2
  <1>2. Charged(st2) = Charged(st)
    BY <1>1 DEF Charged, Weightless
  <1>3. Refunded(st2) = Refunded(st)
    BY <1>1 DEF Refunded, Weightless
  <1>4. \A y \in Nodes : KindFits(y, st2[y])
    BY <1>1 DEF LedgerIn, Weightless
  <1>5. LedgerIn(st2)'
    BY <1>2, <1>3, <1>4 DEF LedgerIn, Outstanding
  <1>6. QED
    BY <1>5 DEF st2

\* A stage that moves no bytes, whichever account the node is in.
LEMMA LedgerStill ==
  ASSUME UNCHANGED memory, NEW x \in Nodes, NEW l, NEW s, KindFits(x, l) => Weightless(x, l, s)
  PROVE  LedgerMoves(x, l, s)
  <1> SUFFICES ASSUME NEW st \in [Nodes -> Stages], LedgerIn(st), st[x] = l
               PROVE  LedgerIn([st EXCEPT ![x] = s])'
    BY DEF LedgerMoves
  <1>1. Weightless(x, st[x], s)
    BY DEF LedgerIn
  <1>2. QED
    BY <1>1, LedgerKept

\* The counter before its last wrap: what a multiple of the word hides.
LEMMA NoWrap ==
  ASSUME NEW w \in Nat \ {0}, NEW q \in Int
  PROVE  q < 0 => q * w <= - w
  <1>1. CASE q < 0
    <2>1. q <= -1
      BY <1>1
    <2>2. (-1 - q) * w >= 0
      BY <2>1, SMTT(30)
    <2>3. QED
      BY <2>1, <2>2
  <1>2. QED
    BY <1>1

\* A node that fits is charged: the counter tells the sum as long as two budgets
\* fit the word, so the test of the counter is one of the sum.
LEMMA LedgerCharged ==
  ASSUME NEW x \in Nodes, NEW l \in UnpaidStages, NEW s, s \notin UnpaidStages, Bounded(x), KindFits(x, s),
         BytesFit(memory, Bytes[x]), memory' = AddBytes(memory, Bytes[x])
  PROVE  LedgerMoves(x, l, s)
  <1> SUFFICES ASSUME NEW st \in [Nodes -> Stages], LedgerIn(st), st[x] = l
               PROVE  LedgerIn([st EXCEPT ![x] = s])'
    BY DEF LedgerMoves
  <1> DEFINE st2 == [st EXCEPT ![x] = s]
  <1>1. st2[x] = s /\ \A y \in Nodes : y # x => st2[y] = st[y]
    OBVIOUS
  <1> HIDE DEF st2
  <1>2. Charged(st2) = Charged(st) \cup {x} /\ x \notin Charged(st)
    BY <1>1 DEF Charged
  <1>3. Refunded(st2) = Refunded(st)
    BY <1>1 DEF Refunded, Bounded, Gated, IsFree
  <1>4. \A y \in Nodes : KindFits(y, st2[y])
    BY <1>1 DEF LedgerIn
  <1>5. Outstanding(st2) = Outstanding(st) + Bytes[x]
    <2>1. \A y \in Charged(st) \cup {x} : Bytes[y] \in Int
      BY LedgerFacts DEF Charged
    <2>2. SumFunctionOnSet(Bytes, Charged(st) \cup {x}) = SumFunctionOnSet(Bytes, Charged(st)) + Bytes[x]
      BY <1>2, <2>1, LedgerFacts, SumAddElement
    <2>3. Bytes[x] \in Int
      BY <2>1
    <2>4. QED
      BY <1>2, <1>3, <2>2, <2>3, LedgerFacts DEF Outstanding
  <1>6. PICK q \in Int : memory = Outstanding(st) + q * WordSize
    BY DEF LedgerIn
  <1>7. PICK X, b, o, W, B : X = Outstanding(st) /\ b = Bytes[x] /\ o = memory /\ W = WordSize /\ B = MemoryBudget
    OBVIOUS
  <1>8. /\ X \in Int /\ b \in Nat /\ W \in Nat \ {0} /\ B \in Nat /\ B < W /\ b <= B
        /\ o = X + q * W /\ o \in 0 .. W - 1
    BY <1>6, <1>7, LedgerFacts DEF LedgerIn, Bounded
  <1>9. memory' = (o + b) % W /\ (o + b) % W <= B
    BY <1>7 DEF AddBytes, BytesFit
  <1>10. PICK r \in {0, 1} : (o + b) % W = o + b - r * W
    <2>1. o + b < 2 * W /\ o + b \in Nat
      BY <1>8
    <2>2. CASE o + b < W
      BY <1>8, <2>1, <2>2
    <2>3. CASE o + b >= W
      BY <1>8, <2>1, <2>3
    <2>4. QED
      BY <2>1, <2>2, <2>3, <1>8
  <1>11. memory' = X + b + (q - r) * W /\ q - r \in Int
    <2>1. (q - r) * W = q * W - r * W
      BY <1>8
    <2>2. q * W \in Int /\ r * W \in Int
      BY <1>8
    <2>3. QED
      BY <1>8, <1>9, <1>10, <2>1, <2>2
  <1>12. memory' \in 0 .. W - 1
    BY <1>8, <1>9
  <1>13. ASSUME 2 * B < W, X <= B PROVE X + b <= B
    <2>1. q - r < 0 => (q - r) * W <= - W
      BY <1>8, <1>11, NoWrap
    <2>2. q - r >= 0 => (q - r) * W >= 0
      BY <1>8, <1>11
    <2>3. (q - r) * W \in Int
      BY <1>8, <1>11
    <2>4. X + b + (q - r) * W \in 0 .. B
      BY <1>8, <1>9, <1>11, <1>12
    <2> DEFINE z == (q - r) * W
    <2>5. q - r >= 0 \/ q - r < 0
      BY <1>11
    <2> HIDE DEF z
    <2>6. QED
      BY <2>1, <2>2, <2>3, <2>4, <2>5, <1>8, <1>13 DEF z
  <1>14. RoomForTwo => Outstanding(st2) <= MemoryBudget
    BY <1>5, <1>7, <1>13 DEF RoomForTwo, LedgerIn
  <1>15. LedgerIn(st2)'
    BY <1>4, <1>5, <1>7, <1>11, <1>12, <1>14 DEF LedgerIn
  <1>16. QED
    BY <1>15 DEF st2

\* What the remainder leaves out is a multiple of the word.
LEMMA Division ==
  ASSUME NEW x \in Int, NEW w \in Nat \ {0}, NEW z, z = x \div w, NEW r, r = x % w
  PROVE  z \in Int /\ x = z * w + r
  OBVIOUS

\* A Free hands its bytes back, whether they were charged or not.
LEMMA LedgerRefunded ==
  ASSUME NEW x \in Nodes, NEW l, l \notin RefundedStages, NEW s \in RefundedStages, IsFree(x), KindFits(x, s),
         memory' = SubBytes(memory, Bytes[x])
  PROVE  LedgerMoves(x, l, s)
  <1> SUFFICES ASSUME NEW st \in [Nodes -> Stages], LedgerIn(st), st[x] = l
               PROVE  LedgerIn([st EXCEPT ![x] = s])'
    BY DEF LedgerMoves
  <1> DEFINE st2 == [st EXCEPT ![x] = s]
  <1>1. st2[x] = s /\ \A y \in Nodes : y # x => st2[y] = st[y]
    OBVIOUS
  <1> HIDE DEF st2
  <1>2. Refunded(st2) = Refunded(st) \cup {x} /\ x \notin Refunded(st)
    BY <1>1 DEF Refunded
  <1>3. Charged(st2) = Charged(st)
    BY <1>1 DEF Charged, Bounded, Gated, IsFree
  <1>4. \A y \in Nodes : KindFits(y, st2[y])
    BY <1>1 DEF LedgerIn
  <1>5. Outstanding(st2) = Outstanding(st) - Bytes[x]
    <2>1. \A y \in Refunded(st) \cup {x} : Bytes[y] \in Int
      BY LedgerFacts DEF Refunded
    <2>2. SumFunctionOnSet(Bytes, Refunded(st) \cup {x}) = SumFunctionOnSet(Bytes, Refunded(st)) + Bytes[x]
      BY <1>2, <2>1, LedgerFacts, SumAddElement
    <2>3. Bytes[x] \in Int
      BY <2>1
    <2>4. QED
      BY <1>2, <1>3, <2>2, <2>3, LedgerFacts DEF Outstanding
  <1>6. PICK q \in Int : memory = Outstanding(st) + q * WordSize
    BY DEF LedgerIn
  <1>7. PICK X, b, o, W, z : /\ X = Outstanding(st) /\ b = Bytes[x] /\ o = memory /\ W = WordSize
                             /\ z = (o - b) \div W
    OBVIOUS
  <1>8. /\ X \in Int /\ b \in Nat /\ W \in Nat \ {0} /\ o = X + q * W /\ o \in 0 .. W - 1
    BY <1>6, <1>7, LedgerFacts DEF LedgerIn
  <1>9. memory' = (o - b) % W /\ memory' \in 0 .. W - 1
    BY <1>7, <1>8 DEF SubBytes
  <1>10. z \in Int /\ o - b = z * W + memory'
    <2>1. o - b \in Int
      BY <1>8
    <2>2. QED
      BY <2>1, <1>7, <1>8, <1>9, Division
  <1>11. memory' = X - b + (q - z) * W /\ q - z \in Int
    <2>1. (q - z) * W = q * W - z * W
      BY <1>8, <1>10
    <2>2. q * W \in Int /\ z * W \in Int
      BY <1>8, <1>10
    <2>3. memory' \in Int
      BY <1>8, <1>9
    <2>4. memory' = X + q * W - b - z * W
      BY <1>8, <1>10, <2>2, <2>3
    <2>5. QED
      BY <1>8, <1>10, <2>1, <2>2, <2>4
  <1>12. RoomForTwo => Outstanding(st2) <= MemoryBudget
    BY <1>5, <1>7, <1>8, LedgerFacts DEF LedgerIn
  <1>13. LedgerIn(st2)'
    BY <1>4, <1>5, <1>7, <1>9, <1>11, <1>12 DEF LedgerIn
  <1>14. QED
    BY <1>13 DEF st2

\* What is about other nodes only does not change with the move.
LEMMA CountsKept ==
  ASSUME NEW st \in [Nodes -> Stages], NEW cnt, CountsIn(st, cnt), Started, Started',
         UNCHANGED remaining, NEW x \in Nodes, NEW s,
         st[x] \notin {"waiting", "succ", "done"}, s # "waiting"
  PROVE  CountsIn([st EXCEPT ![x] = s], cnt)'
  <1> DEFINE st2 == [st EXCEPT ![x] = s]
  <1>1. \A y \in Nodes : st2[y] = st[y] \/ (y = x /\ st2[y] = s)
    OBVIOUS
  <1>2. \A p, j \in Nodes : <<p, j>> \in cnt => st2[p] \in {"succ", "done"}
    BY <1>1 DEF CountsIn
  <1>3. ASSUME NEW j \in Nodes PROVE CountIn(j, st2, cnt)'
    <2>1. CountIn(j, st, cnt)
      BY DEF CountsIn
    <2>2. st2[j] = "waiting" <=> st[j] = "waiting"
      BY <1>1
    <2>3. QED
      BY <2>1, <2>2 DEF CountIn, Open
  <1>4. QED
    BY <1>2, <1>3 DEF CountsIn

LEMMA CompletedKept ==
  ASSUME NEW st \in [Nodes -> Stages], CompletedIn(st), UNCHANGED <<completed, returned>>,
         NEW x \in Nodes, NEW s, st[x] # "done", s # "done"
  PROVE  CompletedIn([st EXCEPT ![x] = s])'
  <1> DEFINE st2 == [st EXCEPT ![x] = s]
  <1>1. {i \in Nodes : st2[i] = "done"} = {i \in Nodes : st[i] = "done"}
    OBVIOUS
  <1>2. QED
    BY <1>1 DEF CompletedIn

LEMMA TasksKept ==
  ASSUME StackTypeOK, NEW st \in [Nodes -> Stages], TasksIn(st), UNCHANGED <<queue, batch>>,
         NEW x \in Nodes, NEW s, st[x] \notin {"finishing", "queued", "batched"}
  PROVE  TasksIn([st EXCEPT ![x] = s])'
  <1> DEFINE st2 == [st EXCEPT ![x] = s]
  <1>1. \A y \in Nodes : y # x => st2[y] = st[y]
    OBVIOUS
  <1>2. \A task \in queue \cup batch : task[1] \in Nodes
    BY DEF StackTypeOK, Tasks
  <1>3. \A task \in queue \cup batch : st2[task[1]] = st[task[1]]
    BY <1>1, <1>2 DEF TasksIn
  <1> HIDE DEF st2
  <1>4. TasksIn(st2)'
    BY <1>3 DEF TasksIn
  <1>5. QED
    BY <1>4 DEF st2

LEMMA DeferredKept ==
  ASSUME StackTypeOK, NEW st \in [Nodes -> Stages], DeferredIn(st), UNCHANGED deferred,
         NEW x \in Nodes, NEW s, st[x] # "deferred"
  PROVE  DeferredIn([st EXCEPT ![x] = s])'
  BY DEF DeferredIn, StackTypeOK

LEMMA PhasesKept ==
  ASSUME NEW st \in [Nodes -> Stages], PhasesIn(st), UNCHANGED phase,
         NEW x \in Nodes, NEW s, PhaseFits(s, phase[x])
  PROVE  PhasesIn([st EXCEPT ![x] = s])'
  BY DEF PhasesIn

LEMMA RunsKept ==
  ASSUME NEW st \in [Nodes -> Stages], RunsIn(st), UNCHANGED runs,
         NEW x \in Nodes, NEW s, st[x] \in RanStages <=> s \in RanStages
  PROVE  RunsIn([st EXCEPT ![x] = s])'
  BY DEF RunsIn

LEMMA RunsCounted ==
  ASSUME NEW st \in [Nodes -> Stages], RunsIn(st), NEW x \in Nodes, NEW s,
         runs' = [runs EXCEPT ![x] = @ + 1],
         st[x] \notin RanStages, s \in RanStages
  PROVE  RunsIn([st EXCEPT ![x] = s])'
  BY DEF RunsIn

\* One node moves, from and to stages between the first and the last, and the
\* state follows.
LEMMA MoveRun ==
  ASSUME StackTypeOK, StackTypeOK', NEW st, NEW sp, NEW cnt, RunIn(st, sp, cnt),
         NEW t \in Threads, NEW k \in Nat, k <= Depth(t), Kept(t, k), t = Main => k >= 1,
         NEW x \in Nodes, NEW s \in Stages, NEW p \in Threads \X Nat,
         st[x] \notin {"waiting", "succ", "done"}, s \notin {"waiting", "done"},
         st[x] \in InFrame => sp[x][1] = t /\ sp[x][2] > k,
         NewFrames(t, k, [st EXCEPT ![x] = s], [sp EXCEPT ![x] = p], cnt),
         UNCHANGED <<remaining, completed, returned>>,
         \A u \in Threads : (mutex' = u \/ ready'[u] # <<>>) => stack'[u] # <<>>,
         TasksIn([st EXCEPT ![x] = s])', DeferredIn([st EXCEPT ![x] = s])',
         PhasesIn([st EXCEPT ![x] = s])', RunsIn([st EXCEPT ![x] = s])', LedgerIn([st EXCEPT ![x] = s])'
  PROVE  RunInv'
  <1> DEFINE st2 == [st EXCEPT ![x] = s]
             sp2 == [sp EXCEPT ![x] = p]
  <1>1. /\ st \in [Nodes -> Stages] /\ sp \in [Nodes -> Threads \X Nat]
        /\ cnt \in SUBSET (Nodes \X Nodes)
    BY DEF RunIn, Accounts
  <1>2. Accounts(st2, sp2, cnt)
    BY <1>1 DEF Accounts
  <1>3. CountsIn(st, cnt) /\ CompletedIn(st) /\ FramesIn(st, sp, cnt) /\ CallersIn
    BY DEF RunIn
  <1>4. Untouched(t, k, st, sp, cnt, st2, sp2, cnt)
    BY <1>1 DEF Untouched
  <1>5. FramesIn(st2, sp2, cnt)'
    BY <1>3, <1>4, FramesStep
  <1>6. Started
    BY <1>3, StartedBy
  <1>7. Started' /\ (stack[Main] = <<>> <=> stack[Main]' = <<>>)
    BY <1>6, StartedKept
  <1>8. CountsIn(st2, cnt)'
    BY <1>1, <1>3, <1>6, <1>7, CountsKept
  <1>9. CompletedIn(st2)'
    BY <1>1, <1>3, CompletedKept
  <1>10. CallersIn'
    BY <1>3, <1>7 DEF CallersIn
  <1> HIDE DEF st2, sp2
  <1>11. TasksIn(st2)' /\ DeferredIn(st2)' /\ PhasesIn(st2)' /\ RunsIn(st2)' /\ LedgerIn(st2)'
    BY DEF st2
  <1>12. RunIn(st2, sp2, cnt)'
    BY <1>2, <1>5, <1>8, <1>9, <1>10, <1>11 DEF RunIn, Accounts
  <1>13. QED
    BY <1>12 DEF RunInv

\* A thread with work left for the budget has a frame to come back to.
LEMMA CallersKept ==
  ASSUME StackTypeOK, StackTypeOK', CallersIn, NEW t \in Threads, NEW k, Kept(t, k),
         \A u \in Threads : u # t /\ (mutex' = u \/ ready'[u] # <<>>) => mutex = u \/ ready[u] # <<>>,
         (mutex' = t \/ ready'[t] # <<>>) => Depth(t)' >= 1
  PROVE  \A u \in Threads : (mutex' = u \/ ready'[u] # <<>>) => stack'[u] # <<>>
  <1> SUFFICES ASSUME NEW u \in Threads, mutex' = u \/ ready'[u] # <<>> PROVE stack'[u] # <<>>
    OBVIOUS
  <1>1. stack'[u] \in Seq(Frames) /\ stack[u] \in Seq(Frames)
    BY DEF StackTypeOK
  <1>2. CASE u = t
    BY <1>1, <1>2 DEF Depth
  <1>3. CASE u # t
    <2>1. stack[u] # <<>>
      BY <1>3 DEF CallersIn
    <2>2. Depth(u)' = Depth(u)
      BY <1>3 DEF Kept
    <2>3. QED
      BY <2>1, <2>2, <1>1 DEF Depth
  <1>4. QED
    BY <1>2, <1>3

\* A fresh frame agrees with the account that puts its node there.
LEMMA FreshIn ==
  ASSUME NEW st, NEW sp, NEW cnt, NEW t, NEW D, NEW s \in NodeLabels \ {"succ"}, NEW i,
         s \in {"submit", "admit"} => D # 1, t = Main => D # 1,
         st[i] = s, sp[i] = <<t, D>>
  PROVE  FrameIn(Frame(s, i), t, D, st, sp, cnt)
  BY DEF FrameIn, Frame, NodeLabels, CallerLabels

\* The node of the top frame moves on in it.
LEMMA GotoRun ==
  ASSUME StackTypeOK, StackTypeOK', NEW st, NEW sp, NEW cnt, RunIn(st, sp, cnt),
         NEW t \in Threads, NEW l \in NodeLabels \ {"succ"}, At(t, l),
         NEW D, D = Depth(t), NEW i, i = Top(t).node,
         NEW s \in NodeLabels, NEW f, Goto(t, f),
         FrameIn(f, t, D, [st EXCEPT ![i] = s], [sp EXCEPT ![i] = <<t, D>>], cnt),
         UNCHANGED <<queue, batch, deferred, remaining, completed, returned>>,
         mutex' \in {mutex, t}, ready' = ready,
         PhasesIn([st EXCEPT ![i] = s])', RunsIn([st EXCEPT ![i] = s])', LedgerIn([st EXCEPT ![i] = s])'
  PROVE  RunInv'
  <1> DEFINE st2 == [st EXCEPT ![i] = s]
             sp2 == [sp EXCEPT ![i] = <<t, D>>]
             k == D - 1
  <1>1. /\ FramesIn(st, sp, cnt) /\ CallersIn /\ TasksIn(st) /\ DeferredIn(st)
        /\ st \in [Nodes -> Stages]
    BY DEF RunIn, Accounts
  <1>2. /\ D \in Nat /\ D >= 1 /\ i \in Nodes /\ st[i] = l /\ sp[i] = <<t, D>>
        /\ t = Main => D >= 2
    BY <1>1, TopPlace
  <1>3. stack[t] # <<>>
    BY DEF At
  <1>4. Kept(t, k) /\ Depth(t)' = D /\ Bot(t, D)' = f
    BY <1>3, GotoPlaces
  <1>5. k \in Nat /\ k <= Depth(t) /\ (t = Main => k >= 1) /\ <<t, D>> \in Threads \X Nat
    BY <1>2
  <1>6. /\ st[i] \notin {"waiting", "succ", "done"} /\ s \notin {"waiting", "done"} /\ s \in Stages
        /\ st[i] \notin {"finishing", "queued", "batched"} /\ st[i] # "deferred"
    BY <1>2 DEF NodeLabels, Stages
  <1>7. st[i] \in InFrame => sp[i][1] = t /\ sp[i][2] > k
    BY <1>2
  <1>8. NewFrames(t, k, st2, sp2, cnt)
    <2> SUFFICES ASSUME NEW d \in Nat, k < d, d <= D PROVE FrameIn(Bot(t, d)', t, d, st2, sp2, cnt)
      BY <1>4 DEF NewFrames
    <2>1. d = D
      BY <1>2
    <2>2. QED
      BY <2>1, <1>4
  <1>9. \A u \in Threads : (mutex' = u \/ ready'[u] # <<>>) => stack'[u] # <<>>
    <2>1. \A u \in Threads : u # t /\ (mutex' = u \/ ready'[u] # <<>>) => mutex = u \/ ready[u] # <<>>
      OBVIOUS
    <2>2. Depth(t)' >= 1
      BY <1>2, <1>4
    <2>3. QED
      BY <2>1, <2>2, <1>1, <1>4, CallersKept
  <1>10. TasksIn(st2)' /\ DeferredIn(st2)'
    BY <1>1, <1>2, <1>6, TasksKept, DeferredKept
  <1> HIDE DEF k
  <1>11. QED
    BY <1>2, <1>4, <1>5, <1>6, <1>7, <1>8, <1>9, <1>10, MoveRun

\* The node of the top frame moves out of it, and the frame goes.
LEMMA LeaveRun ==
  ASSUME StackTypeOK, StackTypeOK', NEW st, NEW sp, NEW cnt, RunIn(st, sp, cnt),
         NEW t \in Threads, NEW l \in NodeLabels \ {"succ"}, At(t, l), Leave(t),
         NEW i, i = Top(t).node,
         NEW s \in Stages \ (InFrame \cup {"waiting", "done"}),
         UNCHANGED <<remaining, completed, returned>>,
         UNCHANGED <<mutex, ready>> \/ (mutex' = t /\ ready' = ready /\ l \in {"submit", "admit"}),
         TasksIn([st EXCEPT ![i] = s])', DeferredIn([st EXCEPT ![i] = s])',
         PhasesIn([st EXCEPT ![i] = s])', RunsIn([st EXCEPT ![i] = s])', LedgerIn([st EXCEPT ![i] = s])'
  PROVE  RunInv'
  <1> DEFINE D == Depth(t)
             st2 == [st EXCEPT ![i] = s]
  <1>1. FramesIn(st, sp, cnt) /\ CallersIn /\ st \in [Nodes -> Stages]
    BY DEF RunIn, Accounts
  <1>2. PICK E : E = D
    OBVIOUS
  <1>3. /\ E \in Nat /\ E >= 1 /\ i \in Nodes /\ st[i] = l /\ sp[i] = <<t, E>>
        /\ t = Main => E >= 2
        /\ l \in {"submit", "admit"} => E >= 2
    BY <1>1, <1>2, TopPlace
  <1> DEFINE k == E - 1
             sp2 == [sp EXCEPT ![i] = <<t, E>>]
  <1>4. stack[t] # <<>> /\ AtRest(t)
    BY DEF At
  <1>5. Kept(t, k) /\ Depth(t)' = k
    BY <1>2, <1>4, LeavePlaces
  <1>6. k \in Nat /\ k <= Depth(t) /\ (t = Main => k >= 1) /\ <<t, E>> \in Threads \X Nat
    BY <1>2, <1>3
  <1>7. st[i] \notin {"waiting", "succ", "done"} /\ s \notin {"waiting", "done"} /\ s \in Stages
    BY <1>3 DEF NodeLabels, Stages
  <1>8. st[i] \in InFrame => sp[i][1] = t /\ sp[i][2] > k
    BY <1>3
  <1>9. NewFrames(t, k, st2, sp2, cnt)
    BY <1>5, <1>6 DEF NewFrames
  <1>10. \A u \in Threads : (mutex' = u \/ ready'[u] # <<>>) => stack'[u] # <<>>
    <2>1. \A u \in Threads : u # t /\ (mutex' = u \/ ready'[u] # <<>>) => mutex = u \/ ready[u] # <<>>
      OBVIOUS
    <2>2. (mutex' = t \/ ready'[t] # <<>>) => Depth(t)' >= 1
      BY <1>3, <1>4, <1>5 DEF AtRest
    <2>3. QED
      BY <2>1, <2>2, <1>1, <1>5, CallersKept
  <1> HIDE DEF k, D
  <1>11. QED
    BY <1>3, <1>5, <1>6, <1>7, <1>8, <1>9, <1>10, MoveRun

-----------------------------------------------------------------------------
(* The steps, one by one. *)

\* A frame about a node gives way to a fresh one about the same node: the stages
\* tell which history, which phase.
LEMMA RelabelRun ==
  ASSUME StackTypeOK, StackTypeOK', RunInv, NEW t \in Threads,
         NEW l \in NodeLabels \ {"succ"}, NEW s \in NodeLabels \ {"succ"}, At(t, l),
         s \in {"submit", "admit"} => l \in {"submit", "admit"},
         s \in FreshStages => l \in FreshStages,
         NEW i, i = Top(t).node, LedgerMoves(i, l, s),
         Goto(t, Frame(s, Top(t).node)),
         UNCHANGED <<budgetVars, queue, batch, deferred, remaining, completed, returned>>,
         \/ UNCHANGED runs /\ (l \in RanStages <=> s \in RanStages)
         \/ /\ runs' = [runs EXCEPT ![Top(t).node] = @ + 1]
            /\ l \notin RanStages /\ s \in RanStages
  PROVE  RunInv'
  <1>1. PICK st, sp, cnt : RunIn(st, sp, cnt)
    BY DEF RunInv
  <1>2. PICK D : D = Depth(t)
    OBVIOUS
  <1> DEFINE st2 == [st EXCEPT ![i] = s]
             sp2 == [sp EXCEPT ![i] = <<t, D>>]
  <1>3. /\ FramesIn(st, sp, cnt) /\ PhasesIn(st) /\ RunsIn(st) /\ LedgerIn(st)
        /\ st \in [Nodes -> Stages] /\ sp \in [Nodes -> Threads \X Nat]
    BY <1>1 DEF RunIn, Accounts
  <1>4. /\ D \in Nat /\ D >= 1 /\ i \in Nodes /\ st[i] = l
        /\ t = Main => D >= 2
        /\ l \in {"submit", "admit"} => D >= 2
    BY <1>2, <1>3, TopPlace
  <1>5. FrameIn(Frame(s, i), t, D, st2, sp2, cnt)
    <2>1. st2[i] = s /\ sp2[i] = <<t, D>>
      BY <1>3, <1>4
    <2> HIDE DEF st2, sp2
    <2>2. (s \in {"submit", "admit"} => D # 1) /\ (t = Main => D # 1)
      BY <1>4
    <2>3. QED
      BY <2>1, <2>2, FreshIn
  <1>6. PhasesIn(st2)'
    <2>1. PhaseFits(l, phase[i])
      BY <1>3, <1>4 DEF PhasesIn
    <2>2. PhaseFits(s, phase[i])
      BY <2>1 DEF PhaseFits, FreshStages, NodeLabels
    <2>3. phase' = phase
      BY DEF budgetVars
    <2>4. QED
      BY <1>3, <1>4, <2>2, <2>3, PhasesKept
  <1>7. RunsIn(st2)'
    <2>1. CASE UNCHANGED runs /\ (l \in RanStages <=> s \in RanStages)
      BY <1>3, <1>4, <2>1, RunsKept
    <2>2. CASE /\ runs' = [runs EXCEPT ![Top(t).node] = @ + 1]
               /\ l \notin RanStages /\ s \in RanStages
      BY <1>2, <1>3, <1>4, <2>2, RunsCounted
    <2>3. QED
      BY <2>1, <2>2
  <1>7a. LedgerIn(st2)'
    BY <1>3, <1>4 DEF LedgerMoves
  <1>8. mutex' \in {mutex, t} /\ ready' = ready
    BY DEF budgetVars
  <1>9. Goto(t, Frame(s, i))
    BY <1>2
  <1>10. QED
    BY <1>1, <1>2, <1>5, <1>6, <1>7, <1>7a, <1>8, <1>9, GotoRun

LEMMA SubmitRun ==
  ASSUME StackTypeOK, StackTypeOK', RunInv, NEW t \in Threads,
         SubmitOverBudget(t) \/ SubmitCharged(t)
  PROVE  RunInv'
  <1>1. PICK i : i = Top(t).node
    OBVIOUS
  <1>2. At(t, "submit") /\ "submit" \in NodeLabels
    BY DEF SubmitOverBudget, SubmitCharged, NodeLabels
  <1>3. i \in Nodes
    BY <1>1, <1>2, TopFrame DEF At, NodeFrames
  <1>4. CASE SubmitOverBudget(t)
    <2>1. KindFits(i, "submit") => Weightless(i, "submit", "complete")
      BY <1>1, <1>3, <1>4, LedgerFacts DEF SubmitOverBudget, Weightless, KindFits, Bounded, Gated, IsFree
    <2>2. LedgerMoves(i, "submit", "complete")
      BY <1>3, <1>4, <2>1, LedgerStill DEF SubmitOverBudget
    <2>3. QED
      BY <1>1, <1>4, <2>2, RelabelRun DEF SubmitOverBudget, NodeLabels, RanStages, FreshStages
  <1>5. CASE SubmitCharged(t)
    <2>1. PICK b : b = Bytes[i]
      OBVIOUS
    <2>2. BytesFit(memory, b) /\ memory' = AddBytes(memory, b) /\ b <= MemoryBudget
      BY <1>1, <1>5, <2>1 DEF SubmitCharged
    <2>3. KindFits(i, "admit") /\ "admit" \notin UnpaidStages /\ "submit" \in UnpaidStages
      BY DEF KindFits, UnpaidStages
    <2>4. CASE Gated(i)
      <3>1. LedgerMoves(i, "submit", "admit")
        BY <1>3, <2>1, <2>2, <2>3, <2>4, LedgerCharged DEF Bounded
      <3>2. QED
        BY <1>1, <1>5, <3>1, RelabelRun DEF SubmitCharged, NodeLabels, RanStages, FreshStages
    <2>5. CASE ~ Gated(i)
      <3>1. LedgerMoves(i, "submit", "admit")
        BY <1>3, <2>5 DEF LedgerMoves, LedgerIn, KindFits
      <3>2. QED
        BY <1>1, <1>5, <3>1, RelabelRun DEF SubmitCharged, NodeLabels, RanStages, FreshStages
    <2>6. QED
      BY <2>4, <2>5
  <1>6. QED
    BY <1>4, <1>5

LEMMA BodyRun ==
  ASSUME StackTypeOK, StackTypeOK', RunInv, NEW t \in Threads,
         RunNode(t) \/ RunAsyncFinish(t) \/ FreeBytes(t) \/ DrainStart(t)
  PROVE  RunInv'
  <1>1. PICK i : i = Top(t).node
    OBVIOUS
  <1>2. i \in Nodes
    <2>1. PICK l \in NodeLabels : At(t, l)
      BY DEF RunNode, RunAsyncFinish, FreeBytes, DrainStart, NodeLabels
    <2>2. QED
      BY <1>1, <2>1, TopFrame DEF At, NodeFrames
  <1>3. CASE RunNode(t)
    <2>1. PICK s \in {"free", "complete"} : /\ s = IF IsFree(i) THEN "free" ELSE "complete"
                                            /\ Goto(t, Frame(s, Top(t).node))
      BY <1>1, <1>3 DEF RunNode
    <2>2. Weightless(i, "run", s)
      BY <2>1 DEF Weightless, KindFits, UnpaidStages, RefundedStages, RanStages
    <2>3. LedgerMoves(i, "run", s)
      BY <1>2, <1>3, <2>2, LedgerStill DEF RunNode
    <2>4. QED
      BY <1>1, <1>3, <2>1, <2>3, RelabelRun DEF RunNode, NodeLabels, RanStages, FreshStages
  <1>4. CASE RunAsyncFinish(t)
    <2>1. KindFits(i, "afinish") => Weightless(i, "afinish", "complete")
      BY DEF Weightless, KindFits, Bounded, Gated, IsFree
    <2>2. LedgerMoves(i, "afinish", "complete")
      BY <1>2, <1>4, <2>1, LedgerStill DEF RunAsyncFinish
    <2>3. QED
      BY <1>1, <1>4, <2>2, RelabelRun DEF RunAsyncFinish, NodeLabels, RanStages, FreshStages
  <1>5. CASE FreeBytes(t)
    <2>1. PICK b : b = Bytes[i]
      OBVIOUS
    <2>2. memory' = SubBytes(memory, b)
      BY <1>1, <1>5, <2>1 DEF FreeBytes
    <2>3. KindFits(i, "drain") /\ "drain" \in RefundedStages /\ "free" \notin RefundedStages
      BY DEF KindFits, RefundedStages, RanStages
    <2>4. CASE IsFree(i)
      <3>1. LedgerMoves(i, "free", "drain")
        BY <1>2, <2>1, <2>2, <2>3, <2>4, LedgerRefunded
      <3>2. QED
        BY <1>1, <1>5, <3>1, RelabelRun DEF FreeBytes, NodeLabels, RanStages, FreshStages
    <2>5. CASE ~ IsFree(i)
      <3>1. LedgerMoves(i, "free", "drain")
        BY <1>2, <2>5 DEF LedgerMoves, LedgerIn, KindFits
      <3>2. QED
        BY <1>1, <1>5, <3>1, RelabelRun DEF FreeBytes, NodeLabels, RanStages, FreshStages
    <2>6. QED
      BY <2>4, <2>5
  <1>6. CASE DrainStart(t)
    <2>1. Weightless(i, "drain", "scan")
      BY DEF Weightless, KindFits, UnpaidStages, RefundedStages, RanStages
    <2>2. LedgerMoves(i, "drain", "scan")
      BY <1>2, <1>6, <2>1, LedgerStill DEF DrainStart
    <2>3. QED
      BY <1>1, <1>6, <2>2, RelabelRun DEF DrainStart, NodeLabels, RanStages, FreshStages
  <1>7. QED
    BY <1>3, <1>4, <1>5, <1>6

LEMMA SubmitDeferredRun ==
  ASSUME StackTypeOK, StackTypeOK', RunInv, NEW t \in Threads, SubmitDeferred(t)
  PROVE  RunInv'
  <1>1. PICK st, sp, cnt : RunIn(st, sp, cnt)
    BY DEF RunInv
  <1>2. PICK i : i = Top(t).node
    OBVIOUS
  <1> DEFINE st2 == [st EXCEPT ![i] = "deferred"]
  <1>3. /\ FramesIn(st, sp, cnt) /\ PhasesIn(st) /\ RunsIn(st) /\ TasksIn(st) /\ DeferredIn(st)
        /\ st \in [Nodes -> Stages] /\ LedgerIn(st)
    BY <1>1 DEF RunIn, Accounts
  <1>4. At(t, "submit") /\ Leave(t) /\ "submit" \in NodeLabels \ {"succ"}
    BY DEF SubmitDeferred, NodeLabels
  <1>5. i \in Nodes /\ st[i] = "submit"
    BY <1>2, <1>3, <1>4, TopPlace
  <1>6. TasksIn(st2)'
    BY <1>3, <1>5, TasksKept DEF SubmitDeferred
  <1>7. DeferredIn(st2)'
    <2>1. deferred \in Seq(Nodes) /\ deferred' = Append(deferred, i)
      BY <1>2 DEF SubmitDeferred, StackTypeOK
    <2>2. \A n \in DOMAIN deferred : deferred[n] # i /\ st2[deferred[n]] = "deferred"
      BY <1>3, <1>5, <2>1 DEF DeferredIn
    <2>3. st2[i] = "deferred"
      BY <1>3, <1>5
    <2> HIDE DEF st2
    <2>4. \A n \in DOMAIN deferred' : st2[deferred'[n]] = "deferred"
      BY <2>1, <2>2, <2>3
    <2>5. \A m, n \in DOMAIN deferred' : deferred'[m] = deferred'[n] => m = n
      BY <2>1, <2>2, <1>3 DEF DeferredIn
    <2>6. QED
      BY <2>4, <2>5 DEF DeferredIn
  <1>8. PhasesIn(st2)'
    <2>1. PhaseFits("deferred", phase[i])
      BY <1>3, <1>5 DEF PhasesIn, PhaseFits, FreshStages
    <2>2. QED
      BY <1>3, <1>5, <2>1, PhasesKept DEF SubmitDeferred, budgetVars
  <1>9. RunsIn(st2)'
    BY <1>3, <1>5, RunsKept DEF SubmitDeferred, RanStages
  <1>9a. LedgerIn(st2)'
    <2>1. Bytes[i] <= MemoryBudget /\ UNCHANGED memory /\ KindFits(i, st[i])
      BY <1>2, <1>3, <1>5 DEF SubmitDeferred, LedgerIn
    <2>2. Weightless(i, st[i], "deferred")
      BY <1>5, <2>1 DEF Weightless, KindFits, Bounded, UnpaidStages, RefundedStages, RanStages
    <2>3. QED
      BY <1>3, <1>5, <2>1, <2>2, LedgerKept
  <1>10. "deferred" \in Stages \ (InFrame \cup {"waiting", "done"})
    BY DEF Stages, InFrame, NodeLabels
  <1>11. UNCHANGED <<remaining, completed, returned, mutex, ready>>
    BY DEF SubmitDeferred, budgetVars
  <1>12. QED
    BY <1>1, <1>2, <1>4, <1>6, <1>7, <1>8, <1>9, <1>9a, <1>10, <1>11, LeaveRun

\* A task is added for a node that had none.
LEMMA TaskAdded ==
  ASSUME StackTypeOK, NEW st \in [Nodes -> Stages], TasksIn(st), NEW x \in Nodes, NEW s,
         st[x] \notin {"finishing", "queued", "batched"},
         \/ s = "queued" /\ queue' = queue \cup {TaskOf(x)} /\ batch' = batch
         \/ s = "batched" /\ batch' = batch \cup {TaskOf(x)} /\ queue' = queue
         \/ s = "finishing" /\ queue' = queue \cup {<<x, "afinish">>} /\ batch' = batch
  PROVE  TasksIn([st EXCEPT ![x] = s])'
  <1> DEFINE st2 == [st EXCEPT ![x] = s]
  <1>1. st2[x] = s /\ \A y \in Nodes : y # x => st2[y] = st[y]
    OBVIOUS
  <1>2. \A task \in queue \cup batch : task[1] \in Nodes
    BY DEF StackTypeOK, Tasks
  <1>3. \A task \in queue \cup batch : st2[task[1]] = st[task[1]]
    BY <1>1, <1>2 DEF TasksIn
  <1>4. TaskOf(x)[1] = x /\ <<x, "afinish">>[1] = x
    BY DEF TaskOf
  <1> HIDE DEF st2
  <1>5. TasksIn(st2)'
    BY <1>1, <1>3, <1>4 DEF TasksIn
  <1>6. QED
    BY <1>5 DEF st2

\* admit(), the width granted or not needed: the task is in the batch or the pool.
LEMMA AdmitRun ==
  ASSUME TypeOK, StackTypeOK, StackTypeOK', RunInv, NEW t \in Threads,
         AdmitUngated(t) \/ \E m \in MachineWidths(t) : AdmitGranted(t, m)
  PROVE  RunInv'
  <1>1. PICK st, sp, cnt : RunIn(st, sp, cnt)
    BY DEF RunInv
  <1>2. PICK i : i = Top(t).node
    OBVIOUS
  <1>3. /\ FramesIn(st, sp, cnt) /\ PhasesIn(st) /\ RunsIn(st) /\ TasksIn(st) /\ DeferredIn(st)
        /\ st \in [Nodes -> Stages] /\ LedgerIn(st)
    BY <1>1 DEF RunIn, Accounts
  <1>4. /\ At(t, "admit") /\ Leave(t) /\ "admit" \in NodeLabels \ {"succ"}
        /\ EnqueueTask(Top(t).node, Seeding(t))
        /\ UNCHANGED <<remaining, completed, returned, deferred, runs, mutex, ready, memory>>
    BY DEF AdmitUngated, AdmitGranted, AcquireGranted, NodeLabels, budgetVars
  <1>5. i \in Nodes /\ st[i] = "admit"
    BY <1>2, <1>3, <1>4, TopPlace
  <1>6. PICK s \in {"queued", "batched"} :
          \/ s = "queued" /\ queue' = queue \cup {TaskOf(i)} /\ batch' = batch
          \/ s = "batched" /\ batch' = batch \cup {TaskOf(i)} /\ queue' = queue
    BY <1>2, <1>4 DEF EnqueueTask
  <1> DEFINE st2 == [st EXCEPT ![i] = s]
  <1>7. TasksIn(st2)'
    BY <1>3, <1>5, <1>6, TaskAdded
  <1>8. DeferredIn(st2)'
    BY <1>3, <1>4, <1>5, DeferredKept
  <1>9. PhasesIn(st2)'
    <2>1. PhaseFits("admit", phase[i]) /\ \A y \in Nodes : PhaseFits(st[y], phase[y])
      BY <1>3, <1>5 DEF PhasesIn
    <2>2. phase[i] = "idle" /\ phase \in [Requests -> Phases] /\ i \in Requests
      BY <2>1, <1>5, ExecutorAssumption DEF PhaseFits, FreshStages, TypeOK
    <2>3. phase' = phase \/ phase' = [phase EXCEPT ![i] = "held"]
      BY <1>2 DEF AdmitUngated, AdmitGranted, AcquireGranted, budgetVars
    <2>4. phase'[i] \in {"idle", "held"} /\ \A y \in Nodes : y # i => phase'[y] = phase[y]
      BY <2>2, <2>3, ExecutorAssumption
    <2>5. PhaseFits(s, phase'[i])
      BY <1>6, <2>4 DEF PhaseFits, FreshStages
    <2>6. st2[i] = s /\ \A y \in Nodes : y # i => st2[y] = st[y]
      BY <1>3, <1>5
    <2> HIDE DEF st2
    <2>7. \A y \in Nodes : PhaseFits(st2[y], phase'[y])
      BY <2>1, <2>4, <2>5, <2>6
    <2>8. QED
      BY <2>7 DEF PhasesIn
  <1>10. RunsIn(st2)'
    <2>1. st[i] \in RanStages <=> s \in RanStages
      BY <1>5, <1>6 DEF RanStages
    <2>2. QED
      BY <1>3, <1>4, <1>5, <2>1, RunsKept
  <1>10a. LedgerIn(st2)'
    <2>1. Weightless(i, st[i], s)
      BY <1>5, <1>6 DEF Weightless, KindFits, UnpaidStages, RefundedStages, RanStages
    <2>2. QED
      BY <1>3, <1>4, <1>5, <2>1, LedgerKept
  <1>11. s \in Stages \ (InFrame \cup {"waiting", "done"})
    BY <1>6 DEF Stages, InFrame, NodeLabels
  <1>12. QED
    BY <1>1, <1>2, <1>4, <1>7, <1>8, <1>9, <1>10, <1>10a, <1>11, LeaveRun

\* admit(), the width refused: the node is parked at the budget.
LEMMA AdmitParkedRun ==
  ASSUME TypeOK, StackTypeOK, StackTypeOK', RunInv, NEW t \in Threads, NEW m, AdmitParked(t, m)
  PROVE  RunInv'
  <1>1. PICK st, sp, cnt : RunIn(st, sp, cnt)
    BY DEF RunInv
  <1>2. PICK i : i = Top(t).node
    OBVIOUS
  <1> DEFINE st2 == [st EXCEPT ![i] = "budget"]
  <1>3. /\ FramesIn(st, sp, cnt) /\ PhasesIn(st) /\ RunsIn(st) /\ TasksIn(st) /\ DeferredIn(st)
        /\ st \in [Nodes -> Stages] /\ LedgerIn(st)
    BY <1>1 DEF RunIn, Accounts
  <1>4. /\ At(t, "admit") /\ Leave(t) /\ "admit" \in NodeLabels \ {"succ"}
        /\ UNCHANGED <<remaining, completed, returned, deferred, runs, ready, queue, batch, memory>>
        /\ mutex' = t /\ phase' = [phase EXCEPT ![i] = "parked"]
    BY <1>2 DEF AdmitParked, AcquireParked, NodeLabels, scaffold
  <1>5. i \in Nodes /\ st[i] = "admit"
    BY <1>2, <1>3, <1>4, TopPlace
  <1>6. TasksIn(st2)' /\ DeferredIn(st2)'
    BY <1>3, <1>4, <1>5, TasksKept, DeferredKept
  <1>7. PhasesIn(st2)'
    <2>1. \A y \in Nodes : PhaseFits(st[y], phase[y])
      BY <1>3 DEF PhasesIn
    <2>2. phase \in [Requests -> Phases] /\ i \in Requests
      BY <1>5, ExecutorAssumption DEF TypeOK
    <2>3. phase'[i] = "parked" /\ \A y \in Nodes : y # i => phase'[y] = phase[y]
      BY <1>4, <2>2, ExecutorAssumption
    <2>4. PhaseFits("budget", phase'[i])
      BY <2>3 DEF PhaseFits, FreshStages
    <2>5. st2[i] = "budget" /\ \A y \in Nodes : y # i => st2[y] = st[y]
      BY <1>3, <1>5
    <2> HIDE DEF st2
    <2>6. \A y \in Nodes : PhaseFits(st2[y], phase'[y])
      BY <2>1, <2>3, <2>4, <2>5
    <2>7. QED
      BY <2>6 DEF PhasesIn
  <1>8. RunsIn(st2)'
    BY <1>3, <1>4, <1>5, RunsKept DEF RanStages
  <1>8a. LedgerIn(st2)'
    <2>1. Weightless(i, st[i], "budget")
      BY <1>5 DEF Weightless, KindFits, UnpaidStages, RefundedStages, RanStages
    <2>2. QED
      BY <1>3, <1>4, <1>5, <2>1, LedgerKept
  <1>9. "budget" \in Stages \ (InFrame \cup {"waiting", "done"})
    BY DEF Stages, InFrame, NodeLabels
  <1>10. QED
    BY <1>1, <1>2, <1>4, <1>6, <1>7, <1>8, <1>8a, <1>9, LeaveRun

LEMMA RunAsyncStartRun ==
  ASSUME StackTypeOK, StackTypeOK', RunInv, NEW t \in Threads, RunAsyncStart(t)
  PROVE  RunInv'
  <1>1. PICK st, sp, cnt : RunIn(st, sp, cnt)
    BY DEF RunInv
  <1>2. PICK i : i = Top(t).node
    OBVIOUS
  <1> DEFINE st2 == [st EXCEPT ![i] = "finishing"]
  <1>3. /\ FramesIn(st, sp, cnt) /\ PhasesIn(st) /\ RunsIn(st) /\ TasksIn(st) /\ DeferredIn(st)
        /\ st \in [Nodes -> Stages] /\ LedgerIn(st)
    BY <1>1 DEF RunIn, Accounts
  <1>4. /\ At(t, "astart") /\ Leave(t) /\ "astart" \in NodeLabels \ {"succ"}
        /\ UNCHANGED <<remaining, completed, returned, deferred, runs, batch, phase, mutex, ready, memory>>
        /\ queue' = queue \cup {<<i, "afinish">>}
    BY <1>2 DEF RunAsyncStart, NodeLabels, budgetVars
  <1>5. i \in Nodes /\ st[i] = "astart"
    BY <1>2, <1>3, <1>4, TopPlace
  <1>6. TasksIn(st2)'
    BY <1>3, <1>4, <1>5, TaskAdded
  <1>7. DeferredIn(st2)'
    BY <1>3, <1>4, <1>5, DeferredKept
  <1>8. PhasesIn(st2)'
    <2>1. PhaseFits("finishing", phase[i])
      BY <1>3, <1>5 DEF PhasesIn, PhaseFits, FreshStages
    <2>2. QED
      BY <1>3, <1>4, <1>5, <2>1, PhasesKept
  <1>9. RunsIn(st2)'
    BY <1>3, <1>4, <1>5, RunsKept DEF RanStages
  <1>9a. LedgerIn(st2)'
    <2>1. KindFits(i, "astart")
      BY <1>3, <1>5 DEF LedgerIn
    <2>2. Weightless(i, st[i], "finishing")
      BY <1>5, <2>1 DEF Weightless, KindFits, Bounded, Gated, IsFree
    <2>3. QED
      BY <1>3, <1>4, <1>5, <2>2, LedgerKept
  <1>10. "finishing" \in Stages \ (InFrame \cup {"waiting", "done"})
    BY DEF Stages, InFrame, NodeLabels
  <1>11. QED
    BY <1>1, <1>2, <1>4, <1>6, <1>7, <1>8, <1>9, <1>9a, <1>10, LeaveRun

\* The continuation of a parked node queues its task.
LEMMA ResumeRun ==
  ASSUME TypeOK, DueOnce, StackTypeOK, StackTypeOK', RunInv, NEW t \in Threads, ResumeParked(t)
  PROVE  RunInv'
  <1>1. PICK st, sp, cnt : RunIn(st, sp, cnt)
    BY DEF RunInv
  <1>2. PICK i, k : i = Head(ready[t]) /\ k = Depth(t)
    OBVIOUS
  <1> DEFINE st2 == [st EXCEPT ![i] = "queued"]
             sp2 == [sp EXCEPT ![i] = <<t, k>>]
  <1>3. /\ PhasesIn(st) /\ RunsIn(st) /\ TasksIn(st) /\ DeferredIn(st) /\ CallersIn
        /\ st \in [Nodes -> Stages] /\ LedgerIn(st)
    BY <1>1 DEF RunIn, Accounts
  <1>4. /\ ready[t] # <<>> /\ mutex # t /\ queue' = queue \cup {TaskOf(i)}
        /\ ready' = [ready EXCEPT ![t] = Tail(@)] /\ phase' = [phase EXCEPT ![i] = "held"]
        /\ UNCHANGED <<stack, remaining, completed, returned, deferred, runs, batch, mutex, memory>>
    BY <1>2 DEF ResumeParked, Resume, scaffold
  <1>5. ready \in [Threads -> Seq(Requests)] /\ phase \in [Requests -> Phases] /\ Requests = Nodes
    BY ExecutorAssumption DEF TypeOK
  <1>6. i \in Nodes /\ phase[i] = "drained"
    <2>1. 1 \in DOMAIN ready[t] /\ i = ready[t][1] /\ ready[t][1] \in Requests
      BY <1>2, <1>4, <1>5
    <2>2. QED
      BY <2>1, <1>5 DEF DueOnce
  <1>7. st[i] = "budget"
    BY <1>3, <1>6 DEF PhasesIn, PhaseFits
  <1>8. k \in Nat /\ k >= 1 /\ k <= Depth(t) /\ Depth(t)' = k /\ <<t, k>> \in Threads \X Nat
    <2>1. stack[t] # <<>>
      BY <1>3, <1>4 DEF CallersIn
    <2>2. QED
      BY <1>2, <1>4, <2>1, Places DEF Depth
  <1>9. Kept(t, k)
    BY <1>4, <1>8 DEF Kept, Depth, Bot
  <1>10. NewFrames(t, k, st2, sp2, cnt)
    BY <1>8 DEF NewFrames
  <1>11. \A u \in Threads : (mutex' = u \/ ready'[u] # <<>>) => stack'[u] # <<>>
    <2>1. stack[t] # <<>>
      BY <1>3, <1>4 DEF CallersIn
    <2>2. \A u \in Threads : u # t => ready'[u] = ready[u]
      BY <1>4, <1>5
    <2>3. QED
      BY <1>3, <1>4, <2>1, <2>2 DEF CallersIn
  <1>12. TasksIn(st2)'
    BY <1>3, <1>4, <1>6, <1>7, TaskAdded
  <1>13. DeferredIn(st2)'
    BY <1>3, <1>4, <1>6, <1>7, DeferredKept
  <1>14. PhasesIn(st2)'
    <2>1. \A y \in Nodes : PhaseFits(st[y], phase[y])
      BY <1>3 DEF PhasesIn
    <2>2. phase'[i] = "held" /\ \A y \in Nodes : y # i => phase'[y] = phase[y]
      BY <1>4, <1>5, <1>6
    <2>3. PhaseFits("queued", phase'[i])
      BY <2>2 DEF PhaseFits, FreshStages
    <2>4. st2[i] = "queued" /\ \A y \in Nodes : y # i => st2[y] = st[y]
      BY <1>3, <1>6
    <2> HIDE DEF st2
    <2>5. \A y \in Nodes : PhaseFits(st2[y], phase'[y])
      BY <2>1, <2>2, <2>3, <2>4
    <2>6. QED
      BY <2>5 DEF PhasesIn
  <1>15. RunsIn(st2)'
    BY <1>3, <1>4, <1>6, <1>7, RunsKept DEF RanStages
  <1>15a. LedgerIn(st2)'
    <2>1. Weightless(i, st[i], "queued")
      BY <1>7 DEF Weightless, KindFits, UnpaidStages, RefundedStages, RanStages
    <2>2. QED
      BY <1>3, <1>4, <1>6, <2>1, LedgerKept
  <1>16. "queued" \in Stages /\ st[i] \notin InFrame /\ st[i] \notin {"waiting", "succ", "done"}
    BY <1>7 DEF Stages, InFrame, NodeLabels
  <1>17. UNCHANGED <<remaining, completed, returned>>
    BY <1>4
  <1>18. QED
    BY <1>1, <1>6, <1>8, <1>9, <1>10, <1>11, <1>12, <1>13, <1>14, <1>15, <1>15a, <1>16, <1>17, MoveRun

\* Steps in which no node moves: the phases may, where the stage has room.
LEMMA QuietRun ==
  ASSUME StackTypeOK, RunInv,
         UNCHANGED <<stack, queue, batch, remaining, completed, deferred, memory, runs, returned>>,
         \A u \in Threads : mutex' = u \/ ready'[u] # <<>> => mutex = u \/ ready[u] # <<>>,
         \A y \in Nodes : phase'[y] = phase[y] \/ (phase[y] = "parked" /\ phase'[y] = "drained")
  PROVE  RunInv'
  <1>1. PICK st, sp, cnt : RunIn(st, sp, cnt)
    BY DEF RunInv
  <1>2. /\ FramesIn(st, sp, cnt) /\ PhasesIn(st) /\ RunsIn(st) /\ TasksIn(st) /\ DeferredIn(st)
        /\ CallersIn /\ CountsIn(st, cnt) /\ CompletedIn(st) /\ Accounts(st, sp, cnt) /\ LedgerIn(st)
    BY <1>1 DEF RunIn
  <1>3. FramesIn(st, sp, cnt)'
    BY <1>2 DEF FramesIn, Depth, Bot
  <1>4. PhasesIn(st)'
    <2> SUFFICES ASSUME NEW y \in Nodes PROVE PhaseFits(st[y], phase'[y])
      BY DEF PhasesIn
    <2>1. PhaseFits(st[y], phase[y])
      BY <1>2 DEF PhasesIn
    <2>2. QED
      BY <2>1 DEF PhaseFits, FreshStages
  <1>5. CallersIn'
    BY <1>2 DEF CallersIn
  <1>6. RunsIn(st)' /\ TasksIn(st)' /\ DeferredIn(st)' /\ CompletedIn(st)' /\ LedgerIn(st)'
    BY <1>2 DEF RunsIn, TasksIn, DeferredIn, CompletedIn, LedgerIn
  <1>7. CountsIn(st, cnt)'
    BY <1>2 DEF CountsIn, CountIn, Started, Bot
  <1>8. RunIn(st, sp, cnt)'
    BY <1>2, <1>3, <1>4, <1>5, <1>6, <1>7 DEF RunIn, Accounts
  <1>9. QED
    BY <1>8 DEF RunInv

LEMMA DrainBudgetRun ==
  ASSUME TypeOK, QueuedOnce, StackTypeOK, RunInv, NEW t \in Threads, DrainBudget(t)
  PROVE  RunInv'
  <1>1. UNCHANGED <<stack, queue, batch, remaining, completed, deferred, memory, runs, returned>>
    BY DEF DrainBudget, execVars, scaffold
  <1>2. CASE DrainHead(t)
    <2>1. PICK e \in parked : /\ ready' = [ready EXCEPT ![t] = Append(@, e.req)]
                              /\ phase' = [phase EXCEPT ![e.req] = "drained"]
      BY <1>2 DEF DrainHead
    <2>2. /\ phase[e.req] = "parked" /\ e.req \in Requests
          /\ phase \in [Requests -> Phases] /\ ready \in [Threads -> Seq(Requests)]
      BY <2>1 DEF QueuedOnce, TypeOK, Entries
    <2>3. \A y \in Nodes : phase'[y] = phase[y] \/ (phase[y] = "parked" /\ phase'[y] = "drained")
      BY <2>1, <2>2, ExecutorAssumption
    <2>4. mutex = t /\ mutex' = mutex /\ \A u \in Threads : u # t => ready'[u] = ready[u]
      BY <1>2, <2>1, <2>2 DEF DrainHead
    <2>5. \A u \in Threads : mutex' = u \/ ready'[u] # <<>> => mutex = u \/ ready[u] # <<>>
      BY <2>4
    <2>6. QED
      BY <1>1, <2>3, <2>5, QuietRun
  <1>3. CASE DrainStop(t)
    <2>1. mutex' = NoThread /\ UNCHANGED <<ready, phase>>
      BY <1>3 DEF DrainStop
    <2>2. \A u \in Threads : mutex' = u \/ ready'[u] # <<>> => mutex = u \/ ready[u] # <<>>
      BY <2>1, BudgetAssumption
    <2>3. QED
      BY <1>1, <2>1, <2>2, QuietRun
  <1>4. QED
    BY <1>2, <1>3 DEF DrainBudget

LEMMA DrainSkipRun ==
  ASSUME StackTypeOK, RunInv, NEW t \in Threads, DrainSkip(t)
  PROVE  RunInv'
  <1>1. UNCHANGED <<stack, queue, batch, remaining, completed, deferred, memory, runs, returned>>
    BY DEF DrainSkip
  <1>2. UNCHANGED <<mutex, ready, phase>>
    BY DEF DrainSkip, budgetVars
  <1>3. QED
    BY <1>1, <1>2, QuietRun

\* A thread takes a task: its frame is on top of the thread's stack.
LEMMA TakeTaskRun ==
  ASSUME StackTypeOK, StackTypeOK', RunInv, NEW t \in Threads, TakeTask(t)
  PROVE  RunInv'
  <1>1. PICK st, sp, cnt : RunIn(st, sp, cnt)
    BY DEF RunInv
  <1>2. PICK task \in queue :
          /\ queue' = queue \ {task}
          /\ stack' = [stack EXCEPT ![t] = <<Frame(task[2], task[1])>> \o @]
    BY DEF TakeTask
  <1>3. PICK i, s, D : i = task[1] /\ s = task[2] /\ D = Depth(t)
    OBVIOUS
  <1> DEFINE st2 == [st EXCEPT ![i] = s]
             sp2 == [sp EXCEPT ![i] = <<t, D + 1>>]
  <1>4. /\ PhasesIn(st) /\ RunsIn(st) /\ TasksIn(st) /\ DeferredIn(st) /\ CallersIn
        /\ LedgerIn(st) /\ st \in [Nodes -> Stages] /\ sp \in [Nodes -> Threads \X Nat]
    BY <1>1 DEF RunIn, Accounts
  <1>5. /\ i \in Nodes /\ s \in {"run", "astart", "afinish"}
        /\ \/ st[i] = "finishing" /\ s = "afinish"
           \/ st[i] = "queued" /\ s \in {"run", "astart"}
        /\ st[i] = "finishing" => task = <<i, "afinish">>
        /\ st[i] = "queued" => task = TaskOf(i)
    BY <1>2, <1>3, <1>4 DEF StackTypeOK, Tasks, TasksIn, TaskOf
  <1>6. Kept(t, D) /\ Depth(t)' = D + 1 /\ Bot(t, D + 1)' = Frame(s, i)
    BY <1>2, <1>3, PushPlaces
  <1>7. D \in Nat /\ (t = Main => D >= 1) /\ <<t, D + 1>> \in Threads \X Nat /\ D <= Depth(t)
    <2>1. t = Main => stack[t] # <<>>
      BY DEF TakeTask, MayTake, At
    <2>2. QED
      BY <1>3, <2>1, Places
  <1>8. FrameIn(Frame(s, i), t, D + 1, st2, sp2, cnt)
    <2>1. st2[i] = s /\ sp2[i] = <<t, D + 1>>
      BY <1>4, <1>5
    <2>2. s \in NodeLabels \ {"succ"} /\ s \notin {"submit", "admit"} /\ (t = Main => D + 1 # 1)
      BY <1>5, <1>7 DEF NodeLabels
    <2> HIDE DEF st2, sp2
    <2>3. QED
      BY <2>1, <2>2, FreshIn
  <1>9. NewFrames(t, D, st2, sp2, cnt)
    <2> SUFFICES ASSUME NEW d \in Nat, D < d, d <= D + 1 PROVE FrameIn(Bot(t, d)', t, d, st2, sp2, cnt)
      BY <1>6 DEF NewFrames
    <2>1. d = D + 1
      BY <1>7
    <2>2. QED
      BY <2>1, <1>6, <1>8
  <1>10. UNCHANGED <<remaining, completed, returned, batch, deferred, runs, mutex, ready, phase, memory>>
    BY DEF TakeTask, budgetVars, scaffold
  <1>11. \A u \in Threads : (mutex' = u \/ ready'[u] # <<>>) => stack'[u] # <<>>
    <2>1. \A u \in Threads : u # t /\ (mutex' = u \/ ready'[u] # <<>>) => mutex = u \/ ready[u] # <<>>
      BY <1>10
    <2>2. Depth(t)' >= 1
      BY <1>6, <1>7
    <2>3. QED
      BY <2>1, <2>2, <1>4, <1>6, CallersKept
  <1>12. TasksIn(st2)'
    <2>1. st2[i] = s /\ \A y \in Nodes : y # i => st2[y] = st[y]
      BY <1>4, <1>5
    <2>2. \A q \in queue \cup batch : q[1] \in Nodes
      BY DEF StackTypeOK, Tasks
    <2>3. \A q \in queue' \cup batch' : q[1] # i
      BY <1>2, <1>4, <1>5, <1>10 DEF TasksIn
    <2> HIDE DEF st2
    <2>4. \A q \in queue' \cup batch' : st2[q[1]] = st[q[1]] /\ q \in queue \cup batch
      BY <1>2, <1>10, <2>1, <2>2, <2>3
    <2>5. QED
      BY <1>2, <1>4, <1>10, <2>4 DEF TasksIn
  <1>13. DeferredIn(st2)'
    BY <1>4, <1>5, <1>10, DeferredKept
  <1>14. PhasesIn(st2)'
    <2>1. PhaseFits(st[i], phase[i])
      BY <1>4, <1>5 DEF PhasesIn
    <2>2. PhaseFits(s, phase[i])
      BY <1>5, <2>1 DEF PhaseFits, FreshStages
    <2>3. QED
      BY <1>4, <1>5, <1>10, <2>2, PhasesKept
  <1>15. RunsIn(st2)'
    <2>1. st[i] \in RanStages <=> s \in RanStages
      BY <1>5 DEF RanStages
    <2>2. QED
      BY <1>4, <1>5, <1>10, <2>1, RunsKept
  <1>15a. LedgerIn(st2)'
    <2>1. s \in {"astart", "afinish"} => Kind[i] = "async"
      BY <1>3, <1>4, <1>5 DEF TaskOf, LedgerIn, KindFits
    <2>2. Weightless(i, st[i], s)
      BY <1>5, <2>1 DEF Weightless, KindFits, UnpaidStages, RefundedStages, RanStages
    <2>3. QED
      BY <1>4, <1>5, <1>10, <2>2, LedgerKept
  <1>16. /\ s \in Stages /\ s \notin {"waiting", "done"}
         /\ st[i] \notin InFrame /\ st[i] \notin {"waiting", "succ", "done"}
    BY <1>5 DEF Stages, InFrame, NodeLabels
  <1>17. QED
    BY <1>1, <1>5, <1>6, <1>7, <1>9, <1>10, <1>11, <1>12, <1>13, <1>14, <1>15, <1>15a, <1>16, MoveRun

\* The sequence s without its n-th entry.
IsWithout(r, s, n) == r = SubSeq(s, 1, n - 1) \o SubSeq(s, n + 1, Len(s))
Distinct(s) == \A k, l \in DOMAIN s : s[k] = s[l] => k = l

LEMMA WithoutEntry ==
  ASSUME NEW S, NEW s \in Seq(S), NEW n \in DOMAIN s, NEW r, IsWithout(r, s, n),
         NEW m \in DOMAIN r
  PROVE  /\ m \in Nat
         /\ m < n => r[m] = s[m] /\ m \in DOMAIN s
         /\ ~ (m < n) => r[m] = s[m + 1] /\ m + 1 \in DOMAIN s /\ m + 1 # n
  <1> DEFINE a == SubSeq(s, 1, n - 1)
             b == SubSeq(s, n + 1, Len(s))
  <1>1. n \in Nat /\ n >= 1 /\ n <= Len(s) /\ Len(s) \in Nat /\ DOMAIN s = 1 .. Len(s)
    OBVIOUS
  <1>2. a \in Seq(S) /\ Len(a) = n - 1 /\ \A l \in 1 .. n - 1 : a[l] = s[l]
    BY <1>1
  <1>3. b \in Seq(S) /\ Len(b) = Len(s) - n /\ \A l \in 1 .. Len(s) - n : b[l] = s[n + l]
    <2>1. \A l \in n + 1 .. Len(s) : s[l] \in S
      BY <1>1
    <2>2. /\ b \in Seq(S)
          /\ Len(b) = IF n + 1 <= Len(s) THEN Len(s) - (n + 1) + 1 ELSE 0
          /\ \A l \in 1 .. Len(s) - (n + 1) + 1 : b[l] = s[n + 1 + l - 1]
      BY <1>1, <2>1, SubSeqProperties
    <2> HIDE DEF b
    <2>3. Len(b) = Len(s) - n
      BY <1>1, <2>2, SMTT(60)
    <2>4. ASSUME NEW l \in 1 .. Len(s) - n PROVE b[l] = s[n + l]
      <3>1. l \in 1 .. Len(s) - (n + 1) + 1 /\ n + 1 + l - 1 = n + l
        BY <1>1
      <3>2. QED
        BY <2>2, <3>1
    <2>5. QED
      BY <2>2, <2>3, <2>4
  <1> HIDE DEF a, b
  <1>4. r = a \o b
    BY DEF a, b, IsWithout
  <1>5. /\ r \in Seq(S) /\ Len(r) = Len(a) + Len(b)
        /\ \A l \in 1 .. Len(a) + Len(b) : r[l] = IF l <= Len(a) THEN a[l] ELSE b[l - Len(a)]
    <2>1. a \in Seq(S) /\ b \in Seq(S)
      BY <1>2, <1>3
    <2>2. /\ a \o b \in Seq(S) /\ Len(a \o b) = Len(a) + Len(b)
          /\ \A l \in 1 .. Len(a) + Len(b) : (a \o b)[l] = IF l <= Len(a) THEN a[l] ELSE b[l - Len(a)]
      BY <2>1, ConcatProperties, Zenon
    <2>3. QED
      BY <2>2, <1>4, Zenon
  <1>6. m \in 1 .. Len(s) - 1 /\ r[m] = IF m <= n - 1 THEN a[m] ELSE b[m - (n - 1)]
    <2>1. Len(a) + Len(b) = Len(s) - 1 /\ Len(a) = n - 1
      BY <1>1, <1>2, <1>3
    <2>2. m \in 1 .. Len(s) - 1
      BY <1>5, <2>1
    <2>3. QED
      BY <1>5, <2>1, <2>2
  <1>7. CASE m < n
    <2>1. m <= n - 1 /\ m \in 1 .. n - 1 /\ m \in DOMAIN s /\ m # n /\ m \in Nat
      BY <1>1, <1>6, <1>7
    <2>2. r[m] = s[m]
      BY <2>1, <1>2, <1>6
    <2>3. QED
      BY <2>1, <2>2, <1>7
  <1>8. CASE ~ (m < n)
    <2>1. m \in Nat /\ m >= n /\ m <= Len(s) - 1 /\ m + 1 \in DOMAIN s
      BY <1>1, <1>6, <1>8
    <2>4. ~ (m <= n - 1) /\ m - (n - 1) \in 1 .. Len(s) - n /\ m + 1 # n /\ n + (m - (n - 1)) = m + 1
      <3>1. n \in Nat /\ Len(s) \in Nat /\ m \in Nat /\ m >= n /\ m <= Len(s) - 1
        BY <1>1, <2>1
      <3>2. ~ (m <= n - 1) /\ m + 1 # n /\ n + (m - (n - 1)) = m + 1
        BY <3>1
      <3>3. m - (n - 1) \in Int /\ m - (n - 1) >= 1 /\ m - (n - 1) <= Len(s) - n
        BY <3>1
      <3>4. QED
        BY <3>1, <3>2, <3>3
    <2>2. r[m] = s[m + 1]
      BY <2>4, <1>3, <1>6
    <2>3. QED
      BY <2>1, <2>2, <2>4, <1>8
  <1>9. QED
    BY <1>7, <1>8

\* Without repetitions, what is left are the other entries, each once.
LEMMA WithoutDistinct ==
  ASSUME NEW S, NEW s \in Seq(S), NEW n \in DOMAIN s, NEW r, IsWithout(r, s, n), Distinct(s)
  PROVE  /\ \A m \in DOMAIN r : r[m] \in S /\ r[m] # s[n] /\ \E k \in DOMAIN s : r[m] = s[k]
         /\ Distinct(r)
  <1> DEFINE From(m) == IF m < n THEN m ELSE m + 1
  <1>1. ASSUME NEW m \in DOMAIN r
        PROVE  /\ m \in Nat /\ From(m) \in DOMAIN s /\ From(m) # n
               /\ r[m] = s[From(m)] /\ s[From(m)] \in S
    <2>1. /\ m \in Nat
          /\ m < n => r[m] = s[m] /\ m \in DOMAIN s
          /\ ~ (m < n) => r[m] = s[m + 1] /\ m + 1 \in DOMAIN s /\ m + 1 # n
      BY WithoutEntry
    <2>2. CASE m < n
      BY <2>1, <2>2
    <2>3. CASE ~ (m < n)
      BY <2>1, <2>3
    <2>4. QED
      BY <2>2, <2>3
  <1>2. n \in Nat
    OBVIOUS
  <1>3. ASSUME NEW k \in DOMAIN r, NEW l \in DOMAIN r, From(k) = From(l) PROVE k = l
    BY <1>1, <1>2, <1>3
  <1> HIDE DEF From
  <1>4. \A m \in DOMAIN r : r[m] \in S /\ r[m] # s[n] /\ \E k \in DOMAIN s : r[m] = s[k]
    BY <1>1 DEF Distinct
  <1>5. ASSUME NEW k \in DOMAIN r, NEW l \in DOMAIN r, r[k] = r[l] PROVE k = l
    <2>1. From(k) = From(l)
      BY <1>1, <1>5 DEF Distinct
    <2>2. QED
      BY <1>3, <2>1
  <1>6. QED
    BY <1>4, <1>5 DEF Distinct

\* drain_deferred() takes a node out of the deferred ones.
LEMMA DrainTakeRun ==
  ASSUME StackTypeOK, StackTypeOK', RunInv, NEW t \in Threads, DrainTake(t)
  PROVE  RunInv'
  <1>1. PICK st, sp, cnt : RunIn(st, sp, cnt)
    BY DEF RunInv
  <1>2. PICK i, x, D, f, n :
          /\ i = Top(t).node /\ x = deferred[scan] /\ D = Depth(t) /\ n = scan
          /\ f = [Top(t) EXCEPT !.runnable = Append(@, x)]
    OBVIOUS
  <1> DEFINE k == D - 1
             st2 == [st EXCEPT ![x] = "runnable"]
             sp2 == [sp EXCEPT ![x] = <<t, D>>]
  <1>3. /\ FramesIn(st, sp, cnt) /\ PhasesIn(st) /\ RunsIn(st) /\ TasksIn(st) /\ DeferredIn(st)
        /\ LedgerIn(st) /\ CallersIn /\ st \in [Nodes -> Stages] /\ sp \in [Nodes -> Threads \X Nat]
    BY <1>1 DEF RunIn, Accounts
  <1>4. /\ At(t, "scan") /\ Goto(t, f) /\ n \in DOMAIN deferred /\ x = deferred[n]
        /\ deferred' = SubSeq(deferred, 1, n - 1) \o SubSeq(deferred, n + 1, Len(deferred))
        /\ UNCHANGED <<remaining, completed, returned, queue, batch, runs, mutex, ready, phase>>
    BY <1>2 DEF DrainTake, budgetVars
  <1>5. "scan" \in NodeLabels
    BY DEF NodeLabels
  <1>6. /\ D \in Nat /\ D >= 1 /\ i \in Nodes /\ st[i] = "scan" /\ sp[i] = <<t, D>>
        /\ t = Main => D >= 2
        /\ FrameIn(Top(t), t, D, st, sp, cnt)
    BY <1>2, <1>3, <1>4, <1>5, TopPlace
  <1>7. x \in Nodes /\ st[x] = "deferred" /\ x # i
    BY <1>3, <1>4, <1>6 DEF StackTypeOK, DeferredIn
  <1>8. Kept(t, k) /\ Depth(t)' = D /\ Bot(t, D)' = f
    BY <1>2, <1>4, GotoPlaces DEF At
  <1>9. k \in Nat /\ k <= Depth(t) /\ (t = Main => k >= 1) /\ <<t, D>> \in Threads \X Nat
    BY <1>2, <1>6
  <1>10. FrameIn(f, t, D, st2, sp2, cnt)
    <2> DEFINE r == Top(t).runnable
    <2>1. Top(t) \in NodeFrames /\ Top(t).at = "scan" /\ r \in Seq(Nodes)
      BY <1>4, <1>5, TopFrame DEF At
    <2>2. /\ \A m \in DOMAIN r : st[r[m]] = "runnable" /\ sp[r[m]] = <<t, D>>
          /\ \A m, l \in DOMAIN r : r[m] = r[l] => m = l
      BY <1>6, <2>1, <1>5 DEF FrameIn
    <2>3. st2[x] = "runnable" /\ sp2[x] = <<t, D>>
          /\ \A y \in Nodes : y # x => st2[y] = st[y] /\ sp2[y] = sp[y]
      BY <1>3, <1>7
    <2>4. f.at = "scan" /\ f.node = i /\ f.runnable = Append(r, x)
      BY <1>2, <2>1 DEF NodeFrames
    <2>5. \A m \in DOMAIN r : r[m] # x /\ r[m] \in Nodes
      BY <1>7, <2>1, <2>2
    <2> DEFINE r2 == Append(r, x)
    <2>6. \A m \in DOMAIN r2 : (m \in DOMAIN r /\ r2[m] = r[m]) \/ (m = Len(r) + 1 /\ r2[m] = x)
      BY <1>7, <2>1
    <2> HIDE DEF st2, sp2, r2, r
    <2>7. ASSUME NEW m \in DOMAIN r2 PROVE st2[r2[m]] = "runnable" /\ sp2[r2[m]] = <<t, D>>
      <3>1. CASE m \in DOMAIN r /\ r2[m] = r[m]
        <4>1. /\ st[r[m]] = "runnable" /\ sp[r[m]] = <<t, D>>
              /\ r[m] # x /\ r[m] \in Nodes
          BY <3>1, <2>2, <2>5
        <4>2. QED
          BY <3>1, <4>1, <2>3
      <3>2. CASE r2[m] = x
        BY <3>2, <2>3
      <3>3. QED
        BY <3>1, <3>2, <2>6
    <2>8. \A m, l \in DOMAIN r2 : r2[m] = r2[l] => m = l
      BY <2>2, <2>5, <2>6
    <2>9. st2[i] = "scan" /\ sp2[i] = <<t, D>>
      BY <1>6, <1>7, <2>3
    <2>10. f.runnable = r2
      BY <2>4 DEF r2
    <2>11. t = Main => D # 1
      BY <1>6
    <2>12. QED
      BY <2>4, <2>7, <2>8, <2>9, <2>10, <2>11 DEF FrameIn, NodeLabels, CallerLabels
  <1>11. NewFrames(t, k, st2, sp2, cnt)
    <2> SUFFICES ASSUME NEW d \in Nat, k < d, d <= D PROVE FrameIn(Bot(t, d)', t, d, st2, sp2, cnt)
      BY <1>8 DEF NewFrames
    <2>1. d = D
      BY <1>6
    <2>2. QED
      BY <2>1, <1>8, <1>10
  <1>12. \A u \in Threads : (mutex' = u \/ ready'[u] # <<>>) => stack'[u] # <<>>
    <2>1. \A u \in Threads : u # t /\ (mutex' = u \/ ready'[u] # <<>>) => mutex = u \/ ready[u] # <<>>
      BY <1>4
    <2>2. Depth(t)' >= 1
      BY <1>6, <1>8
    <2>3. QED
      BY <2>1, <2>2, <1>3, <1>8, CallersKept
  <1>13. TasksIn(st2)'
    BY <1>3, <1>4, <1>7, TasksKept
  <1>14. DeferredIn(st2)'
    <2>1. deferred \in Seq(Nodes) /\ n \in 1 .. Len(deferred)
      BY <1>4 DEF StackTypeOK
    <2>2. /\ \A m \in DOMAIN deferred : st[deferred[m]] = "deferred" /\ deferred[m] \in Nodes
          /\ \A m, l \in DOMAIN deferred : deferred[m] = deferred[l] => m = l
      BY <1>3, <2>1 DEF DeferredIn
    <2>3. PICK r : r = deferred'
      OBVIOUS
    <2>4. /\ \A m \in DOMAIN r : r[m] \in Nodes /\ r[m] # deferred[n]
                               /\ \E k2 \in DOMAIN deferred : r[m] = deferred[k2]
          /\ \A m, l \in DOMAIN r : r[m] = r[l] => m = l
      <3>1. n \in DOMAIN deferred /\ IsWithout(r, deferred, n) /\ Distinct(deferred)
        BY <1>4, <2>2, <2>3 DEF IsWithout, Distinct
      <3>2. /\ \A m \in DOMAIN r : r[m] \in Nodes /\ r[m] # deferred[n]
                                 /\ \E k2 \in DOMAIN deferred : r[m] = deferred[k2]
            /\ Distinct(r)
        BY <2>1, <3>1, WithoutDistinct
      <3>3. QED
        BY <3>2 DEF Distinct
    <2>5. \A m \in DOMAIN r : st2[r[m]] = "deferred"
      BY <1>3, <1>4, <1>7, <2>2, <2>4
    <2>6. QED
      BY <2>3, <2>4, <2>5 DEF DeferredIn
  <1>15. PhasesIn(st2)'
    <2>1. PhaseFits("runnable", phase[x])
      BY <1>3, <1>7 DEF PhasesIn, PhaseFits, FreshStages
    <2>2. QED
      BY <1>3, <1>4, <1>7, <2>1, PhasesKept
  <1>16. RunsIn(st2)'
    BY <1>3, <1>4, <1>7, RunsKept DEF RanStages
  <1>16a. LedgerIn(st2)'
    <2>1. PICK b : b = Bytes[x]
      OBVIOUS
    <2>2. BytesFit(memory, b) /\ memory' = AddBytes(memory, b)
      BY <1>2, <2>1 DEF DrainTake
    <2>3. Bounded(x)
      BY <1>3, <1>7 DEF LedgerIn, KindFits
    <2>4. KindFits(x, "runnable") /\ "runnable" \notin UnpaidStages /\ "deferred" \in UnpaidStages
      BY DEF KindFits, UnpaidStages
    <2>5. LedgerMoves(x, "deferred", "runnable")
      BY <1>7, <2>1, <2>2, <2>3, <2>4, LedgerCharged
    <2>6. QED
      BY <1>3, <1>7, <2>5 DEF LedgerMoves
  <1>17. /\ "runnable" \in Stages /\ st[x] \notin InFrame /\ st[x] \notin {"waiting", "succ", "done"}
    BY <1>7 DEF Stages, InFrame, NodeLabels
  <1> HIDE DEF k
  <1>18. QED
    BY <1>1, <1>4, <1>7, <1>8, <1>9, <1>11, <1>12, <1>13, <1>14, <1>15, <1>16, <1>16a, <1>17, MoveRun, ZenonT(60)

\* drain_deferred() drops its lock with what it took.
LEMMA DrainEndRun ==
  ASSUME StackTypeOK, StackTypeOK', RunInv, NEW t \in Threads, DrainEnd(t)
  PROVE  RunInv'
  <1>1. PICK st, sp, cnt : RunIn(st, sp, cnt)
    BY DEF RunInv
  <1>2. PICK i, D, f : i = Top(t).node /\ D = Depth(t) /\ f = [Top(t) EXCEPT !.at = "readmit"]
    OBVIOUS
  <1> DEFINE st2 == [st EXCEPT ![i] = "readmit"]
             sp2 == [sp EXCEPT ![i] = <<t, D>>]
  <1>3. /\ FramesIn(st, sp, cnt) /\ PhasesIn(st) /\ RunsIn(st) /\ LedgerIn(st)
        /\ st \in [Nodes -> Stages] /\ sp \in [Nodes -> Threads \X Nat]
    BY <1>1 DEF RunIn, Accounts
  <1>4. /\ At(t, "scan") /\ Goto(t, f) /\ "scan" \in NodeLabels \ {"succ"} /\ "readmit" \in NodeLabels
        /\ UNCHANGED <<remaining, completed, returned, queue, batch, deferred, runs, mutex, ready, phase, memory>>
    BY <1>2 DEF DrainEnd, budgetVars, NodeLabels
  <1>5. /\ D \in Nat /\ D >= 1 /\ i \in Nodes /\ st[i] = "scan" /\ sp[i] = <<t, D>>
        /\ t = Main => D >= 2
        /\ FrameIn(Top(t), t, D, st, sp, cnt)
    BY <1>2, <1>3, <1>4, TopPlace
  <1>6. FrameIn(f, t, D, st2, sp2, cnt)
    <2> DEFINE r == Top(t).runnable
    <2>1. Top(t) \in NodeFrames /\ Top(t).at = "scan" /\ r \in Seq(Nodes)
      BY <1>4, TopFrame DEF At
    <2>2. /\ \A m \in DOMAIN r : st[r[m]] = "runnable" /\ sp[r[m]] = <<t, D>>
          /\ \A m, l \in DOMAIN r : r[m] = r[l] => m = l
          /\ \A m \in DOMAIN r : r[m] \in Nodes
      <3>1. "scan" \in NodeLabels /\ \A m \in DOMAIN r : r[m] \in Nodes
        BY <2>1 DEF NodeLabels
      <3>2. QED
        BY <3>1, <1>5, <2>1 DEF FrameIn
    <2>3. /\ st2[i] = "readmit" /\ sp2[i] = <<t, D>>
          /\ \A y \in Nodes : y # i => st2[y] = st[y] /\ sp2[y] = sp[y]
      BY <1>3, <1>5
    <2>4. f.at = "readmit" /\ f.node = i /\ f.runnable = r
      BY <1>2, <2>1 DEF NodeFrames
    <2> HIDE DEF st2, sp2, r
    <2>5. \A m \in DOMAIN r : st2[r[m]] = "runnable" /\ sp2[r[m]] = <<t, D>>
      BY <1>5, <2>2, <2>3
    <2>6. t = Main => D # 1
      BY <1>5
    <2>7. QED
      BY <2>2, <2>3, <2>4, <2>5, <2>6 DEF FrameIn, NodeLabels, CallerLabels
  <1>7. PhasesIn(st2)'
    <2>1. PhaseFits("readmit", phase[i])
      BY <1>3, <1>5 DEF PhasesIn, PhaseFits, FreshStages
    <2>2. QED
      BY <1>3, <1>4, <1>5, <2>1, PhasesKept
  <1>8. RunsIn(st2)'
    BY <1>3, <1>4, <1>5, RunsKept DEF RanStages
  <1>8a. LedgerIn(st2)'
    <2>1. Weightless(i, st[i], "readmit")
      BY <1>5 DEF Weightless, KindFits, UnpaidStages, RefundedStages, RanStages
    <2>2. QED
      BY <1>3, <1>4, <1>5, <2>1, LedgerKept
  <1>9. QED
    BY <1>1, <1>2, <1>4, <1>6, <1>7, <1>8, <1>8a, GotoRun

\* The nodes taken are admitted one by one, then the Free itself completes.
LEMMA ReadmitRun ==
  ASSUME StackTypeOK, StackTypeOK', RunInv, NEW t \in Threads, Readmit(t)
  PROVE  RunInv'
  <1>1. PICK st, sp, cnt : RunIn(st, sp, cnt)
    BY DEF RunInv
  <1>2. CASE Top(t).runnable = <<>>
    <2>1. /\ At(t, "readmit") /\ Goto(t, Frame("complete", Top(t).node))
          /\ UNCHANGED <<budgetVars, queue, batch, deferred, remaining, completed, returned, runs>>
      BY <1>2 DEF Readmit, scaffold
    <2>2. PICK i : i = Top(t).node
      OBVIOUS
    <2>3. i \in Nodes /\ UNCHANGED memory
      BY <1>2, <2>1, <2>2, TopFrame DEF At, NodeFrames, NodeLabels, Readmit, scaffold
    <2>4. Weightless(i, "readmit", "complete")
      BY DEF Weightless, KindFits, UnpaidStages, RefundedStages, RanStages
    <2>5. LedgerMoves(i, "readmit", "complete")
      BY <2>3, <2>4, LedgerStill
    <2>6. QED
      BY <2>1, <2>2, <2>5, RelabelRun DEF NodeLabels, RanStages, FreshStages
  <1>3. CASE Top(t).runnable # <<>>
    <2> DEFINE r == Top(t).runnable
    <2>1. PICK i, x, D, f :
            /\ i = Top(t).node /\ x = Head(r) /\ D = Depth(t)
            /\ f = [Top(t) EXCEPT !.runnable = Tail(@)]
      OBVIOUS
    <2> DEFINE k == D - 1
               st2 == [st EXCEPT ![x] = "admit"]
               sp2 == [sp EXCEPT ![x] = <<t, D + 1>>]
    <2>2. /\ FramesIn(st, sp, cnt) /\ PhasesIn(st) /\ RunsIn(st) /\ TasksIn(st) /\ DeferredIn(st)
          /\ LedgerIn(st) /\ CallersIn /\ st \in [Nodes -> Stages] /\ sp \in [Nodes -> Threads \X Nat]
      BY <1>1 DEF RunIn, Accounts
    <2>3. /\ At(t, "readmit") /\ Call(t, f, Frame("admit", x)) /\ "readmit" \in NodeLabels
          /\ UNCHANGED <<remaining, completed, returned, queue, batch, deferred, runs, mutex, ready, phase, memory>>
      BY <1>3, <2>1 DEF Readmit, budgetVars, scaffold, NodeLabels
    <2>4. /\ D \in Nat /\ D >= 1 /\ i \in Nodes /\ st[i] = "readmit" /\ sp[i] = <<t, D>>
          /\ t = Main => D >= 2
          /\ FrameIn(Top(t), t, D, st, sp, cnt)
      BY <2>1, <2>2, <2>3, TopPlace
    <2>5. Top(t) \in NodeFrames /\ Top(t).at = "readmit" /\ r \in Seq(Nodes)
      BY <2>3, TopFrame DEF At
    <2>6. /\ \A m \in DOMAIN r : st[r[m]] = "runnable" /\ sp[r[m]] = <<t, D>>
          /\ \A m, l \in DOMAIN r : r[m] = r[l] => m = l
          /\ \A m \in DOMAIN r : r[m] \in Nodes
      <3>1. "readmit" \in NodeLabels /\ \A m \in DOMAIN r : r[m] \in Nodes
        BY <2>5 DEF NodeLabels
      <3>2. QED
        BY <3>1, <2>4, <2>5 DEF FrameIn
    <2>7. x \in Nodes /\ st[x] = "runnable" /\ sp[x] = <<t, D>> /\ x # i /\ 1 \in DOMAIN r /\ x = r[1]
      <3>1. 1 \in DOMAIN r /\ x = r[1]
        BY <1>3, <2>1, <2>5
      <3>2. QED
        BY <3>1, <2>4, <2>6
    <2>8. Kept(t, k) /\ Depth(t)' = D + 1 /\ Bot(t, D)' = f /\ Bot(t, D + 1)' = Frame("admit", x)
      BY <2>1, <2>3, CallPlaces DEF At
    <2>9. k \in Nat /\ k <= Depth(t) /\ (t = Main => k >= 1) /\ <<t, D + 1>> \in Threads \X Nat
      BY <2>1, <2>4
    <2>10. /\ st2[x] = "admit" /\ sp2[x] = <<t, D + 1>>
           /\ \A y \in Nodes : y # x => st2[y] = st[y] /\ sp2[y] = sp[y]
      BY <2>2, <2>7
    <2>11. FrameIn(f, t, D, st2, sp2, cnt)
      <3>1. f.at = "readmit" /\ f.node = i /\ f.runnable = Tail(r)
        BY <2>1, <2>5 DEF NodeFrames
      <3> DEFINE r2 == Tail(r)
      <3>2. \A m \in DOMAIN r2 : r2[m] = r[m + 1] /\ m + 1 \in DOMAIN r /\ m + 1 # 1 /\ m \in Nat
        BY <1>3, <2>5
      <3> HIDE DEF st2, sp2, r2, r
      <3>3. \A m \in DOMAIN r2 : r2[m] # x
        BY <2>6, <2>7, <3>2
      <3>4. \A m \in DOMAIN r2 : st2[r2[m]] = "runnable" /\ sp2[r2[m]] = <<t, D>>
        BY <2>6, <2>10, <3>2, <3>3
      <3>5. \A m, l \in DOMAIN r2 : r2[m] = r2[l] => m = l
        BY <2>6, <3>2
      <3>6. f.runnable = r2
        BY <3>1 DEF r2
      <3>7. (t = Main => D # 1) /\ st2[i] = "readmit" /\ sp2[i] = <<t, D>>
        BY <2>4, <2>7, <2>10
      <3>8. QED
        BY <3>1, <3>4, <3>5, <3>6, <3>7 DEF FrameIn, NodeLabels, CallerLabels
    <2>12. FrameIn(Frame("admit", x), t, D + 1, st2, sp2, cnt)
      <3> HIDE DEF st2, sp2
      <3>1. D + 1 # 1 /\ "admit" \in NodeLabels \ {"succ"}
        BY <2>4 DEF NodeLabels
      <3>2. QED
        BY <2>10, <3>1, FreshIn
    <2>13. NewFrames(t, k, st2, sp2, cnt)
      <3> SUFFICES ASSUME NEW d \in Nat, k < d, d <= D + 1
                   PROVE  FrameIn(Bot(t, d)', t, d, st2, sp2, cnt)
        BY <2>8 DEF NewFrames
      <3>1. d = D \/ d = D + 1
        BY <2>4
      <3>2. QED
        BY <3>1, <2>8, <2>11, <2>12
    <2>14. \A u \in Threads : (mutex' = u \/ ready'[u] # <<>>) => stack'[u] # <<>>
      <3>1. \A u \in Threads : u # t /\ (mutex' = u \/ ready'[u] # <<>>) => mutex = u \/ ready[u] # <<>>
        BY <2>3
      <3>2. Depth(t)' >= 1
        BY <2>4, <2>8
      <3>3. QED
        BY <3>1, <3>2, <2>2, <2>8, CallersKept
    <2>15. TasksIn(st2)' /\ DeferredIn(st2)'
      BY <2>2, <2>3, <2>7, TasksKept, DeferredKept
    <2>16. PhasesIn(st2)'
      <3>1. PhaseFits("admit", phase[x])
        BY <2>2, <2>7 DEF PhasesIn, PhaseFits, FreshStages
      <3>2. QED
        BY <2>2, <2>3, <2>7, <3>1, PhasesKept
    <2>17. RunsIn(st2)'
      BY <2>2, <2>3, <2>7, RunsKept DEF RanStages
    <2>17a. LedgerIn(st2)'
      <3>1. Weightless(x, st[x], "admit")
        BY <2>7 DEF Weightless, KindFits, UnpaidStages, RefundedStages, RanStages
      <3>2. QED
        BY <2>2, <2>3, <2>7, <3>1, LedgerKept
    <2>18. /\ "admit" \in Stages /\ st[x] \notin {"waiting", "succ", "done"}
           /\ sp[x][1] = t /\ sp[x][2] > k
      BY <2>4, <2>7 DEF Stages, NodeLabels
    <2> HIDE DEF k
    <2>19. QED
      BY <1>1, <2>3, <2>7, <2>8, <2>9, <2>13, <2>14, <2>15, <2>16, <2>17, <2>17a, <2>18, MoveRun
  <1>4. QED
    BY <1>2, <1>3

\* complete() hands the width back and turns to the successors.
LEMMA ReturnWidthRun ==
  ASSUME TypeOK, StackTypeOK, StackTypeOK', RunInv, NEW t \in Threads, ReturnWidth(t)
  PROVE  RunInv'
  <1>1. PICK st, sp, cnt : RunIn(st, sp, cnt)
    BY DEF RunInv
  <1>2. PICK i, D, f :
          /\ i = Top(t).node /\ D = Depth(t)
          /\ f = [Frame("succ", i) EXCEPT !.todo = Successors(i)]
    OBVIOUS
  <1> DEFINE st2 == [st EXCEPT ![i] = "succ"]
             sp2 == [sp EXCEPT ![i] = <<t, D>>]
  <1>3. /\ FramesIn(st, sp, cnt) /\ PhasesIn(st) /\ RunsIn(st) /\ CountsIn(st, cnt) /\ LedgerIn(st)
        /\ st \in [Nodes -> Stages] /\ sp \in [Nodes -> Threads \X Nat]
    BY <1>1 DEF RunIn, Accounts
  <1>4. /\ At(t, "complete") /\ Goto(t, f) /\ "complete" \in NodeLabels \ {"succ"} /\ "succ" \in NodeLabels
        /\ UNCHANGED <<remaining, completed, returned, queue, batch, deferred, runs, memory>>
        /\ IF phase[i] = "held" THEN Return(t, i) ELSE UNCHANGED budgetVars
    BY <1>2 DEF ReturnWidth, NodeLabels, scaffold
  <1>5. /\ D \in Nat /\ D >= 1 /\ i \in Nodes /\ st[i] = "complete"
        /\ t = Main => D >= 2
    BY <1>2, <1>3, <1>4, TopPlace
  <1>6. FrameIn(f, t, D, st2, sp2, cnt)
    <2>1. /\ f.at = "succ" /\ f.node = i /\ f.runnable = <<>>
          /\ \A j \in f.todo : i \in Preds[j] /\ j \in Nodes
      BY <1>2 DEF Frame, Successors
    <2>2. \A j \in Nodes : <<i, j>> \notin cnt
      BY <1>3, <1>5 DEF CountsIn
    <2>3. st2[i] = "succ" /\ sp2[i] = <<t, D>> /\ (t = Main => D # 1)
      BY <1>3, <1>5
    <2> HIDE DEF st2, sp2
    <2>4. QED
      BY <2>1, <2>2, <2>3 DEF FrameIn, NodeLabels, CallerLabels
  <1>7. mutex' \in {mutex, t} /\ ready' = ready
    BY <1>4 DEF Return, Release, budgetVars
  <1>8. PhasesIn(st2)'
    <2>1. \A y \in Nodes : PhaseFits(st[y], phase[y])
      BY <1>3 DEF PhasesIn
    <2>2. phase \in [Requests -> Phases] /\ i \in Requests /\ Requests = Nodes
      BY <1>5, ExecutorAssumption DEF TypeOK
    <2>3. \/ phase[i] # "held" /\ phase' = phase
          \/ phase' = [phase EXCEPT ![i] = "returned"]
      BY <1>4 DEF Return, Release, budgetVars
    <2>4. phase[i] \in Phases /\ phase[i] \notin {"parked", "drained", "lent", "resumed"}
      BY <1>5, <2>1, <2>2 DEF PhaseFits
    <2>5. phase'[i] \in {"idle", "returned"} /\ \A y \in Nodes : y # i => phase'[y] = phase[y]
      BY <2>2, <2>3, <2>4 DEF Phases
    <2>6. PhaseFits("succ", phase'[i])
      BY <2>5 DEF PhaseFits, FreshStages
    <2>7. st2[i] = "succ" /\ \A y \in Nodes : y # i => st2[y] = st[y]
      BY <1>3, <1>5
    <2> HIDE DEF st2
    <2>8. \A y \in Nodes : PhaseFits(st2[y], phase'[y])
      BY <2>1, <2>5, <2>6, <2>7
    <2>9. QED
      BY <2>8 DEF PhasesIn
  <1>9. RunsIn(st2)'
    BY <1>3, <1>4, <1>5, RunsKept DEF RanStages
  <1>9a. LedgerIn(st2)'
    <2>1. Weightless(i, st[i], "succ")
      BY <1>5 DEF Weightless, KindFits, UnpaidStages, RefundedStages, RanStages
    <2>2. QED
      BY <1>3, <1>4, <1>5, <2>1, LedgerKept
  <1>10. QED
    BY <1>1, <1>2, <1>4, <1>6, <1>7, <1>8, <1>9, <1>9a, GotoRun

-----------------------------------------------------------------------------
(* complete(): counting down and counting. *)

\* When the count has reached n, every node is over.
LEMMA AllDone ==
  ASSUME NEW st \in [Nodes -> Stages], CompletedIn(st), completed = NumNodes
  PROVE  \A i \in Nodes : st[i] = "done"
  <1> DEFINE Over == {i \in Nodes : st[i] = "done"}
  <1>1. Over \subseteq Nodes /\ Cardinality(Over) = Cardinality(Nodes)
    BY NodesFinite DEF CompletedIn
  <1>2. Over = Nodes
    BY <1>1, NodesFinite, FS_Subset
  <1>3. QED
    BY <1>2

\* The last predecessor to count a node down takes it out of waiting.
LEMMA CountedDown ==
  ASSUME NEW st \in [Nodes -> Stages], NEW cnt \in SUBSET (Nodes \X Nodes), CountsIn(st, cnt), Started,
         NEW i \in Nodes, NEW j \in Nodes, i \in Preds[j], <<i, j>> \notin cnt, st[i] = "succ",
         remaining' = [remaining EXCEPT ![j] = @ - 1]
  PROVE  /\ st[j] = "waiting" /\ remaining[j] \in Nat /\ remaining[j] >= 1
         /\ remaining' \in [Nodes -> Nat]
         /\ \A y \in Nodes : remaining'[y] = Cardinality(Open(y, cnt \cup {<<i, j>>}))
         /\ remaining'[j] = remaining[j] - 1
         /\ \A y \in Nodes : y # j => remaining'[y] = remaining[y]
  <1> DEFINE cnt2 == cnt \cup {<<i, j>>}
  <1>1. remaining \in [Nodes -> Nat] /\ \A y \in Nodes : CountIn(y, st, cnt)
    BY DEF CountsIn
  <1>2. /\ remaining[j] = Cardinality(Open(j, cnt)) /\ remaining[j] \in Nat
        /\ Preds[j] # {} => (st[j] = "waiting" <=> remaining[j] # 0)
    BY <1>1 DEF CountIn
  <1>3. IsFiniteSet(Open(j, cnt)) /\ i \in Open(j, cnt)
    <2>1. Open(j, cnt) \subseteq Preds[j]
      BY DEF Open
    <2>2. QED
      BY <2>1, NodesFinite, FS_Subset DEF Open
  <1>4. Open(j, cnt2) = Open(j, cnt) \ {i}
    BY DEF Open
  <1>5. Cardinality(Open(j, cnt2)) = remaining[j] - 1 /\ Cardinality(Open(j, cnt2)) \in Nat
    <2>1. IsFiniteSet(Open(j, cnt) \ {i}) /\ Cardinality(Open(j, cnt) \ {i}) = Cardinality(Open(j, cnt)) - 1
      BY <1>3, FS_RemoveElement
    <2>2. Cardinality(Open(j, cnt) \ {i}) \in Nat
      BY <2>1, FS_CardinalityType
    <2>3. QED
      BY <2>1, <2>2, <1>2, <1>4
  <1>6. remaining[j] >= 1
    BY <1>2, <1>5
  <1>7. \A y \in Nodes : y # j => Open(y, cnt2) = Open(y, cnt)
    BY DEF Open
  <1>8. /\ remaining'[j] = remaining[j] - 1
        /\ \A y \in Nodes : y # j => remaining'[y] = remaining[y]
        /\ remaining' \in [Nodes -> Nat]
    BY <1>1, <1>5
  <1>9. \A y \in Nodes : remaining'[y] = Cardinality(Open(y, cnt2))
    BY <1>1, <1>5, <1>7, <1>8 DEF CountIn
  <1>10. st[j] = "waiting"
    BY <1>2, <1>6
  <1>11. QED
    BY <1>2, <1>6, <1>8, <1>9, <1>10

\* A successor is counted down, and submitted by the one who is last.
LEMMA CountDownRun ==
  ASSUME StackTypeOK, StackTypeOK', RunInv, NEW t \in Threads, CountDown(t)
  PROVE  RunInv'
  <1>1. PICK st, sp, cnt : RunIn(st, sp, cnt)
    BY DEF RunInv
  <1>2. PICK i, D : i = Top(t).node /\ D = Depth(t)
    OBVIOUS
  <1>3. PICK j \in Nodes :
          LET rest == [Top(t) EXCEPT !.todo = @ \ {j}] IN
          /\ NextToVisit(t, j)
          /\ remaining' = [remaining EXCEPT ![j] = @ - 1]
          /\ IF remaining[j] = 1 THEN Call(t, rest, SubmitFrame(j)) ELSE Goto(t, rest)
    BY DEF CountDown
  <1>4. PICK f : f = [Top(t) EXCEPT !.todo = @ \ {j}]
    OBVIOUS
  <1>4a. PICK s : s = IF remaining[j] = 1 THEN SubmitFrame(j).at ELSE "waiting"
    OBVIOUS
  <1> DEFINE k == D - 1
             st2 == [st EXCEPT ![j] = s]
             sp2 == [sp EXCEPT ![j] = <<t, D + 1>>]
             cnt2 == cnt \cup {<<i, j>>}
  <1>5. /\ FramesIn(st, sp, cnt) /\ PhasesIn(st) /\ RunsIn(st) /\ TasksIn(st) /\ DeferredIn(st)
        /\ LedgerIn(st) /\ CallersIn /\ CountsIn(st, cnt) /\ CompletedIn(st)
        /\ st \in [Nodes -> Stages] /\ sp \in [Nodes -> Threads \X Nat]
        /\ cnt \in SUBSET (Nodes \X Nodes)
    BY <1>1 DEF RunIn, Accounts
  <1>6. /\ At(t, "succ") /\ "succ" \in NodeLabels /\ j \in Top(t).todo
        /\ remaining' = [remaining EXCEPT ![j] = @ - 1]
        /\ remaining[j] = 1 => Call(t, f, SubmitFrame(j))
        /\ remaining[j] # 1 => Goto(t, f)
        /\ UNCHANGED <<queue, batch, completed, deferred, runs, returned, mutex, ready, phase, memory>>
    BY <1>3, <1>4 DEF CountDown, NextToVisit, NodeLabels, budgetVars
  <1>7. /\ D \in Nat /\ D >= 1 /\ i \in Nodes /\ st[i] = "succ" /\ sp[i] = <<t, D>>
        /\ t = Main => D >= 2
        /\ FrameIn(Top(t), t, D, st, sp, cnt)
    BY <1>2, <1>5, <1>6, TopPlace
  <1>8. Top(t) \in NodeFrames /\ Top(t).at = "succ"
    BY <1>6, TopFrame DEF At
  <1>9. /\ \A y \in Top(t).todo : i \in Preds[y] /\ <<i, y>> \notin cnt
        /\ \A m \in DOMAIN Top(t).runnable : st[Top(t).runnable[m]] = "runnable" /\ sp[Top(t).runnable[m]] = <<t, D>>
        /\ \A m, n \in DOMAIN Top(t).runnable : Top(t).runnable[m] = Top(t).runnable[n] => m = n
        /\ \A m \in DOMAIN Top(t).runnable : Top(t).runnable[m] \in Nodes
    <2>1. \A m \in DOMAIN Top(t).runnable : Top(t).runnable[m] \in Nodes
      BY <1>8 DEF NodeFrames
    <2>2. QED
      BY <2>1, <1>2, <1>6, <1>7, <1>8 DEF FrameIn
  <1>10. Started
    BY <1>5, <1>7, StartedBy
  <1>11. i \in Preds[j] /\ <<i, j>> \notin cnt
    BY <1>6, <1>9
  <1>12. /\ st[j] = "waiting" /\ remaining[j] \in Nat /\ remaining[j] >= 1 /\ i # j
         /\ remaining' \in [Nodes -> Nat]
         /\ \A y \in Nodes : remaining'[y] = Cardinality(Open(y, cnt2))
         /\ remaining'[j] = remaining[j] - 1
         /\ \A y \in Nodes : y # j => remaining'[y] = remaining[y]
    <2>1. /\ st[j] = "waiting" /\ remaining[j] \in Nat /\ remaining[j] >= 1
          /\ remaining' \in [Nodes -> Nat]
          /\ \A y \in Nodes : remaining'[y] = Cardinality(Open(y, cnt \cup {<<i, j>>}))
          /\ remaining'[j] = remaining[j] - 1
          /\ \A y \in Nodes : y # j => remaining'[y] = remaining[y]
      BY <1>5, <1>6, <1>7, <1>10, <1>11, CountedDown, ZenonT(60)
    <2>2. i # j
      BY <1>7, <2>1
    <2>3. QED
      BY <2>1, <2>2
  <1>13. /\ s \in Stages /\ s \in {"waiting", "submit", "admit"}
         /\ remaining[j] = 1 => s \in {"submit", "admit"} /\ SubmitFrame(j) = Frame(s, j)
         /\ remaining[j] # 1 => s = "waiting"
         /\ IF Gated(j) THEN s # "admit" ELSE s # "submit"
    BY <1>4a DEF SubmitFrame, Frame, Stages, NodeLabels
  <1>14. /\ st2[j] = s /\ sp2[j] = <<t, D + 1>>
         /\ \A y \in Nodes : y # j => st2[y] = st[y] /\ sp2[y] = sp[y]
         /\ Accounts(st2, sp2, cnt2)
    BY <1>5, <1>7, <1>13 DEF Accounts
  <1> HIDE DEF st2, sp2
  <1>15. /\ Kept(t, k) /\ Bot(t, D)' = f /\ Depth(t)' >= 1
         /\ remaining[j] = 1 => Depth(t)' = D + 1 /\ Bot(t, D + 1)' = Frame(s, j)
         /\ remaining[j] # 1 => Depth(t)' = D
    <2>1. stack[t] # <<>>
      BY <1>6 DEF At
    <2>2. CASE remaining[j] = 1
      <3>1. Kept(t, k) /\ Depth(t)' = D + 1 /\ Bot(t, D)' = f /\ Bot(t, D + 1)' = Frame(s, j)
        BY <1>2, <1>6, <1>13, <2>1, <2>2, CallPlaces
      <3>2. QED
        BY <1>7, <2>2, <3>1
    <2>3. CASE remaining[j] # 1
      <3>1. Kept(t, k) /\ Depth(t)' = D /\ Bot(t, D)' = f
        BY <1>2, <1>6, <2>1, <2>3, GotoPlaces
      <3>2. QED
        BY <1>7, <2>3, <3>1
    <2>4. QED
      BY <2>2, <2>3
  <1>16. FrameIn(f, t, D, st2, sp2, cnt2)
    <2>1. f.at = "succ" /\ f.node = i /\ f.runnable = Top(t).runnable /\ f.todo = Top(t).todo \ {j}
      BY <1>2, <1>4, <1>8 DEF NodeFrames
    <2>2. \A y \in f.todo : i \in Preds[y] /\ <<i, y>> \notin cnt2
      BY <1>9, <2>1
    <2>3. ASSUME NEW m \in DOMAIN f.runnable
          PROVE  st2[f.runnable[m]] = "runnable" /\ sp2[f.runnable[m]] = <<t, D>>
      <3>1. PICK y \in Nodes : y = f.runnable[m] /\ st[y] = "runnable" /\ sp[y] = <<t, D>>
        BY <1>9, <2>1
      <3>2. QED
        BY <3>1, <1>12, <1>14
    <2>4. st2[i] = "succ" /\ sp2[i] = <<t, D>> /\ (t = Main => D # 1)
      BY <1>7, <1>12, <1>14
    <2>5. \A m, n \in DOMAIN f.runnable : f.runnable[m] = f.runnable[n] => m = n
      BY <1>9, <2>1
    <2> HIDE DEF cnt2
    <2>6. QED
      BY <2>1, <2>2, <2>3, <2>4, <2>5 DEF FrameIn, NodeLabels, CallerLabels
  <1>17. NewFrames(t, k, st2, sp2, cnt2)
    <2> SUFFICES ASSUME NEW d \in Nat, k < d, d <= Depth(t)'
                 PROVE  FrameIn(Bot(t, d)', t, d, st2, sp2, cnt2)
      BY DEF NewFrames
    <2>1. CASE remaining[j] = 1
      <3>1. d = D \/ d = D + 1
        BY <1>7, <1>15, <2>1
      <3>2. FrameIn(Frame(s, j), t, D + 1, st2, sp2, cnt2)
        <4>1. s \in NodeLabels \ {"succ"} /\ D + 1 # 1
          BY <1>7, <1>13, <2>1 DEF NodeLabels
        <4>2. QED
          BY <4>1, <1>14, FreshIn
      <3>3. QED
        BY <3>1, <3>2, <1>15, <1>16, <2>1
    <2>2. CASE remaining[j] # 1
      <3>1. d = D
        BY <1>7, <1>15, <2>2
      <3>2. QED
        BY <3>1, <1>15, <1>16
    <2>3. QED
      BY <2>1, <2>2
  <1>18. Untouched(t, k, st, sp, cnt, st2, sp2, cnt2)
    <2>1. ASSUME NEW y \in Nodes, st[y] \in InFrame, ~ (sp[y][1] = t /\ sp[y][2] > k)
          PROVE  /\ st2[y] = st[y] /\ sp2[y] = sp[y]
                 /\ \A z \in Nodes : <<y, z>> \in cnt2 => <<y, z>> \in cnt
      <3>1. y # i
        BY <1>7, <2>1
      <3>2. y # j
        BY <1>12, <2>1 DEF InFrame, NodeLabels
      <3>3. QED
        BY <3>1, <3>2, <1>14
    <2>2. \A y \in Nodes : Preds[y] = {} => st2[y] = st[y]
      BY <1>11, <1>14
    <2>3. QED
      BY <2>1, <2>2 DEF Untouched
  <1>19. k \in Nat /\ k <= Depth(t) /\ (t = Main => k >= 1)
    BY <1>2, <1>7
  <1>20. FramesIn(st2, sp2, cnt2)'
    <2> HIDE DEF k, cnt2
    <2>1. QED
      BY <1>5, <1>15, <1>17, <1>18, <1>19, FramesStep
  <1>21. Started' /\ (stack[Main] = <<>> <=> stack[Main]' = <<>>)
    <2> HIDE DEF k
    <2>1. QED
      BY <1>10, <1>15, <1>19, StartedKept
  <1>22. CallersIn'
    <2> HIDE DEF k
    <2>1. \A u \in Threads : u # t /\ (mutex' = u \/ ready'[u] # <<>>) => mutex = u \/ ready[u] # <<>>
      BY <1>6
    <2>2. \A u \in Threads : (mutex' = u \/ ready'[u] # <<>>) => stack'[u] # <<>>
      BY <2>1, <1>5, <1>15, CallersKept
    <2>3. QED
      BY <2>2, <1>5, <1>6, <1>21 DEF CallersIn
  <1>23. TasksIn(st2)' /\ DeferredIn(st2)'
    BY <1>5, <1>6, <1>12, TasksKept, DeferredKept DEF st2
  <1>24. PhasesIn(st2)'
    <2>1. PhaseFits(s, phase[j])
      BY <1>5, <1>12, <1>13 DEF PhasesIn, PhaseFits, FreshStages
    <2>2. QED
      BY <1>5, <1>6, <2>1, PhasesKept DEF st2
  <1>25. RunsIn(st2)'
    <2>1. st[j] \in RanStages <=> s \in RanStages
      BY <1>12, <1>13 DEF RanStages
    <2>2. QED
      BY <1>5, <1>6, <2>1, RunsKept DEF st2
  <1>25a. LedgerIn(st2)'
    <2>1. Weightless(j, st[j], s)
      BY <1>12, <1>13 DEF Weightless, KindFits, Bounded, UnpaidStages, RefundedStages, RanStages
    <2>2. QED
      BY <1>5, <1>6, <2>1, LedgerKept DEF st2
  <1>26. CompletedIn(st2)'
    <2>1. st[j] # "done" /\ s # "done"
      BY <1>12, <1>13
    <2>2. QED
      BY <1>5, <1>6, <2>1, CompletedKept DEF st2
  <1>27. CountsIn(st2, cnt2)'
    <2>1. ASSUME NEW p \in Nodes, NEW y \in Nodes, <<p, y>> \in cnt2
          PROVE  st2[p] \in {"succ", "done"}
      <3>1. CASE p = i
        BY <3>1, <1>7, <1>12, <1>14
      <3>2. CASE p # i
        <4>1. st[p] \in {"succ", "done"}
          BY <3>2, <2>1, <1>5 DEF CountsIn
        <4>2. QED
          BY <4>1, <1>12, <1>14
      <3>3. QED
        BY <3>1, <3>2
    <2>2. ASSUME NEW y \in Nodes PROVE CountIn(y, st2, cnt2)'
      <3>1. Preds[y] # {} => (st[y] = "waiting" <=> remaining[y] # 0)
        BY <1>5, <1>10 DEF CountsIn, CountIn
      <3>2. Preds[y] # {} => (st2[y] = "waiting" <=> remaining'[y] # 0)
        <4>1. CASE y = j
          BY <4>1, <1>12, <1>13, <1>14
        <4>2. CASE y # j
          BY <4>2, <3>1, <1>12, <1>14
        <4>3. QED
          BY <4>1, <4>2
      <3>3. QED
        BY <3>2, <1>12 DEF CountIn, Open
    <2> HIDE DEF cnt2
    <2>3. QED
      BY <2>1, <2>2, <1>12, <1>21 DEF CountsIn
  <1> HIDE DEF cnt2
  <1>28. RunIn(st2, sp2, cnt2)'
    BY <1>14, <1>20, <1>22, <1>23, <1>24, <1>25, <1>25a, <1>26, <1>27 DEF RunIn, Accounts
  <1>29. QED
    BY <1>28 DEF RunInv

\* A node whose successors are counted down is counted, and is over.
LEMMA CountCompletedRun ==
  ASSUME StackTypeOK, StackTypeOK', RunInv, NEW t \in Threads, CountCompleted(t)
  PROVE  RunInv'
  <1>1. PICK st, sp, cnt : RunIn(st, sp, cnt)
    BY DEF RunInv
  <1>2. PICK i, D : i = Top(t).node /\ D = Depth(t)
    OBVIOUS
  <1> DEFINE k == D - 1
             st2 == [st EXCEPT ![i] = "done"]
  <1>3. /\ FramesIn(st, sp, cnt) /\ PhasesIn(st) /\ RunsIn(st) /\ TasksIn(st) /\ DeferredIn(st)
        /\ LedgerIn(st) /\ CallersIn /\ CountsIn(st, cnt) /\ CompletedIn(st)
        /\ st \in [Nodes -> Stages] /\ sp \in [Nodes -> Threads \X Nat]
        /\ cnt \in SUBSET (Nodes \X Nodes)
    BY <1>1 DEF RunIn, Accounts
  <1>4. /\ At(t, "succ") /\ "succ" \in NodeLabels /\ Leave(t) /\ completed' = completed + 1
        /\ UNCHANGED <<remaining, queue, batch, deferred, runs, returned, mutex, ready, phase, memory>>
    BY DEF CountCompleted, NodeLabels, budgetVars
  <1>5. /\ D \in Nat /\ D >= 1 /\ i \in Nodes /\ st[i] = "succ" /\ sp[i] = <<t, D>>
        /\ t = Main => D >= 2
    BY <1>2, <1>3, <1>4, TopPlace
  <1>6. Kept(t, k) /\ Depth(t)' = k
    BY <1>2, <1>4, LeavePlaces DEF At
  <1>7. k \in Nat /\ k <= Depth(t) /\ (t = Main => k >= 1)
    BY <1>2, <1>5
  <1>8. /\ st2[i] = "done" /\ \A y \in Nodes : y # i => st2[y] = st[y]
        /\ Accounts(st2, sp, cnt)
    BY <1>3, <1>5 DEF Accounts, Stages
  <1>9. Started
    BY <1>3, <1>5, StartedBy
  <1>10. Started' /\ (stack[Main] = <<>> <=> stack[Main]' = <<>>)
    <2> HIDE DEF k
    <2>1. QED
      BY <1>6, <1>7, <1>9, StartedKept
  <1>11. FramesIn(st2, sp, cnt)'
    <2>1. Untouched(t, k, st, sp, cnt, st2, sp, cnt)
      BY <1>5, <1>8 DEF Untouched
    <2>2. NewFrames(t, k, st2, sp, cnt)
      BY <1>6, <1>7 DEF NewFrames
    <2> HIDE DEF k, st2
    <2>3. QED
      BY <2>1, <2>2, <1>3, <1>6, <1>7, FramesStep
  <1>12. CallersIn'
    <2>1. \A u \in Threads : u # t /\ (mutex' = u \/ ready'[u] # <<>>) => mutex = u \/ ready[u] # <<>>
      BY <1>4
    <2>2. mutex' # t /\ ready'[t] = <<>>
      BY <1>4 DEF At, AtRest
    <2>3. \A u \in Threads : (mutex' = u \/ ready'[u] # <<>>) => stack'[u] # <<>>
      BY <2>1, <2>2, <1>3, <1>6, CallersKept
    <2>4. QED
      BY <2>3, <1>3, <1>4, <1>10 DEF CallersIn
  <1>13. TasksIn(st2)' /\ DeferredIn(st2)'
    BY <1>3, <1>4, <1>5, TasksKept, DeferredKept
  <1>14. PhasesIn(st2)'
    <2>1. PhaseFits("done", phase[i])
      BY <1>3, <1>5 DEF PhasesIn, PhaseFits, FreshStages
    <2>2. QED
      BY <1>3, <1>4, <1>5, <2>1, PhasesKept
  <1>15. RunsIn(st2)'
    BY <1>3, <1>4, <1>5, RunsKept DEF RanStages
  <1>15a. LedgerIn(st2)'
    <2>1. Weightless(i, st[i], "done")
      BY <1>5 DEF Weightless, KindFits, UnpaidStages, RefundedStages, RanStages
    <2>2. QED
      BY <1>3, <1>4, <1>5, <2>1, LedgerKept
  <1>16. CountsIn(st2, cnt)'
    <2>1. \A p, y \in Nodes : <<p, y>> \in cnt => st2[p] \in {"succ", "done"}
      BY <1>3, <1>8 DEF CountsIn
    <2>2. ASSUME NEW y \in Nodes PROVE CountIn(y, st2, cnt)'
      <3>1. CountIn(y, st, cnt)
        BY <1>3, <1>9 DEF CountsIn
      <3>2. st2[y] = "waiting" <=> st[y] = "waiting"
        BY <1>5, <1>8
      <3>3. QED
        BY <1>4, <3>1, <3>2 DEF CountIn, Open
    <2>3. remaining' \in [Nodes -> Nat]
      BY <1>3, <1>4 DEF CountsIn
    <2> HIDE DEF st2
    <2>4. QED
      BY <2>1, <2>2, <2>3, <1>10 DEF CountsIn
  <1>17. CompletedIn(st2)'
    <2> DEFINE Over == {y \in Nodes : st[y] = "done"}
    <2>1. {y \in Nodes : st2[y] = "done"} = Over \cup {i} /\ i \notin Over
      BY <1>5, <1>8
    <2>2. IsFiniteSet(Over)
      BY NodesFinite, FS_Subset
    <2>3. Cardinality(Over \cup {i}) = Cardinality(Over) + 1
      BY <2>1, <2>2, FS_AddElement
    <2>4. ~ returned
      BY <1>3, <1>5, AllDone DEF CompletedIn
    <2>5. QED
      BY <2>1, <2>3, <2>4, <1>3, <1>4 DEF CompletedIn
  <1> HIDE DEF st2
  <1>18. RunIn(st2, sp, cnt)'
    BY <1>8, <1>11, <1>12, <1>13, <1>14, <1>15, <1>15a, <1>16, <1>17 DEF RunIn, Accounts
  <1>19. QED
    BY <1>18 DEF RunInv

-----------------------------------------------------------------------------
(* The caller. *)

\* The functions of the caller are the outermost frame of Main.
LEMMA CallerPlace ==
  ASSUME StackTypeOK, NEW st, NEW sp, NEW cnt, FramesIn(st, sp, cnt),
         NEW l \in CallerLabels, At(Main, l)
  PROVE  /\ Main \in Threads /\ stack[Main] # <<>> /\ Depth(Main) = 1 /\ Bot(Main, 1) = Top(Main)
         /\ Top(Main) \in Frames /\ Top(Main).at = l /\ mutex # Main /\ ready[Main] = <<>>
         /\ FrameIn(Top(Main), Main, 1, st, sp, cnt)
  <1>1. Main \in Threads /\ stack[Main] # <<>> /\ Top(Main).at = l /\ mutex # Main /\ ready[Main] = <<>>
    BY ExecutorAssumption DEF At, AtRest
  <1>2. /\ Depth(Main) \in Nat /\ Depth(Main) >= 1 /\ Bot(Main, Depth(Main)) = Top(Main)
        /\ Bot(Main, Depth(Main)) \in Frames
    BY <1>1, Places
  <1>3. FrameIn(Top(Main), Main, Depth(Main), st, sp, cnt)
    BY <1>1, <1>2 DEF FramesIn
  <1>4. Depth(Main) = 1
    BY <1>1, <1>3 DEF FrameIn
  <1>5. QED
    BY <1>1, <1>2, <1>3, <1>4

\* Steps of the caller leave the other threads alone.
LEMMA CallersStay ==
  ASSUME StackTypeOK, StackTypeOK', CallersIn, Main \in Threads, Kept(Main, 0),
         mutex # Main, ready[Main] = <<>>, UNCHANGED <<mutex, ready>>,
         returned' <=> stack[Main]' = <<>>
  PROVE  CallersIn'
  <1>1. \A u \in Threads : u # Main /\ (mutex' = u \/ ready'[u] # <<>>) => mutex = u \/ ready[u] # <<>>
    OBVIOUS
  <1>2. \A u \in Threads : (mutex' = u \/ ready'[u] # <<>>) => stack'[u] # <<>>
    BY <1>1, CallersKept
  <1>3. QED
    BY <1>2 DEF CallersIn

LEMMA ResetRun ==
  ASSUME StackTypeOK, StackTypeOK', RunInv, NEW m, Reset(m)
  PROVE  RunInv'
  <1>1. PICK st, sp, cnt : RunIn(st, sp, cnt)
    BY DEF RunInv
  <1>2. PICK f : f = [Frame("seed", 0) EXCEPT !.todo = Roots]
    OBVIOUS
  <1>3. /\ FramesIn(st, sp, cnt) /\ PhasesIn(st) /\ RunsIn(st) /\ TasksIn(st) /\ DeferredIn(st)
        /\ LedgerIn(st) /\ CallersIn /\ CountsIn(st, cnt) /\ CompletedIn(st) /\ Accounts(st, sp, cnt)
    BY <1>1 DEF RunIn
  <1>4. /\ At(Main, "reset") /\ "reset" \in CallerLabels /\ Goto(Main, f)
        /\ remaining' = [i \in Nodes |-> Cardinality(Preds[i])]
        /\ UNCHANGED <<queue, batch, completed, deferred, runs, returned, mutex, ready, phase, memory>>
    BY <1>2 DEF Reset, CallerLabels, SyncMachineWidth, budgetVars
  <1>5. /\ Main \in Threads /\ stack[Main] # <<>> /\ Depth(Main) = 1 /\ Bot(Main, 1) = Top(Main)
        /\ Top(Main).at = "reset" /\ mutex # Main /\ ready[Main] = <<>>
    BY <1>3, <1>4, CallerPlace
  <1>6. Kept(Main, 0) /\ Depth(Main)' = 1 /\ Bot(Main, 1)' = f
    <2>1. Kept(Main, 1 - 1) /\ Depth(Main)' = 1 /\ Bot(Main, 1)' = f
      BY <1>4, <1>5, GotoPlaces
    <2>2. QED
      BY <2>1
  <1>7. f.at = "seed" /\ f.todo = Roots
    BY <1>2 DEF Frame
  <1>8. cnt = {} /\ \A i \in Nodes : st[i] = "waiting"
    BY <1>3, <1>5 DEF Started, CountsIn
  <1>9. FramesIn(st, sp, cnt)'
    <2>1. Untouched(Main, 0, st, sp, cnt, st, sp, cnt)
      BY DEF Untouched
    <2>2. FrameIn(f, Main, 1, st, sp, cnt)
      BY <1>7, <1>8 DEF FrameIn, Roots, NodeLabels, CallerLabels
    <2>3. NewFrames(Main, 0, st, sp, cnt)
      <3> SUFFICES ASSUME NEW d \in Nat, 0 < d, d <= 1 PROVE FrameIn(Bot(Main, d)', Main, d, st, sp, cnt)
        BY <1>6 DEF NewFrames
      <3>1. d = 1
        OBVIOUS
      <3>2. QED
        BY <3>1, <2>2, <1>6
    <2>4. QED
      BY <2>1, <2>3, <1>3, <1>5, <1>6, FramesStep
  <1>10. stack[Main]' # <<>>
    BY <1>6 DEF Depth
  <1>11. CallersIn'
    BY <1>3, <1>4, <1>5, <1>6, <1>10, CallersStay DEF CallersIn
  <1>12. Started'
    BY <1>6, <1>7 DEF Started
  <1>13. CountsIn(st, cnt)'
    <2>1. ASSUME NEW j \in Nodes
          PROVE  remaining'[j] \in Nat /\ CountIn(j, st, cnt)'
      <3>1. Open(j, cnt) = Preds[j] /\ remaining'[j] = Cardinality(Preds[j])
        BY <1>4, <1>8 DEF Open
      <3>2. IsFiniteSet(Preds[j]) /\ Cardinality(Preds[j]) \in Nat
        BY NodesFinite
      <3>3. Cardinality(Preds[j]) = 0 <=> Preds[j] = {}
        BY <3>2, FS_EmptySet
      <3>4. QED
        BY <1>8, <3>1, <3>2, <3>3 DEF CountIn, Open
    <2>2. remaining' \in [Nodes -> Nat]
      BY <1>4, <2>1
    <2>3. QED
      BY <1>8, <1>12, <2>1, <2>2 DEF CountsIn
  <1>14. PhasesIn(st)' /\ RunsIn(st)' /\ TasksIn(st)' /\ DeferredIn(st)' /\ CompletedIn(st)'
         /\ LedgerIn(st)'
    BY <1>3, <1>4 DEF PhasesIn, RunsIn, TasksIn, DeferredIn, CompletedIn, LedgerIn
  <1>15. RunIn(st, sp, cnt)'
    BY <1>3, <1>9, <1>11, <1>13, <1>14 DEF RunIn, Accounts
  <1>16. QED
    BY <1>15 DEF RunInv

LEMMA SeedRootRun ==
  ASSUME StackTypeOK, StackTypeOK', RunInv, SeedRoot
  PROVE  RunInv'
  <1>1. PICK st, sp, cnt : RunIn(st, sp, cnt)
    BY DEF RunInv
  <1>2. PICK i \in Nodes : /\ NextToVisit(Main, i)
                           /\ Call(Main, [Top(Main) EXCEPT !.todo = @ \ {i}], SubmitFrame(i))
    BY DEF SeedRoot
  <1>3. PICK f, s : f = [Top(Main) EXCEPT !.todo = @ \ {i}] /\ s = SubmitFrame(i).at
    OBVIOUS
  <1> DEFINE st2 == [st EXCEPT ![i] = s]
             sp2 == [sp EXCEPT ![i] = <<Main, 2>>]
  <1>4. /\ FramesIn(st, sp, cnt) /\ PhasesIn(st) /\ RunsIn(st) /\ TasksIn(st) /\ DeferredIn(st)
        /\ LedgerIn(st) /\ CallersIn /\ CountsIn(st, cnt) /\ CompletedIn(st) /\ Accounts(st, sp, cnt)
        /\ st \in [Nodes -> Stages] /\ sp \in [Nodes -> Threads \X Nat]
    BY <1>1 DEF RunIn, Accounts
  <1>5. /\ At(Main, "seed") /\ "seed" \in CallerLabels
        /\ UNCHANGED <<queue, batch, completed, remaining, deferred, runs, returned, mutex, ready, phase, memory>>
    BY DEF SeedRoot, CallerLabels, budgetVars, scaffold
  <1>6. s \in {"submit", "admit"} /\ SubmitFrame(i) = Frame(s, i)
        /\ IF Gated(i) THEN s # "admit" ELSE s # "submit"
    BY <1>3 DEF SubmitFrame, Frame
  <1>7. /\ Main \in Threads /\ stack[Main] # <<>> /\ Depth(Main) = 1 /\ Bot(Main, 1) = Top(Main)
        /\ Top(Main) \in Frames /\ Top(Main).at = "seed" /\ mutex # Main /\ ready[Main] = <<>>
        /\ FrameIn(Top(Main), Main, 1, st, sp, cnt)
    BY <1>4, <1>5, CallerPlace
  <1>8. Kept(Main, 0) /\ Depth(Main)' = 2 /\ Bot(Main, 1)' = f /\ Bot(Main, 2)' = Frame(s, i)
    <2>1. /\ Kept(Main, 1 - 1) /\ Depth(Main)' = 1 + 1
          /\ Bot(Main, 1)' = f /\ Bot(Main, 1 + 1)' = SubmitFrame(i)
      BY <1>2, <1>3, <1>7, CallPlaces
    <2>2. QED
      BY <1>6, <2>1
  <1>9. Top(Main).todo \in SUBSET Nodes /\ \A y \in Top(Main).todo : st[y] = "waiting" /\ Preds[y] = {}
    BY <1>7 DEF FrameIn, Frames
  <1>10. /\ f.at = "seed" /\ f.todo = Top(Main).todo \ {i} /\ st[i] = "waiting" /\ Preds[i] = {}
    BY <1>2, <1>3, <1>7, <1>9 DEF NextToVisit, Frames
  <1>11. /\ st2[i] = s /\ sp2[i] = <<Main, 2>> /\ Accounts(st2, sp2, cnt)
         /\ \A y \in Nodes : y # i => st2[y] = st[y] /\ sp2[y] = sp[y]
    BY <1>4, <1>6, <1>7 DEF Accounts, Stages, NodeLabels
  <1>12. FramesIn(st2, sp2, cnt)'
    <2> HIDE DEF st2, sp2
    <2>1. Untouched(Main, 0, st, sp, cnt, st2, sp2, cnt)
      BY <1>10, <1>11 DEF Untouched, InFrame, NodeLabels
    <2>2. FrameIn(f, Main, 1, st2, sp2, cnt)
      BY <1>9, <1>10, <1>11 DEF FrameIn, NodeLabels, CallerLabels
    <2>3. FrameIn(Frame(s, i), Main, 2, st2, sp2, cnt)
      <3>1. s \in NodeLabels \ {"succ"}
        BY <1>6 DEF NodeLabels
      <3>2. QED
        BY <3>1, <1>11, FreshIn
    <2>4. NewFrames(Main, 0, st2, sp2, cnt)
      <3> SUFFICES ASSUME NEW d \in Nat, 0 < d, d <= 2 PROVE FrameIn(Bot(Main, d)', Main, d, st2, sp2, cnt)
        BY <1>8 DEF NewFrames
      <3>1. d = 1 \/ d = 2
        OBVIOUS
      <3>2. QED
        BY <3>1, <2>2, <2>3, <1>8
    <2>5. QED
      BY <2>1, <2>4, <1>4, <1>7, <1>8, FramesStep
  <1>13. stack[Main]' # <<>>
    BY <1>8 DEF Depth
  <1>14. CallersIn'
    BY <1>4, <1>5, <1>7, <1>8, <1>13, CallersStay DEF CallersIn
  <1>15. Started /\ Started'
    BY <1>7, <1>8, <1>10 DEF Started
  <1>16. TasksIn(st2)' /\ DeferredIn(st2)'
    BY <1>4, <1>5, <1>10, TasksKept, DeferredKept
  <1>17. PhasesIn(st2)'
    <2>1. PhaseFits(s, phase[i])
      BY <1>4, <1>6, <1>10 DEF PhasesIn, PhaseFits, FreshStages
    <2>2. QED
      BY <1>4, <1>5, <2>1, PhasesKept
  <1>18. RunsIn(st2)'
    <2>1. st[i] \in RanStages <=> s \in RanStages
      BY <1>6, <1>10 DEF RanStages
    <2>2. QED
      BY <1>4, <1>5, <2>1, RunsKept
  <1>18a. LedgerIn(st2)'
    <2>1. Weightless(i, st[i], s)
      BY <1>6, <1>10 DEF Weightless, KindFits, Bounded, UnpaidStages, RefundedStages, RanStages
    <2>2. QED
      BY <1>4, <1>5, <2>1, LedgerKept
  <1>19. CompletedIn(st2)'
    <2>1. st[i] # "done" /\ s # "done"
      BY <1>6, <1>10
    <2>2. QED
      BY <1>4, <1>5, <2>1, CompletedKept
  <1> HIDE DEF st2, sp2
  <1>20. CountsIn(st2, cnt)'
    <2>1. \A p, y \in Nodes : <<p, y>> \in cnt => st2[p] \in {"succ", "done"}
      BY <1>4, <1>10, <1>11 DEF CountsIn
    <2>2. ASSUME NEW y \in Nodes PROVE CountIn(y, st2, cnt)'
      <3>1. CountIn(y, st, cnt)
        BY <1>4, <1>15 DEF CountsIn
      <3>2. Preds[y] # {} => st2[y] = st[y]
        BY <1>10, <1>11
      <3>3. QED
        BY <1>5, <3>1, <3>2 DEF CountIn, Open
    <2>3. remaining' \in [Nodes -> Nat]
      BY <1>4, <1>5 DEF CountsIn
    <2>4. QED
      BY <2>1, <2>2, <2>3, <1>15 DEF CountsIn
  <1>21. RunIn(st2, sp2, cnt)'
    BY <1>11, <1>12, <1>14, <1>16, <1>17, <1>18, <1>18a, <1>19, <1>20 DEF RunIn, Accounts
  <1>22. QED
    BY <1>21 DEF RunInv

\* The batch goes to the pool at once.
LEMMA SubmitBatchRun ==
  ASSUME StackTypeOK, StackTypeOK', RunInv, SubmitBatch
  PROVE  RunInv'
  <1>1. PICK st, sp, cnt : RunIn(st, sp, cnt)
    BY DEF RunInv
  <1> DEFINE st2 == [y \in Nodes |-> IF st[y] = "batched" THEN "queued" ELSE st[y]]
  <1>2. /\ FramesIn(st, sp, cnt) /\ PhasesIn(st) /\ RunsIn(st) /\ TasksIn(st) /\ DeferredIn(st)
        /\ LedgerIn(st) /\ CallersIn /\ CountsIn(st, cnt) /\ CompletedIn(st) /\ Accounts(st, sp, cnt)
        /\ st \in [Nodes -> Stages]
    BY <1>1 DEF RunIn, Accounts
  <1>3. /\ At(Main, "seed") /\ "seed" \in CallerLabels /\ Goto(Main, Frame("help", 0))
        /\ queue' = queue \cup batch /\ batch' = {}
        /\ UNCHANGED <<completed, remaining, deferred, runs, returned, mutex, ready, phase, memory>>
    BY DEF SubmitBatch, CallerLabels, budgetVars
  <1>4. /\ Main \in Threads /\ stack[Main] # <<>> /\ Depth(Main) = 1 /\ Bot(Main, 1) = Top(Main)
        /\ Top(Main).at = "seed" /\ mutex # Main /\ ready[Main] = <<>>
    BY <1>2, <1>3, CallerPlace
  <1>5. Kept(Main, 0) /\ Depth(Main)' = 1 /\ Bot(Main, 1)' = Frame("help", 0)
    <2>1. Kept(Main, 1 - 1) /\ Depth(Main)' = 1 /\ Bot(Main, 1)' = Frame("help", 0)
      BY <1>3, <1>4, GotoPlaces
    <2>2. QED
      BY <2>1
  <1>6. /\ \A y \in Nodes : \/ st2[y] = st[y] /\ st[y] # "batched"
                            \/ st[y] = "batched" /\ st2[y] = "queued"
        /\ Accounts(st2, sp, cnt)
    BY <1>2 DEF Accounts, Stages
  <1>7. CompletedIn(st2)'
    <2>1. {y \in Nodes : st2[y] = "done"} = {y \in Nodes : st[y] = "done"}
      BY <1>6
    <2>2. QED
      BY <1>2, <1>3, <2>1 DEF CompletedIn
  <1>8. RunsIn(st2)'
    <2>1. \A y \in Nodes : st2[y] \in RanStages <=> st[y] \in RanStages
      BY <1>6 DEF RanStages
    <2> HIDE DEF st2
    <2>2. QED
      BY <1>2, <1>3, <2>1 DEF RunsIn
  <1> HIDE DEF st2
  <1>9. FramesIn(st2, sp, cnt)'
    <2>1. Untouched(Main, 0, st, sp, cnt, st2, sp, cnt)
      BY <1>6 DEF Untouched, InFrame, NodeLabels
    <2>2. FrameIn(Frame("help", 0), Main, 1, st2, sp, cnt)
      BY DEF FrameIn, Frame, NodeLabels, CallerLabels
    <2>3. NewFrames(Main, 0, st2, sp, cnt)
      <3> SUFFICES ASSUME NEW d \in Nat, 0 < d, d <= 1 PROVE FrameIn(Bot(Main, d)', Main, d, st2, sp, cnt)
        BY <1>5 DEF NewFrames
      <3>1. d = 1
        OBVIOUS
      <3>2. QED
        BY <3>1, <2>2, <1>5
    <2>4. QED
      BY <2>1, <2>3, <1>2, <1>4, <1>5, FramesStep
  <1>10. stack[Main]' # <<>>
    BY <1>5 DEF Depth
  <1>11. CallersIn'
    BY <1>2, <1>3, <1>4, <1>5, <1>10, CallersStay DEF CallersIn
  <1>12. Started /\ Started'
    <2>1. Bot(Main, 1)'.at = "help"
      BY <1>5 DEF Frame
    <2>2. QED
      BY <2>1, <1>4 DEF Started
  <1>13. TasksIn(st2)'
    <2>1. \A task \in queue \cup batch : task[1] \in Nodes
      BY DEF StackTypeOK, Tasks
    <2>2. ASSUME NEW task \in queue'
          PROVE  \/ task = <<task[1], "afinish">> /\ st2[task[1]] = "finishing"
                 \/ task = TaskOf(task[1]) /\ st2[task[1]] = "queued"
      <3>1. CASE task \in queue
        BY <3>1, <2>1, <1>2, <1>6 DEF TasksIn
      <3>2. CASE task \in batch
        BY <3>2, <2>1, <1>2, <1>6 DEF TasksIn
      <3>3. QED
        BY <3>1, <3>2, <1>3
    <2>3. QED
      BY <2>2, <1>3 DEF TasksIn
  <1>14. DeferredIn(st2)'
    <2>1. \A n \in DOMAIN deferred : deferred[n] \in Nodes
      BY DEF StackTypeOK
    <2>2. \A n \in DOMAIN deferred : st2[deferred[n]] = "deferred"
      BY <2>1, <1>2, <1>6 DEF DeferredIn
    <2>3. QED
      BY <2>2, <1>2, <1>3 DEF DeferredIn
  <1>15. PhasesIn(st2)'
    <2>1. ASSUME NEW y \in Nodes PROVE PhaseFits(st2[y], phase[y])
      <3>1. PhaseFits(st[y], phase[y])
        BY <1>2 DEF PhasesIn
      <3>2. CASE st2[y] = st[y]
        BY <3>1, <3>2
      <3>3. CASE st[y] = "batched" /\ st2[y] = "queued"
        BY <3>1, <3>3 DEF PhaseFits, FreshStages
      <3>4. QED
        BY <3>2, <3>3, <1>6
    <2>2. QED
      BY <2>1, <1>3 DEF PhasesIn
  <1>16. CountsIn(st2, cnt)'
    <2>1. \A p, y \in Nodes : <<p, y>> \in cnt => st2[p] \in {"succ", "done"}
      BY <1>2, <1>6 DEF CountsIn
    <2>2. ASSUME NEW y \in Nodes PROVE CountIn(y, st2, cnt)'
      <3>1. CountIn(y, st, cnt)
        BY <1>2, <1>12 DEF CountsIn
      <3>2. st2[y] = "waiting" <=> st[y] = "waiting"
        BY <1>6
      <3>3. QED
        BY <1>3, <3>1, <3>2 DEF CountIn, Open
    <2>3. remaining' \in [Nodes -> Nat]
      BY <1>2, <1>3 DEF CountsIn
    <2>4. QED
      BY <2>1, <2>2, <2>3, <1>12 DEF CountsIn
  <1>16a. LedgerIn(st2)'
    <2>1. Charged(st2) = Charged(st)
      BY <1>6 DEF Charged, UnpaidStages
    <2>2. Refunded(st2) = Refunded(st)
      BY <1>6 DEF Refunded, RefundedStages, RanStages
    <2>3. \A y \in Nodes : KindFits(y, st2[y])
      BY <1>2, <1>6 DEF LedgerIn, KindFits
    <2>4. QED
      BY <1>2, <1>3, <2>1, <2>2, <2>3 DEF LedgerIn, Outstanding
  <1>17. RunIn(st2, sp, cnt)'
    BY <1>6, <1>7, <1>8, <1>9, <1>11, <1>13, <1>14, <1>15, <1>16, <1>16a DEF RunIn, Accounts
  <1>18. QED
    BY <1>17 DEF RunInv

\* execute() returns: the count has reached n, and the caller has no frame left.
LEMMA ReturnToCallerRun ==
  ASSUME StackTypeOK, StackTypeOK', RunInv, ReturnToCaller
  PROVE  RunInv'
  <1>1. PICK st, sp, cnt : RunIn(st, sp, cnt)
    BY DEF RunInv
  <1>2. /\ FramesIn(st, sp, cnt) /\ PhasesIn(st) /\ RunsIn(st) /\ TasksIn(st) /\ DeferredIn(st)
        /\ LedgerIn(st) /\ CallersIn /\ CountsIn(st, cnt) /\ CompletedIn(st) /\ Accounts(st, sp, cnt)
    BY <1>1 DEF RunIn
  <1>3. /\ At(Main, "help") /\ "help" \in CallerLabels /\ Leave(Main)
        /\ completed = NumNodes /\ returned' = TRUE
        /\ UNCHANGED <<queue, batch, completed, remaining, deferred, runs, mutex, ready, phase, memory>>
    BY DEF ReturnToCaller, CallerLabels, budgetVars, scaffold
  <1>4. /\ Main \in Threads /\ stack[Main] # <<>> /\ Depth(Main) = 1 /\ Bot(Main, 1) = Top(Main)
        /\ Top(Main).at = "help" /\ mutex # Main /\ ready[Main] = <<>>
    BY <1>2, <1>3, CallerPlace
  <1>5. Kept(Main, 0) /\ Depth(Main)' = 0
    <2>1. Kept(Main, 1 - 1) /\ Depth(Main)' = 1 - 1
      BY <1>3, <1>4, LeavePlaces
    <2>2. QED
      BY <2>1
  <1>6. stack[Main]' = <<>>
    <2>1. stack[Main]' \in Seq(Frames)
      BY <1>4 DEF StackTypeOK
    <2>2. QED
      BY <1>5, <2>1 DEF Depth
  <1>7. FramesIn(st, sp, cnt)'
    <2>1. Untouched(Main, 0, st, sp, cnt, st, sp, cnt)
      BY DEF Untouched
    <2>2. NewFrames(Main, 0, st, sp, cnt)
      BY <1>5 DEF NewFrames
    <2>3. QED
      BY <2>1, <2>2, <1>2, <1>4, <1>5, FramesStep
  <1>8. CallersIn'
    BY <1>2, <1>3, <1>4, <1>5, <1>6, CallersStay
  <1>9. Started /\ Started'
    BY <1>4, <1>6 DEF Started
  <1>10. PhasesIn(st)' /\ RunsIn(st)' /\ TasksIn(st)' /\ DeferredIn(st)' /\ CompletedIn(st)'
         /\ LedgerIn(st)'
    BY <1>2, <1>3 DEF PhasesIn, RunsIn, TasksIn, DeferredIn, CompletedIn, LedgerIn
  <1>11. CountsIn(st, cnt)'
    BY <1>2, <1>3, <1>9 DEF CountsIn, CountIn, Open
  <1>12. RunIn(st, sp, cnt)'
    BY <1>2, <1>7, <1>8, <1>10, <1>11 DEF RunIn, Accounts
  <1>13. QED
    BY <1>12 DEF RunInv

-----------------------------------------------------------------------------
(* The invariant of a run. *)

LEMMA InitRun == Init => RunInv
  <1> SUFFICES ASSUME Init PROVE RunInv
    OBVIOUS
  <1> DEFINE st == [i \in Nodes |-> "waiting"]
             sp == [i \in Nodes |-> <<Main, 0>>]
  <1>1. Main \in Threads
    BY ExecutorAssumption
  <1>2. /\ stack[Main] = <<Frame("reset", 0)>> /\ \A t \in Threads : t # Main => stack[t] = <<>>
        /\ mutex = NoThread /\ \A t \in Threads : ready[t] = <<>>
        /\ \A r \in Requests : phase[r] = "idle"
    BY <1>1 DEF Init, BudgetInit
  <1>3. Accounts(st, sp, {})
    BY <1>1 DEF Accounts, Stages
  <1>4. FramesIn(st, sp, {})
    <2> SUFFICES ASSUME NEW t \in Threads, NEW d \in 1 .. Depth(t)
                 PROVE  FrameIn(Bot(t, d), t, d, st, sp, {})
      BY DEF FramesIn
    <2>1. t = Main
      BY <1>2 DEF Depth
    <2>2. Depth(Main) = 1 /\ Bot(Main, 1) = Frame("reset", 0) /\ d = 1
      <3>1. Depth(Main) = 1 /\ Bot(Main, 1) = Frame("reset", 0)
        BY <1>2 DEF Depth, Bot
      <3>2. d \in 1 .. 1
        BY <2>1, <3>1
      <3>3. QED
        BY <3>1, <3>2
    <2>3. FrameIn(Frame("reset", 0), Main, 1, st, sp, {})
      BY DEF FrameIn, Frame, NodeLabels, CallerLabels
    <2>4. QED
      BY <2>1, <2>2, <2>3
  <1>5. CallersIn
    <2>1. ~ returned /\ stack[Main] # <<>>
      BY <1>2 DEF Init
    <2>2. \A t \in Threads : mutex # t /\ ready[t] = <<>>
      BY <1>2, BudgetAssumption
    <2>3. QED
      BY <2>1, <2>2 DEF CallersIn
  <1>6. TasksIn(st) /\ DeferredIn(st)
    BY DEF TasksIn, DeferredIn, Init
  <1>7. PhasesIn(st)
    BY <1>2, ExecutorAssumption DEF PhasesIn, PhaseFits, FreshStages
  <1>8. RunsIn(st)
    BY DEF RunsIn, RanStages, Init
  <1>9. CountsIn(st, {})
    <2>1. ~ Started
      BY <1>2 DEF Started, Bot, Frame
    <2>2. QED
      BY <2>1 DEF CountsIn, Init
  <1>10. CompletedIn(st)
    <2>1. {i \in Nodes : st[i] = "done"} = {}
      OBVIOUS
    <2>2. QED
      BY <2>1, FS_EmptySet DEF CompletedIn, Init
  <1>10a. LedgerIn(st)
    <2>1. Charged(st) = {} /\ Refunded(st) = {}
      BY DEF Charged, Refunded, UnpaidStages, RefundedStages, RanStages
    <2>2. \A i \in Nodes : KindFits(i, st[i])
      BY DEF KindFits
    <2> HIDE DEF st
    <2>3. Outstanding(st) = 0
      BY <2>1, SumEmpty DEF Outstanding
    <2>4. memory = 0 /\ memory = Outstanding(st) + 0 * WordSize
      BY <2>3, LedgerFacts DEF Init
    <2>5. memory \in 0 .. WordSize - 1 /\ Outstanding(st) <= MemoryBudget
      BY <2>3, <2>4, LedgerFacts
    <2>6. \E q \in Int : memory = Outstanding(st) + q * WordSize
      BY <2>4
    <2>7. QED
      BY <2>2, <2>5, <2>6 DEF LedgerIn
  <1> HIDE DEF st, sp
  <1>11. QED
    BY <1>3, <1>4, <1>5, <1>6, <1>7, <1>8, <1>9, <1>10, <1>10a DEF RunIn, RunInv

\* Every step keeps the account.
LEMMA NextRun ==
  ASSUME TypeOK, QueuedOnce, DueOnce, StackTypeOK, StackTypeOK', RunInv, [ExecNext]_vars
  PROVE  RunInv'
  <1>1. CASE CallerStep
    BY <1>1, ResetRun, SeedRootRun, SubmitBatchRun, ReturnToCallerRun DEF CallerStep
  <1>2. CASE Done \/ UNCHANGED vars
    BY <1>2, QuietRun DEF Done, vars, execVars, scaffold, budgetVars
  <1>3. ASSUME NEW t \in Threads, Step(t) PROVE RunInv'
    <2>1. CASE SubmitOverBudget(t) \/ SubmitDeferred(t) \/ SubmitCharged(t)
      BY <2>1, SubmitRun, SubmitDeferredRun
    <2>2. CASE AdmitUngated(t) \/ \E m \in MachineWidths(t) : AdmitGranted(t, m) \/ AdmitParked(t, m)
      BY <2>2, AdmitRun, AdmitParkedRun
    <2>3. CASE DrainBudget(t) \/ ResumeParked(t)
      BY <2>3, DrainBudgetRun, ResumeRun
    <2>4. CASE RunNode(t) \/ FreeBytes(t) \/ DrainStart(t) \/ RunAsyncStart(t) \/ RunAsyncFinish(t)
      BY <2>4, BodyRun, RunAsyncStartRun
    <2>5. CASE DrainTake(t) \/ DrainSkip(t) \/ DrainEnd(t) \/ Readmit(t)
      BY <2>5, DrainTakeRun, DrainSkipRun, DrainEndRun, ReadmitRun
    <2>6. CASE ReturnWidth(t) \/ CountDown(t) \/ CountCompleted(t)
      BY <2>6, ReturnWidthRun, CountDownRun, CountCompletedRun
    <2>7. QED
      BY <1>3, <2>1, <2>2, <2>3, <2>4, <2>5, <2>6 DEF Step
  <1>4. ASSUME NEW t \in Threads, TakeTask(t) PROVE RunInv'
    BY <1>4, TakeTaskRun
  <1>5. QED
    BY <1>1, <1>2, <1>3, <1>4 DEF ExecNext

\* The budget's accounts hold within a run, since it keeps the contract.
LEMMA RunInvariance == ExecSpec => [](IInv /\ Account /\ StackTypeOK /\ RunInv)
  <1>1. ExecSpec => []Account
    BY KeepsContract, AccountInvariance, PTL
  <1>2. Init => RunInv
    BY InitRun
  <1>3. (IInv /\ StackTypeOK) /\ (IInv /\ StackTypeOK)' /\ Account /\ RunInv /\ [ExecNext]_vars => RunInv'
    BY NextRun DEF IInv, Account
  <1>4. QED
    BY <1>1, <1>2, <1>3, ExecutorInvariance, PTL DEF ExecSpec

-----------------------------------------------------------------------------
(* What a run promises. *)

\* What the account says of a node that was run, and of one that may be.
LEMMA RunOrder ==
  ASSUME NEW st, NEW sp, NEW cnt, RunIn(st, sp, cnt), NEW i \in Nodes, st[i] # "waiting"
  PROVE  \A p \in Preds[i] : runs[p] = 1
  <1>1. /\ CountsIn(st, cnt) /\ RunsIn(st) /\ st \in [Nodes -> Stages]
        /\ cnt \in SUBSET (Nodes \X Nodes)
    BY DEF RunIn, Accounts
  <1>2. Started
    BY <1>1, StartedBy
  <1>3. CountIn(i, st, cnt) /\ Preds[i] \subseteq Nodes /\ IsFiniteSet(Preds[i])
    BY <1>1, <1>2, NodesFinite DEF CountsIn
  <1>4. SUFFICES ASSUME NEW p \in Preds[i] PROVE runs[p] = 1
    OBVIOUS
  <1>5. Open(i, cnt) = {}
    <2>1. Cardinality(Open(i, cnt)) = 0
      BY <1>3, <1>4 DEF CountIn
    <2>2. IsFiniteSet(Open(i, cnt))
      BY <1>3, FS_Subset DEF Open
    <2>3. QED
      BY <2>1, <2>2, FS_EmptySet
  <1>6. <<p, i>> \in cnt /\ p \in Nodes
    BY <1>3, <1>4, <1>5 DEF Open
  <1>7. st[p] \in {"succ", "done"}
    BY <1>1, <1>6 DEF CountsIn
  <1>8. QED
    BY <1>1, <1>6, <1>7 DEF RunsIn, RanStages

\* The node of a task or a submission is past waiting, and was not run.
LEMMA AboutToRun ==
  ASSUME StackTypeOK, RunInv, NEW t \in Threads, NEW l \in NodeLabels \ RanStages, At(t, l)
  PROVE  /\ Top(t).node \in Nodes /\ runs[Top(t).node] = 0
         /\ \A p \in Preds[Top(t).node] : runs[p] = 1
         /\ runs = [i \in Nodes |-> runs[i]]
  <1>1. PICK st, sp, cnt : RunIn(st, sp, cnt)
    BY DEF RunInv
  <1>2. PICK i, D : i = Top(t).node /\ D = Depth(t)
    OBVIOUS
  <1>3. FramesIn(st, sp, cnt) /\ RunsIn(st)
    BY <1>1 DEF RunIn
  <1>4. i \in Nodes /\ st[i] = l
    BY <1>2, <1>3, TopPlace
  <1>5. l # "waiting"
    BY DEF NodeLabels
  <1>6. \A p \in Preds[i] : runs[p] = 1
    BY <1>1, <1>4, <1>5, RunOrder
  <1>7. QED
    BY <1>2, <1>3, <1>4, <1>6 DEF RunsIn

\* A step that runs or drains a node runs it once, after its predecessors.
LEMMA RunStep ==
  ASSUME StackTypeOK, RunInv, NEW t \in Threads, NEW l \in NodeLabels \ RanStages, At(t, l),
         runs' = [runs EXCEPT ![Top(t).node] = @ + 1], UNCHANGED returned
  PROVE  Dag!DagNext
  <1>1. PICK i : i = Top(t).node
    OBVIOUS
  <1>2. i \in Nodes /\ runs[i] = 0 /\ \A p \in Preds[i] : runs[p] = 1
    BY <1>1, AboutToRun
  <1>3. runs' = [runs EXCEPT ![i] = 1]
    BY <1>1, <1>2
  <1>4. Dag!RunOnce(i)
    BY <1>2, <1>3 DEF Dag!RunOnce, Dag!Over
  <1>5. QED
    BY <1>2, <1>4 DEF Dag!DagNext

\* execute() returns once, when every node is over.
LEMMA FinishStep ==
  ASSUME StackTypeOK, RunInv, ReturnToCaller
  PROVE  Dag!DagNext
  <1>1. PICK st, sp, cnt : RunIn(st, sp, cnt)
    BY DEF RunInv
  <1>2. RunsIn(st) /\ CompletedIn(st) /\ CallersIn /\ st \in [Nodes -> Stages]
    BY <1>1 DEF RunIn, Accounts
  <1>3. /\ stack[Main] # <<>> /\ completed = NumNodes
        /\ returned' = TRUE /\ UNCHANGED runs
    BY DEF ReturnToCaller, At
  <1>4. \A i \in Nodes : runs[i] = 1
    BY <1>2, <1>3, AllDone DEF RunsIn, RanStages
  <1>5. ~ returned
    BY <1>2, <1>3 DEF CallersIn
  <1>6. Dag!Finish
    BY <1>3, <1>4, <1>5 DEF Dag!Finish, Dag!Over
  <1>7. QED
    BY <1>6 DEF Dag!DagNext

\* Every step of the executor is one of the abstract run, or none of its business.
LEMMA DagStep ==
  ASSUME StackTypeOK, RunInv, [ExecNext]_vars
  PROVE  [Dag!DagNext]_(Dag!dagVars)
  <1>1. CASE ReturnToCaller
    BY <1>1, FinishStep
  <1>2. CASE SeedRoot \/ SubmitBatch \/ \E m \in MachineWidths(Main) : Reset(m)
    BY <1>2 DEF SeedRoot, SubmitBatch, Reset, Dag!dagVars
  <1>3. CASE Done \/ UNCHANGED vars
    BY <1>3 DEF Done, vars, execVars, Dag!dagVars
  <1>4. ASSUME NEW t \in Threads, Step(t) PROVE [Dag!DagNext]_(Dag!dagVars)
    <2>1. CASE SubmitOverBudget(t)
      BY <2>1, RunStep DEF SubmitOverBudget, NodeLabels, RanStages
    <2>2. CASE RunNode(t)
      BY <2>2, RunStep DEF RunNode, NodeLabels, RanStages
    <2>3. CASE RunAsyncFinish(t)
      BY <2>3, RunStep DEF RunAsyncFinish, NodeLabels, RanStages
    <2>4. CASE \/ SubmitDeferred(t) \/ SubmitCharged(t) \/ AdmitUngated(t)
               \/ \E m \in MachineWidths(t) : AdmitGranted(t, m) \/ AdmitParked(t, m)
      BY <2>4 DEF SubmitDeferred, SubmitCharged, AdmitUngated, AdmitGranted, AdmitParked, Dag!dagVars
    <2>5. CASE \/ DrainBudget(t) \/ ResumeParked(t) \/ FreeBytes(t)
               \/ DrainStart(t) \/ DrainTake(t) \/ DrainSkip(t) \/ DrainEnd(t)
      BY <2>5 DEF DrainBudget, execVars, ResumeParked, FreeBytes, DrainStart, DrainTake, DrainSkip,
                  DrainEnd, Dag!dagVars
    <2>6. CASE \/ Readmit(t) \/ RunAsyncStart(t) \/ ReturnWidth(t) \/ CountDown(t) \/ CountCompleted(t)
      BY <2>6 DEF Readmit, RunAsyncStart, ReturnWidth, CountDown, CountCompleted, Dag!dagVars
    <2>7. QED
      BY <1>4, <2>1, <2>2, <2>3, <2>4, <2>5, <2>6 DEF Step
  <1>5. ASSUME NEW t \in Threads, TakeTask(t) PROVE [Dag!DagNext]_(Dag!dagVars)
    BY <1>5 DEF TakeTask, Dag!dagVars
  <1>6. QED
    BY <1>1, <1>2, <1>3, <1>4, <1>5 DEF ExecNext, CallerStep

\* On any graph, with any budgets and on any number of threads: every node is run
\* or drained exactly once, after all its predecessors, whatever was deferred,
\* parked or failed on the way, and execute() returns after the last one.
THEOREM RunsTheGraph == ExecSpec => Dag!DagSafety
  <1>1. Init => Dag!DagInit
    BY DEF Init, Dag!DagInit
  <1>2. StackTypeOK /\ RunInv /\ [ExecNext]_vars => [Dag!DagNext]_(Dag!dagVars)
    BY DagStep
  <1>3. QED
    BY <1>1, <1>2, RunInvariance, PTL DEF ExecSpec, Dag!DagSafety

\* A finished run: every node is over, so no frame, task or entry is left.
LEMMA AllOver ==
  ASSUME StackTypeOK, RunInv, returned
  PROVE  /\ queue = {} /\ batch = {} /\ deferred = <<>>
         /\ \A t \in Threads : stack[t] = <<>> /\ ready[t] = <<>> /\ mutex # t
         /\ \A i \in Nodes : phase[i] \in {"idle", "returned"}
  <1>1. PICK st, sp, cnt : RunIn(st, sp, cnt)
    BY DEF RunInv
  <1>2. /\ FramesIn(st, sp, cnt) /\ PhasesIn(st) /\ TasksIn(st) /\ DeferredIn(st)
        /\ CallersIn /\ CompletedIn(st) /\ st \in [Nodes -> Stages]
    BY <1>1 DEF RunIn, Accounts
  <1>3. \A i \in Nodes : st[i] = "done"
    BY <1>2, AllDone DEF CompletedIn
  <1>4. queue = {} /\ batch = {}
    <2>1. \A task \in queue \cup batch : task[1] \in Nodes
      BY DEF StackTypeOK, Tasks
    <2>2. \A task \in queue \cup batch : FALSE
      BY <2>1, <1>2, <1>3 DEF TasksIn
    <2>3. QED
      BY <2>2
  <1>5. deferred = <<>>
    <2>1. deferred \in Seq(Nodes)
      BY DEF StackTypeOK
    <2>2. 1 \notin DOMAIN deferred
      BY <2>1, <1>2, <1>3 DEF DeferredIn
    <2>3. QED
      BY <2>1, <2>2
  <1>6. ASSUME NEW t \in Threads PROVE stack[t] = <<>>
    <2>1. CASE t = Main
      BY <2>1, <1>2 DEF CallersIn
    <2>2. CASE t # Main
      <3>1. SUFFICES ASSUME stack[t] # <<>> PROVE FALSE
        OBVIOUS
      <3>2. 1 \in 1 .. Depth(t) /\ Bot(t, 1) \in Frames
        BY <3>1, Places
      <3>3. FrameIn(Bot(t, 1), t, 1, st, sp, cnt)
        BY <3>2, <1>2 DEF FramesIn
      <3>4. Bot(t, 1).at \notin CallerLabels
        BY <2>2, <3>3 DEF FrameIn
      <3>5. Bot(t, 1).at \in NodeLabels /\ Bot(t, 1).node \in Nodes
        BY <3>2, <3>4 DEF Frames
      <3>6. Bot(t, 1).at = "done"
        BY <3>3, <3>5, <1>3 DEF FrameIn
      <3>7. QED
        BY <3>5, <3>6 DEF NodeLabels
    <2>3. QED
      BY <2>1, <2>2
  <1>7. \A t \in Threads : ready[t] = <<>> /\ mutex # t
    BY <1>2, <1>6 DEF CallersIn
  <1>8. ASSUME NEW i \in Nodes PROVE phase[i] \in {"idle", "returned"}
    <2>1. PhaseFits("done", phase[i])
      BY <1>2, <1>3 DEF PhasesIn
    <2>2. QED
      BY <2>1 DEF PhaseFits
  <1>9. QED
    BY <1>4, <1>5, <1>6, <1>7, <1>8

\* When execute() returns nothing in the program refers to the scaffold it pools:
\* no task, no batch, no deferred node, no frame of a thread, no continuation.
THEOREM ScaffoldAlwaysUnused == ExecSpec => []ScaffoldUnused
  <1>1. StackTypeOK /\ RunInv => ScaffoldUnused
    BY AllOver DEF ScaffoldUnused
  <1>2. QED
    BY <1>1, RunInvariance, PTL

\* ... and, failed or not, the run has handed all its width back: no request is
\* parked, the lock is free and the charge is zero.
THEOREM WidthAlwaysReturned == ExecSpec => []WidthReturned
  <1>1. IInv /\ Account /\ StackTypeOK /\ RunInv => WidthReturned
    <2> SUFFICES ASSUME IInv, Account, StackTypeOK, RunInv, returned
                 PROVE  inUse = 0 /\ parked = {} /\ mutex = NoThread
      BY DEF WidthReturned
    <2>1. /\ \A t \in Threads : mutex # t
          /\ \A i \in Requests : phase[i] \in {"idle", "returned"}
      BY AllOver, ExecutorAssumption
    <2>2. mutex = NoThread
      BY <2>1 DEF IInv, TypeOK
    <2>3. parked = {}
      <3>1. \A e \in parked : phase[e.req] = "parked" /\ e.req \in Requests
        BY DEF Account, QueuedOnce, IInv, TypeOK, Entries
      <3>2. QED
        BY <3>1, <2>1
    <2>4. inUse = 0
      <3>1. {r \in Requests : phase[r] \in ChargedPhases} = {}
        BY <2>1 DEF ChargedPhases
      <3>2. inUse = SumFunctionOnSet(grant, {})
        BY <3>1 DEF Account, Conservation, WidthIn
      <3>3. QED
        BY <3>2, SumEmpty
    <2>5. QED
      BY <2>2, <2>3, <2>4
  <1>2. QED
    BY <1>1, RunInvariance, PTL

-----------------------------------------------------------------------------
(* The ranges of the counters, and the memory budget. *)

\* What only its own actions write.
Flags == failed \in BOOLEAN /\ widthsActive \in BOOLEAN /\ returned \in BOOLEAN

LEMMA FlagsKept == Flags /\ [ExecNext]_vars => Flags'
  <1> SUFFICES ASSUME Flags, [ExecNext]_vars PROVE Flags'
    OBVIOUS
  <1>1. CASE CallerStep
    <2>1. CASE SeedRoot \/ SubmitBatch \/ ReturnToCaller
      BY <2>1 DEF SeedRoot, SubmitBatch, ReturnToCaller, scaffold, Flags
    <2>2. ASSUME NEW m, Reset(m) PROVE Flags'
      <3>1. widthsActive' \in BOOLEAN /\ UNCHANGED <<failed, returned>>
        BY <2>2 DEF Reset, AnyWide
      <3>2. QED
        BY <3>1 DEF Flags
    <2>3. QED
      BY <1>1, <2>1, <2>2 DEF CallerStep
  <1>2. CASE Done \/ UNCHANGED vars
    BY <1>2 DEF Done, vars, execVars, scaffold, Flags
  <1>3. ASSUME NEW t \in Threads, Step(t) PROVE Flags'
    <2>1. CASE SubmitOverBudget(t) \/ SubmitDeferred(t) \/ SubmitCharged(t) \/ AdmitUngated(t)
      BY <2>1 DEF SubmitOverBudget, SubmitDeferred, SubmitCharged, AdmitUngated, Flags
    <2>2. CASE \E m \in MachineWidths(t) : AdmitGranted(t, m) \/ AdmitParked(t, m)
      BY <2>2 DEF AdmitGranted, AdmitParked, scaffold, Flags
    <2>3. CASE DrainBudget(t) \/ ResumeParked(t) \/ FreeBytes(t)
      BY <2>3 DEF DrainBudget, execVars, ResumeParked, scaffold, FreeBytes, Flags
    <2>4. CASE RunNode(t) \/ RunAsyncStart(t) \/ RunAsyncFinish(t)
      <3>1. PICK i : BodyOutcome(i)
        BY <2>4 DEF RunNode, RunAsyncStart, RunAsyncFinish
      <3>2. failed' \in BOOLEAN
        BY <3>1 DEF BodyOutcome, Flags
      <3>3. UNCHANGED <<widthsActive, returned>>
        BY <2>4 DEF RunNode, RunAsyncStart, RunAsyncFinish
      <3>4. QED
        BY <3>2, <3>3 DEF Flags
    <2>5. CASE DrainStart(t) \/ DrainTake(t) \/ DrainSkip(t) \/ DrainEnd(t) \/ Readmit(t)
      BY <2>5 DEF DrainStart, DrainTake, DrainSkip, DrainEnd, Readmit, scaffold, Flags
    <2>6. CASE ReturnWidth(t) \/ CountDown(t) \/ CountCompleted(t)
      BY <2>6 DEF ReturnWidth, CountDown, CountCompleted, scaffold, Flags
    <2>7. QED
      BY <1>3, <2>1, <2>2, <2>3, <2>4, <2>5, <2>6 DEF Step
  <1>4. ASSUME NEW t \in Threads, TakeTask(t) PROVE Flags'
    BY <1>4 DEF TakeTask, scaffold, Flags
  <1>5. QED
    BY <1>1, <1>2, <1>3, <1>4 DEF ExecNext

\* The counts are of nodes and of predecessors.
LEMMA CountRanges ==
  ASSUME RunInv
  PROVE  /\ remaining \in [Nodes -> 0 .. NumNodes]
         /\ completed \in 0 .. NumNodes
         /\ memory \in 0 .. (WordSize - 1)
         /\ runs \in [Nodes -> 0 .. 1]
  <1>1. PICK st, sp, cnt : RunIn(st, sp, cnt)
    BY DEF RunInv
  <1>2. RunsIn(st) /\ CountsIn(st, cnt) /\ CompletedIn(st) /\ LedgerIn(st)
    BY <1>1 DEF RunIn
  <1>3. NumNodes \in Nat
    BY ExecutorAssumption
  <1>4. ASSUME NEW j \in Nodes PROVE remaining[j] \in 0 .. NumNodes
    <2>1. CASE ~ Started
      BY <2>1, <1>2, <1>3 DEF CountsIn
    <2>2. CASE Started
      <3>1. remaining[j] = Cardinality(Open(j, cnt)) /\ Open(j, cnt) \subseteq Nodes
        BY <2>2, <1>2, NodesFinite DEF CountsIn, CountIn, Open
      <3>2. Cardinality(Open(j, cnt)) \in Nat /\ Cardinality(Open(j, cnt)) <= NumNodes
        BY <3>1, NodesFinite, FS_Subset, FS_CardinalityType
      <3>3. QED
        BY <3>1, <3>2, <1>3
    <2>3. QED
      BY <2>1, <2>2
  <1>5. remaining \in [Nodes -> 0 .. NumNodes]
    <2>1. remaining \in [Nodes -> Nat]
      BY <1>2 DEF CountsIn
    <2>2. QED
      BY <2>1, <1>4
  <1>6. completed \in 0 .. NumNodes
    <2> DEFINE Over == {i \in Nodes : st[i] = "done"}
    <2>1. IsFiniteSet(Over) /\ Cardinality(Over) <= NumNodes
      BY NodesFinite, FS_Subset
    <2>2. Cardinality(Over) \in Nat
      BY <2>1, FS_CardinalityType
    <2>3. QED
      BY <2>1, <2>2, <1>2, <1>3 DEF CompletedIn
  <1>7. memory \in 0 .. (WordSize - 1)
    BY <1>2 DEF LedgerIn
  <1>8. runs \in [Nodes -> 0 .. 1]
    BY <1>2 DEF RunsIn
  <1>9. QED
    BY <1>5, <1>6, <1>7, <1>8

\* No node is run, counted or counted down more often than it should be: no
\* counter of the scaffold leaves its range, on any interleaving.
THEOREM CountersInRange == ExecSpec => []ExecTypeOK
  <1>1. Init => Flags
    BY DEF Init, Flags
  <1>2. IInv /\ StackTypeOK /\ RunInv /\ Flags => ExecTypeOK
    BY CountRanges DEF ExecTypeOK, IInv, Flags
  <1>3. QED
    BY <1>1, <1>2, FlagsKept, RunInvariance, PTL DEF ExecSpec

\* The bytes of the nodes of a kind are a sum over a set of nodes.
LEMMA BytesAreSums ==
  ASSUME NEW k
  PROVE  BytesOf(k) = SumFunctionOnSet(Bytes, {i \in Nodes : Kind[i] = k /\ runs[i] = 1 /\ Bytes[i] <= MemoryBudget})
  BY DEF BytesOf, MapThenSumSet, SumFunctionOnSet, FoldFunctionOnSet

\* A node without bytes adds nothing to a sum.
LEMMA SumPositive ==
  ASSUME NEW S \in SUBSET Nodes
  PROVE  SumFunctionOnSet(Bytes, S) = SumFunctionOnSet(Bytes, {i \in S : Bytes[i] > 0})
  <1> DEFINE Sum(V) == SumFunctionOnSet(Bytes, V)
             Heavy(V) == {i \in V : Bytes[i] > 0}
             Good == {n \in Nat : \A V \in SUBSET Nodes : Cardinality(V) = n => Sum(V) = Sum(Heavy(V))}
  <1>1. \A V \in SUBSET Nodes : IsFiniteSet(V) /\ Cardinality(V) \in Nat
    BY NodesFinite, FS_Subset, FS_CardinalityType
  <1>2. \A V \in SUBSET Nodes : \A x \in V : Bytes[x] \in Int /\ Bytes[x] \in Nat
    BY LedgerFacts
  <1>3. 0 \in Good
    <2> SUFFICES ASSUME NEW V \in SUBSET Nodes, Cardinality(V) = 0 PROVE Sum(V) = Sum(Heavy(V))
      OBVIOUS
    <2>1. V = {} /\ Heavy(V) = {}
      BY <1>1, FS_EmptySet
    <2>2. QED
      BY <2>1
  <1>4. ASSUME NEW n \in Good PROVE n + 1 \in Good
    <2> SUFFICES ASSUME NEW V \in SUBSET Nodes, Cardinality(V) = n + 1, V # Heavy(V)
                 PROVE  Sum(V) = Sum(Heavy(V))
      OBVIOUS
    <2>1. PICK y \in V : ~ (Bytes[y] > 0)
      OBVIOUS
    <2>2. Bytes[y] = 0
      BY <1>2, <2>1
    <2>3. IsFiniteSet(V) /\ n \in Nat /\ V \ {y} \in SUBSET Nodes
      BY <1>1
    <2>4. Cardinality(V \ {y}) = n
      BY <2>3, SizeWithout
    <2>5. Sum(V \ {y}) = Sum(Heavy(V \ {y}))
      BY <2>3, <2>4
    <2>6. Heavy(V \ {y}) = Heavy(V)
      BY <2>1
    <2>7. Sum(V) \in Int /\ Sum(V) = Bytes[y] + Sum(V \ {y}) /\ Sum(V \ {y}) \in Int
      BY <1>1, <1>2, <2>3, SumSplit
    <2> HIDE DEF Sum, Heavy
    <2>8. QED
      BY <2>2, <2>5, <2>6, <2>7
  <1>5. Good = Nat
    <2> HIDE DEF Good
    <2>1. Good \in SUBSET Nat
      BY DEF Good
    <2>2. QED
      BY <2>1, <1>3, <1>4, Induction
  <1>6. QED
    BY <1>1, <1>5

\* What the nodes that ran hold is part of the charge.
LEMMA AllocatedIsCharged ==
  ASSUME RunInv, RoomForTwo, FreesFit
  PROVE  AllocatedWithinBudget
  <1> SUFFICES ASSUME MemoryBudget > 0 PROVE BytesOf("materialize") - BytesOf("free") <= MemoryBudget
    BY DEF AllocatedWithinBudget
  <1>1. PICK st, sp, cnt : RunIn(st, sp, cnt)
    BY DEF RunInv
  <1>2. RunsIn(st) /\ LedgerIn(st)
    BY <1>1 DEF RunIn
  <1> DEFINE Ran(k) == {i \in Nodes : Kind[i] = k /\ runs[i] = 1 /\ Bytes[i] <= MemoryBudget}
             Heavy(S) == {i \in S : Bytes[i] > 0}
             Sum(S) == SumFunctionOnSet(Bytes, S)
  <1>3. \A i \in Nodes : runs[i] = 1 <=> st[i] \in RanStages
    BY <1>2 DEF RunsIn
  <1>4. Heavy(Ran("materialize")) \subseteq Charged(st)
    BY <1>3 DEF Charged, Bounded, Gated, UnpaidStages, RanStages
  <1>5. Refunded(st) \subseteq Ran("free")
    BY <1>3 DEF Refunded, IsFree, RefundedStages, FreesFit
  <1>6. Ran("free") \subseteq Nodes /\ Ran("materialize") \subseteq Nodes
        /\ Charged(st) \subseteq Nodes
    BY DEF Charged
  <1> HIDE DEF Ran, Heavy
  <1>7. /\ IsFiniteSet(Ran("free")) /\ IsFiniteSet(Ran("materialize")) /\ IsFiniteSet(Charged(st))
        /\ \A x \in Ran("free") \cup Ran("materialize") \cup Charged(st) : Bytes[x] \in Nat /\ Bytes[x] \in Int
    BY <1>6, NodesFinite, FS_Subset, LedgerFacts
  <1>8. Sum(Heavy(Ran("materialize"))) <= Sum(Charged(st))
    BY <1>4, <1>7, SumSubset
  <1>9. Sum(Refunded(st)) <= Sum(Ran("free"))
    BY <1>5, <1>7, SumSubset
  <1>10. Sum(Ran("materialize")) = Sum(Heavy(Ran("materialize")))
    BY <1>6, SumPositive DEF Heavy
  <1>11. /\ Sum(Ran("free")) \in Int /\ Sum(Ran("materialize")) \in Int
         /\ Sum(Charged(st)) \in Int /\ Sum(Refunded(st)) \in Int
    BY <1>7, SumSplit, LedgerFacts
  <1>12. Sum(Charged(st)) - Sum(Refunded(st)) <= MemoryBudget
    BY <1>2 DEF LedgerIn, Outstanding
  <1>13. BytesOf("materialize") = Sum(Ran("materialize")) /\ BytesOf("free") = Sum(Ran("free"))
    BY BytesAreSums DEF Ran
  <1> HIDE DEF Sum
  <1>14. QED
    BY <1>8, <1>9, <1>10, <1>11, <1>12, <1>13, LedgerFacts

\* Whichever threads materialize, free and drain at once, and however the byte
\* counter wraps, what is allocated stays within the memory budget, if two budgets
\* fit the counter and no Free returns more bytes than the budget ever gave.
THEOREM MemoryBudgetKept ==
  ASSUME RoomForTwo, FreesFit
  PROVE  ExecSpec => []AllocatedWithinBudget
  <1>1. RunInv => AllocatedWithinBudget
    BY AllocatedIsCharged
  <1>2. QED
    BY <1>1, RunInvariance, PTL

-----------------------------------------------------------------------------
(* No deferred node is lost, when every Free has a Materialize of its own. *)

\* A Free that ran has its Materialize before it: the balance is never negative.
LEMMA NeverOverdrawn ==
  ASSUME NEW st, NEW sp, NEW cnt, RunIn(st, sp, cnt), NEW m, FreesMatch(m)
  PROVE  0 <= Outstanding(st)
  <1> DEFINE Ran == {i \in Nodes : runs[i] = 1}
             Own == {m[i] : i \in Refunded(st)}
  <1>1. RunsIn(st) /\ st \in [Nodes -> Stages]
    BY DEF RunIn, Accounts
  <1>2. \A i \in Nodes : runs[i] = 1 <=> st[i] \in RanStages
    BY <1>1 DEF RunsIn
  <1>3. ASSUME NEW i \in Ran PROVE Preds[i] \subseteq Ran
    <2>1. i \in Nodes /\ st[i] # "waiting" /\ Preds[i] \subseteq Nodes
      BY <1>2, NodesFinite DEF RanStages
    <2>2. \A p \in Preds[i] : runs[p] = 1
      BY <2>1, RunOrder
    <2>3. QED
      BY <2>1, <2>2
  <1>4. ASSUME NEW i \in Refunded(st)
        PROVE  /\ i \in Nodes /\ m[i] \in Charged(st)
               /\ Bytes[m[i]] = Bytes[i] /\ Bytes[i] \in Int
    <2>1. i \in Nodes /\ IsFree(i) /\ st[i] \in RanStages
      BY DEF Refunded, RefundedStages
    <2>2. /\ m[i] \in Nodes /\ Kind[m[i]] = "materialize"
          /\ Bytes[m[i]] = Bytes[i] /\ Bytes[i] <= MemoryBudget /\ After(i, m[i])
      BY <2>1 DEF FreesMatch
    <2>3. i \in Ran /\ Ran \in SUBSET Nodes
      BY <1>2, <2>1
    <2> HIDE DEF Ran
    <2>4. m[i] \in Ran
      BY <1>3, <2>2, <2>3 DEF After
    <2>5. st[m[i]] \in RanStages
      BY <1>2, <2>4 DEF Ran
    <2>6. m[i] \in Charged(st)
      BY <2>1, <2>2, <2>5 DEF Charged, Bounded, Gated, IsFree, RanStages, UnpaidStages
    <2>7. QED
      BY <2>1, <2>2, <2>6, LedgerFacts
  <1>5. ASSUME NEW x \in Refunded(st), NEW y \in Refunded(st), m[x] = m[y] PROVE x = y
    BY <1>5 DEF Refunded, FreesMatch
  <1>6. SumFunctionOnSet(Bytes, Own) = SumFunctionOnSet(Bytes, Refunded(st))
    <2>1. /\ IsFiniteSet(Refunded(st)) /\ \A x \in Refunded(st) : Bytes[x] \in Int
          /\ \A x \in Refunded(st) : Bytes[m[x]] = Bytes[x]
      BY <1>4, LedgerFacts
    <2>2. \A x, y \in Refunded(st) : m[x] = m[y] => x = y
      BY <1>5
    <2>3. QED
      BY <2>1, <2>2, SumInjection
  <1>7. Own \in SUBSET Charged(st)
    BY <1>4
  <1> HIDE DEF Own
  <1>8. SumFunctionOnSet(Bytes, Own) <= SumFunctionOnSet(Bytes, Charged(st))
    <2>1. IsFiniteSet(Charged(st)) /\ \A x \in Charged(st) : Bytes[x] \in Nat
      BY LedgerFacts DEF Charged
    <2>2. QED
      BY <1>7, <2>1, SumSubset
  <1>9. SumFunctionOnSet(Bytes, Refunded(st)) <= SumFunctionOnSet(Bytes, Charged(st))
    BY <1>6, <1>8
  <1>10. QED
    BY <1>9, LedgerFacts DEF Outstanding

\* The counter is the balance itself then: the gate tests what it means to.
MemoryInBudget ==
  /\ memory \in 0 .. MemoryBudget
  /\ \A k \in DOMAIN deferred : Bytes[deferred[k]] \in 0 .. MemoryBudget

LEMMA CounterIsBalance ==
  ASSUME StackTypeOK, RunInv, RoomForTwo, NEW m, FreesMatch(m)
  PROVE  MemoryInBudget
  <1>1. PICK st, sp, cnt : RunIn(st, sp, cnt)
    BY DEF RunInv
  <1>2. LedgerIn(st) /\ DeferredIn(st)
    BY <1>1 DEF RunIn
  <1>3. 0 <= Outstanding(st)
    BY <1>1, NeverOverdrawn
  <1>4. PICK q \in Int : memory = Outstanding(st) + q * WordSize
    BY <1>2 DEF LedgerIn
  <1>5. PICK X, o, W, B : X = Outstanding(st) /\ o = memory /\ W = WordSize /\ B = MemoryBudget
    OBVIOUS
  <1>6. /\ X \in 0 .. B /\ W \in Nat \ {0} /\ B \in Nat /\ B < W
        /\ o = X + q * W /\ o \in 0 .. W - 1
    BY <1>2, <1>3, <1>4, <1>5, LedgerFacts DEF LedgerIn
  <1>7. q * W \in Int /\ (q < 0 => q * W <= - W) /\ (-q < 0 => (-q) * W <= - W) /\ (-q) * W = - (q * W)
    BY <1>6, NoWrap
  <1>8. ~ (q < 0) /\ ~ (-q < 0)
    <2> DEFINE z == q * W
    <2>1. z \in Int /\ o = X + z /\ (q < 0 => z <= - W) /\ (-q < 0 => - z <= - W)
      BY <1>6, <1>7
    <2> HIDE DEF z
    <2>2. QED
      BY <1>6, <2>1
  <1>9. q = 0
    BY <1>8
  <1>10. o = X
    BY <1>6, <1>9
  <1>11. memory \in 0 .. MemoryBudget
    BY <1>5, <1>6, <1>10
  <1>12. ASSUME NEW k \in DOMAIN deferred PROVE Bytes[deferred[k]] \in 0 .. MemoryBudget
    <2>1. deferred[k] \in Nodes /\ st[deferred[k]] = "deferred"
      BY <1>2 DEF StackTypeOK, DeferredIn
    <2>2. Bounded(deferred[k])
      BY <1>2, <2>1 DEF LedgerIn, KindFits
    <2>3. QED
      BY <2>1, <2>2, LedgerFacts DEF Bounded
  <1>13. QED
    BY <1>11, <1>12 DEF MemoryInBudget

\* ... and says that a node fits when there is room for it.
LEMMA FitIsRoom ==
  ASSUME RoomForTwo, NEW a \in 0 .. MemoryBudget, NEW b \in 0 .. MemoryBudget
  PROVE  AddBytes(a, b) = a + b /\ (BytesFit(a, b) <=> a + b <= MemoryBudget)
  <1>1. PICK W, B : W = WordSize /\ B = MemoryBudget
    OBVIOUS
  <1>2. W \in Nat \ {0} /\ B \in Nat /\ a \in 0 .. B /\ b \in 0 .. B /\ 2 * B < W
    BY <1>1, LedgerFacts DEF RoomForTwo
  <1>3. a + b \in Nat /\ a + b < W
    BY <1>2
  <1>4. (a + b) % W = a + b
    BY <1>2, <1>3
  <1>5. QED
    BY <1>1, <1>4 DEF AddBytes, BytesFit

\* Some thread will come past entry k of the deferred nodes: t, when it walks.
Walks(t, k) == stack[t] # <<>> /\ (Top(t).at = "drain" \/ (Top(t).at = "scan" /\ scan <= k))
Walked(k) == \E t \in Threads : Walks(t, k)

\* A thread that does not move walks on.
LEMMA WalksOn ==
  ASSUME NEW u, stack'[u] = stack[u], NEW k, Walks(u, k), scan' = scan \/ Top(u).at = "drain"
  PROVE  Walks(u, k)'
  BY DEF Walks, Top

\* A step of a thread that does not walk, and charges or frees nothing.
LEMMA NothingLostElsewhere ==
  ASSUME NoLostDeferred, NEW t, stack[t] = <<>> \/ Top(t).at \notin {"drain", "scan"},
         \A u \in Threads : u # t => stack'[u] = stack[u], UNCHANGED <<memory, deferred, scan>>
  PROVE  NoLostDeferred'
  <1> SUFFICES ASSUME NEW k \in DOMAIN deferred, BytesFit(memory, Bytes[deferred[k]])
               PROVE  Walked(k)'
    BY DEF NoLostDeferred, Walked, Walks, BytesFit, AddBytes
  <1>1. PICK u \in Threads : Walks(u, k)
    BY DEF NoLostDeferred, Walks
  <1>2. u # t
    BY <1>1 DEF Walks
  <1>3. Walks(u, k)'
    BY <1>1, <1>2, WalksOn
  <1>4. QED
    BY <1>3 DEF Walked

\* Room only shrinks with a charge: a node that fits after it did before.
LEMMA FitsBefore ==
  ASSUME RoomForTwo, MemoryInBudget, NEW c \in 0 .. MemoryBudget, BytesFit(memory, c),
         NEW b \in 0 .. MemoryBudget, BytesFit(AddBytes(memory, c), b)
  PROVE  BytesFit(memory, b)
  <1>1. PICK o, B : o = memory /\ B = MemoryBudget
    OBVIOUS
  <1>2. o \in 0 .. B /\ B \in Nat /\ c \in 0 .. B /\ b \in 0 .. B
    BY <1>1, LedgerFacts DEF MemoryInBudget
  <1>3. o + c <= B /\ AddBytes(o, c) = o + c
    BY <1>1, <1>2, FitIsRoom
  <1>4. o + c \in 0 .. B
    BY <1>2, <1>3
  <1>5. o + c + b <= B
    BY <1>1, <1>2, <1>3, <1>4, FitIsRoom
  <1>6. o + b <= B
    BY <1>2, <1>5
  <1>7. QED
    BY <1>1, <1>2, <1>6, FitIsRoom

\* The submission that defers a node found no room for it.
LEMMA SubmitDeferredLosesNone ==
  ASSUME StackTypeOK, NoLostDeferred, NEW t \in Threads, SubmitDeferred(t)
  PROVE  NoLostDeferred'
  <1> DEFINE i == Top(t).node
  <1>1. /\ At(t, "submit") /\ ~ BytesFit(memory, Bytes[i])
        /\ deferred' = Append(deferred, i) /\ Leave(t) /\ UNCHANGED <<memory, scan>>
    BY DEF SubmitDeferred
  <1>2. stack[t] # <<>> /\ Top(t).at = "submit" /\ i \in Nodes
    BY <1>1, TopFrame DEF At, NodeLabels
  <1>3. \A u \in Threads : u # t => stack'[u] = stack[u]
    BY <1>1 DEF Leave, StackTypeOK
  <1>4. /\ deferred \in Seq(Nodes) /\ DOMAIN deferred' = 1 .. Len(deferred) + 1
        /\ deferred'[Len(deferred) + 1] = i
        /\ \A k \in 1 .. Len(deferred) : deferred'[k] = deferred[k] /\ k \in DOMAIN deferred
    BY <1>1, <1>2 DEF StackTypeOK
  <1> HIDE DEF i
  <1> SUFFICES ASSUME NEW k \in DOMAIN deferred', BytesFit(memory, Bytes[deferred'[k]])
               PROVE  Walked(k)'
    BY <1>1 DEF NoLostDeferred, Walked, Walks, BytesFit, AddBytes
  <1>5. k # Len(deferred) + 1
    BY <1>1, <1>4
  <1>6. k \in 1 .. Len(deferred)
    BY <1>4, <1>5
  <1>7. PICK u \in Threads : Walks(u, k)
    BY <1>4, <1>6 DEF NoLostDeferred, Walks
  <1>8. u # t
    BY <1>2, <1>7 DEF Walks
  <1>9. Walks(u, k)'
    BY <1>1, <1>3, <1>7, <1>8, WalksOn
  <1>10. QED
    BY <1>9 DEF Walked

LEMMA SubmitChargedLosesNone ==
  ASSUME StackTypeOK, RoomForTwo, MemoryInBudget, NoLostDeferred, NEW t \in Threads, SubmitCharged(t)
  PROVE  NoLostDeferred'
  <1> DEFINE i == Top(t).node
  <1>1. /\ At(t, "submit") /\ Bytes[i] <= MemoryBudget /\ BytesFit(memory, Bytes[i])
        /\ memory' = AddBytes(memory, Bytes[i]) /\ Goto(t, Frame("admit", i))
        /\ UNCHANGED <<deferred, scan>>
    BY DEF SubmitCharged
  <1>2. stack[t] # <<>> /\ Top(t).at = "submit" /\ i \in Nodes
    BY <1>1, TopFrame DEF At, NodeLabels
  <1>3. \A u \in Threads : u # t => stack'[u] = stack[u]
    BY <1>1 DEF Goto, StackTypeOK
  <1>4. Bytes[i] \in 0 .. MemoryBudget
    BY <1>1, <1>2, LedgerFacts
  <1> HIDE DEF i
  <1> SUFFICES ASSUME NEW k \in DOMAIN deferred, BytesFit(memory', Bytes[deferred[k]])
               PROVE  Walked(k)'
    BY <1>1 DEF NoLostDeferred, Walked, Walks, BytesFit, AddBytes
  <1>5. Bytes[deferred[k]] \in 0 .. MemoryBudget
    BY DEF MemoryInBudget
  <1>6. BytesFit(memory, Bytes[deferred[k]])
    BY <1>1, <1>4, <1>5, FitsBefore
  <1>7. PICK u \in Threads : Walks(u, k)
    BY <1>6 DEF NoLostDeferred, Walks
  <1>8. u # t
    BY <1>2, <1>7 DEF Walks
  <1>9. Walks(u, k)'
    BY <1>1, <1>3, <1>7, <1>8, WalksOn
  <1>10. QED
    BY <1>9 DEF Walked

\* A thread that is about to walk, or starts to, will come past every entry.
LEMMA FreeBytesLosesNone ==
  ASSUME StackTypeOK, NEW t \in Threads, FreeBytes(t) \/ DrainStart(t)
  PROVE  NoLostDeferred'
  <1>1. PICK l \in {"drain", "scan"} :
          Goto(t, Frame(l, Top(t).node)) /\ (l = "scan" => scan' = 1)
    BY DEF FreeBytes, DrainStart
  <1>2. stack[t] \in Seq(Frames) /\ stack[t] # <<>> /\ stack \in [Threads -> Seq(Frames)]
    BY TopFrame DEF FreeBytes, DrainStart, At, StackTypeOK
  <1>3. stack'[t] # <<>> /\ Head(stack'[t]) = Frame(l, Top(t).node)
    BY <1>1, <1>2 DEF Goto
  <1>4. stack'[t] # <<>> /\ Head(stack'[t]).at = l
    BY <1>3 DEF Frame
  <1>5. deferred' \in Seq(Nodes) => \A k \in DOMAIN deferred' : 1 <= k
    OBVIOUS
  <1>6. deferred' \in Seq(Nodes)
    BY DEF FreeBytes, DrainStart, StackTypeOK
  <1>7. QED
    BY <1>1, <1>4, <1>5, <1>6 DEF NoLostDeferred, Top

\* The entries before the one taken are walked by somebody else, who has still to
\* start; those after it by the thread that took it.
LEMMA DrainTakeLosesNone ==
  ASSUME StackTypeOK, RoomForTwo, MemoryInBudget, NoLostDeferred, NEW t \in Threads, DrainTake(t)
  PROVE  NoLostDeferred'
  <1> DEFINE i == deferred[scan]
  <1>1. /\ At(t, "scan") /\ scan \in DOMAIN deferred /\ BytesFit(memory, Bytes[i])
        /\ memory' = AddBytes(memory, Bytes[i])
        /\ deferred' = SubSeq(deferred, 1, scan - 1) \o SubSeq(deferred, scan + 1, Len(deferred))
        /\ Goto(t, [Top(t) EXCEPT !.runnable = Append(@, i)]) /\ UNCHANGED scan
    BY DEF DrainTake
  <1>2. /\ stack[t] \in Seq(Frames) /\ stack[t] # <<>> /\ Top(t).at = "scan" /\ Top(t) \in NodeFrames
        /\ deferred \in Seq(Nodes) /\ stack \in [Threads -> Seq(Frames)]
    BY <1>1, TopFrame DEF At, NodeLabels, StackTypeOK
  <1>3. \A u \in Threads : u # t => stack'[u] = stack[u]
    BY <1>1, <1>2 DEF Goto
  <1>4. stack'[t] # <<>> /\ Head(stack'[t]).at = "scan"
    <2>1. stack'[t] # <<>> /\ Head(stack'[t]) = [Top(t) EXCEPT !.runnable = Append(@, i)]
      BY <1>1, <1>2 DEF Goto
    <2>2. QED
      BY <2>1, <1>2 DEF NodeFrames
  <1>5. Bytes[i] \in 0 .. MemoryBudget
    BY <1>1, SMTT(60) DEF MemoryInBudget
  <1>6. IsWithout(deferred', deferred, scan)
    BY <1>1 DEF IsWithout
  <1> HIDE DEF i
  <1> SUFFICES ASSUME NEW k \in DOMAIN deferred', BytesFit(memory', Bytes[deferred'[k]])
               PROVE  Walked(k)'
    BY DEF NoLostDeferred, Walked, Walks, BytesFit, AddBytes
  <1>7. k \in Nat /\ scan \in Nat /\ (k < scan => deferred'[k] = deferred[k] /\ k \in DOMAIN deferred)
    BY <1>1, <1>2, <1>6, WithoutEntry, SMTT(60) DEF StackTypeOK
  <1>8. CASE scan <= k
    <2>1. Walks(t, k)'
      BY <1>1, <1>4, <1>8 DEF Walks, Top
    <2>2. QED
      BY <2>1 DEF Walked
  <1>9. CASE ~ (scan <= k)
    <2>1. deferred'[k] = deferred[k] /\ k \in DOMAIN deferred
      BY <1>7, <1>9
    <2>2. Bytes[deferred[k]] \in 0 .. MemoryBudget
      BY <2>1, SMTT(60) DEF MemoryInBudget
    <2>3. BytesFit(memory, Bytes[deferred[k]])
      BY <1>1, <1>5, <2>1, <2>2, FitsBefore
    <2>4. PICK u \in Threads : Walks(u, k)
      BY <2>1, <2>3 DEF NoLostDeferred, Walks
    <2>5. u # t
      BY <1>2, <1>9, <2>4 DEF Walks
    <2>6. Walks(u, k)'
      BY <1>1, <1>3, <2>4, <2>5, WalksOn
    <2>7. QED
      BY <2>6 DEF Walked
  <1>10. QED
    BY <1>8, <1>9

\* What is skipped does not fit, and the end is past every entry.
LEMMA DrainSkipLosesNone ==
  ASSUME StackTypeOK, NoLostDeferred, NEW t \in Threads, DrainSkip(t)
  PROVE  NoLostDeferred'
  <1>1. /\ ~ BytesFit(memory, Bytes[deferred[scan]]) /\ scan' = scan + 1
        /\ UNCHANGED <<stack, memory, deferred>> /\ scan \in Nat
    BY DEF DrainSkip, StackTypeOK
  <1> SUFFICES ASSUME NEW k \in DOMAIN deferred, BytesFit(memory, Bytes[deferred[k]])
               PROVE  Walked(k)'
    BY <1>1 DEF NoLostDeferred, Walked, Walks, BytesFit, AddBytes
  <1>2. k # scan /\ k \in Nat
    BY <1>1 DEF StackTypeOK
  <1>3. PICK u \in Threads : Walks(u, k)
    BY DEF NoLostDeferred, Walks
  <1>4. scan <= k => scan + 1 <= k
    BY <1>1, <1>2
  <1>5. Walks(u, k)'
    BY <1>1, <1>3, <1>4 DEF Walks, Top
  <1>6. QED
    BY <1>5 DEF Walked

LEMMA DrainEndLosesNone ==
  ASSUME StackTypeOK, NoLostDeferred, NEW t \in Threads, DrainEnd(t)
  PROVE  NoLostDeferred'
  <1>1. /\ At(t, "scan") /\ scan > Len(deferred) /\ UNCHANGED <<memory, deferred>>
        /\ Goto(t, [Top(t) EXCEPT !.at = "readmit"]) /\ scan \in Nat /\ deferred \in Seq(Nodes)
    BY DEF DrainEnd, StackTypeOK
  <1>2. Top(t).at = "scan"
    BY <1>1 DEF At
  <1>3. \A u \in Threads : u # t => stack'[u] = stack[u]
    BY <1>1 DEF Goto, StackTypeOK
  <1> SUFFICES ASSUME NEW k \in DOMAIN deferred, BytesFit(memory, Bytes[deferred[k]])
               PROVE  Walked(k)'
    BY <1>1 DEF NoLostDeferred, Walked, Walks, BytesFit, AddBytes
  <1>4. ~ (scan <= k)
    BY <1>1
  <1>5. PICK u \in Threads : Walks(u, k)
    BY DEF NoLostDeferred, Walks
  <1>6. Top(u).at = "drain" /\ u # t
    BY <1>2, <1>4, <1>5 DEF Walks
  <1>7. Walks(u, k)'
    BY <1>3, <1>5, <1>6, WalksOn
  <1>8. QED
    BY <1>7 DEF Walked

\* The steps that replace, leave or call from a frame that does not walk.
LEMMA OtherStepLosesNone ==
  ASSUME StackTypeOK, NoLostDeferred, NEW t \in Threads, NEW l, At(t, l), l \notin {"drain", "scan"},
         \E f, g : Goto(t, f) \/ Call(t, f, g) \/ Leave(t), UNCHANGED <<memory, deferred, scan>>
  PROVE  NoLostDeferred'
  <1>1. Top(t).at \notin {"drain", "scan"}
    BY DEF At
  <1>2. \A u \in Threads : u # t => stack'[u] = stack[u]
    BY DEF Goto, Call, Leave, StackTypeOK
  <1>3. QED
    BY <1>1, <1>2, NothingLostElsewhere

LEMMA StillLosesNone ==
  ASSUME NoLostDeferred, UNCHANGED <<stack, memory, deferred, scan>>
  PROVE  NoLostDeferred'
  BY DEF NoLostDeferred, Top, BytesFit, AddBytes

LEMMA TakeTaskLosesNone ==
  ASSUME StackTypeOK, NoLostDeferred, NEW t \in Threads, TakeTask(t)
  PROVE  NoLostDeferred'
  <1>1. PICK f : stack' = [stack EXCEPT ![t] = <<f>> \o @]
    BY DEF TakeTask
  <1>2. stack[t] = <<>> \/ Top(t).at \notin {"drain", "scan"}
    BY DEF TakeTask, MayTake, At
  <1>3. UNCHANGED <<memory, deferred, scan>> /\ \A u \in Threads : u # t => stack'[u] = stack[u]
    BY <1>1 DEF TakeTask, scaffold, StackTypeOK
  <1>4. QED
    BY <1>2, <1>3, NothingLostElsewhere

LEMMA CallerLosesNone ==
  ASSUME StackTypeOK, NoLostDeferred, CallerStep
  PROVE  NoLostDeferred'
  <1>1. Main \in Threads
    BY ExecutorAssumption
  <1>2. CASE SeedRoot
    BY <1>1, <1>2, OtherStepLosesNone DEF SeedRoot, scaffold
  <1>3. CASE SubmitBatch
    BY <1>1, <1>3, OtherStepLosesNone DEF SubmitBatch
  <1>4. CASE ReturnToCaller
    BY <1>1, <1>4, OtherStepLosesNone DEF ReturnToCaller, scaffold
  <1>5. ASSUME NEW m, Reset(m) PROVE NoLostDeferred'
    BY <1>1, <1>5, OtherStepLosesNone DEF Reset
  <1>6. QED
    BY <1>2, <1>3, <1>4, <1>5 DEF CallerStep

LEMMA StepLosesNone ==
  ASSUME StackTypeOK, RoomForTwo, MemoryInBudget, NoLostDeferred, NEW t \in Threads, Step(t)
  PROVE  NoLostDeferred'
  <1>1. CASE SubmitOverBudget(t)
    BY <1>1, OtherStepLosesNone DEF SubmitOverBudget
  <1>2. CASE SubmitDeferred(t) \/ SubmitCharged(t)
    BY <1>2, SubmitDeferredLosesNone, SubmitChargedLosesNone
  <1>3. CASE AdmitUngated(t)
    BY <1>3, OtherStepLosesNone DEF AdmitUngated
  <1>4. ASSUME NEW m, AdmitGranted(t, m) PROVE NoLostDeferred'
    BY <1>4, OtherStepLosesNone DEF AdmitGranted
  <1>5. ASSUME NEW m, AdmitParked(t, m) PROVE NoLostDeferred'
    BY <1>5, OtherStepLosesNone DEF AdmitParked, scaffold
  <1>6. CASE DrainBudget(t) \/ ResumeParked(t)
    BY <1>6, StillLosesNone DEF DrainBudget, execVars, ResumeParked, scaffold
  <1>7. CASE RunNode(t)
    BY <1>7, OtherStepLosesNone DEF RunNode
  <1>8. CASE FreeBytes(t) \/ DrainStart(t)
    BY <1>8, FreeBytesLosesNone
  <1>9. CASE DrainTake(t) \/ DrainSkip(t) \/ DrainEnd(t)
    BY <1>9, DrainTakeLosesNone, DrainSkipLosesNone, DrainEndLosesNone
  <1>10. CASE Readmit(t)
    <2>1. At(t, "readmit") /\ UNCHANGED <<memory, deferred, scan>>
      BY <1>10 DEF Readmit, scaffold
    <2>2. \E f, g : Goto(t, f) \/ Call(t, f, g)
      BY <1>10 DEF Readmit
    <2>3. QED
      BY <2>1, <2>2, OtherStepLosesNone
  <1>11. CASE RunAsyncStart(t) \/ RunAsyncFinish(t)
    BY <1>11, OtherStepLosesNone DEF RunAsyncStart, RunAsyncFinish
  <1>12. CASE ReturnWidth(t)
    BY <1>12, OtherStepLosesNone DEF ReturnWidth, scaffold
  <1>13. CASE CountDown(t)
    <2>1. At(t, "succ") /\ UNCHANGED <<memory, deferred, scan>>
      BY <1>13 DEF CountDown
    <2>2. \E f, g : Goto(t, f) \/ Call(t, f, g)
      BY <1>13 DEF CountDown
    <2>3. QED
      BY <2>1, <2>2, OtherStepLosesNone
  <1>14. CASE CountCompleted(t)
    BY <1>14, OtherStepLosesNone DEF CountCompleted
  <1>15. QED
    BY <1>1, <1>2, <1>3, <1>4, <1>5, <1>6, <1>7, <1>8, <1>9, <1>10, <1>11, <1>12, <1>13, <1>14 DEF Step

\* On a graph whose Frees have Materializes of their own, the byte counter is
\* always the bytes in use: it is never below zero, where it would wrap, and never
\* above the budget.
THEOREM CounterStaysInBudget ==
  ASSUME RoomForTwo, NEW m, FreesMatch(m)
  PROVE  ExecSpec => [](memory \in 0 .. MemoryBudget)
  <1>1. StackTypeOK /\ RunInv => memory \in 0 .. MemoryBudget
    BY CounterIsBalance DEF MemoryInBudget
  <1>2. QED
    BY <1>1, RunInvariance, PTL

\* ... and no wake-up is lost between the gate and a Free: a deferred node there
\* is room for has a thread that will come past it.
THEOREM NothingDeferredLost ==
  ASSUME RoomForTwo, NEW m, FreesMatch(m)
  PROVE  ExecSpec => []NoLostDeferred
  <1>1. Init => NoLostDeferred
    BY DEF Init, NoLostDeferred
  <1>2. StackTypeOK /\ RunInv => MemoryInBudget
    BY CounterIsBalance
  <1>3. StackTypeOK /\ MemoryInBudget /\ NoLostDeferred /\ [ExecNext]_vars => NoLostDeferred'
    <2> SUFFICES ASSUME StackTypeOK, MemoryInBudget, NoLostDeferred, [ExecNext]_vars
                 PROVE  NoLostDeferred'
      OBVIOUS
    <2>1. CASE Done \/ UNCHANGED vars
      BY <2>1, StillLosesNone DEF Done, vars, execVars, scaffold
    <2>2. QED
      BY <2>1, CallerLosesNone, StepLosesNone, TakeTaskLosesNone DEF ExecNext
  <1>4. QED
    BY <1>1, <1>2, <1>3, RunInvariance, PTL DEF ExecSpec

=============================================================================
