--------------------------- MODULE DataflowFaults ---------------------------
(***************************************************************************)
(* DataflowExecutor with a pool that may run out of memory: once in a run, *)
(* enqueue_task() throws for a node complete() submits as a successor.     *)
(***************************************************************************)
EXTENDS DataflowExecutor

\* The exception leaves admit() with the width charged and is caught around
\* the successor loop, which is left with the successors it had still to count.
SubmissionThrows(t) ==
  LET i == Top(t).node
      caller == stack[t][2]
  IN
  /\ At(t, "admit") /\ ~ failed
  /\ Len(stack[t]) > 1 /\ caller.at = "succ"
  /\ IF widthsActive THEN \E m \in MachineWidths(t) : AcquireGranted(t, i, m)
                     ELSE UNCHANGED budgetVars
  /\ failed' = TRUE
  /\ stack' = [stack EXCEPT ![t] = <<[caller EXCEPT !.todo = {}]>> \o Tail(Tail(@))]
  /\ UNCHANGED <<queue, batch, remaining, completed, memory, deferred, scan, widthsActive,
                 runs, returned>>

FaultNext == ExecNext \/ \E t \in Threads : SubmissionThrows(t)

FaultSpec == Init /\ [][FaultNext]_vars /\ ExecFairness
=============================================================================
