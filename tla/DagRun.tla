------------------------------- MODULE DagRun -------------------------------
(***************************************************************************)
(* What any executor of a compute graph promises (Executor.hpp): every     *)
(* node is run once, or drained once after a failure, only after all its   *)
(* predecessors were, and execute() returns when the last one is over.     *)
(***************************************************************************)
EXTENDS Naturals

CONSTANTS
  Nodes,  \* the positions of the nodes in the graph's order
  Preds   \* the predecessors of each node

VARIABLES
  runs,      \* how often each node was run or drained
  returned   \* execute() is over

dagVars == <<runs, returned>>

Over(i) == runs[i] = 1

DagInit ==
  /\ runs = [i \in Nodes |-> 0]
  /\ returned = FALSE

RunOnce(i) ==
  /\ runs[i] = 0
  /\ \A p \in Preds[i] : Over(p)
  /\ runs' = [runs EXCEPT ![i] = 1]
  /\ UNCHANGED returned

Finish ==
  /\ ~ returned
  /\ \A i \in Nodes : Over(i)
  /\ returned' = TRUE
  /\ UNCHANGED runs

DagNext == Finish \/ \E i \in Nodes : RunOnce(i)

\* What a run may do, and that it ends.
DagSafety == DagInit /\ [][DagNext]_dagVars
DagSpec == DagSafety /\ WF_dagVars(DagNext)
=============================================================================
