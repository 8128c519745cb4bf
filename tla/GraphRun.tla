------------------------------ MODULE GraphRun ------------------------------
(***************************************************************************)
(* A graph sorted by GraphDeps and then run by an executor that starts     *)
(* nodes concurrently: level by level (OpenMPExecutor), or as soon as      *)
(* their predecessors are over (DataflowExecutor, abstracted here to what  *)
(* DagRun promises).  A node reads when it starts and writes when it ends; *)
(* a cell's value is the position of the node that wrote it last.          *)
(***************************************************************************)
EXTENDS GraphDeps

VARIABLES
  mode,     \* "none" before the run, then "levels" or "edges"
  running,  \* nodes started and not over
  over,     \* nodes that ended
  mem,      \* the last writer of each cell of each location, -1 for none
  saw       \* history: what each node read, <<location, cell, writer>>

runVars == <<mode, running, over, mem, saw>>
vars == <<depsVars, runVars>>

Init ==
  /\ DepsInit
  /\ mode = "none"
  /\ running = {}
  /\ over = {}
  /\ mem = [p \in Locs \X Cells |-> -1]
  /\ saw = [k \in Pos |-> {}]

\* The cells node k reads (write = FALSE) or writes.
CellsOf(k, write) ==
  UNION {{a.loc} \X Touched(a.box) : a \in {x \in accs : x.pos = k /\ x.write = write}}

Execute(m) ==
  /\ pc = "ready"
  /\ mode = "none"
  /\ mode' = m
  /\ UNCHANGED <<depsVars, running, over, mem, saw>>

\* The barrier between two levels' parallel loops.
LevelReached(k) == \A j \in Pos : level[j] < level[k] => j \in over

\* Mutant: a predecessor counts as soon as it has started.
PredecessorsStarted(k) == Producers(k) \subseteq over \cup running

PredecessorsOver(k) == Producers(k) \subseteq over

MayStart(k) ==
  \/ mode = "levels" /\ LevelReached(k)
  \/ mode = "edges" /\ PredecessorsOver(k)

StartNode(k) ==
  /\ k \notin running \cup over
  /\ MayStart(k)
  /\ running' = running \cup {k}
  /\ saw' = [saw EXCEPT ![k] = {<<p[1], p[2], mem[p]>> : p \in CellsOf(k, FALSE)}]
  /\ UNCHANGED <<depsVars, mode, over, mem>>

EndNode(k) ==
  /\ k \in running
  /\ running' = running \ {k}
  /\ over' = over \cup {k}
  /\ mem' = [p \in Locs \X Cells |-> IF p \in CellsOf(k, TRUE) THEN k ELSE mem[p]]
  /\ UNCHANGED <<depsVars, mode, saw>>

\* The graph has run; nothing more happens to it here.
Finished ==
  /\ over = Pos
  /\ UNCHANGED vars

Next ==
  \/ DepsNext /\ UNCHANGED runVars
  \/ \E m \in {"levels", "edges"} : Execute(m)
  \/ \E k \in Pos : StartNode(k) \/ EndNode(k)
  \/ Finished

Spec == Init /\ [][Next]_vars

-----------------------------------------------------------------------------
(* Properties                                                              *)

\* The state is that of a sort followed by one run.
TypeOK ==
  /\ DepsTypeOK
  /\ mode \in {"none", "levels", "edges"}
  /\ running \subseteq Pos
  /\ over \subseteq Pos \ running
  /\ mem \in [Locs \X Cells -> Pos \cup {-1}]
  /\ saw \in [Pos -> SUBSET (Locs \X Cells \X (Pos \cup {-1}))]

\* Nodes that run at the same time never touch a cell one of them writes.
NoRace ==
  \A j, k \in running : j # k =>
    /\ CellsOf(j, TRUE) \cap CellsOf(k, TRUE) = {}
    /\ CellsOf(j, TRUE) \cap CellsOf(k, FALSE) = {}

\* w is the writer of the cell p that program order has last before position k.
LastWriterBefore(k, p, w) ==
  /\ w = -1 \/ (w < k /\ w \in Pos /\ p \in CellsOf(w, TRUE))
  /\ \A j \in Pos : w < j /\ j < k => p \notin CellsOf(j, TRUE)

(***************************************************************************)
(* Every node reads from each cell what it would have read had the nodes   *)
(* run one after the other in program order.                               *)
(***************************************************************************)
SeesProgramOrder ==
  \A k \in running \cup over : \A s \in saw[k] :
    LastWriterBefore(k, <<s[1], s[2]>>, s[3])

\* The run leaves in each cell what program order would have left there.
LeavesProgramOrder ==
  over = Pos => \A p \in DOMAIN mem : LastWriterBefore(NumNodes, p, mem[p])
=============================================================================
