----------------------------- MODULE GraphDeps -----------------------------
(***************************************************************************)
(* How a compute graph derives its execution order (Graph.cpp):            *)
(* topological_sort() scans the nodes in program order and emits a hazard  *)
(* edge for every conflict it still remembers (for_each_hazard_edge), runs *)
(* Kahn's algorithm over the edges, and cuts the result into levels.       *)
(*                                                                         *)
(* The graph is not fixed beforehand: what the scan meets next is chosen   *)
(* access by access, so that a behaviour is one graph and its sort, and    *)
(* the behaviours are all graphs within the bounds.  A sub-graph's         *)
(* accesses (effective_io) are accesses of its Loop or Conditional node.   *)
(***************************************************************************)
EXTENDS Integers, Sequences, FiniteSets

CONSTANTS
  NumNodes,     \* nodes in the graph
  Tensors,      \* owners: the tensors resolve_alias() leads to
  Params,       \* names of the graph's parameter table
  Cells,        \* the disjoint parts of a tensor that boxes tell apart
  Whole,        \* the null box: an access nothing is known about
  MaxAccesses   \* bound: accesses the scan meets in all

ASSUME GraphAssumption ==
  /\ NumNodes \in Nat \ {0}
  /\ Cells # {}
  /\ \A b \in SUBSET Cells : b # Whole
  /\ Tensors \cap Params = {}

Pos  == 0 .. (NumNodes - 1)
Locs == Tensors \cup Params

\* A constant-bound view has a box, everything else is Whole.
Boxes  == (SUBSET Cells) \ {{}}
Box    == Boxes \cup {Whole}
Access == [pos : Pos, box : Box]

VARIABLES
  pc,       \* "scan", "kahn", "levels", then "ready" for an executor
  i,        \* the position the current loop is at
  part,     \* the loop over node i's accesses: 1 in, 2 out, 3 and 4 parameters
  writers,  \* the writes to each location the scan still remembers
  readers,  \* and the reads
  edges,    \* the hazard edges emitted, <<producer, consumer>>
  accs,     \* history: every access the scan has met
  inDegree, \* Kahn's counts of producers not yet placed
  sorted,   \* the positions in the order Kahn places them
  level     \* the level of each position

scanVars == <<writers, readers, edges, accs>>
depsVars == <<pc, i, part, writers, readers, edges, accs, inDegree, sorted, level>>

DepsInit ==
  /\ pc = "scan"
  /\ i = 0
  /\ part = 1
  /\ writers = [l \in Locs |-> {}]
  /\ readers = [l \in Locs |-> {}]
  /\ edges = {}
  /\ accs = {}
  /\ inDegree = [k \in Pos |-> 0]
  /\ sorted = <<>>
  /\ level = [k \in Pos |-> 0]

-----------------------------------------------------------------------------
(* The hazard scan                                                         *)

\* Mutant: every access is taken for one of the whole tensor.
OverlapAlways(a, b) == TRUE

\* Boxes with an empty intersection are provably disjoint.
MayOverlap(a, b) == a = Whole \/ b = Whole \/ a \cap b # {}

\* Mutant: a write retires whatever it overlaps.
CoveredIfOverlapping(a, b) == MayOverlap(a, b)

CoveredBy(a, b) == b = Whole \/ (a # Whole /\ a \subseteq b)

\* The edges from the remembered accesses an access of node i through box meets.
EdgesFrom(list, box) ==
  {<<a.pos, i>> : a \in {x \in list : x.pos # i /\ MayOverlap(x.box, box)}}

Uncovered(list, box) == {a \in list : ~ CoveredBy(a.box, box)}

Here(box) == [pos |-> i, box |-> box]

Met(loc, box, write) ==
  accs' = accs \cup {[pos |-> i, loc |-> loc, box |-> box, write |-> write]}

\* Node i's accesses come in the order of the four loops over them.
InPart(n) ==
  /\ pc = "scan"
  /\ part <= n
  /\ Cardinality(accs) < MaxAccesses
  /\ part' = n
  /\ UNCHANGED <<pc, i, inDegree, sorted, level>>

ReadTensor(t, box) ==
  /\ InPart(1)
  /\ edges' = edges \cup EdgesFrom(writers[t], box)
  /\ readers' = [readers EXCEPT ![t] = @ \cup {Here(box)}]
  /\ Met(t, box, FALSE)
  /\ UNCHANGED writers

\* Mutant: no write-after-read edges.
WriteTensorPastReaders(t, box) ==
  /\ InPart(2)
  /\ edges' = edges \cup EdgesFrom(writers[t], box)
  /\ readers' = [readers EXCEPT ![t] = Uncovered(@, box)]
  /\ writers' = [writers EXCEPT ![t] = Uncovered(@, box) \cup {Here(box)}]
  /\ Met(t, box, TRUE)

\* Mutant: the write-after-write edges are left to the readers in between.
WriteTensorPastWriters(t, box) ==
  /\ InPart(2)
  /\ edges' = edges \cup EdgesFrom(readers[t], box)
  /\ readers' = [readers EXCEPT ![t] = Uncovered(@, box)]
  /\ writers' = [writers EXCEPT ![t] = Uncovered(@, box) \cup {Here(box)}]
  /\ Met(t, box, TRUE)

\* A write is ordered behind what it may overlap; it retires only what it covers.
WriteTensor(t, box) ==
  /\ InPart(2)
  /\ edges' = edges \cup EdgesFrom(writers[t], box) \cup EdgesFrom(readers[t], box)
  /\ readers' = [readers EXCEPT ![t] = Uncovered(@, box)]
  /\ writers' = [writers EXCEPT ![t] = Uncovered(@, box) \cup {Here(box)}]
  /\ Met(t, box, TRUE)

\* Parameters have no boxes.
ReadParam(p) ==
  /\ InPart(3)
  /\ edges' = edges \cup EdgesFrom(writers[p], Whole)
  /\ readers' = [readers EXCEPT ![p] = @ \cup {Here(Whole)}]
  /\ Met(p, Whole, FALSE)
  /\ UNCHANGED writers

WriteParam(p) ==
  /\ InPart(4)
  /\ edges' = edges \cup EdgesFrom(writers[p], Whole) \cup EdgesFrom(readers[p], Whole)
  /\ readers' = [readers EXCEPT ![p] = {}]
  /\ writers' = [writers EXCEPT ![p] = {Here(Whole)}]
  /\ Met(p, Whole, TRUE)

Producers(k) == {j \in Pos : <<j, k>> \in edges}

\* Mutant: the scan runs one node past the end.
NextNodePastEnd ==
  /\ pc = "scan"
  /\ i < NumNodes + 1
  /\ i' = i + 1
  /\ part' = 1
  /\ UNCHANGED <<pc, inDegree, sorted, level, scanVars>>

NextNode ==
  /\ pc = "scan"
  /\ i < NumNodes - 1
  /\ i' = i + 1
  /\ part' = 1
  /\ UNCHANGED <<pc, inDegree, sorted, level, scanVars>>

ScanDone ==
  /\ pc = "scan"
  /\ i = NumNodes - 1
  /\ pc' = "kahn"
  /\ i' = 0
  /\ inDegree' = [k \in Pos |-> Cardinality(Producers(k))]
  /\ UNCHANGED <<part, sorted, level, scanVars>>

-----------------------------------------------------------------------------
(* Kahn's algorithm, and the levels                                        *)

Placed == {sorted[n] : n \in DOMAIN sorted}

Ready == {k \in Pos \ Placed : inDegree[k] = 0}

\* Mutant: any ready position may go next, as from a FIFO queue.
PlaceAny ==
  /\ pc = "kahn"
  /\ \E idx \in Ready :
       /\ sorted' = Append(sorted, idx)
       /\ inDegree' = [k \in Pos |-> IF <<idx, k>> \in edges THEN inDegree[k] - 1
                                                             ELSE inDegree[k]]
  /\ UNCHANGED <<pc, i, part, level, scanVars>>

\* The smallest ready position goes next.
PlaceSmallest ==
  /\ pc = "kahn"
  /\ \E idx \in Ready :
       /\ \A k \in Ready : idx <= k
       /\ sorted' = Append(sorted, idx)
       /\ inDegree' = [k \in Pos |-> IF <<idx, k>> \in edges THEN inDegree[k] - 1
                                                             ELSE inDegree[k]]
  /\ UNCHANGED <<pc, i, part, level, scanVars>>

\* With nothing ready, all nodes must have been placed: the code throws if not.
KahnDone ==
  /\ pc = "kahn"
  /\ Len(sorted) = NumNodes
  /\ pc' = "levels"
  /\ UNCHANGED <<i, part, inDegree, sorted, level, scanVars>>

\* rebuild_levels: one past the highest producer, 0 without any.
SetLevel ==
  /\ pc = "levels"
  /\ i < NumNodes
  /\ \E v \in Pos :
       /\ \A j \in Producers(i) : level[j] < v
       /\ v = 0 \/ \E j \in Producers(i) : v = level[j] + 1
       /\ level' = [level EXCEPT ![i] = v]
  /\ i' = i + 1
  /\ UNCHANGED <<pc, part, inDegree, sorted, scanVars>>

LevelsDone ==
  /\ pc = "levels"
  /\ i = NumNodes
  /\ pc' = "ready"
  /\ UNCHANGED <<i, part, inDegree, sorted, level, scanVars>>

DepsNext ==
  \/ \E t \in Tensors, box \in Box : ReadTensor(t, box) \/ WriteTensor(t, box)
  \/ \E p \in Params : ReadParam(p) \/ WriteParam(p)
  \/ NextNode
  \/ ScanDone
  \/ PlaceSmallest
  \/ KahnDone
  \/ SetLevel
  \/ LevelsDone

DepsSpec == DepsInit /\ [][DepsNext]_depsVars

-----------------------------------------------------------------------------
(* Properties                                                              *)

Recorded == [pos : Pos, loc : Locs, box : Box, write : BOOLEAN]

\* The scan, the sort and the levels stay within the graph.
DepsTypeOK ==
  /\ pc \in {"scan", "kahn", "levels", "ready"}
  /\ i \in 0 .. NumNodes
  /\ part \in 1 .. 4
  /\ writers \in [Locs -> SUBSET Access]
  /\ readers \in [Locs -> SUBSET Access]
  /\ edges \subseteq Pos \X Pos
  /\ accs \subseteq Recorded
  /\ inDegree \in [Pos -> Int]
  /\ sorted \in Seq(Pos)
  /\ level \in [Pos -> Nat]

Touched(box) == IF box = Whole THEN Cells ELSE box

\* Two accesses conflict when they share a cell and one of them writes.
Conflict(a, b) ==
  /\ a.loc = b.loc
  /\ a.write \/ b.write
  /\ Touched(a.box) \cap Touched(b.box) # {}

OrderedBy(R) ==
  \A a, b \in accs : a.pos < b.pos /\ Conflict(a, b) => <<a.pos, b.pos>> \in R

OnLowerLevel == {e \in Pos \X Pos : level[e[1]] < level[e[2]]}

(***************************************************************************)
(* What verify_level_independence() checks at run time: of two conflicting *)
(* nodes, the earlier is on a lower level.  Erasing retired accesses must  *)
(* not lose an order that was only remembered through them.                *)
(***************************************************************************)
LevelsOrderConflicts == pc = "ready" => OrderedBy(OnLowerLevel)

(***************************************************************************)
(* An edge always joins an earlier to a later node with which it has a     *)
(* conflict: provably disjoint slices and pure readers stay parallel.      *)
(***************************************************************************)
EdgesAreConflicts ==
  \A e \in edges : \E a, b \in accs :
    /\ e = <<a.pos, b.pos>>
    /\ a.pos < b.pos
    /\ Conflict(a, b)

(***************************************************************************)
(* Kahn's algorithm reproduces program order, which is what lets the lists *)
(* built during the scan stand for the sorted nodes (`reordered`).         *)
(***************************************************************************)
KahnKeepsProgramOrder == \A n \in DOMAIN sorted : sorted[n] = n - 1
=============================================================================
