--------------------------- MODULE GraphRunProofs ---------------------------
(***************************************************************************)
(* For any number of nodes, tensors, cells and accesses: the hazard scan   *)
(* orders every conflict although it forgets accesses, Kahn's algorithm    *)
(* and the levels keep that order, and an executor that follows either the *)
(* edges or the levels runs without races and reads program order's values.*)
(***************************************************************************)
EXTENDS GraphRun, FiniteSetTheorems, TLAPS

-----------------------------------------------------------------------------
(* Types                                                                   *)

\* The positions are finitely many, and so are the producers of a node.
LEMMA PosFinite ==
  /\ IsFiniteSet(Pos)
  /\ \A S \in SUBSET Pos : IsFiniteSet(S) /\ Cardinality(S) \in Nat
<1>1. IsFiniteSet(Pos)
  BY FS_Interval, GraphAssumption DEF Pos
<1> QED BY <1>1, FS_Subset, FS_CardinalityType

\* A node has finitely many producers.
LEMMA ProducersFinite ==
  \A k \in Pos : IsFiniteSet(Producers(k)) /\ Cardinality(Producers(k)) \in Nat
<1>1. \A k \in Pos : Producers(k) \in SUBSET Pos
  BY DEF Producers
<1> QED BY <1>1, PosFinite

\* The edges of one access run between positions.
LEMMA EdgesFromType ==
  ASSUME NEW list \in SUBSET Access, NEW box, i \in Pos
  PROVE  EdgesFrom(list, box) \subseteq Pos \X Pos
BY DEF EdgesFrom, Access

\* The cells a node touches are cells of locations.
LEMMA CellsOfType ==
  ASSUME DepsTypeOK, NEW k, NEW write
  PROVE  CellsOf(k, write) \subseteq Locs \X Cells
<1> SUFFICES ASSUME NEW p \in CellsOf(k, write) PROVE p \in Locs \X Cells
  OBVIOUS
<1>1. PICK a \in accs : p \in {a.loc} \X Touched(a.box)
  BY DEF CellsOf
<1>2. a.loc \in Locs /\ a.box \in Box
  BY DEF DepsTypeOK, Recorded
<1>3. Touched(a.box) \subseteq Cells
  BY <1>2 DEF Touched, Box, Boxes
<1> QED BY <1>1, <1>2, <1>3

\* While the scan runs, its position is one of the graph's.
ScanInRange == pc = "scan" => i \in Pos

\* One access of the scan keeps the lists, the edges and the history typed.
LEMMA AccessType ==
  ASSUME DepsTypeOK, NEW loc \in Locs, NEW box \in Box, NEW write \in BOOLEAN, i \in Pos,
         Met(loc, box, write)
  PROVE  accs' \subseteq Recorded /\ Here(box) \in Access
BY DEF DepsTypeOK, Met, Here, Recorded, Access

\* Every step of the sort keeps its variables within the graph.
LEMMA DepsTypeStep ==
  ASSUME DepsTypeOK, ScanInRange, DepsNext
  PROVE  DepsTypeOK' /\ ScanInRange'
<1> USE GraphAssumption DEF DepsTypeOK, ScanInRange, Pos
<1>1. ASSUME NEW t \in Tensors, NEW box \in Box, ReadTensor(t, box)
      PROVE  DepsTypeOK' /\ ScanInRange'
  <2>1. t \in Locs /\ i \in Pos
    BY <1>1 DEF ReadTensor, InPart, Locs
  <2>2. accs' \subseteq Recorded /\ Here(box) \in Access
    BY <1>1, <2>1, AccessType DEF ReadTensor
  <2>3. EdgesFrom(writers[t], box) \subseteq Pos \X Pos
    BY <2>1, EdgesFromType
  <2> QED BY <1>1, <2>1, <2>2, <2>3, SMTT(60) DEF ReadTensor, InPart
<1>2. ASSUME NEW t \in Tensors, NEW box \in Box, WriteTensor(t, box)
      PROVE  DepsTypeOK' /\ ScanInRange'
  <2>1. t \in Locs /\ i \in Pos
    BY <1>2 DEF WriteTensor, InPart, Locs
  <2>2. accs' \subseteq Recorded /\ Here(box) \in Access
    BY <1>2, <2>1, AccessType DEF WriteTensor
  <2>3. /\ EdgesFrom(writers[t], box) \subseteq Pos \X Pos
        /\ EdgesFrom(readers[t], box) \subseteq Pos \X Pos
    BY <2>1, EdgesFromType
  <2>4. /\ Uncovered(writers[t], box) \subseteq Access
        /\ Uncovered(readers[t], box) \subseteq Access
    BY <2>1 DEF Uncovered
  <2> QED BY <1>2, <2>1, <2>2, <2>3, <2>4, SMTT(60) DEF WriteTensor, InPart
<1>3. ASSUME NEW p \in Params, ReadParam(p)
      PROVE  DepsTypeOK' /\ ScanInRange'
  <2>1. p \in Locs /\ i \in Pos /\ Whole \in Box
    BY <1>3 DEF ReadParam, InPart, Locs, Box
  <2>2. accs' \subseteq Recorded /\ Here(Whole) \in Access
    BY <1>3, <2>1, AccessType DEF ReadParam
  <2>3. EdgesFrom(writers[p], Whole) \subseteq Pos \X Pos
    BY <2>1, EdgesFromType
  <2> QED BY <1>3, <2>1, <2>2, <2>3 DEF ReadParam, InPart
<1>4. ASSUME NEW p \in Params, WriteParam(p)
      PROVE  DepsTypeOK' /\ ScanInRange'
  <2>1. p \in Locs /\ i \in Pos /\ Whole \in Box
    BY <1>4 DEF WriteParam, InPart, Locs, Box
  <2>2. accs' \subseteq Recorded /\ Here(Whole) \in Access
    BY <1>4, <2>1, AccessType DEF WriteParam
  <2>3. /\ EdgesFrom(writers[p], Whole) \subseteq Pos \X Pos
        /\ EdgesFrom(readers[p], Whole) \subseteq Pos \X Pos
    BY <2>1, EdgesFromType
  <2> QED BY <1>4, <2>1, <2>2, <2>3, SMTT(60) DEF WriteParam, InPart
<1>5. CASE NextNode
  BY <1>5 DEF NextNode, scanVars
<1>6. CASE ScanDone
  <2>1. \A k \in Pos : Cardinality(Producers(k)) \in Int
    BY ProducersFinite
  <2> QED BY <1>6, <2>1, SMTT(60) DEF ScanDone, scanVars
<1>7. CASE PlaceSmallest
  <2>1. PICK idx \in Pos :
          /\ sorted' = Append(sorted, idx)
          /\ inDegree' = [k \in Pos |-> IF <<idx, k>> \in edges THEN inDegree[k] - 1
                                                                ELSE inDegree[k]]
    BY <1>7 DEF PlaceSmallest, Ready
  <2>2. sorted' \in Seq(Pos)
    BY <2>1
  <2>3. inDegree' \in [Pos -> Int]
    BY <2>1, SMTT(60)
  <2> QED BY <1>7, <2>2, <2>3 DEF PlaceSmallest, scanVars
<1>8. CASE KahnDone
  BY <1>8 DEF KahnDone, scanVars
<1>9. CASE SetLevel
  BY <1>9, SMTT(60) DEF SetLevel, scanVars
<1>10. CASE LevelsDone
  BY <1>10 DEF LevelsDone, scanVars
<1> QED BY <1>1, <1>2, <1>3, <1>4, <1>5, <1>6, <1>7, <1>8, <1>9, <1>10 DEF DepsNext

\* Nothing runs before the lists are ready.
RunAfterSort ==
  /\ mode # "none" => pc = "ready"
  /\ mode = "none" => running = {} /\ over = {}

\* The types with what they need to be inductive.
TypeInv == TypeOK /\ ScanInRange /\ RunAfterSort

\* The sort has no step left once it is ready.
LEMMA SortEnds ==
  ASSUME pc = "ready" PROVE ~ DepsNext
BY DEF DepsNext, ReadTensor, WriteTensor, ReadParam, WriteParam, InPart, NextNode,
       ScanDone, PlaceSmallest, KahnDone, SetLevel, LevelsDone

\* A node that starts or ends belongs to a run of a sorted graph.
LEMMA RunningAfterSort ==
  ASSUME TypeInv, NEW k \in Pos, StartNode(k) \/ EndNode(k)
  PROVE  pc = "ready" /\ mode # "none"
BY DEF TypeInv, RunAfterSort, StartNode, EndNode, MayStart

\* The inductive form of the types.
LEMMA TypeInvariant == Spec => []TypeInv
<1>1. Init => TypeInv
  BY GraphAssumption DEF Init, DepsInit, TypeInv, TypeOK, DepsTypeOK, ScanInRange,
                         RunAfterSort, Pos, Recorded, Access
<1>2. TypeInv /\ [Next]_vars => TypeInv'
  <2> SUFFICES ASSUME TypeInv, [Next]_vars PROVE TypeInv'
    OBVIOUS
  <2>1. CASE DepsNext /\ UNCHANGED runVars
    <3>1. DepsTypeOK' /\ ScanInRange'
      BY <2>1, DepsTypeStep DEF TypeInv, TypeOK
    <3>2. pc # "ready"
      BY <2>1, SortEnds
    <3> QED BY <2>1, <3>1, <3>2 DEF TypeInv, TypeOK, RunAfterSort, runVars
  <2>2. ASSUME NEW m \in {"levels", "edges"}, Execute(m) PROVE TypeInv'
    BY <2>2 DEF Execute, TypeInv, TypeOK, DepsTypeOK, ScanInRange, RunAfterSort, depsVars
  <2>3. ASSUME NEW k \in Pos, StartNode(k) PROVE TypeInv'
    <3>1. pc = "ready" /\ mode # "none"
      BY <2>3, RunningAfterSort
    <3>2. CellsOf(k, FALSE) \subseteq Locs \X Cells
      BY CellsOfType DEF TypeInv, TypeOK
    <3>3. {<<p[1], p[2], mem[p]>> : p \in CellsOf(k, FALSE)}
             \subseteq Locs \X Cells \X (Pos \cup {-1})
      <4> SUFFICES ASSUME NEW p \in CellsOf(k, FALSE)
                   PROVE  <<p[1], p[2], mem[p]>> \in Locs \X Cells \X (Pos \cup {-1})
        OBVIOUS
      <4>1. p \in Locs \X Cells
        BY <3>2
      <4>2. mem[p] \in Pos \cup {-1}
        BY <4>1 DEF TypeInv, TypeOK
      <4> QED BY <4>1, <4>2
    <3>4. saw' \in [Pos -> SUBSET (Locs \X Cells \X (Pos \cup {-1}))]
      BY <2>3, <3>3 DEF StartNode, TypeInv, TypeOK
    <3>5. running' \subseteq Pos /\ over' \subseteq Pos \ running' /\ mem' = mem
      BY <2>3 DEF StartNode, TypeInv, TypeOK
    <3> QED BY <2>3, <3>1, <3>4, <3>5
            DEF StartNode, TypeInv, TypeOK, DepsTypeOK, ScanInRange, RunAfterSort, depsVars
  <2>4. ASSUME NEW k \in Pos, EndNode(k) PROVE TypeInv'
    <3>1. pc = "ready" /\ mode # "none"
      BY <2>4, RunningAfterSort
    <3>2. mem' \in [Locs \X Cells -> Pos \cup {-1}]
      BY <2>4 DEF EndNode, TypeInv, TypeOK
    <3>3. running' \subseteq Pos /\ over' \subseteq Pos \ running' /\ saw' = saw
      BY <2>4 DEF EndNode, TypeInv, TypeOK
    <3> QED BY <2>4, <3>1, <3>2, <3>3
            DEF EndNode, TypeInv, TypeOK, DepsTypeOK, ScanInRange, RunAfterSort, depsVars
  <2>5. CASE UNCHANGED vars
    BY <2>5 DEF vars, depsVars, runVars, TypeInv, TypeOK, DepsTypeOK, ScanInRange, RunAfterSort
  <2> QED BY <2>1, <2>2, <2>3, <2>4, <2>5 DEF Next, Finished
<1> QED BY <1>1, <1>2, PTL DEF Spec

\* Sorting and running keep the state's types (TypeOK).
THEOREM RunTypeCorrect == Spec => []TypeOK
<1>1. TypeInv => TypeOK
  BY DEF TypeInv
<1> QED BY <1>1, TypeInvariant, PTL

-----------------------------------------------------------------------------
(* The hazard scan orders every conflict                                   *)

Transitive(R) == \A a, b, c \in Pos : <<a, b>> \in R /\ <<b, c>> \in R => <<a, c>> \in R

\* The scan still remembers a write to a's cell c that is a's or behind a's node.
Behind(R, a, c) ==
  \E w \in writers[a.loc] :
    /\ c \in Touched(w.box)
    /\ w.pos = a.pos \/ <<a.pos, w.pos>> \in R

StillReader(a, c) ==
  ~ a.write /\ \E r \in readers[a.loc] : r.pos = a.pos /\ c \in Touched(r.box)

\* Cell by cell, no access is forgotten before a write stands for it.
Remembered(R) ==
  \A a \in accs : \A c \in Touched(a.box) : Behind(R, a, c) \/ StillReader(a, c)

\* The lists hold accesses that were met, and none is ahead of the scan.
Listed ==
  /\ pc = "scan" => \A a \in accs : a.pos <= i
  /\ \A l \in Locs : \A w \in writers[l] :
       [pos |-> w.pos, loc |-> l, box |-> w.box, write |-> TRUE] \in accs
  /\ \A l \in Locs : \A r \in readers[l] :
       [pos |-> r.pos, loc |-> l, box |-> r.box, write |-> FALSE] \in accs

\* Whatever transitive order the edges are part of orders the conflicts.
OrderKept ==
  \A R \in SUBSET (Pos \X Pos) :
    Transitive(R) /\ edges \subseteq R => Remembered(R) /\ OrderedBy(R)

\* Boxes that share a cell overlap, and overlapping boxes share one.
LEMMA OverlapIsSharing ==
  ASSUME NEW a \in Box, NEW b \in Box
  PROVE  MayOverlap(a, b) <=> Touched(a) \cap Touched(b) # {}
<1>1. Touched(a) \subseteq Cells /\ Touched(a) # {}
  BY GraphAssumption DEF Touched, Box, Boxes
<1>2. Touched(b) \subseteq Cells /\ Touched(b) # {}
  BY GraphAssumption DEF Touched, Box, Boxes
<1>3. CASE a = Whole
  <2>1. Touched(a) = Cells /\ MayOverlap(a, b)
    BY <1>3 DEF Touched, MayOverlap
  <2> QED BY <1>2, <2>1
<1>4. CASE b = Whole
  <2>1. Touched(b) = Cells /\ MayOverlap(a, b)
    BY <1>4 DEF Touched, MayOverlap
  <2> QED BY <1>1, <2>1
<1>5. CASE a # Whole /\ b # Whole
  <2>1. Touched(a) = a /\ Touched(b) = b
    BY <1>5 DEF Touched
  <2>2. MayOverlap(a, b) <=> a \cap b # {}
    BY <1>5 DEF MayOverlap
  <2> QED BY <2>1, <2>2
<1> QED BY <1>3, <1>4, <1>5

\* A covered box has no cell outside the box that covers it.
LEMMA CoverIsInclusion ==
  ASSUME NEW a \in Box, NEW b \in Box, CoveredBy(a, b)
  PROVE  Touched(a) \subseteq Touched(b)
BY DEF CoveredBy, Touched, Box, Boxes

\* The edge to node i from a listed access that shares a cell with its box.
LEMMA SharingGivesEdge ==
  ASSUME NEW list \in SUBSET Access, NEW x \in list, NEW box \in Box, i \in Pos,
         NEW c \in Touched(x.box) \cap Touched(box), x.pos # i
  PROVE  <<x.pos, i>> \in EdgesFrom(list, box)
<1>1. x.box \in Box
  BY DEF Access
<1>2. MayOverlap(x.box, box)
  BY <1>1, OverlapIsSharing
<1> QED BY <1>2 DEF EdgesFrom

ScanInv == Listed /\ EdgesAreConflicts /\ OrderKept

\* What any read in the scan does.
ReadAt(l, box) ==
  /\ pc = "scan" /\ UNCHANGED <<pc, i, level>>
  /\ Met(l, box, FALSE)
  /\ edges' = edges \cup EdgesFrom(writers[l], box)
  /\ readers' = [readers EXCEPT ![l] = @ \cup {Here(box)}]
  /\ UNCHANGED writers

\* What any write in the scan does.
WriteAt(l, box) ==
  /\ pc = "scan" /\ UNCHANGED <<pc, i, level>>
  /\ Met(l, box, TRUE)
  /\ edges' = edges \cup EdgesFrom(writers[l], box) \cup EdgesFrom(readers[l], box)
  /\ readers' = [readers EXCEPT ![l] = Uncovered(@, box)]
  /\ writers' = [writers EXCEPT ![l] = Uncovered(@, box) \cup {Here(box)}]

\* The four loops over a node's accesses are reads and writes in this sense.
LEMMA AccessIsReadOrWrite ==
  ASSUME TypeInv
  PROVE  /\ \A t \in Tensors, box \in Box : ReadTensor(t, box) => ReadAt(t, box)
         /\ \A t \in Tensors, box \in Box : WriteTensor(t, box) => WriteAt(t, box)
         /\ \A p \in Params : ReadParam(p) => ReadAt(p, Whole)
         /\ \A p \in Params : WriteParam(p) => WriteAt(p, Whole)
<1>1. \A t \in Tensors, box \in Box : ReadTensor(t, box) => ReadAt(t, box)
  BY DEF ReadTensor, ReadAt, InPart
<1>2. \A t \in Tensors, box \in Box : WriteTensor(t, box) => WriteAt(t, box)
  BY DEF WriteTensor, WriteAt, InPart
<1>3. \A p \in Params : ReadParam(p) => ReadAt(p, Whole)
  BY DEF ReadParam, ReadAt, InPart
<1>4. ASSUME NEW p \in Params, WriteParam(p) PROVE WriteAt(p, Whole)
  <2>1. \A list : Uncovered(list, Whole) = {}
    BY DEF Uncovered, CoveredBy
  <2>2. p \in Locs
    BY DEF Locs
  <2>3. readers' = [readers EXCEPT ![p] = Uncovered(@, Whole)]
    BY <1>4, <2>1 DEF WriteParam
  <2>4. writers' = [writers EXCEPT ![p] = Uncovered(@, Whole) \cup {Here(Whole)}]
    BY <1>4, <2>1 DEF WriteParam
  <2> QED BY <1>4, <2>3, <2>4 DEF WriteParam, WriteAt, InPart
<1> QED BY <1>1, <1>2, <1>3, <1>4

\* A read is ordered behind the writes it conflicts with, and is remembered.
LEMMA ReadKeepsOrder ==
  ASSUME TypeInv, TypeInv', ScanInv, NEW l \in Locs, NEW box \in Box, ReadAt(l, box)
  PROVE  OrderKept'
<1> DEFINE new == [pos |-> i, loc |-> l, box |-> box, write |-> FALSE]
<1>1. /\ i \in Pos
      /\ writers \in [Locs -> SUBSET Access] /\ readers \in [Locs -> SUBSET Access]
      /\ accs \subseteq Recorded
  BY DEF TypeInv, TypeOK, DepsTypeOK, ScanInRange, ReadAt
<1>2. accs' = accs \cup {new} /\ writers' = writers
  BY DEF ReadAt, Met
<1>3. \A k \in Locs : readers[k] \subseteq readers'[k]
  BY <1>1 DEF ReadAt
<1> SUFFICES ASSUME NEW R \in SUBSET (Pos \X Pos), Transitive(R), edges' \subseteq R
             PROVE  Remembered(R)' /\ OrderedBy(R)'
  BY DEF OrderKept
<1>4. Remembered(R) /\ OrderedBy(R)
  BY DEF ScanInv, OrderKept, ReadAt
<1>5. Remembered(R)'
  <2> SUFFICES ASSUME NEW a \in accs', NEW c \in Touched(a.box)
               PROVE  Behind(R, a, c)' \/ StillReader(a, c)'
    BY DEF Remembered
  <2>1. CASE a \in accs
    <3>1. a.loc \in Locs
      BY <1>1, <2>1 DEF Recorded
    <3>2. Behind(R, a, c) \/ StillReader(a, c)
      BY <1>4, <2>1 DEF Remembered
    <3>3. Behind(R, a, c) => Behind(R, a, c)'
      BY <1>2 DEF Behind
    <3>4. StillReader(a, c) => StillReader(a, c)'
      BY <1>3, <3>1 DEF StillReader
    <3> QED BY <3>2, <3>3, <3>4
  <2>2. CASE a = new
    <3>1. Here(box) \in readers'[l] /\ Here(box).pos = i /\ Here(box).box = box
      BY <1>1 DEF ReadAt, Here
    <3> QED BY <2>2, <3>1 DEF StillReader
  <2> QED BY <1>2, <2>1, <2>2
<1>6. OrderedBy(R)'
  <2> SUFFICES ASSUME NEW a \in accs', NEW b \in accs', a.pos < b.pos, Conflict(a, b)
               PROVE  <<a.pos, b.pos>> \in R
    BY DEF OrderedBy
  <2>1. CASE a \in accs /\ b \in accs
    BY <1>4, <2>1 DEF OrderedBy
  <2>2. CASE a \in accs /\ b = new
    <3>1. PICK c \in Touched(a.box) : c \in Touched(box)
      BY <2>2 DEF Conflict
    <3>2. a.write /\ a.loc = l /\ a.pos \in Pos
      BY <1>1, <2>2 DEF Conflict, Recorded
    <3>3. Behind(R, a, c)
      BY <1>4, <2>2, <3>2 DEF Remembered, StillReader
    <3>4. PICK w \in writers[l] : c \in Touched(w.box) /\ (w.pos = a.pos \/ <<a.pos, w.pos>> \in R)
      BY <3>2, <3>3 DEF Behind
    <3>5. CASE w.pos = i
      <4>1. a.pos # i
        BY <1>1, <2>2, <3>2 DEF Pos
      <4> QED BY <2>2, <3>4, <3>5, <4>1
    <3>6. CASE w.pos # i
      <4>1. <<w.pos, i>> \in R
        BY <1>1, <3>1, <3>4, <3>6, SharingGivesEdge DEF ReadAt
      <4>2. w.pos \in Pos
        BY <1>1, <3>4 DEF Access
      <4> QED BY <1>1, <2>2, <3>2, <3>4, <4>1, <4>2 DEF Transitive
    <3> QED BY <3>5, <3>6
  <2>3. CASE a = new
    <3>1. a.pos = i /\ b.pos <= i /\ b.pos \in Pos
      BY <1>1, <1>2, <2>3 DEF ScanInv, Listed, ReadAt, Recorded, Pos
    <3> QED BY <1>1, <3>1 DEF Pos
  <2> QED BY <1>2, <2>1, <2>2, <2>3
<1> QED BY <1>5, <1>6

\* A write is ordered behind all it conflicts with, and stands for what it retires.
LEMMA WriteKeepsOrder ==
  ASSUME TypeInv, TypeInv', ScanInv, NEW l \in Locs, NEW box \in Box, WriteAt(l, box)
  PROVE  OrderKept'
<1> DEFINE new == [pos |-> i, loc |-> l, box |-> box, write |-> TRUE]
<1>1. /\ i \in Pos
      /\ writers \in [Locs -> SUBSET Access] /\ readers \in [Locs -> SUBSET Access]
      /\ accs \subseteq Recorded
  BY DEF TypeInv, TypeOK, DepsTypeOK, ScanInRange, WriteAt
<1>2. accs' = accs \cup {new}
  BY DEF WriteAt, Met
<1>3. /\ Here(box) \in writers'[l] /\ Here(box).pos = i /\ Here(box).box = box
      /\ \A w \in writers[l] : w \in writers'[l] \/ CoveredBy(w.box, box)
      /\ \A r \in readers[l] : r \in readers'[l] \/ CoveredBy(r.box, box)
      /\ \A k \in Locs \ {l} : writers'[k] = writers[k] /\ readers'[k] = readers[k]
  BY <1>1 DEF WriteAt, Uncovered, Here
<1> SUFFICES ASSUME NEW R \in SUBSET (Pos \X Pos), Transitive(R), edges' \subseteq R
             PROVE  Remembered(R)' /\ OrderedBy(R)'
  BY DEF OrderKept
<1>4. Remembered(R) /\ OrderedBy(R)
  BY DEF ScanInv, OrderKept, WriteAt
\* Whatever of l shares a cell with the box is i itself or before i in R.
<1>5. ASSUME NEW x \in writers[l] \cup readers[l], NEW c \in Touched(box),
             c \in Touched(x.box)
      PROVE  x.pos \in Pos /\ (x.pos = i \/ <<x.pos, i>> \in R)
  <2>1. x.pos \in Pos
    BY <1>1 DEF Access
  <2>2. CASE x \in writers[l] /\ x.pos # i
    <3>1. <<x.pos, i>> \in EdgesFrom(writers[l], box)
      BY <1>1, <1>5, <2>2, SharingGivesEdge
    <3> QED BY <2>1, <3>1 DEF WriteAt
  <2>3. CASE x \in readers[l] /\ x.pos # i
    <3>1. <<x.pos, i>> \in EdgesFrom(readers[l], box)
      BY <1>1, <1>5, <2>3, SharingGivesEdge
    <3> QED BY <2>1, <3>1 DEF WriteAt
  <2> QED BY <2>1, <2>2, <2>3
\* So is the node of any access to l that touches one of the box's cells.
<1>6. ASSUME NEW a \in accs, a.loc = l, NEW c \in Touched(a.box), c \in Touched(box)
      PROVE  a.pos = i \/ <<a.pos, i>> \in R
  <2>1. a.pos \in Pos
    BY <1>1 DEF Recorded
  <2>2. CASE Behind(R, a, c)
    <3>1. PICK w \in writers[l] : c \in Touched(w.box) /\ (w.pos = a.pos \/ <<a.pos, w.pos>> \in R)
      BY <1>6, <2>2 DEF Behind
    <3>2. w.pos \in Pos /\ (w.pos = i \/ <<w.pos, i>> \in R)
      BY <1>5, <1>6, <3>1
    <3> QED BY <1>1, <2>1, <3>1, <3>2 DEF Transitive
  <2>3. CASE StillReader(a, c)
    <3>1. PICK r \in readers[l] : r.pos = a.pos /\ c \in Touched(r.box)
      BY <1>6, <2>3 DEF StillReader
    <3> QED BY <1>5, <1>6, <3>1
  <2> QED BY <1>4, <2>2, <2>3 DEF Remembered
<1>7. Remembered(R)'
  <2> SUFFICES ASSUME NEW a \in accs', NEW c \in Touched(a.box)
               PROVE  Behind(R, a, c)' \/ StillReader(a, c)'
    BY DEF Remembered
  <2>1. CASE a \in accs /\ a.loc # l
    <3>1. a.loc \in Locs \ {l}
      BY <1>1, <2>1 DEF Recorded
    <3>2. Behind(R, a, c) \/ StillReader(a, c)
      BY <1>4, <2>1 DEF Remembered
    <3> QED BY <1>3, <3>1, <3>2 DEF Behind, StillReader
  <2>2. CASE a \in accs /\ a.loc = l /\ c \in Touched(box)
    <3>1. a.pos = i \/ <<a.pos, i>> \in R
      BY <1>6, <2>2
    <3> QED BY <1>3, <2>2, <3>1 DEF Behind
  <2>3. CASE a \in accs /\ a.loc = l /\ c \notin Touched(box)
    <3>1. \A x \in writers[l] \cup readers[l] :
            c \in Touched(x.box) => ~ CoveredBy(x.box, box)
      <4> SUFFICES ASSUME NEW x \in writers[l] \cup readers[l], c \in Touched(x.box),
                          CoveredBy(x.box, box)
                   PROVE  FALSE
        OBVIOUS
      <4>1. x.box \in Box
        BY <1>1 DEF Access
      <4> QED BY <2>3, <4>1, CoverIsInclusion
    <3>2. Behind(R, a, c) \/ StillReader(a, c)
      BY <1>4, <2>3 DEF Remembered
    <3>3. Behind(R, a, c) => Behind(R, a, c)'
      BY <1>3, <2>3, <3>1 DEF Behind
    <3>4. StillReader(a, c) => StillReader(a, c)'
      BY <1>3, <2>3, <3>1 DEF StillReader
    <3> QED BY <3>2, <3>3, <3>4
  <2>4. CASE a = new
    BY <1>3, <2>4 DEF Behind
  <2> QED BY <1>2, <2>1, <2>2, <2>3, <2>4
<1>8. OrderedBy(R)'
  <2> SUFFICES ASSUME NEW a \in accs', NEW b \in accs', a.pos < b.pos, Conflict(a, b)
               PROVE  <<a.pos, b.pos>> \in R
    BY DEF OrderedBy
  <2>1. CASE a \in accs /\ b \in accs
    BY <1>4, <2>1 DEF OrderedBy
  <2>2. CASE a \in accs /\ b = new
    <3>1. PICK c \in Touched(a.box) : c \in Touched(box)
      BY <2>2 DEF Conflict
    <3>2. a.loc = l /\ a.pos \in Pos /\ b.pos = i
      BY <1>1, <2>2 DEF Conflict, Recorded
    <3>3. a.pos # i
      BY <1>1, <3>2 DEF Pos
    <3> QED BY <1>6, <2>2, <3>1, <3>2, <3>3
  <2>3. CASE a = new
    <3>1. a.pos = i /\ b.pos <= i /\ b.pos \in Pos
      BY <1>1, <1>2, <2>3 DEF ScanInv, Listed, WriteAt, Recorded, Pos
    <3> QED BY <1>1, <3>1 DEF Pos
  <2> QED BY <1>2, <2>1, <2>2, <2>3
<1> QED BY <1>7, <1>8

\* The edges an access gets come from accesses that were met, and conflict.
LEMMA NewEdgesAreConflicts ==
  ASSUME TypeInv, Listed, pc = "scan", NEW l \in Locs, NEW box \in Box,
         NEW write \in BOOLEAN, Met(l, box, write),
         NEW e \in EdgesFrom(writers[l], box) \cup (IF write THEN EdgesFrom(readers[l], box) ELSE {})
  PROVE  \E a, b \in accs' : e = <<a.pos, b.pos>> /\ a.pos < b.pos /\ Conflict(a, b)
<1> DEFINE new == [pos |-> i, loc |-> l, box |-> box, write |-> write]
<1>1. /\ i \in Pos
      /\ writers \in [Locs -> SUBSET Access] /\ readers \in [Locs -> SUBSET Access]
  BY DEF TypeInv, TypeOK, DepsTypeOK, ScanInRange
<1>2. accs' = accs \cup {new}
  BY DEF Met
<1>3. ASSUME NEW x \in writers[l] \cup readers[l], NEW w \in BOOLEAN, w \/ write,
             [pos |-> x.pos, loc |-> l, box |-> x.box, write |-> w] \in accs,
             x.pos # i, MayOverlap(x.box, box), e = <<x.pos, i>>
      PROVE  \E a, b \in accs' : e = <<a.pos, b.pos>> /\ a.pos < b.pos /\ Conflict(a, b)
  <2> DEFINE old == [pos |-> x.pos, loc |-> l, box |-> x.box, write |-> w]
  <2>1. x.pos \in Pos /\ x.box \in Box
    BY <1>1 DEF Access
  <2>2. x.pos < i
    <3>1. old.pos <= i
      BY <1>3 DEF Listed
    <3> QED BY <1>1, <1>3, <2>1, <3>1 DEF Pos
  <2>3. Touched(x.box) \cap Touched(box) # {}
    BY <1>3, <2>1, OverlapIsSharing
  <2>4. Conflict(old, new)
    BY <1>3, <2>3 DEF Conflict
  <2> QED BY <1>2, <1>3, <2>2, <2>4
<1>4. CASE e \in EdgesFrom(writers[l], box)
  <2>1. PICK x \in writers[l] : x.pos # i /\ MayOverlap(x.box, box) /\ e = <<x.pos, i>>
    BY <1>4 DEF EdgesFrom
  <2>2. [pos |-> x.pos, loc |-> l, box |-> x.box, write |-> TRUE] \in accs
    BY DEF Listed
  <2> QED BY <1>3, <2>1, <2>2
<1>5. CASE write /\ e \in EdgesFrom(readers[l], box)
  <2>1. PICK x \in readers[l] : x.pos # i /\ MayOverlap(x.box, box) /\ e = <<x.pos, i>>
    BY <1>5 DEF EdgesFrom
  <2>2. [pos |-> x.pos, loc |-> l, box |-> x.box, write |-> FALSE] \in accs
    BY DEF Listed
  <2> QED BY <1>3, <1>5, <2>1, <2>2
<1> QED BY <1>4, <1>5

\* One access keeps the lists within the history and the edges conflicts.
LEMMA AccessKeepsLists ==
  ASSUME TypeInv, ScanInv, NEW l \in Locs, NEW box \in Box,
         ReadAt(l, box) \/ WriteAt(l, box)
  PROVE  Listed' /\ EdgesAreConflicts'
<1>1. PICK write \in BOOLEAN :
        /\ Met(l, box, write)
        /\ write => WriteAt(l, box)
        /\ ~ write => ReadAt(l, box)
  BY DEF ReadAt, WriteAt
<1>2. /\ i \in Pos
      /\ writers \in [Locs -> SUBSET Access] /\ readers \in [Locs -> SUBSET Access]
  BY DEF TypeInv, TypeOK, DepsTypeOK, ScanInRange, ReadAt, WriteAt
<1>3. accs' = accs \cup {[pos |-> i, loc |-> l, box |-> box, write |-> write]}
  BY <1>1 DEF Met
<1>4. /\ \A k \in Locs : writers'[k] \subseteq writers[k] \cup (IF write /\ k = l THEN {Here(box)} ELSE {})
      /\ \A k \in Locs : readers'[k] \subseteq readers[k] \cup (IF ~ write /\ k = l THEN {Here(box)} ELSE {})
  <2>1. CASE write
    BY <1>1, <1>2, <2>1 DEF WriteAt, Uncovered
  <2>2. CASE ~ write
    BY <1>1, <1>2, <2>2 DEF ReadAt
  <2> QED BY <2>1, <2>2
<1>5. Here(box).pos = i /\ Here(box).box = box
  BY DEF Here
<1>6. Listed'
  <2>1. \A a \in accs' : a.pos <= i'
    <3>1. pc = "scan" /\ i' = i
      BY DEF ReadAt, WriteAt
    <3>2. \A a \in accs : a.pos <= i
      BY <3>1 DEF ScanInv, Listed
    <3>3. i <= i
      BY <1>2 DEF Pos
    <3> QED BY <1>3, <3>1, <3>2, <3>3
  <2>2. ASSUME NEW k \in Locs, NEW w \in writers'[k]
        PROVE  [pos |-> w.pos, loc |-> k, box |-> w.box, write |-> TRUE] \in accs'
    <3>1. CASE w \in writers[k]
      BY <1>3, <3>1 DEF ScanInv, Listed
    <3>2. CASE write /\ k = l /\ w = Here(box)
      BY <1>3, <1>5, <3>2
    <3> QED BY <1>4, <2>2, <3>1, <3>2
  <2>3. ASSUME NEW k \in Locs, NEW r \in readers'[k]
        PROVE  [pos |-> r.pos, loc |-> k, box |-> r.box, write |-> FALSE] \in accs'
    <3>1. CASE r \in readers[k]
      BY <1>3, <3>1 DEF ScanInv, Listed
    <3>2. CASE ~ write /\ k = l /\ r = Here(box)
      BY <1>3, <1>5, <3>2
    <3> QED BY <1>4, <2>3, <3>1, <3>2
  <2> QED BY <2>1, <2>2, <2>3 DEF Listed
<1>7. EdgesAreConflicts'
  <2> SUFFICES ASSUME NEW e \in edges'
               PROVE  \E a, b \in accs' : e = <<a.pos, b.pos>> /\ a.pos < b.pos /\ Conflict(a, b)
    BY DEF EdgesAreConflicts, Conflict
  <2>1. CASE e \in edges
    BY <1>3, <2>1 DEF ScanInv, EdgesAreConflicts
  <2>2. CASE e \notin edges
    <3>1. e \in EdgesFrom(writers[l], box) \cup (IF write THEN EdgesFrom(readers[l], box) ELSE {})
      BY <1>1, <2>2 DEF ReadAt, WriteAt
    <3>2. pc = "scan"
      BY DEF ReadAt, WriteAt
    <3> QED BY <1>1, <3>1, <3>2, NewEdgesAreConflicts DEF ScanInv
  <2> QED BY <2>1, <2>2
<1> QED BY <1>6, <1>7

\* After the scan, its lists, edges and history do not change.
ScanKept == /\ pc' # "scan" \/ (pc = "scan" /\ i' >= i)
            /\ UNCHANGED scanVars

LEMMA ScanKeptKeepsInv ==
  ASSUME TypeInv, TypeInv', ScanInv, ScanKept
  PROVE  ScanInv'
<1>1. Listed'
  <2>1. i \in Int /\ i' \in Int /\ \A a \in accs : a.pos \in Int
    BY DEF TypeInv, TypeOK, DepsTypeOK, Recorded, Pos
  <2> QED BY <2>1 DEF ScanInv, Listed, ScanKept, scanVars
<1>2. EdgesAreConflicts'
  BY DEF ScanInv, EdgesAreConflicts, ScanKept, scanVars
<1>3. OrderKept'
  BY SMTT(60) DEF ScanInv, OrderKept, ScanKept, scanVars, Remembered, Behind, StillReader, OrderedBy
<1> QED BY <1>1, <1>2, <1>3 DEF ScanInv

\* The invariant of the hazard scan.
LEMMA ScanInvariant == Spec => []ScanInv
<1>1. Init => ScanInv
  BY DEF Init, DepsInit, ScanInv, Listed, EdgesAreConflicts, OrderKept, Remembered, OrderedBy
<1>2. TypeInv /\ TypeInv' /\ ScanInv /\ [Next]_vars => ScanInv'
  <2> SUFFICES ASSUME TypeInv, TypeInv', ScanInv, [Next]_vars PROVE ScanInv'
    OBVIOUS
  <2>1. ASSUME NEW l \in Locs, NEW box \in Box, ReadAt(l, box) \/ WriteAt(l, box)
        PROVE  ScanInv'
    BY <2>1, ReadKeepsOrder, WriteKeepsOrder, AccessKeepsLists DEF ScanInv
  <2>2. ASSUME NEW t \in Tensors, NEW box \in Box, ReadTensor(t, box) \/ WriteTensor(t, box)
        PROVE  ScanInv'
    BY <2>1, <2>2, AccessIsReadOrWrite DEF Locs
  <2>3. ASSUME NEW p \in Params, ReadParam(p) \/ WriteParam(p)
        PROVE  ScanInv'
    <3>1. p \in Locs /\ Whole \in Box
      BY DEF Locs, Box
    <3> QED BY <2>1, <2>3, <3>1, AccessIsReadOrWrite
  <2>4. CASE NextNode
    <3>1. i' >= i
      BY <2>4 DEF NextNode, TypeInv, TypeOK, DepsTypeOK
    <3> QED BY <2>4, <3>1, ScanKeptKeepsInv DEF NextNode, ScanKept
  <2>5. CASE ScanDone \/ PlaceSmallest \/ KahnDone \/ SetLevel \/ LevelsDone
    <3>1. ScanKept
      BY <2>5 DEF ScanDone, PlaceSmallest, KahnDone, SetLevel, LevelsDone, ScanKept
    <3> QED BY <3>1, ScanKeptKeepsInv
  <2>6. CASE UNCHANGED depsVars
    <3>1. ScanKept
      BY <2>6 DEF depsVars, ScanKept, scanVars, TypeInv, TypeOK, DepsTypeOK
    <3> QED BY <3>1, ScanKeptKeepsInv
  <2> QED BY <2>2, <2>3, <2>4, <2>5, <2>6
          DEF Next, DepsNext, Execute, StartNode, EndNode, Finished, vars
<1> QED BY <1>1, <1>2, TypeInvariant, PTL DEF Spec

-----------------------------------------------------------------------------
(* Kahn's algorithm keeps program order                                    *)

\* Edges lead forward, so a node's producers are before it.
LEMMA ProducersBefore ==
  ASSUME TypeInv, EdgesAreConflicts, NEW k \in Pos, NEW j \in Producers(k)
  PROVE  j < k
<1>1. PICK a, b \in accs : <<j, k>> = <<a.pos, b.pos>> /\ a.pos < b.pos
  BY DEF Producers, EdgesAreConflicts
<1> QED BY <1>1

\* Kahn's counts are those of the producers not yet placed.
KahnInv ==
  /\ pc = "scan" => sorted = <<>>
  /\ pc = "kahn" => \A k \in Pos : inDegree[k] = Cardinality(Producers(k) \ Placed)
  /\ KahnKeepsProgramOrder

\* In program order, the positions placed are the first ones.
LEMMA PlacedFirst ==
  ASSUME TypeInv, KahnKeepsProgramOrder
  PROVE  Placed = 0 .. (Len(sorted) - 1)
<1>1. sorted \in Seq(Pos)
  BY DEF TypeInv, TypeOK, DepsTypeOK
<1>2. Len(sorted) \in Nat /\ DOMAIN sorted = 1 .. Len(sorted)
  BY <1>1
<1>3. \A k : k \in 0 .. (Len(sorted) - 1) <=> k + 1 \in 1 .. Len(sorted) /\ k \in Int
  BY <1>2
<1>4. ASSUME NEW k \in Placed PROVE k \in 0 .. (Len(sorted) - 1)
  <2>1. PICK n \in 1 .. Len(sorted) : k = sorted[n]
    BY <1>2, <1>4 DEF Placed
  <2>2. k = n - 1
    BY <1>2, <2>1 DEF KahnKeepsProgramOrder
  <2> QED BY <1>2, <2>1, <2>2
<1>5. ASSUME NEW k \in 0 .. (Len(sorted) - 1) PROVE k \in Placed
  <2>1. k + 1 \in DOMAIN sorted
    BY <1>2
  <2>2. sorted[k + 1] = k
    BY <1>2, <2>1 DEF KahnKeepsProgramOrder
  <2> QED BY <2>1, <2>2 DEF Placed
<1> QED BY <1>4, <1>5

\* The smallest ready position is the next one of program order.
LEMMA PlaceSmallestStep ==
  ASSUME TypeInv, EdgesAreConflicts, KahnInv, PlaceSmallest
  PROVE  KahnInv'
<1> DEFINE m == Len(sorted)
<1>1. /\ pc = "kahn" /\ pc' = "kahn" /\ edges' = edges
      /\ sorted \in Seq(Pos) /\ m \in Nat
      /\ inDegree \in [Pos -> Int]
  BY DEF PlaceSmallest, scanVars, TypeInv, TypeOK, DepsTypeOK
<1>2. Placed = 0 .. (m - 1)
  BY PlacedFirst DEF KahnInv
<1>3. PICK idx \in Ready :
        /\ \A k \in Ready : idx <= k
        /\ sorted' = Append(sorted, idx)
        /\ inDegree' = [k \in Pos |-> IF <<idx, k>> \in edges THEN inDegree[k] - 1
                                                              ELSE inDegree[k]]
  BY DEF PlaceSmallest
<1>4. idx \in Pos /\ idx >= m
  BY <1>1, <1>2, <1>3 DEF Ready, Pos
<1>5. m \in Pos /\ m \notin Placed
  BY <1>1, <1>2, <1>4, GraphAssumption DEF Pos
<1>6. m \in Ready
  <2>1. Producers(m) \ Placed = {}
    <3> SUFFICES ASSUME NEW j \in Producers(m) PROVE j \in Placed
      OBVIOUS
    <3>1. j < m /\ j \in Pos
      BY <1>5, ProducersBefore DEF Producers
    <3> QED BY <1>1, <1>2, <3>1 DEF Pos
  <2>2. inDegree[m] = 0
    BY <1>1, <1>5, <2>1, FS_EmptySet DEF KahnInv
  <2> QED BY <1>5, <2>2 DEF Ready
<1>7. idx = m
  BY <1>1, <1>3, <1>4, <1>6 DEF Pos
<1>8. /\ DOMAIN sorted = 1 .. m /\ DOMAIN sorted' = 1 .. (m + 1)
      /\ \A n \in 1 .. m : sorted'[n] = sorted[n]
      /\ sorted'[m + 1] = m
  BY <1>1, <1>3, <1>4, <1>7
<1>9. KahnKeepsProgramOrder'
  BY <1>1, <1>8, SMTT(60) DEF KahnInv, KahnKeepsProgramOrder
<1>10. Placed' = Placed \cup {m}
  <2>1. Placed' = {sorted'[n] : n \in 1 .. (m + 1)}
    BY <1>8 DEF Placed
  <2>2. Placed = {sorted[n] : n \in 1 .. m}
    BY <1>8 DEF Placed
  <2>3. 1 .. (m + 1) = 1 .. m \cup {m + 1}
    BY <1>1
  <2> QED BY <1>8, <2>1, <2>2, <2>3
<1>11. ASSUME NEW k \in Pos PROVE inDegree'[k] = Cardinality(Producers(k) \ Placed')
  <2> DEFINE S == Producers(k) \ Placed
  <2>1. inDegree[k] = Cardinality(S)
    BY <1>1 DEF KahnInv
  <2>2. IsFiniteSet(S)
    BY ProducersFinite, FS_Subset
  <2>3. CASE <<m, k>> \in edges
    <3>1. m \in S
      BY <1>5, <2>3 DEF Producers
    <3>2. Cardinality(S \ {m}) = Cardinality(S) - 1
      BY <2>2, <3>1, FS_RemoveElement
    <3>3. Producers(k) \ Placed' = S \ {m}
      BY <1>10
    <3> QED BY <1>3, <1>7, <2>1, <2>3, <3>2, <3>3
  <2>4. CASE <<m, k>> \notin edges
    <3>1. Producers(k) \ Placed' = S
      BY <1>10, <2>4 DEF Producers
    <3> QED BY <1>3, <1>7, <2>1, <2>4, <3>1
  <2> QED BY <2>3, <2>4
<1>12. \A k \in Pos : Producers(k)' = Producers(k)
  BY <1>1 DEF Producers
<1> QED BY <1>1, <1>9, <1>11, <1>12 DEF KahnInv

\* The invariant of Kahn's algorithm.
LEMMA KahnInvariant == Spec => []KahnInv
<1>1. Init => KahnInv
  BY DEF Init, DepsInit, KahnInv, KahnKeepsProgramOrder
<1>2. TypeInv /\ ScanInv /\ KahnInv /\ [Next]_vars => KahnInv'
  <2> SUFFICES ASSUME TypeInv, ScanInv, KahnInv, [Next]_vars PROVE KahnInv'
    OBVIOUS
  <2>1. CASE PlaceSmallest
    BY <2>1, PlaceSmallestStep DEF ScanInv
  <2>2. CASE ScanDone
    <3>1. sorted' = <<>> /\ Placed' = {} /\ pc' = "kahn"
      BY <2>2 DEF ScanDone, KahnInv, Placed
    <3>2. \A k \in Pos : inDegree'[k] = Cardinality(Producers(k)) /\ Producers(k)' = Producers(k)
      BY <2>2 DEF ScanDone, scanVars, Producers
    <3> QED BY <3>1, <3>2 DEF KahnInv, KahnKeepsProgramOrder
  <2>3. CASE \/ \E t \in Tensors, box \in Box : ReadTensor(t, box) \/ WriteTensor(t, box)
             \/ \E p \in Params : ReadParam(p) \/ WriteParam(p)
             \/ NextNode
    <3>1. pc = "scan" /\ pc' = pc /\ sorted' = sorted
      BY <2>3 DEF ReadTensor, WriteTensor, ReadParam, WriteParam, InPart, NextNode
    <3> QED BY <3>1 DEF KahnInv, KahnKeepsProgramOrder
  <2>4. CASE KahnDone \/ SetLevel \/ LevelsDone
    <3>1. pc' \in {"levels", "ready"} /\ sorted' = sorted
      BY <2>4 DEF KahnDone, SetLevel, LevelsDone
    <3> QED BY <3>1 DEF KahnInv, KahnKeepsProgramOrder
  <2>5. CASE UNCHANGED depsVars
    BY <2>5 DEF depsVars, KahnInv, KahnKeepsProgramOrder, Placed, Producers
  <2> QED BY <2>1, <2>2, <2>3, <2>4, <2>5
          DEF Next, DepsNext, Execute, StartNode, EndNode, Finished, vars
<1> QED BY <1>1, <1>2, TypeInvariant, ScanInvariant, PTL DEF Spec

\* No node ever moves: the sorted order is program order (topological_sort).
THEOREM SortKeepsProgramOrder == Spec => []KahnKeepsProgramOrder
<1>1. KahnInv => KahnKeepsProgramOrder
  BY DEF KahnInv
<1> QED BY <1>1, KahnInvariant, PTL

\* Every edge is a conflict of an earlier with a later node (for_each_hazard_edge).
THEOREM ScanEmitsConflicts == Spec => []EdgesAreConflicts
<1>1. ScanInv => EdgesAreConflicts
  BY DEF ScanInv
<1> QED BY <1>1, ScanInvariant, PTL

-----------------------------------------------------------------------------
(* The levels                                                              *)

\* The positions whose level is final are above their producers' levels.
LevelInv ==
  /\ pc = "kahn" => i = 0
  /\ pc = "ready" => i = NumNodes
  /\ pc \in {"levels", "ready"} =>
       \A k \in Pos : k < i => \A j \in Producers(k) : level[j] < level[k]

\* The invariant of rebuild_levels.
LEMMA LevelInvariant == Spec => []LevelInv
<1>1. Init => LevelInv
  BY DEF Init, DepsInit, LevelInv
<1>2. TypeInv /\ ScanInv /\ LevelInv /\ [Next]_vars => LevelInv'
  <2> SUFFICES ASSUME TypeInv, ScanInv, LevelInv, [Next]_vars PROVE LevelInv'
    OBVIOUS
  <2>1. CASE SetLevel
    <3>1. /\ pc = "levels" /\ pc' = "levels" /\ i' = i + 1 /\ edges' = edges
          /\ i \in Pos /\ level \in [Pos -> Nat]
      <4>1. i \in 0 .. NumNodes /\ level \in [Pos -> Nat]
        BY DEF TypeInv, TypeOK, DepsTypeOK
      <4>2. i \in Pos
        BY <2>1, <4>1, GraphAssumption DEF SetLevel, Pos
      <4> QED BY <2>1, <4>1, <4>2 DEF SetLevel, scanVars
    <3>2. PICK v \in Pos :
            /\ \A j \in Producers(i) : level[j] < v
            /\ level' = [level EXCEPT ![i] = v]
      BY <2>1 DEF SetLevel
    <3>3. ASSUME NEW k \in Pos, k < i', NEW j \in Producers(k) PROVE level'[j] < level'[k]
      <4>1. j \in Pos /\ j < k
        BY ProducersBefore DEF Producers, ScanInv
      <4>2. j # i /\ k <= i
        BY <3>1, <3>3, <4>1 DEF Pos
      <4>3. CASE k = i
        BY <3>1, <3>2, <3>3, <4>1, <4>2, <4>3
      <4>4. CASE k # i
        <5>1. k < i
          BY <3>1, <4>2, <4>4 DEF Pos
        <5>2. level[j] < level[k]
          BY <3>1, <3>3, <5>1 DEF LevelInv
        <5> QED BY <3>1, <3>2, <4>1, <4>2, <4>4, <5>2
      <4> QED BY <4>3, <4>4
    <3>4. \A k \in Pos : Producers(k)' = Producers(k)
      BY <3>1 DEF Producers
    <3> QED BY <3>1, <3>3, <3>4 DEF LevelInv
  <2>2. CASE KahnDone
    <3>1. pc' = "levels" /\ i' = i /\ i = 0
      BY <2>2 DEF KahnDone, LevelInv
    <3> QED BY <3>1 DEF LevelInv, Pos
  <2>3. CASE LevelsDone
    BY <2>3 DEF LevelsDone, scanVars, LevelInv, Producers
  <2>4. CASE \/ \E t \in Tensors, box \in Box : ReadTensor(t, box) \/ WriteTensor(t, box)
             \/ \E p \in Params : ReadParam(p) \/ WriteParam(p)
             \/ NextNode \/ ScanDone \/ PlaceSmallest
    <3>1. pc' \in {"scan", "kahn"} /\ (pc' = "kahn" => i' = 0)
      BY <2>4 DEF ReadTensor, WriteTensor, ReadParam, WriteParam, InPart, NextNode,
                  ScanDone, PlaceSmallest, LevelInv
    <3> QED BY <3>1 DEF LevelInv
  <2>5. CASE UNCHANGED depsVars
    BY <2>5 DEF depsVars, LevelInv, Producers
  <2> QED BY <2>1, <2>2, <2>3, <2>4, <2>5
          DEF Next, DepsNext, Execute, StartNode, EndNode, Finished, vars
<1> QED BY <1>1, <1>2, TypeInvariant, ScanInvariant, PTL DEF Spec

\* Once all is sorted, a transitive order with the edges has all conflicts.
LEMMA EdgesOrderConflicts ==
  ASSUME ScanInv, NEW R \in SUBSET (Pos \X Pos), Transitive(R), edges \subseteq R
  PROVE  OrderedBy(R)
BY DEF ScanInv, OrderKept

\* Of two nodes in conflict the earlier is on a lower level (rebuild_levels).
THEOREM LevelsSeparateConflicts == Spec => []LevelsOrderConflicts
<1>1. TypeInv /\ ScanInv /\ LevelInv => LevelsOrderConflicts
  <2> SUFFICES ASSUME TypeInv, ScanInv, LevelInv, pc = "ready" PROVE OrderedBy(OnLowerLevel)
    BY DEF LevelsOrderConflicts
  <2>1. level \in [Pos -> Nat] /\ edges \subseteq Pos \X Pos
    BY DEF TypeInv, TypeOK, DepsTypeOK
  <2>2. OnLowerLevel \in SUBSET (Pos \X Pos)
    BY DEF OnLowerLevel
  <2>3. Transitive(OnLowerLevel)
    BY <2>1 DEF Transitive, OnLowerLevel
  <2>4. edges \subseteq OnLowerLevel
    <3> SUFFICES ASSUME NEW e \in edges PROVE e \in OnLowerLevel
      OBVIOUS
    <3>1. PICK j \in Pos, k \in Pos : e = <<j, k>>
      BY <2>1
    <3>2. level[j] < level[k]
      BY <3>1, GraphAssumption DEF LevelInv, Producers, Pos
    <3> QED BY <3>1, <3>2 DEF OnLowerLevel
  <2> QED BY <2>2, <2>3, <2>4, EdgesOrderConflicts
<1> QED BY <1>1, TypeInvariant, ScanInvariant, LevelInvariant, PTL

-----------------------------------------------------------------------------
(* The run                                                                 *)

\* A node runs only when what its mode waits for is over.
GatesKept ==
  \A k \in running \cup over : mode # "none" /\ MayStart(k)

\* The invariant of both executors' gates.
LEMMA GatesInvariant == Spec => []GatesKept
<1>1. Init => GatesKept
  BY DEF Init, GatesKept
<1>2. TypeInv /\ GatesKept /\ [Next]_vars => GatesKept'
  <2> SUFFICES ASSUME TypeInv, GatesKept, [Next]_vars PROVE GatesKept'
    OBVIOUS
  <2> USE DEF GatesKept, MayStart, LevelReached, PredecessorsOver, Producers
  <2>1. CASE DepsNext /\ UNCHANGED runVars
    <3>1. running = {} /\ over = {}
      BY <2>1, SortEnds DEF TypeInv, TypeOK, RunAfterSort
    <3> QED BY <2>1, <3>1 DEF runVars
  <2>2. ASSUME NEW m \in {"levels", "edges"}, Execute(m) PROVE GatesKept'
    <3>1. running' = {} /\ over' = {}
      BY <2>2 DEF Execute, TypeInv, RunAfterSort
    <3> QED BY <3>1
  <2>3. ASSUME NEW k \in Pos, StartNode(k) PROVE GatesKept'
    BY <2>3 DEF StartNode, depsVars
  <2>4. ASSUME NEW k \in Pos, EndNode(k) PROVE GatesKept'
    BY <2>4 DEF EndNode, depsVars
  <2>5. CASE UNCHANGED vars
    BY <2>5 DEF vars, depsVars, runVars
  <2> QED BY <2>1, <2>2, <2>3, <2>4, <2>5 DEF Next, Finished
<1> QED BY <1>1, <1>2, TypeInvariant, PTL DEF Spec

\* Once a node has started, the earlier nodes it conflicts with are over.
RunsInOrder == OrderedBy({e \in Pos \X Pos : e[2] \in running \cup over => e[1] \in over})

LEMMA ConflictsRunInOrder ==
  ASSUME TypeInv, ScanInv, LevelsOrderConflicts, GatesKept
  PROVE  RunsInOrder
<1> DEFINE R == {e \in Pos \X Pos : e[2] \in running \cup over => e[1] \in over}
<1>1. /\ edges \subseteq Pos \X Pos /\ accs \subseteq Recorded
      /\ mode \in {"none", "levels", "edges"}
  BY DEF TypeInv, TypeOK, DepsTypeOK
<1>2. CASE mode = "levels"
  <2>1. OrderedBy(OnLowerLevel)
    BY <1>2 DEF LevelsOrderConflicts, TypeInv, RunAfterSort
  <2>2. OnLowerLevel \subseteq R
    BY <1>2 DEF OnLowerLevel, GatesKept, MayStart, LevelReached
  <2> QED BY <2>1, <2>2 DEF OrderedBy, RunsInOrder
<1>3. CASE mode = "edges"
  <2>1. edges \subseteq R
    <3> SUFFICES ASSUME NEW e \in edges PROVE e \in R
      OBVIOUS
    <3>1. PICK j \in Pos, k \in Pos : e = <<j, k>>
      BY <1>1
    <3>2. k \in running \cup over => j \in over
      BY <1>3, <3>1 DEF GatesKept, MayStart, PredecessorsOver, Producers
    <3> QED BY <3>1, <3>2
  <2>2. Transitive(R)
    BY DEF Transitive
  <2> QED BY <2>1, <2>2, EdgesOrderConflicts DEF RunsInOrder
<1>4. CASE mode = "none"
  <2>1. running \cup over = {}
    BY <1>4 DEF TypeInv, RunAfterSort
  <2> QED BY <1>1, <2>1 DEF RunsInOrder, OrderedBy, Recorded
<1> QED BY <1>1, <1>2, <1>3, <1>4

\* Conflicts of nodes, cell by cell.
LEMMA CellConflict ==
  ASSUME TypeInv, RunsInOrder, NEW j \in Pos, NEW k \in Pos, j < k,
         NEW w \in BOOLEAN, NEW v \in BOOLEAN, w \/ v,
         NEW p \in CellsOf(j, w) \cap CellsOf(k, v), k \in running \cup over
  PROVE  j \in over
<1>1. PICK a \in accs : a.pos = j /\ a.write = w /\ p \in {a.loc} \X Touched(a.box)
  BY DEF CellsOf
<1>2. PICK b \in accs : b.pos = k /\ b.write = v /\ p \in {b.loc} \X Touched(b.box)
  BY DEF CellsOf
<1>3. Conflict(a, b)
  BY <1>1, <1>2 DEF Conflict
<1> QED BY <1>1, <1>2, <1>3 DEF RunsInOrder, OrderedBy

\* Concurrent nodes do not touch cells one of them writes (both executors).
THEOREM RunIsRaceFree == Spec => []NoRace
<1>1. TypeInv /\ RunsInOrder => NoRace
  <2> SUFFICES ASSUME TypeInv, RunsInOrder, NEW j \in running, NEW k \in running, j # k,
                      NEW v \in BOOLEAN, NEW p \in CellsOf(j, TRUE) \cap CellsOf(k, v)
               PROVE  FALSE
    BY DEF NoRace
  <2>1. j \in Pos /\ k \in Pos /\ j \notin over /\ k \notin over
    BY DEF TypeInv, TypeOK
  <2>2. CASE j < k
    BY <2>1, <2>2, CellConflict
  <2>3. CASE k < j
    BY <2>1, <2>3, CellConflict
  <2> QED BY <2>1, <2>2, <2>3 DEF Pos
<1> QED BY <1>1, ConflictsRunInOrder, TypeInvariant, ScanInvariant, LevelsSeparateConflicts,
           GatesInvariant, PTL

\* A cell holds its last writer in program order among the nodes that are over.
MemInv ==
  \A p \in Locs \X Cells :
    /\ mem[p] # -1 => mem[p] \in over /\ p \in CellsOf(mem[p], TRUE)
    /\ \A j \in over : p \in CellsOf(j, TRUE) => j <= mem[p]

\* What a node touches is settled before anything runs.
LEMMA CellsOfKept ==
  ASSUME accs' = accs, NEW k, NEW write
  PROVE  CellsOf(k, write)' = CellsOf(k, write)
BY DEF CellsOf

\* Nor does program order's last writer change.
LEMMA LastWriterKept ==
  ASSUME accs' = accs, NEW k, NEW p, NEW w
  PROVE  LastWriterBefore(k, p, w)' <=> LastWriterBefore(k, p, w)
<1>1. \A h, write : CellsOf(h, write)' = CellsOf(h, write)
  BY CellsOfKept
<1> QED BY <1>1 DEF LastWriterBefore

\* When a node starts, each cell it reads holds the last write before it.
LEMMA StartSees ==
  ASSUME TypeInv, TypeInv', MemInv, RunsInOrder', NEW k \in Pos, StartNode(k),
         NEW p \in CellsOf(k, FALSE)
  PROVE  LastWriterBefore(k, p, mem[p])
<1>1. /\ running' = running \cup {k} /\ over' = over /\ accs' = accs
      /\ k \notin over
  BY DEF StartNode, depsVars
<1>2. p \in Locs \X Cells
  BY CellsOfType DEF TypeInv, TypeOK
<1>3. mem[p] \in Pos \cup {-1} /\ over \subseteq Pos
  BY <1>2 DEF TypeInv, TypeOK
<1>4. ASSUME NEW j \in Pos, NEW h \in Pos, j < h, NEW w \in BOOLEAN, NEW v \in BOOLEAN,
             w \/ v, p \in CellsOf(j, w), p \in CellsOf(h, v), h \in running \cup over \cup {k}
      PROVE  j \in over
  <2>1. PICK a \in accs : a.pos = j /\ a.write = w /\ p \in {a.loc} \X Touched(a.box)
    BY <1>4 DEF CellsOf
  <2>2. PICK b \in accs : b.pos = h /\ b.write = v /\ p \in {b.loc} \X Touched(b.box)
    BY <1>4 DEF CellsOf
  <2>3. Conflict(a, b)
    BY <1>4, <2>1, <2>2 DEF Conflict
  <2>4. <<j, h>> \in {e \in Pos \X Pos : e[2] \in running' \cup over' => e[1] \in over'}
    BY <1>1, <1>4, <2>1, <2>2, <2>3 DEF RunsInOrder, OrderedBy
  <2> QED BY <1>1, <1>4, <2>4
<1>5. CASE mem[p] # -1
  <2>1. mem[p] \in over /\ mem[p] \in Pos /\ p \in CellsOf(mem[p], TRUE)
    BY <1>2, <1>3, <1>5 DEF MemInv
  <2>2. ~ (k < mem[p])
    BY <1>1, <1>4, <2>1
  <2>3. mem[p] < k
    BY <1>1, <2>1, <2>2 DEF Pos
  <2>4. ASSUME NEW j \in Pos, mem[p] < j, j < k, p \in CellsOf(j, TRUE) PROVE FALSE
    <3>1. j \in over
      BY <1>4, <2>4
    <3>2. j <= mem[p]
      BY <1>2, <2>4, <3>1 DEF MemInv
    <3> QED BY <2>1, <2>4, <3>2 DEF Pos
  <2> QED BY <2>1, <2>3, <2>4 DEF LastWriterBefore
<1>6. CASE mem[p] = -1
  <2>1. ASSUME NEW j \in Pos, j < k, p \in CellsOf(j, TRUE) PROVE FALSE
    <3>1. j \in over
      BY <1>4, <2>1
    <3>2. j <= -1
      BY <1>2, <1>6, <2>1, <3>1 DEF MemInv
    <3> QED BY <2>1, <3>2 DEF Pos
  <2> QED BY <1>6, <2>1 DEF LastWriterBefore
<1> QED BY <1>5, <1>6

\* A node's writes are the last ones in program order when it ends.
LEMMA EndKeepsMem ==
  ASSUME TypeInv, MemInv, RunsInOrder, NEW k \in Pos, EndNode(k)
  PROVE  MemInv'
<1>1. /\ k \in running /\ over' = over \cup {k} /\ accs' = accs
      /\ mem' = [p \in Locs \X Cells |-> IF p \in CellsOf(k, TRUE) THEN k ELSE mem[p]]
      /\ over \subseteq Pos /\ k \notin over
  BY DEF EndNode, depsVars, TypeInv, TypeOK
<1> SUFFICES ASSUME NEW p \in Locs \X Cells
             PROVE  /\ mem'[p] # -1 => mem'[p] \in over' /\ p \in CellsOf(mem'[p], TRUE)
                    /\ \A j \in over' : p \in CellsOf(j, TRUE) => j <= mem'[p]
  BY <1>1, CellsOfKept DEF MemInv, CellsOf
<1>2. /\ mem[p] # -1 => mem[p] \in over /\ p \in CellsOf(mem[p], TRUE)
      /\ \A j \in over : p \in CellsOf(j, TRUE) => j <= mem[p]
  BY DEF MemInv
<1>3. CASE p \in CellsOf(k, TRUE)
  <2>1. mem'[p] = k
    BY <1>1, <1>3
  <2>2. ASSUME NEW j \in over, p \in CellsOf(j, TRUE) PROVE j <= k
    <3>1. ~ (k < j)
      BY <1>1, <1>3, <2>2, CellConflict
    <3> QED BY <1>1, <3>1 DEF Pos
  <2>3. k <= k
    BY DEF Pos
  <2> QED BY <1>1, <1>3, <2>1, <2>2, <2>3
<1>4. CASE p \notin CellsOf(k, TRUE)
  <2>1. mem'[p] = mem[p]
    BY <1>1, <1>4
  <2> QED BY <1>1, <1>2, <1>4, <2>1
<1> QED BY <1>3, <1>4

\* The invariant of the memory and of what the nodes read from it.
LEMMA MemoryInvariant == Spec => [](MemInv /\ SeesProgramOrder)
<1>1. Init => MemInv /\ SeesProgramOrder
  BY DEF Init, MemInv, SeesProgramOrder
<1>2. /\ TypeInv /\ TypeInv' /\ RunsInOrder /\ RunsInOrder'
      /\ MemInv /\ SeesProgramOrder /\ [Next]_vars
      => MemInv' /\ SeesProgramOrder'
  <2> SUFFICES ASSUME TypeInv, TypeInv', RunsInOrder, RunsInOrder', MemInv, SeesProgramOrder,
                      [Next]_vars
               PROVE  MemInv' /\ SeesProgramOrder'
    OBVIOUS
  <2>1. CASE DepsNext /\ UNCHANGED runVars
    <3>1. /\ running = {} /\ over = {} /\ running' = {} /\ over' = {}
          /\ mem' = mem
      BY <2>1, SortEnds DEF TypeInv, TypeOK, RunAfterSort, runVars
    <3>2. \A p \in Locs \X Cells : mem[p] = -1
      BY <3>1 DEF MemInv
    <3> QED BY <3>1, <3>2 DEF MemInv, SeesProgramOrder
  <2>2. CASE (\E m \in {"levels", "edges"} : Execute(m)) \/ UNCHANGED vars
    <3>1. /\ accs' = accs /\ running' = running /\ over' = over /\ mem' = mem /\ saw' = saw
      BY <2>2 DEF Execute, vars, depsVars, runVars
    <3> QED BY <3>1 DEF MemInv, SeesProgramOrder, LastWriterBefore, CellsOf
  <2>3. ASSUME NEW k \in Pos, StartNode(k) PROVE MemInv' /\ SeesProgramOrder'
    <3>1. /\ running' = running \cup {k} /\ over' = over /\ accs' = accs /\ mem' = mem
          /\ k \notin running \cup over
          /\ saw' = [saw EXCEPT ![k] = {<<p[1], p[2], mem[p]>> : p \in CellsOf(k, FALSE)}]
      BY <2>3 DEF StartNode, depsVars
    <3>2. MemInv'
      BY <3>1 DEF MemInv, CellsOf
    <3>3. ASSUME NEW h \in running' \cup over', NEW s \in saw'[h]
          PROVE  LastWriterBefore(h, <<s[1], s[2]>>, s[3])
      <4>1. saw \in [Pos -> SUBSET (Locs \X Cells \X (Pos \cup {-1}))]
        BY DEF TypeInv, TypeOK
      <4>2. CASE h = k
        <5>1. PICK p \in CellsOf(k, FALSE) : s = <<p[1], p[2], mem[p]>>
          BY <3>1, <3>3, <4>1, <4>2
        <5>2. p \in Locs \X Cells
          BY CellsOfType DEF TypeInv, TypeOK
        <5>3. <<s[1], s[2]>> = p /\ s[3] = mem[p]
          BY <5>1, <5>2
        <5> QED BY <2>3, <4>2, <5>3, StartSees
      <4>3. CASE h # k
        <5>1. h \in running \cup over /\ s \in saw[h]
          BY <3>1, <3>3, <4>1, <4>3
        <5> QED BY <5>1 DEF SeesProgramOrder
      <4> QED BY <4>2, <4>3
    <3>4. \A h, p, w : LastWriterBefore(h, p, w)' <=> LastWriterBefore(h, p, w)
      BY <3>1, LastWriterKept
    <3> QED BY <3>2, <3>3, <3>4 DEF SeesProgramOrder
  <2>4. ASSUME NEW k \in Pos, EndNode(k) PROVE MemInv' /\ SeesProgramOrder'
    <3>1. /\ running' \cup over' = running \cup over /\ saw' = saw /\ accs' = accs
      BY <2>4 DEF EndNode, depsVars
    <3>2. SeesProgramOrder'
      BY <3>1 DEF SeesProgramOrder, LastWriterBefore, CellsOf
    <3> QED BY <2>4, <3>2, EndKeepsMem
  <2> QED BY <2>1, <2>2, <2>3, <2>4 DEF Next, Finished
<1> QED BY <1>1, <1>2, ConflictsRunInOrder, TypeInvariant, ScanInvariant,
           LevelsSeparateConflicts, GatesInvariant, PTL DEF Spec

\* Every node reads program order's values, whichever executor runs the graph.
THEOREM RunSeesProgramOrder == Spec => []SeesProgramOrder
BY MemoryInvariant, PTL

\* And what is left in memory at the end is what program order leaves.
THEOREM RunLeavesProgramOrder == Spec => []LeavesProgramOrder
<1>1. TypeInv /\ MemInv => LeavesProgramOrder
  <2> SUFFICES ASSUME TypeInv, MemInv, over = Pos, NEW p \in DOMAIN mem
               PROVE  LastWriterBefore(NumNodes, p, mem[p])
    BY DEF LeavesProgramOrder
  <2>1. p \in Locs \X Cells /\ mem[p] \in Pos \cup {-1}
    BY DEF TypeInv, TypeOK
  <2>2. \A j \in Pos : p \in CellsOf(j, TRUE) => ~ (mem[p] < j)
    <3> SUFFICES ASSUME NEW j \in Pos, p \in CellsOf(j, TRUE) PROVE ~ (mem[p] < j)
      OBVIOUS
    <3>1. j <= mem[p]
      BY <2>1 DEF MemInv
    <3> QED BY <2>1, <3>1 DEF Pos
  <2>3. CASE mem[p] # -1
    <3>1. mem[p] \in Pos /\ p \in CellsOf(mem[p], TRUE)
      BY <2>1, <2>3 DEF MemInv
    <3>2. mem[p] < NumNodes
      BY <3>1, GraphAssumption DEF Pos
    <3> QED BY <2>2, <3>1, <3>2 DEF LastWriterBefore
  <2>4. CASE mem[p] = -1
    BY <2>2, <2>4 DEF LastWriterBefore
  <2> QED BY <2>3, <2>4
<1> QED BY <1>1, MemoryInvariant, TypeInvariant, PTL
=============================================================================
