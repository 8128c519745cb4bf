------------------------------- MODULE Passes -------------------------------
(***************************************************************************)
(* Passes of the default pipeline over graphs without control flow, views, *)
(* devices or distribution, and the pass manager that runs them: each pass *)
(* may be disabled by name, and after a pass that changed the graph        *)
(* check_observed_writes() refuses a read that lost its writer.            *)
(*                                                                         *)
(* A behaviour captures a program node by node, then optimizes it.  What   *)
(* the program computes in program order is kept as `expected`: a pass is  *)
(* right when two replays of its graph still compute that.                 *)
(*                                                                         *)
(* A pass is the set of the graphs it may leave: the order of hash tables  *)
(* and of unstable sorts is the build's to choose.                         *)
(***************************************************************************)
EXTENDS PassIR

CONSTANTS
  Menu,          \* the operations a program may be captured from
  MaxNodes,      \* bound: nodes in a program
  Pipeline,      \* names of passes, in the order they are run
  Assumed        \* which of Assumptions the programs keep to

ASSUME PassesAssumption ==
  /\ MaxNodes \in Nat \ {0}
  /\ Assumed \subseteq {"written", "permutes", "sources", "producers", "operands"}
  /\ Menu \subseteq [kind : Kinds, slots : Seq(Tensors), tr : Seq(BOOLEAN),
                     dst : Tensors, a : Scalars, b : Scalars]

VARIABLES
  graph,     \* the graph: captured, then rewritten
  stage,     \* "capture", "optimize", or "thrown" (std::logic_error)
  next,      \* the pass of the pipeline that is next
  expected   \* what the captured program computes

vars == <<graph, stage, next, expected>>

Without(nodes, gone) ==
  LET kept == SetToSortSeq(DOMAIN nodes \ gone, <)
  IN [k \in DOMAIN kept |-> nodes[kept[k]]]

\* Blocks of nodes put in front of positions; blocks at one position in any order.
Woven(nodes, blocks) ==
  LET At(k) == {FlattenSeq(s) : s \in SetToSeqs(blocks[k])}
      Weave(done, k) ==
        {s \o p \o (IF k \in DOMAIN nodes THEN <<nodes[k]>> ELSE <<>>) : s \in done, p \in At(k)}
  IN FoldLeft(Weave, {<<>>}, [k \in 1 .. (Len(nodes) + 1) |-> k])

-----------------------------------------------------------------------------
(* ScaleAbsorption: a scale whose tensor is overwritten later is dropped,  *)
(* its factor folded into every node that reads the scaled value.          *)

OperandReads(nd, t) ==
  Cardinality({k \in 1 .. (IF nd.kind = "einsum" THEN 2 ELSE 1) : k <= Len(nd.ins) /\ nd.ins[k] = t})

FoldSite(nd, t) ==
  LET isDestination == nd.dst = t
      reads == OperandReads(nd, t)
  IN CASE nd.kind \notin {"einsum", "axpby"} -> "none"
       [] isDestination -> IF reads = 0 /\ nd.b # 0 THEN "accumulator" ELSE "none"
       [] OTHER -> IF reads = 1 THEN "operand" ELSE "none"

ApplyFold(nd, t, factor) ==
  IF FoldSite(nd, t) = "operand" THEN [nd EXCEPT !.a = (@ * factor) % Prime]
                                 ELSE [nd EXCEPT !.b = (@ * factor) % Prime]

\* The window of a scale: from it to the next writer of its tensor.
ReadersOf(nodes, gone, sc, writer) ==
  LET t == nodes[sc].dst
  IN {k \in (sc + 1) .. writer \ gone :
        t \in Reads(nodes[k]) \/ (k = writer /\ ReadsDestination(nodes[k]))}

Absorb(st, sc) ==
  LET nodes   == st.nodes
      t       == nodes[sc].dst
      writers == {k \in (sc + 1) .. Len(nodes) \ st.gone : t \in Writes(nodes[k])}
      writer  == Min(writers)
      readers == ReadersOf(nodes, st.gone, sc, writer)
  IN IF nodes[sc].kind # "scale" \/ writers = {} THEN st
     ELSE IF readers = {} /\ PureOverwrite(nodes[writer])
       THEN [st EXCEPT !.gone = @ \cup {sc}]
     ELSE IF readers # {} /\ \A k \in readers : FoldSite(nodes[k], t) # "none"
       THEN [nodes  |-> [k \in DOMAIN nodes |->
                           IF k \in readers THEN ApplyFold(nodes[k], t, nodes[sc].a) ELSE nodes[k]],
             gone   |-> st.gone \cup {sc},
             waived |-> st.waived \cup {<<nodes[k].id, t>> : k \in readers}]
     ELSE st

ScaleAbsorption(g) ==
  LET st == FoldLeft(Absorb, [nodes |-> g.nodes, gone |-> {}, waived |-> {}],
                     [k \in DOMAIN g.nodes |-> k])
  IN {[g EXCEPT !.nodes = Without(st.nodes, st.gone), !.waived = st.waived]}

-----------------------------------------------------------------------------
(* PermuteFusion: an einsum reads through a pure permute.                  *)

CanFuse(p) == p.a = 1 /\ p.b = 0

FuseSlot(nodes, st, at) ==
  LET e == st.nodes[at[1]]
      t == e.ins[at[2]]
      producers == {k \in DOMAIN nodes : t \in Writes(nodes[k])}
      p == Max(producers)
      consumers == MapThenSumSet(LAMBDA k : Cardinality({i \in DOMAIN nodes[k].ins : nodes[k].ins[i] = t}),
                                 DOMAIN nodes)
  IN IF \/ e.kind # "einsum" \/ producers = {} \/ p \in st.gone
        \/ nodes[p].kind # "permute" \/ consumers # 1 \/ ~CanFuse(nodes[p])
       THEN st
       ELSE [nodes |-> [st.nodes EXCEPT
                          ![at[1]].ins[at[2]] = nodes[p].ins[1],
                          ![at[1]].tr[at[2]]  = (@ # nodes[p].tr[1])],
             gone  |-> st.gone \cup {p},
             redirect |-> Redirected(st.redirect, t, nodes[p].ins[1])]

PermuteFusion(g) ==
  LET at == FlattenSeq([k \in DOMAIN g.nodes |->
              IF g.nodes[k].kind = "einsum" THEN <<<<k, 1>>, <<k, 2>>>> ELSE <<>>])
      st == FoldLeft(LAMBDA s, kl : FuseSlot(g.nodes, s, kl),
                     [nodes |-> g.nodes, gone |-> {}, redirect |-> g.redirect], at)
  IN {[g EXCEPT !.nodes = Without(st.nodes, st.gone), !.redirect = st.redirect]}

-----------------------------------------------------------------------------
(* CSE: a node that computes what an earlier one computes, or a power of   *)
(* two times it, gives way; the factor moves to its readers.               *)

PowersOfTwo == {r \in Scalars : \E e \in 0 .. 4 : r = (2 ^ e) % Prime}

\* The exact r with b = r a, or 0.
ExactRatio(a, b) ==
  IF a = b THEN 1
  ELSE IF \E r \in PowersOfTwo : (a * r) % Prime = b /\ a # 0
    THEN CHOOSE r \in PowersOfTwo : (a * r) % Prime = b
  ELSE 0

Ratio(p, q) ==
  IF p.kind = q.kind /\ p.tr = q.tr /\ p.b = q.b THEN ExactRatio(p.a, q.a) ELSE 0

FoldableReader(nd, t) ==
  /\ t \notin Writes(nd)
  /\ Cardinality({i \in DOMAIN nd.ins : nd.ins[i] = t}) = 1
  /\ nd.kind \in {"einsum", "axpby"}

SingleWriter(nodes, t) == Cardinality({k \in DOMAIN nodes : t \in Writes(nodes[k])}) = 1

\* Guards C, B, A and E; D and F are about sub-graphs.
Mergeable(original, st, i, j) ==
  LET p == st.nodes[i]  q == st.nodes[j]
      ratio == Ratio(p, q)
  IN /\ ratio # 0
     /\ q.dst \in Intermediate
     /\ SingleWriter(original, p.dst) /\ SingleWriter(original, q.dst)
     /\ \A k \in (i + 1) .. (j - 1) \ st.gone : Writes(st.nodes[k]) \cap Reads(p) = {}
     /\ ratio # 1 => \A k \in DOMAIN st.nodes \ (st.gone \cup {j}) :
                        q.dst \in Reads(st.nodes[k]) => FoldableReader(st.nodes[k], q.dst)

Renamed(ids, names) == [k \in DOMAIN ids |-> names[ids[k]]]

Eliminate(original, st, j) ==
  LET q   == st.nodes[j]
      key == <<q.kind, Renamed(q.ins, st.names)>>
      duplicates == {i \in DOMAIN st.keys : st.keys[i] = key /\ Mergeable(original, st, i, j)}
      i   == Min(duplicates)
      r   == Ratio(st.nodes[i], q)
  IN IF ~PureOverwrite(q) THEN st
     ELSE IF duplicates = {} THEN [st EXCEPT !.keys = (j :> key) @@ @]
     ELSE [st EXCEPT
             !.nodes = [k \in DOMAIN @ |->
                          IF r # 1 /\ k \notin st.gone \cup {j} /\ q.dst \in Reads(@[k])
                            THEN [@[k] EXCEPT !.a = (@ * r) % Prime] ELSE @[k]],
             !.gone     = @ \cup {j},
             !.names    = [@ EXCEPT ![q.dst] = st.nodes[i].dst],
             !.redirect = Redirected(@, q.dst, st.nodes[i].dst)]

CSE(g) ==
  LET st == FoldLeft(LAMBDA s, j : Eliminate(g.nodes, s, j),
                     [nodes |-> g.nodes, gone |-> {}, redirect |-> g.redirect,
                      names |-> [t \in Tensors |-> t], keys |-> <<>>],
                     [k \in DOMAIN g.nodes |-> k])
      renamed == [k \in DOMAIN st.nodes |-> [st.nodes[k] EXCEPT !.ins = Renamed(@, st.names)]]
  IN {[g EXCEPT !.nodes = Without(renamed, st.gone), !.redirect = st.redirect]}

-----------------------------------------------------------------------------
(* DeadNodeElimination and ElementWiseFusion.                              *)

DeadNodeElimination(g) ==
  LET consumed == UNION {Reads(g.nodes[k]) : k \in DOMAIN g.nodes}
      dead == {k \in DOMAIN g.nodes : Writes(g.nodes[k]) \subseteq Intermediate \ consumed}
  IN {[g EXCEPT !.nodes = Without(@, dead)]}

SameAxpby(p, q) ==
  /\ p.kind = "axpby" /\ q.kind = "axpby"
  /\ p.dst = q.dst /\ p.ins[1] = q.ins[1] /\ p.ins[1] # p.dst

ComposedAxpby(p, q) ==
  LET beta == (q.b * p.b) % Prime
  IN [p EXCEPT !.a = (q.a + q.b * @) % Prime, !.b = beta,
               !.ins = IF beta = 0 THEN <<p.ins[1]>> ELSE <<p.ins[1], p.dst>>]

SameScale(p, q) == p.kind = "scale" /\ q.kind = "scale" /\ p.dst = q.dst
ComposedScale(p, q) == [p EXCEPT !.a = (@ * q.a) % Prime]

\* Merge runs of nodes that directly follow each other.  The code does so for one
\* kind after the other, which keep out of each other's way.
FusedRuns(nodes) ==
  LET Step(done, nd) ==
        CASE done # <<>> /\ SameAxpby(Last(done), nd) -> Append(Front(done), ComposedAxpby(Last(done), nd))
          [] done # <<>> /\ SameScale(Last(done), nd) -> Append(Front(done), ComposedScale(Last(done), nd))
          [] OTHER -> Append(done, nd)
  IN FoldLeft(Step, <<>>, nodes)

ElementWiseFusion(g) == {[g EXCEPT !.nodes = FusedRuns(@)]}

-----------------------------------------------------------------------------
(* Reorder: of the nodes that are ready, one that frees the most memory.   *)

Freed(nodes, k) ==
  Cardinality({t \in Touches(nodes[k]) :
                 \A j \in (k + 1) .. Len(nodes) : t \notin Touches(nodes[j])})

Reorder(g) ==
  LET nodes == g.nodes
      Ready(done) == {k \in DOMAIN nodes \ Range(done) :
                        \A j \in 1 .. (k - 1) : Conflict(nodes[j], nodes[k]) => j \in Range(done)}
      Best(done) == {k \in Ready(done) : \A j \in Ready(done) : Freed(nodes, j) <= Freed(nodes, k)}
      Extend(orders, nd) == UNION {{Append(o, k) : k \in Best(o)} : o \in orders}
  IN {[g EXCEPT !.nodes = [k \in DOMAIN o |-> nodes[o[k]]]] :
        o \in FoldLeft(Extend, {<<>>}, nodes)}

-----------------------------------------------------------------------------
(* Storage: Materialization allocates deferred tensors before their first  *)
(* use, InplaceOptimization lets a result take over a dying operand's      *)
(* storage, FreeInsertion releases intermediates after their last use, and *)
(* MemoryPlanning packs what is bracketed into one arena.                  *)

Uses(nodes, t) == {k \in DOMAIN nodes : t \in Touches(nodes[k])}

Materialization(g) ==
  LET Block(t) == <<LifecycleNode("materialize", t)>> \o
                  (IF t \in Zeroed THEN <<LifecycleNode("initialize", t)>> ELSE <<>>)
      Position(t) == IF Uses(g.nodes, t) = {} THEN 1 ELSE Min(Uses(g.nodes, t))
      BlocksAt(k) == {Block(t) : t \in {d \in Deferred : Position(d) = k}}
  IN {[g EXCEPT !.nodes = s] : s \in Woven(g.nodes, [k \in 1 .. (Len(g.nodes) + 1) |-> BlocksAt(k)])}

\* Mutant: a transposing kernel reads what it has already overwritten.
AliasSafeWithPermute == {"product", "axpby", "permute"}

AliasSafe == {"product", "axpby"}

ReadsIn(nodes, t)  == MapThenSumSet(LAMBDA k : Cardinality({i \in DOMAIN nodes[k].ins : nodes[k].ins[i] = t}),
                                    {k \in DOMAIN nodes : ~IsLifecycle(nodes[k])})
WritesIn(nodes, t) == Cardinality({k \in DOMAIN nodes : ~IsLifecycle(nodes[k]) /\ t \in Writes(nodes[k])})

\* <<node, operand>>: the node's result may take over the operand's storage.
Merges(nodes) ==
  {m \in (DOMAIN nodes) \X (1 .. 2) :
     LET nd == nodes[m[1]]
     IN /\ nd.kind \in AliasSafe
        /\ nd.outs[1] \notin Reads(nd)
        /\ nd.outs[1] \in Intermediate
        /\ WritesIn(nodes, nd.outs[1]) = 1
        /\ \A k \in DOMAIN nodes : nodes[k].kind = "initialize" => nd.outs[1] \notin Writes(nodes[k])
        /\ m[2] \in DOMAIN nd.ins
        /\ nd.ins[m[2]] \in Intermediate
        /\ WritesIn(nodes, nd.ins[m[2]]) = 1 /\ ReadsIn(nodes, nd.ins[m[2]]) = 1}

Merged(g) ==
  LET plans == Merges(g.nodes)
      plan  == CHOOSE m \in plans : \A o \in plans : m[1] < o[1] \/ (m[1] = o[1] /\ m[2] <= o[2])
      dst   == g.nodes[plan[1]].outs[1]
      src   == g.nodes[plan[1]].ins[plan[2]]
      names == [t \in Tensors |-> IF t = dst THEN src ELSE t]
      own   == {k \in DOMAIN g.nodes : g.nodes[k].kind \in {"materialize", "free"} /\ g.nodes[k].dst = dst}
      renamed == [k \in DOMAIN g.nodes |-> [g.nodes[k] EXCEPT !.ins = Renamed(@, names), !.outs = Renamed(@, names)]]
  IN IF plans = {} THEN g
     ELSE [g EXCEPT !.nodes = Without(renamed, own), !.redirect = Redirected(@, dst, src)]

InplaceOptimization(g) == {FoldLeft(LAMBDA h, nd : Merged(h), g, g.nodes)}

\* Mutant: the nodes an earlier pass inserted are not looked for.
HasLifecycleNever(nodes, kind, t) == FALSE

HasLifecycle(nodes, kind, t) == \E k \in DOMAIN nodes : nodes[k].kind = kind /\ nodes[k].dst = t

FreeInsertion(g) ==
  LET used    == {t \in Intermediate : Uses(g.nodes, t) # {}}
      Writers(t) == {k \in DOMAIN g.nodes : t \in Writes(g.nodes[k])}
      paired  == {t \in used : Writers(t) # {} /\ ~HasLifecycle(g.nodes, "materialize", t)}
      BlocksAt(k) ==
        {<<LifecycleNode("free", t)>> : t \in {u \in used : Max(Uses(g.nodes, u)) + 1 = k}} \cup
        {<<LifecycleNode("materialize", t)>> : t \in {p \in paired : Min(Writers(p)) = k}}
  IN {[g EXCEPT !.nodes = s] : s \in Woven(g.nodes, [k \in 1 .. (Len(g.nodes) + 1) |-> BlocksAt(k)])}

LifecycleAt(nodes, kind, t) == {k \in DOMAIN nodes : nodes[k].kind = kind /\ nodes[k].outs[1] = t}

\* The life of a tensor that has one Materialize and, after it, one Free.
Bracket(nodes, t) ==
  [from |-> Min(LifecycleAt(nodes, "materialize", t)), to |-> Max(LifecycleAt(nodes, "free", t))]

Bracketed(nodes, t) ==
  /\ Cardinality(LifecycleAt(nodes, "materialize", t)) = 1
  /\ Cardinality(LifecycleAt(nodes, "free", t)) = 1
  /\ Bracket(nodes, t).from < Bracket(nodes, t).to

LifetimesOverlap(nodes, t, u) ==
  /\ Bracket(nodes, t).from <= Bracket(nodes, u).to
  /\ Bracket(nodes, u).from <= Bracket(nodes, t).to

\* First fit: the lowest slice no overlapping lifetime has been given.
Place(nodes, arena, t) ==
  LET taken == {arena[u] : u \in {v \in DOMAIN arena : arena[v] # 0 /\ LifetimesOverlap(nodes, t, v)}}
  IN [arena EXCEPT ![t] = Min(ArenaSlots \ taken)]

\* Mutant: the order of the nodes is relied on.
ReuseEdgesNone(nodes, arena) == nodes

\* A Materialize that claims the slice of a tensor freed before is a writer of it.
ReuseEdges(nodes, arena) ==
  [k \in DOMAIN nodes |->
     LET y == nodes[k].outs[1]
         before == {x \in DOMAIN arena \ {y} :
                      /\ arena[x] # 0 /\ arena[x] = arena[y]
                      /\ Bracket(nodes, x).to < k}
     IN IF nodes[k].kind # "materialize" \/ arena[y] = 0 THEN nodes[k]
        ELSE [nodes[k] EXCEPT !.outs = @ \o SetToSeq(before)]]

MemoryPlanning(g) ==
  LET planned == {t \in Intermediate : Bracketed(g.nodes, t)}
      arenas  == {FoldLeft(LAMBDA ar, t : Place(g.nodes, ar, t), g.arena, order) : order \in SetToSeqs(planned)}
  IN {[g EXCEPT !.nodes = ReuseEdges(@, ar), !.arena = ar] : ar \in arenas}

-----------------------------------------------------------------------------
(* The pass manager.                                                       *)

Apply(pass, g) ==
  CASE pass = "ScaleAbsorption"     -> ScaleAbsorption(g)
    [] pass = "PermuteFusion"       -> PermuteFusion(g)
    [] pass = "CSE"                 -> CSE(g)
    [] pass = "DeadNodeElimination" -> DeadNodeElimination(g)
    [] pass = "ElementWiseFusion"   -> ElementWiseFusion(g)
    [] pass = "Reorder"             -> Reorder(g)
    [] pass = "Materialization"     -> Materialization(g)
    [] pass = "InplaceOptimization" -> InplaceOptimization(g)
    [] pass = "FreeInsertion"       -> FreeInsertion(g)
    [] pass = "MemoryPlanning"      -> MemoryPlanning(g)

\* Reads of a node, and whether an earlier node of the graph wrote the tensor.
ObservedWrites(nodes) ==
  UNION {{[node |-> nodes[k].id, tensor |-> t,
           written |-> \E j \in 1 .. (k - 1) : t \in Writes(nodes[j])] : t \in Reads(nodes[k])} :
         k \in DOMAIN nodes}

BreaksProgramOrder(before, after) ==
  \E r \in ObservedWrites(before.nodes) :
    /\ r.written
    /\ [r EXCEPT !.written = FALSE] \in ObservedWrites(after.nodes)
    /\ <<r.node, r.tensor>> \notin after.waived

\* A program writes these tensors before it reads them.
WrittenBeforeRead(nodes, tensors) ==
  \A k \in DOMAIN nodes :
    LET nd == nodes[k]
        read == Range(nd.slots) \cup (IF nd.b # 0 THEN {nd.dst} ELSE {})
    IN \A t \in read \cap tensors : \E j \in 1 .. (k - 1) : nodes[j].dst = t

\* A deferred tensor is written first, or declared to start as zero.
DefinedBeforeUse(nodes) == WrittenBeforeRead(nodes, Deferred \ Zeroed)

\* What FreeInsertion takes for granted: an eager intermediate has a writer before
\* what reads it, and is not one that the caller filled.
EagerWritten(nodes) == WrittenBeforeRead(nodes, Eager)

\* What PermuteFusion takes for granted: a permuted tensor has one producer, whose
\* source is not overwritten until the tensor has been read.
PermutedOnce(nodes) ==
  \A p \in DOMAIN nodes : nodes[p].kind = "permute" => SingleWriter(nodes, nodes[p].dst)

SourcesKept(nodes) ==
  \A p \in DOMAIN nodes : nodes[p].kind = "permute" =>
    \A r \in (p + 1) .. Len(nodes) : nodes[p].dst \in Reads(nodes[r]) =>
      \A k \in (p + 1) .. r : nodes[p].slots[1] \notin Writes(nodes[k])

\* What InplaceOptimization takes for granted: a tensor's producer precedes its reader.
ProducersPrecede(nodes) ==
  \A k \in DOMAIN nodes : \A t \in Range(nodes[k].slots) \cap Zeroed :
    (\E j \in (k + 1) .. Len(nodes) : nodes[j].dst = t)
      => \E j \in 1 .. (k - 1) : nodes[j].dst = t

\* What CSE takes for granted: a node that overwrites is not its own operand.
OperandsAreOthers(nodes) ==
  \A k \in DOMAIN nodes : PureOverwrite(nodes[k]) => nodes[k].dst \notin Range(nodes[k].slots)

KeepsTo(nodes) ==
  /\ "written" \in Assumed => EagerWritten(nodes)
  /\ "permutes" \in Assumed => PermutedOnce(nodes)
  /\ "sources" \in Assumed => SourcesKept(nodes)
  /\ "producers" \in Assumed => ProducersPrecede(nodes)
  /\ "operands" \in Assumed => OperandsAreOthers(nodes)

\* Program order over storage that is all there from the start.
Reference(nodes) ==
  Outcome(GraphOf(FlattenSeq([k \in 1 .. Cardinality(Deferred) |->
                     LET t == SetToSeq(Deferred)[k]
                     IN <<LifecycleNode("materialize", t)>> \o
                        (IF t \in Zeroed THEN <<LifecycleNode("initialize", t)>> ELSE <<>>)]) \o nodes))

Init ==
  /\ graph = GraphOf(<<>>)
  /\ stage = "capture"
  /\ next = 1
  /\ expected = <<>>

Capture(op) ==
  LET nodes == Append(graph.nodes, Recorded(Len(graph.nodes) + 1, op.kind, op.slots, op.tr, op.dst, op.a, op.b))
  IN /\ stage = "capture" /\ Len(graph.nodes) < MaxNodes
     /\ DefinedBeforeUse(nodes)
     /\ KeepsTo(nodes)
     /\ graph' = [graph EXCEPT !.nodes = nodes]
     /\ UNCHANGED <<stage, next, expected>>

Optimize ==
  /\ stage = "capture" /\ graph.nodes # <<>>
  /\ expected' = Reference(graph.nodes)
  /\ stage' = "optimize"
  /\ UNCHANGED <<graph, next>>

RunPass ==
  /\ stage = "optimize" /\ next <= Len(Pipeline)
  /\ \E g \in Apply(Pipeline[next], graph) :
       IF g # graph /\ BreaksProgramOrder(graph, g)
         THEN stage' = "thrown" /\ UNCHANGED <<graph, next>>
         ELSE graph' = [g EXCEPT !.waived = {}] /\ next' = next + 1 /\ UNCHANGED stage
  /\ UNCHANGED expected

\* --einsums:graph:pass-disable; a deferred tensor needs its allocation.
SkipPass ==
  /\ stage = "optimize" /\ next <= Len(Pipeline)
  /\ Pipeline[next] # "Materialization"
  /\ next' = next + 1
  /\ UNCHANGED <<graph, stage, expected>>

Next == (\E op \in Menu : Capture(op)) \/ Optimize \/ RunPass \/ SkipPass

Spec == Init /\ [][Next]_vars

-----------------------------------------------------------------------------
Optimized == stage = "optimize" /\ next = Len(Pipeline) + 1

\* A graph is well formed all along the pipeline: operands are tensors of the
\* graph, redirects are collapsed, and no tensor is allocated or freed twice.
PassTypeOK ==
  /\ graph \in Graph
  /\ stage \in {"capture", "optimize", "thrown"} /\ next \in 1 .. (Len(Pipeline) + 1)
  /\ \A t \in Tensors : graph.redirect[graph.redirect[t]] = graph.redirect[t]
  /\ \A t \in Tensors : \A kind \in Lifecycle :
       Cardinality({k \in DOMAIN graph.nodes : graph.nodes[k].kind = kind /\ graph.nodes[k].dst = t}) <= 1

\* Optimizing a program changes nothing its caller can see: optimize() returns,
\* no node of two replays touches storage that is not there, and the caller's
\* tensors hold what program order leaves in them after each.
ResultsPreserved ==
  /\ stage # "thrown"
  /\ Optimized => Outcome(graph) = expected

\* Executors run a node once its predecessors are over, and the predecessors
\* come from ins and outs alone: two nodes that share storage, through a redirect
\* or a slice of the arena, one of them writing, must be ordered by them.
StorageOrdered ==
  Optimized =>
    LET nodes == graph.nodes
        before == Before(nodes)
        WritesStorage(nd) == IF IsLifecycle(nd) THEN Locations(graph, nd) ELSE {Location(graph, nd.dst)}
    IN \A k \in DOMAIN nodes : \A j \in 1 .. (k - 1) :
         \/ WritesStorage(nodes[j]) \cap Locations(graph, nodes[k]) # {}
         \/ Locations(graph, nodes[j]) \cap WritesStorage(nodes[k]) # {}
         => j \in before[k]

=============================================================================
