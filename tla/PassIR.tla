------------------------------- MODULE PassIR -------------------------------
(***************************************************************************)
(* The nodes that the optimizer passes rewrite, and what a replay of them  *)
(* computes.  A tensor is two elements of a prime field (an off-diagonal   *)
(* pair of a matrix, so that a transpose exchanges them): prefactors that  *)
(* are not zero stay so, and no rounding gets between two programs.        *)
(*                                                                         *)
(* A node has two views of its operands and a pass must keep both right:   *)
(* ins and outs, the lists that passes and executors reason with, and the  *)
(* slots its executor captured, which follow redirects only.               *)
(***************************************************************************)
EXTENDS Integers, FiniteSets, SequencesExt

CONSTANTS
  User,      \* tensors of the caller: what a replay must leave right
  Eager,     \* intermediates with storage from the start
  Deferred,  \* intermediates that are declared and not yet allocated
  Zeroed,    \* the deferred ones declared to start as zero
  Prime,     \* the size of the field
  Initial    \* what the caller put into its tensors

ASSUME PassIRAssumption ==
  /\ Prime \in Nat /\ Prime > 2
  /\ Initial \in [User -> [1 .. 2 -> 0 .. (Prime - 1)]]
  /\ Zeroed \subseteq Deferred
  /\ User \cap (Eager \cup Deferred) = {} /\ Eager \cap Deferred = {}

Intermediate == Eager \cup Deferred
Tensors      == User \cup Intermediate
ArenaSlots   == 1 .. Cardinality(Intermediate)   \* tensors have one size

Kinds     == {"einsum", "permute", "axpby", "product", "scale"}
Lifecycle == {"materialize", "initialize", "free"}
Elements  == 1 .. 2
Scalars   == 0 .. (Prime - 1)

Node == [id : Nat, kind : Kinds \cup Lifecycle, ins : Seq(Tensors), outs : Seq(Tensors),
         slots : Seq(Tensors), tr : Seq(BOOLEAN), dst : Tensors, a : Scalars, b : Scalars]

\* Y = alpha X + beta Y and C = alpha A * B + beta C list a destination they
\* read; einsum and permute list their operands only; a scale its tensor.
Recorded(id, kind, slots, tr, dst, a, b) ==
  [id |-> id, kind |-> kind, slots |-> slots, tr |-> tr, dst |-> dst, a |-> a, b |-> b,
   ins  |-> IF kind \in {"axpby", "product"} /\ b # 0 THEN Append(slots, dst) ELSE slots,
   outs |-> <<dst>>]

LifecycleNode(kind, t) ==
  [id |-> 0, kind |-> kind, slots |-> <<>>, tr |-> <<>>, dst |-> t, a |-> 0, b |-> 0,
   ins |-> IF kind = "free" THEN <<t>> ELSE <<>>, outs |-> <<t>>]

Reads(nd)  == Range(nd.ins)
Writes(nd) == Range(nd.outs)
Touches(nd) == Reads(nd) \cup Writes(nd)
IsLifecycle(nd) == nd.kind \in Lifecycle

\* What can be said of a destination from the prefactors (PassUtil.hpp).
PureOverwrite(nd)    == nd.kind \in {"einsum", "permute", "axpby"} /\ nd.b = 0
ReadsDestination(nd) == \/ nd.kind = "scale"
                        \/ nd.kind \in {"einsum", "permute", "axpby"} /\ nd.b # 0

(***************************************************************************)
(* A graph: its nodes in program order, the redirects of its slots, the    *)
(* slice of the arena each tensor is attached to (0: storage of its own)   *)
(* and the reads its last pass vouches for.                                *)
(***************************************************************************)
Graph == [nodes : Seq(Node), redirect : [Tensors -> Tensors],
          arena : [Tensors -> {0} \cup ArenaSlots], waived : SUBSET (Nat \X Tensors)]

GraphOf(nodes) ==
  [nodes |-> nodes, redirect |-> [t \in Tensors |-> t],
   arena |-> [t \in Tensors |-> 0], waived |-> {}]

\* Redirects are collapsed: a target is never redirected itself.
Redirected(redirect, from, to) ==
  LET target == redirect[to]
  IN IF from = target THEN redirect
     ELSE [t \in Tensors |-> IF t = from \/ redirect[t] = from THEN target ELSE redirect[t]]

Home(g, t)     == IF g.arena[t] = 0 THEN t ELSE g.arena[t]
Location(g, t) == Home(g, g.redirect[t])
Locations(g, nd) ==
  IF IsLifecycle(nd) THEN {Home(g, nd.dst)}
  ELSE {Location(g, t) : t \in Range(nd.slots) \cup {nd.dst}}

(***************************************************************************)
(* A replay.  live: the tensors that hold storage.                         *)
(***************************************************************************)
Junk == <<Prime - 2, Prime - 3>>

Start == [mem  |-> [l \in Tensors \cup ArenaSlots |->
                      IF l \in User THEN Initial[l] ELSE Junk],
          live |-> User \cup Eager, ok |-> TRUE]

ElementOf(g, nd, mem, e) ==
  LET Operand(k) == mem[Location(g, nd.slots[k])][IF nd.tr[k] THEN 3 - e ELSE e]
      product    == IF Len(nd.slots) = 1 THEN Operand(1) ELSE Operand(1) * Operand(2)
  IN (nd.a * product + nd.b * mem[Location(g, nd.dst)][e]) % Prime

\* A kernel writes element by element, into the storage it may be reading.
Computed(g, nd, mem) ==
  LET Write(m, e) == [m EXCEPT ![Location(g, nd.dst)][e] = ElementOf(g, nd, m, e)]
  IN Write(Write(mem, 1), 2)

Execute(g, st, nd) ==
  LET t == nd.dst
  IN CASE nd.kind = "materialize" ->
            [st EXCEPT !.live = @ \cup {t},
                       !.mem[Home(g, t)] = IF t \in st.live \/ g.arena[t] # 0 THEN @ ELSE Junk]
       [] nd.kind = "initialize" -> [st EXCEPT !.mem[Home(g, t)] = <<0, 0>>]
       [] nd.kind = "free" -> [st EXCEPT !.live = @ \ {t}]
       [] OTHER ->
            [st EXCEPT !.mem = Computed(g, nd, @),
                       !.ok = @ /\ \A s \in Range(nd.slots) \cup {nd.dst} : g.redirect[s] \in st.live]

Replay(g, st) == FoldLeft(LAMBDA s, nd : Execute(g, s, nd), st, g.nodes)

\* What the caller sees of two replays, and whether both kept to live storage.
Outcome(g) ==
  LET first  == Replay(g, Start)
      second == Replay(g, first)
      Seen(st) == [u \in User |-> st.mem[u]]
  IN [ok |-> second.ok, seen |-> <<Seen(first), Seen(second)>>]

(***************************************************************************)
(* Program order: what an executor that runs nodes as soon as their        *)
(* predecessors are over still guarantees.  GraphDeps shows that its edges *)
(* chain every two nodes whose lists conflict, and no others.              *)
(***************************************************************************)
Conflict(p, q) == \/ Writes(p) \cap Touches(q) # {}
                  \/ Reads(p) \cap Writes(q) # {}

\* Positions that are certainly over when the node at a position starts.
Before(nodes) ==
  FoldLeft(LAMBDA before, nd :
             LET direct == {i \in DOMAIN before : Conflict(nodes[i], nd)}
             IN Append(before, UNION {{i} \cup before[i] : i \in direct}),
           <<>>, nodes)

=============================================================================
