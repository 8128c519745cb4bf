------------------------ MODULE MCDataflowExecutor ------------------------
(* Three tensors under a budget that holds two of them at most.  Two small  *)
(* ones are materialized and freed; the largest is reached through an async *)
(* node, so that its submission races with the Frees of the others, and may *)
(* be walked past by a Free that leaves it too little; its own Free has two *)
(* predecessors.  Two nodes are wide, one may fail, and behind it is an     *)
(* allocation larger than the whole budget.  The machine has two threads,   *)
(* as planned, or three, which makes the plan stale.                        *)
EXTENDS DataflowExecutor

CONSTANTS main, w1, w2

MCThreads == {main, w1, w2}
MCWorkers == {w1, w2}

\* 1, 3, 4: materialize; 2: async; 5, 6, 7: free 1, 4, 3; 8: the allocation
\* that cannot fit.
MCPreds == <<{}, {}, {2}, {}, {1}, {4}, {3, 4}, {1}>>
MCKind == <<"materialize", "async", "materialize", "materialize",
            "free", "free", "free", "materialize">>
MCBytes == <<2, 0, 3, 1, 2, 1, 3, 5>>
MCThreadWidth == <<2, 0, 1, 2, 1, 1, 1, 1>>
MCPlannedRank == [i \in 1 .. 8 |-> 0]
MCMayThrow == {1}
MCRequests == 1 .. 8
MCWidth == <<2, 1, 1, 2, 1, 1, 1, 1>>
MCRank == <<2, 3, 2, 2, 1, 1, 1, 1>>
MCTiebreak == [i \in 1 .. 8 |-> i]

\* The hypotheses of the theorems about memory hold here: each Free with the
\* node it returns the bytes of.
MCPairs == [i \in 1 .. 8 |-> CASE i = 5 -> 1 [] i = 6 -> 4 [] i = 7 -> 3 [] OTHER -> 0]
ASSUME MCHypotheses == RoomForTwo /\ FreesFit /\ FreesMatch(MCPairs)
=============================================================================
