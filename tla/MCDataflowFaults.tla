-------------------------- MODULE MCDataflowFaults --------------------------
(* One root with two successors, which a third node waits for. *)
EXTENDS DataflowFaults

CONSTANTS main, w1

MCThreads == {main, w1}
MCWorkers == {w1}

MCPreds == <<{}, {1}, {1}, {2, 3}>>
MCKind == [i \in 1 .. 4 |-> "compute"]
MCZeroes == [i \in 1 .. 4 |-> 0]
MCRequests == 1 .. 4
MCWidth == [i \in 1 .. 4 |-> 1]
MCRank == <<3, 2, 2, 1>>
MCTiebreak == [i \in 1 .. 4 |-> i]
=============================================================================
