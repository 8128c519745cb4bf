---------------------------- MODULE MCMemoryCycle ----------------------------
(* C = A * B as FreeInsertion leaves it: A and B are materialized, used and  *)
(* freed after their last use.  Each fits the budget, both together do not.  *)
EXTENDS DataflowExecutor

CONSTANTS main, w1

MCThreads == {main, w1}
MCWorkers == {w1}

\* 1, 2: materialize; 3: use of both; 4, 5: free.
MCPreds == <<{}, {}, {1, 2}, {3}, {3}>>
MCKind == <<"materialize", "materialize", "compute", "free", "free">>
MCBytes == <<3, 3, 0, 3, 3>>
MCZeroes == [i \in 1 .. 5 |-> 0]
MCRequests == 1 .. 5
MCWidth == [i \in 1 .. 5 |-> 1]
MCRank == <<3, 3, 2, 1, 1>>
MCTiebreak == [i \in 1 .. 5 |-> i]
=============================================================================
