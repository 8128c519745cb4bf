--------------------------- MODULE MCWidthBudget ---------------------------
(* A narrow, a mid-sized and an over-wide request on a machine of three or  *)
(* two threads: wide is clamped to all of it, and mid and wide have the     *)
(* same rank, so that the tiebreak decides between them.                    *)
EXTENDS WidthBudget, TLC

CONSTANTS w1, m1, narrow, mid, wide

MCThreads == {w1, m1}
MCWorkers == {w1}
MCRequests == {narrow, mid, wide}
MCWidth == (narrow :> 1) @@ (mid :> 2) @@ (wide :> 4)
MCRank == (narrow :> 0) @@ (mid :> 1) @@ (wide :> 1)
MCTiebreak == (narrow :> 0) @@ (mid :> 2) @@ (wide :> 1)
=============================================================================
