--------------------------- MODULE MCNestedReplay ---------------------------
(* A caller replays a planned graph with a loop of two iterations whose body *)
(* wants the whole machine, and a node next to the loop that wants it too; a *)
(* second caller replays an unplanned graph whose task anyone may pick up.   *)
EXTENDS NestedReplay

CONSTANTS m1, m2, w1, outer, body1, body2, other

MCThreads == {m1, m2, w1}
MCWorkers == {w1}
MCRuns == {outer, body1, body2, other}

\* 1: the loop; 2: its neighbour; 3, 4: first iteration; 5: second; 6: other.
MCRequests == 1 .. 6
MCNodesOf == (outer :> {1, 2}) @@ (body1 :> {3, 4}) @@ (body2 :> {5}) @@ (other :> {6})
MCTopRuns == (m1 :> <<outer>>) @@ (m2 :> <<other>>)
MCBodyRuns == <<<<body1, body2>>, <<>>, <<>>, <<>>, <<>>, <<>>>>
MCThreadWidth == <<1, 2, 2, 1, 2, 0>>
MCPlannedFor == (outer :> 2) @@ (body1 :> 2) @@ (body2 :> 2) @@ (other :> 0)
MCCeiling == (m1 :> 2) @@ (m2 :> 2) @@ (w1 :> 1)
MCWidth == <<1, 2, 2, 1, 2, 1>>
MCRank == <<1, 0, 0, 1, 0, 0>>
MCTiebreak == [i \in 1 .. 6 |-> i]
MCMayThrow == {4}
=============================================================================
