----------------------------- MODULE MCGraphRun -----------------------------
(* Four nodes, one sliced tensor of two cells, one parameter.             *)
EXTENDS GraphRun, TLC

\* Boxes only tell cells apart: renaming the cells renames the behaviours.
CellSymmetry == Permutations(Cells)
=============================================================================
