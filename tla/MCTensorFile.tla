----------------------------- MODULE MCTensorFile -----------------------------
(* A tensor of one cell, whose end is not aligned, and one of two. *)
EXTENDS TensorFile, TLC

CONSTANTS A, B, x, y

MCSize == (A :> 1) @@ (B :> 2)

MCSymmetry == Permutations({x, y})
=============================================================================
