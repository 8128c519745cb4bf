------------------------------ MODULE MCPasses ------------------------------
(* Three tensors of the caller, one that only permutes write, one eager and  *)
(* two deferred intermediates, and the operations programs are made of.      *)
EXTENDS Passes

CONSTANTS A, B, C, P, S, T, Z

MCInitial == (A :> <<5, 7>>) @@ (B :> <<11, 13>>) @@ (C :> <<17, 19>>)

Op(kind, a, slots, tr, b, dst) ==
  [kind |-> kind, slots |-> slots, tr |-> tr, dst |-> dst, a |-> a, b |-> b]
Einsum(a, x, y, b, c) == Op("einsum", a, <<x, y>>, <<FALSE, TRUE>>, b, c)
Permute(x, c)         == Op("permute", 1, <<x>>, <<TRUE>>, 0, c)
Axpby(a, x, b, y)     == Op("axpby", a, <<x>>, <<FALSE>>, b, y)
Product(x, y, b, c)   == Op("product", 1, <<x, y>>, <<FALSE, FALSE>>, b, c)
Scale(a, x)           == Op("scale", a, <<x>>, <<FALSE>>, 0, x)

MCMenu == {
  Permute(A, P), Permute(S, P),
  Axpby(1, A, 0, S), Axpby(2, A, 0, T), Axpby(1, C, 1, A), Axpby(2, A, 0, A),
  Axpby(1, T, 1, C),
  Scale(2, S), Scale(3, C),
  Einsum(1, P, B, 0, C), Einsum(1, S, T, 1, C), Einsum(2, A, B, 1, Z),
  Product(A, S, 0, T), Product(S, Z, 0, T), Product(S, T, 0, C)}

MCPipeline == <<"ScaleAbsorption", "PermuteFusion", "CSE", "DeadNodeElimination",
                "ElementWiseFusion", "Reorder", "Materialization", "InplaceOptimization",
                "FreeInsertion", "MemoryPlanning">>
=============================================================================
