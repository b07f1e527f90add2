-------------------------- MODULE MCUpstreamGroup --------------------------
(* Weights and symmetry for checking UpstreamGroup. *)
EXTENDS UpstreamGroup

CONSTANTS s1, s2, w1, w2

PlainWeights == {1, 2}
AllWeights == {-1, 0, 1, 2}

Interchangeable == Permutations(Servers) \cup Permutations(Workers)
=============================================================================
