---------------------------- MODULE MCTlsServer ----------------------------
(* Model values and symmetry for checking TlsServer. *)
EXTENDS TlsServer, TLC

ConnSymmetry == Permutations(Conns)
=============================================================================
