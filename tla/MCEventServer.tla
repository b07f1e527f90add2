--------------------------- MODULE MCEventServer ---------------------------
(* EventServer as it is; its liveness is checked, so there is no symmetry. *)
EXTENDS EventServer
=============================================================================
