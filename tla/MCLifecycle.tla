---------------------------- MODULE MCLifecycle ----------------------------
(* Ports and symmetry for checking Lifecycle: one server listens on a plain
   and on a TLS port, a second one on the plain port again. *)
EXTENDS Lifecycle

http == [portNum |-> 80, tls |-> FALSE]
https == [portNum |-> 443, tls |-> TRUE]

SharedPorts == <<<<http, https>>, <<http>>>>

PidSymmetry == Permutations(Pids)
=============================================================================
