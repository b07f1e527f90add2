----------------------------- MODULE MCSocketIO -----------------------------
(* Instance of SocketIO for TLC. *)
EXTENDS SocketIO
=============================================================================
