-------------------------- MODULE ConnectionTable --------------------------
(***************************************************************************)
(* What the server's table of client connections promises, whatever server *)
(* loop keeps it: a client socket is a descriptor held by one connection,  *)
(* the connection is entered in the table while it holds that descriptor,  *)
(* and it gives the descriptor back only after it has left the table.      *)
(* Looking a connection up by its descriptor is then never ambiguous.      *)
(*                                                                         *)
(* TlsServer and EventServer implement this specification.                 *)
(***************************************************************************)

CONSTANTS Conns,   \* client connections
          Fds,     \* descriptor numbers
          None     \* no connection

VARIABLES sock,    \* sock[f]: the connection whose client socket is f
          listed   \* connections entered in the table

vars == <<sock, listed>>

TypeOK == /\ sock \in [Fds -> Conns \cup {None}]
          /\ listed \in SUBSET Conns

Holds(c, f) == sock[f] = c

Init == /\ sock = [f \in Fds |-> None]
        /\ listed = {}

\* accept() returns an unused number to a connection that has none
Open(c, f) == /\ sock[f] = None
              /\ c \notin listed
              /\ \A g \in Fds : ~Holds(c, g)
              /\ sock' = [sock EXCEPT ![f] = c]
              /\ UNCHANGED listed

\* setClientConnection()
List(c) == /\ c \notin listed
           /\ \E f \in Fds : Holds(c, f)
           /\ listed' = listed \cup {c}
           /\ UNCHANGED sock

\* removeClientConnection()
Unlist(c) == /\ c \in listed
             /\ listed' = listed \ {c}
             /\ UNCHANGED sock

\* close(), after the connection has left the table
Close(c, f) == /\ Holds(c, f)
               /\ c \notin listed
               /\ sock' = [sock EXCEPT ![f] = None]
               /\ UNCHANGED listed

Next == \E c \in Conns : \/ List(c)
                         \/ Unlist(c)
                         \/ \E f \in Fds : Open(c, f) \/ Close(c, f)

Spec == Init /\ [][Next]_vars
=============================================================================
