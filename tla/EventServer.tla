---------------------------- MODULE EventServer ----------------------------
(***************************************************************************)
(* The plain-HTTP server: the epoll loop of server.c, one process without  *)
(* threads, with the connection list of serverState.c and the receiving    *)
(* and closing of socket.c.                                                *)
(*                                                                         *)
(* The loop takes a batch of ready descriptors, works through it, and      *)
(* blocks in recv, send and connect, because only the listening socket is  *)
(* made non-blocking.  The peers go on sending, closing and resetting at   *)
(* any moment, also between the wait and the handling of its events.       *)
(*                                                                         *)
(* A connection is an element of Conns, used again once it is closed.  The *)
(* descriptors a handler opens and closes within one request are left out: *)
(* nothing else runs in between (TlsServer follows them).                  *)
(***************************************************************************)
EXTENDS Integers, Sequences, FiniteSets

CONSTANTS Conns,      \* connections the model follows at one time
          MaxFd,      \* descriptors the process may have for connections
          MaxEvents,  \* worker_connections: the length of the event array
          None,       \* no connection
          Cases       \* what the environment brings about

CaseKinds == {"peerReset"}  \* a client resets its connection

ASSUME NoneIsNoConn == None \notin Conns
ASSUME BoundsAreNat == MaxFd \in Nat /\ MaxEvents \in Nat \ {0}
ASSUME CasesAreKinds == Cases \subseteq CaseKinds

Fds  == 1..MaxFd
NoFd == 0
ListenFd == MaxFd + 1   \* sockFd, which is never given out again

VARIABLES
  up,       \* the process has not exited
  sock,     \* sock[f]: the connection whose socket is f
  clients,  \* the linked list `clients`, head first
  connFd,   \* connFd[c]: the field c->fd
  backlog,  \* the kernel's queue of connections to accept, oldest first
  peer,     \* what the peer of c has done
  batch,    \* events of the current epoll_wait not handled yet
  at,       \* where the loop is
  cur       \* the event being handled

vars == <<up, sock, clients, connFd, backlog, peer, batch, at, cur>>

PeerStates == {"none", "idle", "data", "fin", "rst"}
LoopStages == {"start", "wait", "events", "queue", "recv", "upstream", "reply",
               "spin", "remove", "close"}

\* An event: its descriptor, and whether EPOLLERR or EPOLLHUP is set; conn
\* remembers the owner at the time of the wait
Events == [fd : Fds \cup {ListenFd}, hup : BOOLEAN, conn : Conns \cup {None}]
NoEvent == [fd |-> ListenFd, hup |-> FALSE, conn |-> None]

Listed == {clients[k] : k \in DOMAIN clients}

TypeOK ==
  /\ up \in BOOLEAN
  /\ sock \in [Fds -> Conns \cup {None}]
  /\ clients \in Seq(Conns)
  /\ connFd \in [Conns -> Fds \cup {NoFd}]
  /\ backlog \in Seq(Conns)
  /\ peer \in [Conns -> PeerStates]
  /\ batch \in SUBSET Events
  /\ at \in LoopStages
  /\ cur \in Events

LowestFree(f) == sock[f] = None /\ \A g \in Fds : g < f => sock[g] # None

FirstWithFd(f, k) ==
  /\ k \in DOMAIN clients
  /\ connFd[clients[k]] = f
  /\ \A j \in DOMAIN clients : j < k => connFd[clients[j]] # f

Without(k) == [i \in 1 .. Len(clients) - 1 |->
                 IF i < k THEN clients[i] ELSE clients[i + 1]]

CloseFd(f) == sock' = [g \in Fds |-> IF g = f THEN None ELSE sock[g]]

Init ==
  /\ up = TRUE
  /\ sock = [f \in Fds |-> None]
  /\ clients = <<>>
  /\ connFd = [c \in Conns |-> NoFd]
  /\ backlog = <<>>
  /\ peer = [c \in Conns |-> "none"]
  /\ batch = {}
  /\ at = "start"
  /\ cur = NoEvent

-----------------------------------------------------------------------------
(* The peers *)

Arrive(c) == /\ peer[c] = "none" /\ at # "start"
             /\ peer' = [peer EXCEPT ![c] = "idle"]
             /\ backlog' = Append(backlog, c)
             /\ UNCHANGED <<up, sock, clients, connFd, batch, at, cur>>

PeerActs(c, from, to) == /\ peer[c] \in from
                         /\ peer' = [peer EXCEPT ![c] = to]
                         /\ UNCHANGED <<up, sock, clients, connFd, backlog, batch, at, cur>>

PeerSends(c)  == PeerActs(c, {"idle"}, "data")
PeerCloses(c) == PeerActs(c, {"idle"}, "fin")
PeerResets(c) == "peerReset" \in Cases /\ PeerActs(c, {"idle", "data", "fin"}, "rst")

-----------------------------------------------------------------------------
(* The loop *)

\* epollCreate(), createBindAndListen() and EPOLL_CTL_ADD of the listening socket
Start ==
  /\ at = "start" /\ at' = "wait"
  /\ UNCHANGED <<up, sock, clients, connFd, backlog, peer, batch, cur>>

\* a failure on the way ends the process; that of listen() when the socket it
\* has closed is added to the epoll set.  Later, a failure of epoll_wait() or
\* epoll_ctl() closes the listening socket and ends it, too
EpollFails ==
  /\ at \in {"start", "wait", "queue"}
  /\ up' = FALSE
  /\ UNCHANGED <<sock, clients, connFd, backlog, peer, batch, at, cur>>

Ready == {[fd |-> f, hup |-> peer[sock[f]] = "rst", conn |-> sock[f]] :
            f \in {g \in Fds : sock[g] # None /\ peer[sock[g]] \in {"data", "fin", "rst"}}}
         \cup (IF backlog = <<>> THEN {} ELSE {NoEvent})

\* epoll_wait() returns as many ready descriptors as the array has room for
EpollWait ==
  /\ at = "wait"
  /\ Ready # {}
  /\ \E S \in SUBSET Ready :
       /\ Cardinality(S) = IF Cardinality(Ready) < MaxEvents
                           THEN Cardinality(Ready) ELSE MaxEvents
       /\ batch' = S
  /\ at' = "events"
  /\ UNCHANGED <<up, sock, clients, connFd, backlog, peer, cur>>

\* the for loop over the returned events is done
BatchDone ==
  /\ at = "events" /\ batch = {}
  /\ at' = "wait"
  /\ UNCHANGED <<up, sock, clients, connFd, backlog, peer, batch, cur>>

Take(e, to) == /\ at = "events" /\ e \in batch
               /\ batch' = batch \ {e}
               /\ cur' = e
               /\ at' = to

\* accept() of a new connection
AcceptConn(e) ==
  /\ at = "events" /\ e \in batch /\ e.fd = ListenFd
  /\ batch' = batch \ {e}
  /\ \E f \in Fds :
       /\ LowestFree(f)
       /\ sock' = [sock EXCEPT ![f] = Head(backlog)]
       /\ cur' = [fd |-> f, hup |-> FALSE, conn |-> Head(backlog)]
  /\ backlog' = Tail(backlog)
  /\ at' = "queue"
  /\ UNCHANGED <<up, clients, connFd, peer>>

\* queueClientConnection() and EPOLL_CTL_ADD
Queue ==
  /\ at = "queue"
  /\ connFd' = [connFd EXCEPT ![cur.conn] = cur.fd]
  /\ clients' = <<cur.conn>> \o clients
  /\ at' = "events"
  /\ UNCHANGED <<up, sock, backlog, peer, batch, cur>>

\* mutant of AcceptFails: the result of accept() is used unchecked
AcceptErrorUsed(e) ==
  /\ at = "events" /\ e \in batch /\ e.fd = ListenFd
  /\ batch' = batch \ {e}
  /\ \A f \in Fds : sock[f] # None
  /\ cur' = [fd |-> -1, hup |-> FALSE, conn |-> Head(backlog)]
  /\ at' = "queue"
  /\ UNCHANGED <<up, sock, clients, connFd, backlog, peer>>

\* accept() fails for want of a descriptor: the server function returns
AcceptFails(e) ==
  /\ e.fd = ListenFd
  /\ Take(e, "events")
  /\ \A f \in Fds : sock[f] # None
  /\ up' = FALSE
  /\ UNCHANGED <<sock, clients, connFd, backlog, peer>>

HandleHup(e) == /\ e.fd # ListenFd /\ e.hup
                /\ Take(e, "remove")
                /\ UNCHANGED <<up, sock, clients, connFd, backlog, peer>>

HandleInput(e) == /\ e.fd # ListenFd /\ ~e.hup
                  /\ Take(e, "recv")
                  /\ UNCHANGED <<up, sock, clients, connFd, backlog, peer>>

Move(from, to) == /\ at = from /\ at' = to
                  /\ UNCHANGED <<up, sock, clients, connFd, backlog, peer, batch, cur>>

\* recvData() in processInput(): data, or nothing at the end of the stream
RecvInput == /\ at = "recv"
             /\ peer[cur.conn] \in {"data", "fin"}
             /\ \/ Move("recv", "reply")
                \/ peer[cur.conn] = "data" /\ Move("recv", "upstream")

\* the peer has reset since the wait: recvData() closes the socket, and the
\* error response is then sent to a closed descriptor
RecvFails == /\ at = "recv" /\ peer[cur.conn] = "rst"
             /\ CloseFd(cur.fd)
             /\ at' = "spin"
             /\ UNCHANGED <<up, clients, connFd, backlog, peer, batch, cur>>

\* sendData() takes each failure for progress; its counter wraps in the end
SpinEnds == Move("spin", "remove")

\* connect() and recv() block until the upstream has acted
UpstreamAnswers == Move("upstream", "reply")

\* handleProxyPass() returns without a response
UpstreamRefuses == Move("upstream", "remove")

Reply == at = "reply" /\ peer[cur.conn] # "rst" /\ Move("reply", "remove")

\* writing to a connection that was reset raises SIGPIPE, which nobody catches
ReplyToReset == /\ at = "reply" /\ peer[cur.conn] = "rst"
                /\ up' = FALSE
                /\ UNCHANGED <<sock, clients, connFd, backlog, peer, batch, at, cur>>

(* cleanup(fd) *)

\* mutant of Remove: the structure found is not unlinked
RemoveKeeps == /\ at = "remove"
               /\ at' = "close"
               /\ UNCHANGED <<up, sock, clients, connFd, backlog, peer, batch, cur>>

\* the structure is unlinked and freed
Remove == /\ at = "remove"
          /\ \/ \E k \in DOMAIN clients : /\ FirstWithFd(cur.fd, k)
                                          /\ clients' = Without(k)
                                          /\ connFd' = [connFd EXCEPT ![clients[k]] = NoFd]
             \/ /\ \A k \in DOMAIN clients : connFd[clients[k]] # cur.fd
                /\ UNCHANGED <<clients, connFd>>
          /\ at' = "close"
          /\ UNCHANGED <<up, sock, backlog, peer, batch, cur>>

\* mutant of CloseConn: every descriptor from this one up is closed
CloseFrom == /\ at = "close"
             /\ sock' = [g \in Fds |-> IF g >= cur.fd THEN None ELSE sock[g]]
             /\ at' = "events"
             /\ peer' = [peer EXCEPT ![cur.conn] = "none"]
             /\ cur' = NoEvent
             /\ UNCHANGED <<up, clients, connFd, backlog, batch>>

\* mutant of CloseConn: the socket is left open
CloseForgotten == /\ at = "close"
                  /\ at' = "events"
                  /\ cur' = NoEvent
                  /\ UNCHANGED <<up, sock, peer, clients, connFd, backlog, batch>>

CloseConn == /\ at = "close"
             /\ CloseFd(cur.fd)
             /\ at' = "events"
             /\ peer' = [peer EXCEPT ![cur.conn] = "none"]
             /\ cur' = NoEvent
             /\ UNCHANGED <<up, clients, connFd, backlog, batch>>

-----------------------------------------------------------------------------
PeerStep == \E c \in Conns :
              Arrive(c) \/ PeerSends(c) \/ PeerCloses(c) \/ PeerResets(c)

LoopStep == \/ Start \/ EpollWait \/ BatchDone \/ Queue
            \/ \E e \in batch : \/ AcceptConn(e) \/ AcceptFails(e)
                                \/ HandleHup(e) \/ HandleInput(e)
            \/ RecvInput \/ RecvFails \/ SpinEnds
            \/ UpstreamAnswers \/ Reply \/ ReplyToReset
            \/ Remove \/ CloseConn

\* the process has ended
Ended == ~up /\ UNCHANGED vars

Next == \/ up /\ (PeerStep \/ LoopStep \/ UpstreamRefuses \/ EpollFails)
        \/ Ended

Spec == Init /\ [][Next]_vars

(***************************************************************************)
(* The loop runs on.  The code sets no timeout, so that UpstreamAnswers is *)
(* among the steps it is sure to take assumes that every upstream answers  *)
(* or closes in the end.  That SpinEnds is among them is a result about    *)
(* sendData: its loop over a closed descriptor ends (SocketIO,             *)
(* RequestEnds).  Nothing makes a peer send or an upstream refuse.  When   *)
(* more descriptors are ready than the array has room for, epoll_wait()    *)
(* goes round them in turn, so none is passed over for ever.               *)
(***************************************************************************)
Returned(f) == EpollWait /\ \E e \in batch' : e.fd = f

FairSpec == /\ Spec
            /\ WF_vars(up /\ LoopStep)
            /\ \A f \in Fds \cup {ListenFd} : SF_vars(up /\ Returned(f))

-----------------------------------------------------------------------------
(* Properties *)

\* Handling one event of a batch never invalidates another: an event waiting
\* in the array names a descriptor that still is the socket of the connection
\* it was ready for, however many connections were closed and accepted since
\* (the loop of server.c:70-156 never looks back at the array).
NoStaleEvent ==
  \A e \in batch \cup (IF at \in {"recv", "upstream", "reply"} THEN {cur} ELSE {}) :
    e.fd # ListenFd => sock[e.fd] = e.conn

\* Whenever the loop can accept or look up a connection, the list names
\* exactly the open sockets and no two nodes share one: also after recvData()
\* has closed a descriptor that cleanup() closes a second time.
ListMatchesSockets ==
  at \in {"wait", "events"} =>
    /\ \A f \in Fds : sock[f] # None => connFd[sock[f]] = f /\ sock[f] \in Listed
    /\ \A i \in DOMAIN clients :
         /\ connFd[clients[i]] \in Fds /\ sock[connFd[clients[i]]] = clients[i]
         /\ \A j \in DOMAIN clients : connFd[clients[i]] = connFd[clients[j]] => i = j

\* The descriptor that cleanup() is on its way to close counts as the
\* connection's until then, even if recvData() has closed it already
Held == [f \in Fds |-> IF at \in {"spin", "remove", "close"} /\ f = cur.fd
                       THEN cur.conn ELSE sock[f]]

CT == INSTANCE ConnectionTable WITH sock <- Held, listed <- Listed

\* The list and the sockets behave as the table of connections promises: that
\* recvData() closes a socket early can be seen by nobody, because no
\* descriptor is given out before cleanup() has closed it again.
ImplementsConnectionTable == CT!Spec

\* A client that has sent a request, or has closed or reset its connection,
\* is dealt with and its connection closed, unless the process ends: also
\* behind clients whose reset sends the loop through the whole range of an int.
RequestsAnswered ==
  \A c \in Conns : peer[c] \in {"data", "fin", "rst"} ~> (peer[c] = "none" \/ ~up)
=============================================================================
