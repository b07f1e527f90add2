------------------------- MODULE EventServerProofs -------------------------
(***************************************************************************)
(* Proofs about EventServer, for every set of connections, every number of *)
(* descriptors, every length of the event array and with or without resets *)
(* by the clients.                                                         *)
(***************************************************************************)
EXTENDS EventServer, SequenceTheorems, TLAPS

-----------------------------------------------------------------------------
(* The inductive invariant *)

\* stages at which an event of a connection is being handled
Handling == {"queue", "recv", "upstream", "reply", "spin", "remove", "close"}
Closing  == {"spin", "remove", "close"}

\* the event being handled names its connection's descriptor, which only
\* recvData() can have closed before cleanup() does
CurHeld ==
  at \in Handling =>
    /\ cur.fd \in Fds /\ cur.conn \in Conns
    /\ sock[cur.fd] = cur.conn \/ (at \in Closing /\ sock[cur.fd] = None)

HeldOnce == \A f, g \in Fds : Held[f] # None /\ Held[f] = Held[g] => f = g

\* the events left in the array are of different descriptors, all still open
BatchFresh ==
  /\ at \in {"start", "wait"} => batch = {}
  /\ \A e \in batch :
       IF e.fd = ListenFd THEN e = NoEvent /\ backlog # <<>>
       ELSE /\ e.conn \in Conns /\ sock[e.fd] = e.conn
            /\ at \in Handling => e.fd # cur.fd
  /\ \A e, d \in batch : e.fd = d.fd => e = d

\* a connection that has not arrived, or waits to be accepted, has no socket
PeersKnown ==
  /\ \A c \in Conns : peer[c] = "none" =>
       /\ \A i \in DOMAIN backlog : backlog[i] # c
       /\ \A f \in Fds : Held[f] # c
  /\ \A i \in DOMAIN backlog :
       /\ \A f \in Fds : Held[f] # backlog[i]
       /\ \A j \in DOMAIN backlog : backlog[i] = backlog[j] => i = j

\* the list has the connections with a socket, but for the one that is being
\* queued or has been unlinked
ListHeld ==
  /\ \A i \in DOMAIN clients :
       /\ connFd[clients[i]] \in Fds /\ Held[connFd[clients[i]]] = clients[i]
       /\ at \in {"queue", "close"} => clients[i] # cur.conn
       /\ \A j \in DOMAIN clients : clients[i] = clients[j] => i = j
  /\ \A f \in Fds : Held[f] # None =>
       \/ at \in {"queue", "close"} /\ f = cur.fd
       \/ /\ connFd[Held[f]] = f
          /\ \E i \in DOMAIN clients : clients[i] = Held[f]

IInv == TypeOK /\ CurHeld /\ HeldOnce /\ BatchFresh /\ PeersKnown /\ ListHeld

\* the parts that relate two pieces of state
LinkInv == CurHeld /\ HeldOnce /\ BatchFresh /\ PeersKnown /\ ListHeld

-----------------------------------------------------------------------------
(* Lemmas about shapes of steps *)

\* What Held says of a descriptor.
LEMMA HeldIs ==
  /\ \A f \in Fds : Held[f] = IF at \in Closing /\ f = cur.fd THEN cur.conn ELSE sock[f]
  /\ DOMAIN Held = Fds
BY DEF Held, Closing

\* While no connection is being closed, Held is the table of sockets.
LEMMA HeldIsSock ==
  ASSUME TypeOK, at \notin Closing PROVE Held = sock
BY DEF TypeOK, Held, Closing

\* In the middle of handling an event, its connection holds its descriptor.
LEMMA HeldCur ==
  ASSUME IInv, at \in Handling
  PROVE  cur.fd \in Fds /\ cur.conn \in Conns /\ Held[cur.fd] = cur.conn
BY HeldIs DEF IInv, CurHeld

\* A step that leaves sockets, list, peers and event array alone, between
\* stages at which the connection is listed.
LEMMA MoveStep ==
  ASSUME IInv, NEW from \in Handling \ {"queue", "close"},
         NEW to \in Handling \ {"queue", "close"},
         from \in Closing => to \in Closing, Move(from, to)
  PROVE  LinkInv'
<1> USE DEF IInv, Move
<1>1. Held' = Held
  BY HeldCur DEF Held, CurHeld, Closing, Handling
<1>2. CurHeld'
  BY DEF CurHeld
<1>3. HeldOnce'
  BY <1>1 DEF HeldOnce
<1>4. BatchFresh'
  BY DEF BatchFresh, Handling
<1>5. PeersKnown'
  BY <1>1 DEF PeersKnown
<1>6. ListHeld'
  BY <1>1 DEF ListHeld
<1> QED
  BY <1>2, <1>3, <1>4, <1>5, <1>6 DEF LinkInv

\* A step that changes nothing but `up`.
LEMMA StillStep ==
  ASSUME IInv, UNCHANGED <<sock, clients, connFd, backlog, peer, batch, at, cur>>
  PROVE  LinkInv'
<1> USE DEF IInv
<1>1. Held' = Held
  BY DEF Held
<1>2. CurHeld' /\ HeldOnce' /\ BatchFresh' /\ PeersKnown'
  BY <1>1 DEF CurHeld, HeldOnce, BatchFresh, PeersKnown
<1>3. ListHeld'
  BY <1>1 DEF ListHeld
<1> QED
  BY <1>2, <1>3 DEF LinkInv

-----------------------------------------------------------------------------
(* The peers *)

\* A connection that arrives had no socket and was not in the backlog.
LEMMA ArriveStep ==
  ASSUME IInv, NEW c \in Conns, Arrive(c)
  PROVE  LinkInv'
<1> USE DEF IInv, Arrive
<1>1. Held' = Held
  BY DEF Held
<1>2. CurHeld' /\ HeldOnce'
  BY <1>1 DEF CurHeld, HeldOnce
<1>3. /\ Len(backlog) \in Nat /\ DOMAIN backlog = 1 .. Len(backlog)
      /\ DOMAIN backlog' = 1 .. Len(backlog) + 1
      /\ \A i \in 1 .. Len(backlog) : backlog'[i] = backlog[i]
      /\ backlog'[Len(backlog) + 1] = c
      /\ backlog' # <<>>
  BY DEF TypeOK
<1>4. BatchFresh'
  BY <1>3 DEF BatchFresh
<1>5. PeersKnown'
  <2>1. \A d \in Conns : peer'[d] = "none" => peer[d] = "none" /\ d # c
    BY DEF TypeOK
  <2>2. \A d \in Conns : peer'[d] = "none" => \A i \in DOMAIN backlog' : backlog'[i] # d
    BY <2>1, <1>3 DEF PeersKnown
  <2>3. \A i \in DOMAIN backlog' : \A f \in Fds : Held'[f] # backlog'[i]
    BY <1>1, <1>3 DEF PeersKnown
  <2>4. \A i, j \in DOMAIN backlog' : backlog'[i] = backlog'[j] => i = j
    BY <1>3 DEF PeersKnown
  <2> QED
    BY <2>1, <2>2, <2>3, <2>4, <1>1 DEF PeersKnown
<1>6. ListHeld'
  BY <1>1 DEF ListHeld
<1> QED
  BY <1>2, <1>4, <1>5, <1>6 DEF LinkInv

\* A peer that acts is not one that has yet to arrive.
LEMMA PeerActsStep ==
  ASSUME IInv, NEW c \in Conns, NEW from, NEW to \in PeerStates \ {"none"},
         "none" \notin from, PeerActs(c, from, to)
  PROVE  LinkInv'
<1> USE DEF IInv, PeerActs
<1>1. Held' = Held
  BY DEF Held
<1>2. CurHeld' /\ HeldOnce' /\ BatchFresh'
  BY <1>1 DEF CurHeld, HeldOnce, BatchFresh
<1>3. \A d \in Conns : peer'[d] = "none" => peer[d] = "none"
  BY DEF TypeOK
<1>4. PeersKnown'
  BY <1>1, <1>3 DEF PeersKnown
<1>5. ListHeld'
  BY <1>1 DEF ListHeld
<1> QED
  BY <1>2, <1>4, <1>5 DEF LinkInv

-----------------------------------------------------------------------------
(* The loop *)

\* epoll_wait() returns events of different descriptors, all of them open.
LEMMA EpollWaitStep ==
  ASSUME IInv, EpollWait
  PROVE  LinkInv' /\ batch' \subseteq Events
<1> USE DEF IInv, EpollWait
<1>1. Held' = Held /\ Held = sock
  BY DEF Held, TypeOK
<1>2. batch' \subseteq Ready
  OBVIOUS
<1>3. \A e \in Ready :
        \/ e = NoEvent /\ backlog # <<>>
        \/ \E f \in Fds : /\ sock[f] # None
                          /\ e = [fd |-> f, hup |-> peer[sock[f]] = "rst", conn |-> sock[f]]
  BY DEF Ready
<1>4. \A f \in Fds : f # ListenFd /\ (sock[f] # None => sock[f] \in Conns)
  BY BoundsAreNat DEF Fds, ListenFd, TypeOK
<1>5. \A e \in batch' :
        IF e.fd = ListenFd THEN e = NoEvent /\ backlog # <<>>
        ELSE e.conn \in Conns /\ sock[e.fd] = e.conn
  BY <1>2, <1>3, <1>4 DEF NoEvent
<1>6. \A e, d \in batch' : e.fd = d.fd => e = d
  <2> SUFFICES ASSUME NEW e \in batch', NEW d \in batch', e.fd = d.fd PROVE e = d
    OBVIOUS
  <2>1. NoEvent.fd = ListenFd
    BY DEF NoEvent
  <2>2. CASE e = NoEvent \/ d = NoEvent
    BY <2>1, <2>2, <1>2, <1>3, <1>4
  <2>3. CASE e # NoEvent /\ d # NoEvent
    <3>1. PICK f \in Fds : e = [fd |-> f, hup |-> peer[sock[f]] = "rst", conn |-> sock[f]]
      BY <2>3, <1>2, <1>3
    <3>2. PICK g \in Fds : d = [fd |-> g, hup |-> peer[sock[g]] = "rst", conn |-> sock[g]]
      BY <2>3, <1>2, <1>3
    <3>3. f = g
      BY <3>1, <3>2
    <3> QED
      BY <3>1, <3>2, <3>3, Zenon
  <2> QED
    BY <2>2, <2>3
<1>7. BatchFresh'
  BY <1>5, <1>6 DEF BatchFresh, Handling
<1>8. CurHeld' /\ HeldOnce' /\ PeersKnown'
  BY <1>1 DEF CurHeld, HeldOnce, PeersKnown, Handling
<1>9. ListHeld'
  BY <1>1 DEF ListHeld
<1>10. batch' \subseteq Events
  <2> SUFFICES ASSUME NEW e \in batch' PROVE e \in Events
    OBVIOUS
  <2>1. NoEvent \in Events
    BY DEF NoEvent, Events
  <2>2. ASSUME NEW f \in Fds, NEW b \in BOOLEAN, sock[f] # None
        PROVE  [fd |-> f, hup |-> b, conn |-> sock[f]] \in Events
    BY <2>2, <1>4 DEF Events
  <2>3. \A f \in Fds : (peer[sock[f]] = "rst") \in BOOLEAN
    BY Zenon
  <2> QED
    BY <2>1, <2>2, <2>3, <1>2, <1>3
<1> QED
  BY <1>7, <1>8, <1>9, <1>10 DEF LinkInv

\* The ends of the batch and of the start-up touch nothing.
LEMMA RoundStep ==
  ASSUME IInv, Start \/ BatchDone
  PROVE  LinkInv'
<1> USE DEF IInv, Start, BatchDone
<1>1. Held' = Held
  BY DEF Held
<1>2. CurHeld' /\ HeldOnce' /\ PeersKnown'
  BY <1>1 DEF CurHeld, HeldOnce, PeersKnown, Handling
<1>3. BatchFresh'
  BY DEF BatchFresh
<1>4. ListHeld'
  BY <1>1 DEF ListHeld
<1> QED
  BY <1>2, <1>3, <1>4 DEF LinkInv

\* accept() takes the oldest connection, which had no socket, off the backlog
\* and gives it a descriptor that no event of the batch names.
LEMMA AcceptStep ==
  ASSUME IInv, NEW e \in batch, AcceptConn(e)
  PROVE  LinkInv' /\ TypeOK'
<1> USE DEF IInv, AcceptConn
<1>1. backlog # <<>> /\ e = NoEvent
  BY DEF BatchFresh
<1>2. /\ Len(backlog) \in Nat \ {0} /\ DOMAIN backlog = 1 .. Len(backlog)
      /\ Head(backlog) = backlog[1] /\ backlog[1] \in Conns
      /\ backlog' \in Seq(Conns) /\ DOMAIN backlog' = 1 .. Len(backlog) - 1
      /\ \A i \in 1 .. Len(backlog) - 1 : backlog'[i] = backlog[i + 1]
  BY <1>1 DEF TypeOK
<1> DEFINE c == backlog[1]
<1>3. PICK f \in Fds :
        /\ sock[f] = None
        /\ sock' = [sock EXCEPT ![f] = c]
        /\ cur' = [fd |-> f, hup |-> FALSE, conn |-> c]
  BY <1>2 DEF LowestFree
<1>4. Held = sock /\ Held' = sock'
  BY <1>3 DEF Held, TypeOK
<1>5. \A g \in Fds : sock[g] # c
  BY <1>2, <1>4 DEF PeersKnown
<1>6. TypeOK'
  BY <1>2, <1>3 DEF TypeOK, Events, LoopStages
<1>7. CurHeld'
  BY <1>2, <1>3 DEF CurHeld, TypeOK
<1>8. HeldOnce'
  BY <1>3, <1>4, <1>5, <1>2, NoneIsNoConn DEF HeldOnce, TypeOK
<1>9. BatchFresh'
  <2>1. \A d \in batch' : d \in batch /\ d.fd # ListenFd
    BY <1>1 DEF BatchFresh
  <2>2. \A d \in batch' : d.conn \in Conns /\ sock[d.fd] = d.conn /\ d.fd \in Fds
    BY <2>1 DEF BatchFresh, TypeOK, Events
  <2>3. \A d \in batch' : d.fd # f
    BY <2>2, <1>3, NoneIsNoConn
  <2> QED
    BY <2>1, <2>2, <2>3, <1>3 DEF BatchFresh, Handling, TypeOK
<1>10. PeersKnown'
  <2>0. /\ \A g \in Fds : sock'[g] = IF g = f THEN c ELSE sock[g]
        /\ \A i \in DOMAIN backlog' : i + 1 \in DOMAIN backlog /\ backlog'[i] = backlog[i + 1]
        /\ 1 \in DOMAIN backlog
    BY <1>2, <1>3 DEF TypeOK
  <2>1. \A d \in Conns : peer'[d] = "none" =>
          (\A i \in DOMAIN backlog' : backlog'[i] # d) /\ (\A g \in Fds : sock'[g] # d)
    BY <2>0, <1>4 DEF PeersKnown
  <2>2. \A i \in DOMAIN backlog' : \A g \in Fds : sock'[g] # backlog'[i]
    <3>1. \A i \in DOMAIN backlog' : backlog'[i] # c
      BY <2>0, <1>2 DEF PeersKnown
    <3> QED
      BY <3>1, <2>0, <1>4 DEF PeersKnown
  <2>3. \A i, j \in DOMAIN backlog' : backlog'[i] = backlog'[j] => i = j
    BY <1>2 DEF PeersKnown
  <2> QED
    BY <2>1, <2>2, <2>3, <1>4 DEF PeersKnown
<1>11. ListHeld'
  <2>1. \A i \in DOMAIN clients : clients[i] # c /\ connFd[clients[i]] # f
    BY <1>3, <1>4, <1>5, <1>2, NoneIsNoConn DEF ListHeld, TypeOK
  <2>2. \A i \in DOMAIN clients : connFd[clients[i]] \in Fds /\ sock[connFd[clients[i]]] = clients[i]
    BY <1>4 DEF ListHeld
  <2>3. \A g \in Fds : g # f => sock'[g] = sock[g]
    BY <1>3 DEF TypeOK
  <2>4. \A g \in Fds : g # f /\ sock[g] # None =>
           connFd[sock[g]] = g /\ \E i \in DOMAIN clients : clients[i] = sock[g]
    BY <1>4 DEF ListHeld
  <2>5. \A i, j \in DOMAIN clients : clients[i] = clients[j] => i = j
    BY DEF ListHeld
  <2> QED
    BY <2>1, <2>2, <2>3, <2>4, <2>5, <1>3, <1>4 DEF ListHeld
<1> QED
  BY <1>6, <1>7, <1>8, <1>9, <1>10, <1>11 DEF LinkInv

\* Taking an event of a client from the array makes it the current one.
LEMMA TakeStep ==
  ASSUME IInv, NEW e \in batch, e.fd # ListenFd,
         NEW to \in {"recv", "remove"}, Take(e, to),
         UNCHANGED <<up, sock, clients, connFd, backlog, peer>>
  PROVE  LinkInv'
<1> USE DEF IInv, Take
<1>1. e.conn \in Conns /\ sock[e.fd] = e.conn /\ e.fd \in Fds
  BY DEF BatchFresh, TypeOK, Events
<1>2. Held' = Held /\ Held = sock
  BY <1>1 DEF Held, TypeOK
<1>3. CurHeld'
  BY <1>1 DEF CurHeld
<1>4. BatchFresh'
  BY DEF BatchFresh
<1>5. HeldOnce' /\ PeersKnown'
  BY <1>2 DEF HeldOnce, PeersKnown
<1>6. ListHeld'
  BY <1>2 DEF ListHeld
<1> QED
  BY <1>3, <1>4, <1>5, <1>6 DEF LinkInv

\* queueClientConnection() puts the accepted connection at the head.
LEMMA QueueStep ==
  ASSUME IInv, Queue
  PROVE  LinkInv' /\ TypeOK'
<1> USE DEF IInv, Queue
<1> DEFINE c == cur.conn
<1>1. cur.fd \in Fds /\ c \in Conns /\ sock[cur.fd] = c
  BY DEF CurHeld, Handling, Closing
<1>2. Held' = Held /\ Held = sock
  BY DEF Held, TypeOK
<1>3. \A i \in DOMAIN clients : clients[i] # c
  BY DEF ListHeld
<1>4. /\ Len(clients) \in Nat /\ DOMAIN clients = 1 .. Len(clients)
      /\ clients' \in Seq(Conns) /\ DOMAIN clients' = 1 .. Len(clients) + 1
      /\ clients'[1] = c
      /\ \A i \in DOMAIN clients : clients'[i + 1] = clients[i]
      /\ \A i \in DOMAIN clients' : i # 1 => i - 1 \in DOMAIN clients /\ clients'[i] = clients[i - 1]
  BY <1>1 DEF TypeOK
<1>5. TypeOK'
  BY <1>1, <1>4 DEF TypeOK, LoopStages
<1>6. CurHeld' /\ HeldOnce' /\ PeersKnown'
  BY <1>2 DEF CurHeld, HeldOnce, PeersKnown, Handling
<1>7. BatchFresh'
  BY DEF BatchFresh, Handling
<1>8. /\ connFd'[c] = cur.fd
      /\ \A d \in Conns : d # c => connFd'[d] = connFd[d]
  BY <1>1 DEF TypeOK
<1>9. \A i \in DOMAIN clients' :
        /\ connFd'[clients'[i]] \in Fds /\ Held'[connFd'[clients'[i]]] = clients'[i]
        /\ \A j \in DOMAIN clients' : clients'[i] = clients'[j] => i = j
  <2>1. \A i \in DOMAIN clients :
          /\ clients[i] \in Conns /\ clients[i] # c
          /\ connFd[clients[i]] \in Fds /\ sock[connFd[clients[i]]] = clients[i]
    BY <1>2, <1>3 DEF ListHeld, TypeOK
  <2>2. \A i \in DOMAIN clients' :
          connFd'[clients'[i]] \in Fds /\ sock[connFd'[clients'[i]]] = clients'[i]
    BY <2>1, <1>1, <1>4, <1>8
  <2>3. \A i, j \in DOMAIN clients' : clients'[i] = clients'[j] => i = j
    BY <1>3, <1>4 DEF ListHeld
  <2> QED
    BY <2>2, <2>3, <1>2
<1>10. \A f \in Fds : Held'[f] # None =>
         connFd'[Held'[f]] = f /\ \E i \in DOMAIN clients' : clients'[i] = Held'[f]
  <2> SUFFICES ASSUME NEW f \in Fds, sock[f] # None
               PROVE  connFd'[sock[f]] = f /\ \E i \in DOMAIN clients' : clients'[i] = sock[f]
    BY <1>2
  <2>1. CASE f = cur.fd
    <3>1. 1 \in DOMAIN clients' /\ clients'[1] = sock[f]
      BY <2>1, <1>1, <1>4
    <3> QED
      BY <3>1, <2>1, <1>1, <1>8
  <2>2. CASE f # cur.fd
    <3>1. PICK i \in DOMAIN clients : connFd[sock[f]] = f /\ clients[i] = sock[f]
      BY <2>2, <1>2 DEF ListHeld
    <3>2. sock[f] # c /\ sock[f] \in Conns
      BY <3>1, <1>3 DEF TypeOK
    <3>3. i + 1 \in DOMAIN clients' /\ clients'[i + 1] = sock[f]
      BY <3>1, <1>4
    <3> QED
      BY <3>1, <3>2, <3>3, <1>8
  <2> QED
    BY <2>1, <2>2
<1>11. ListHeld'
  BY <1>9, <1>10 DEF ListHeld
<1> QED
  BY <1>5, <1>6, <1>7, <1>11 DEF LinkInv

\* recvData() closes a socket that counts as held until cleanup() is done.
LEMMA RecvFailsStep ==
  ASSUME IInv, RecvFails
  PROVE  LinkInv' /\ Held' = Held
<1> USE DEF IInv, RecvFails, CloseFd
<1>1. cur.fd \in Fds /\ cur.conn \in Conns /\ sock[cur.fd] = cur.conn
  BY DEF CurHeld, Handling, Closing
<1>2. /\ \A f \in Fds : sock'[f] = IF f = cur.fd THEN None ELSE sock[f]
      /\ Held' = Held
  BY <1>1 DEF Held, TypeOK
<1>3. CurHeld'
  BY <1>1, <1>2 DEF CurHeld, Closing
<1>4. HeldOnce' /\ PeersKnown'
  BY <1>2 DEF HeldOnce, PeersKnown
<1>5. BatchFresh'
  BY <1>2 DEF BatchFresh, Handling, TypeOK, Events
<1>6. ListHeld'
  BY <1>2 DEF ListHeld
<1> QED
  BY <1>2, <1>3, <1>4, <1>5, <1>6 DEF LinkInv

\* Taking the k-th node off the list leaves the other nodes in order.
LEMMA WithoutIs ==
  ASSUME clients \in Seq(Conns), NEW k \in DOMAIN clients
  PROVE  /\ Len(clients) \in Nat /\ DOMAIN clients = 1 .. Len(clients)
         /\ Without(k) \in Seq(Conns)
         /\ DOMAIN Without(k) = 1 .. Len(clients) - 1
         /\ \A i \in 1 .. Len(clients) - 1 :
              Without(k)[i] = IF i < k THEN clients[i] ELSE clients[i + 1]
<1>1. /\ Len(clients) \in Nat
      /\ DOMAIN clients = 1 .. Len(clients)
      /\ \A i \in 1 .. Len(clients) : clients[i] \in Conns
  OBVIOUS
<1>2. Len(clients) - 1 \in Nat
  BY <1>1
<1>3. Without(k) \in [1 .. Len(clients) - 1 -> Conns]
  BY <1>1, <1>2 DEF Without
<1>4. Without(k) \in Seq(Conns)
  BY <1>2, <1>3, SeqDef
<1> QED
  BY <1>1, <1>3, <1>4 DEF Without

\* removeClientConnection() takes exactly the current connection off the list.
LEMMA RemoveStep ==
  ASSUME IInv, Remove
  PROVE  /\ LinkInv' /\ TypeOK'
         /\ cur.conn \in Listed /\ Listed' = Listed \ {cur.conn}
<1> USE DEF IInv, Remove
<1> DEFINE c == cur.conn
<1>1. cur.fd \in Fds /\ c \in Conns /\ Held[cur.fd] = c
  BY HeldCur DEF Handling
<1>2. Held' = Held
  BY DEF Held
<1>3. connFd[c] = cur.fd /\ \E i \in DOMAIN clients : clients[i] = c
  BY <1>1, NoneIsNoConn DEF ListHeld
<1>4. PICK k \in DOMAIN clients : /\ FirstWithFd(cur.fd, k)
                                 /\ clients' = Without(k)
                                 /\ connFd' = [connFd EXCEPT ![clients[k]] = NoFd]
  BY <1>3
<1>5. clients[k] = c
  BY <1>1, <1>4 DEF FirstWithFd, ListHeld
<1>6. /\ Len(clients) \in Nat /\ DOMAIN clients = 1 .. Len(clients)
      /\ clients' \in Seq(Conns) /\ DOMAIN clients' = 1 .. Len(clients) - 1
      /\ \A i \in 1 .. Len(clients) - 1 :
           clients'[i] = IF i < k THEN clients[i] ELSE clients[i + 1]
  BY <1>4, WithoutIs DEF TypeOK
<1>7. TypeOK'
  BY <1>4, <1>5, <1>6 DEF TypeOK, LoopStages
<1>8. \A i \in DOMAIN clients' : \E j \in DOMAIN clients : j # k /\ clients'[i] = clients[j]
  <2> SUFFICES ASSUME NEW i \in DOMAIN clients'
               PROVE  \E j \in DOMAIN clients : j # k /\ clients'[i] = clients[j]
    OBVIOUS
  <2>1. CASE i < k
    <3>1. i \in DOMAIN clients /\ clients'[i] = clients[i] /\ i # k
      BY <2>1, <1>6
    <3> QED
      BY <3>1
  <2>2. CASE ~(i < k)
    <3>1. i + 1 \in DOMAIN clients /\ clients'[i] = clients[i + 1] /\ i + 1 # k
      BY <2>2, <1>6
    <3> QED
      BY <3>1
  <2> QED
    BY <2>1, <2>2
<1>9. \A j \in DOMAIN clients : j # k => \E i \in DOMAIN clients' : clients'[i] = clients[j]
  <2> SUFFICES ASSUME NEW j \in DOMAIN clients, j # k
               PROVE  \E i \in DOMAIN clients' : clients'[i] = clients[j]
    OBVIOUS
  <2>1. CASE j < k
    <3>1. j \in DOMAIN clients' /\ clients'[j] = clients[j]
      BY <2>1, <1>6
    <3> QED
      BY <3>1
  <2>2. CASE j > k
    <3>1. j - 1 \in DOMAIN clients' /\ clients'[j - 1] = clients[j]
      BY <2>2, <1>6
    <3> QED
      BY <3>1
  <2> QED
    BY <2>1, <2>2, <1>6
<1>10. \A i, j \in DOMAIN clients' : clients'[i] = clients'[j] => i = j
  <2>1. \A i, j \in 1 .. Len(clients) : clients[i] = clients[j] => i = j
    BY <1>6 DEF ListHeld
  <2> SUFFICES ASSUME NEW i \in 1 .. Len(clients) - 1,
                      NEW j \in 1 .. Len(clients) - 1, clients'[i] = clients'[j]
               PROVE  i = j
    BY <1>6
  <2> DEFINE was(n) == IF n < k THEN n ELSE n + 1
  <2>2. was(i) \in 1 .. Len(clients) /\ was(j) \in 1 .. Len(clients)
    BY <1>6
  <2>3. clients[was(i)] = clients[was(j)]
    BY <1>6
  <2>4. was(i) = was(j)
    BY <2>1, <2>2, <2>3
  <2> QED
    BY <2>4, <1>6
<1>11. \A j \in DOMAIN clients : clients[j] = c <=> j = k
  BY <1>5 DEF ListHeld
<1>12. /\ \A i \in DOMAIN clients' : clients'[i] # c
       /\ \A d \in Conns : d # c => connFd'[d] = connFd[d]
  BY <1>4, <1>5, <1>8, <1>11 DEF TypeOK
<1>13. ListHeld'
  <2>1. \A i \in DOMAIN clients' :
          connFd'[clients'[i]] \in Fds /\ Held'[connFd'[clients'[i]]] = clients'[i]
    <3> SUFFICES ASSUME NEW i \in DOMAIN clients'
                 PROVE  connFd'[clients'[i]] \in Fds /\ Held[connFd'[clients'[i]]] = clients'[i]
      BY <1>2
    <3>1. PICK j \in DOMAIN clients : clients'[i] = clients[j]
      BY <1>8
    <3>2. clients[j] \in Conns /\ clients[j] # c
      BY <3>1, <1>12 DEF TypeOK
    <3> QED
      BY <3>1, <3>2, <1>12 DEF ListHeld
  <2>2. \A f \in Fds : Held'[f] # None /\ f # cur.fd =>
          connFd'[Held'[f]] = f /\ \E i \in DOMAIN clients' : clients'[i] = Held'[f]
    <3> SUFFICES ASSUME NEW f \in Fds, Held[f] # None, f # cur.fd
                 PROVE  connFd'[Held[f]] = f /\ \E i \in DOMAIN clients' : clients'[i] = Held[f]
      BY <1>2
    <3>1. PICK j \in DOMAIN clients : connFd[Held[f]] = f /\ clients[j] = Held[f]
      BY DEF ListHeld
    <3>2. Held[f] # c /\ j # k
      BY <3>1, <1>1, <1>3, <1>11
    <3>3. Held[f] \in Conns
      BY <3>1 DEF TypeOK
    <3> QED
      BY <3>1, <3>2, <3>3, <1>9, <1>12
  <2> QED
    BY <2>1, <2>2, <1>10, <1>12 DEF ListHeld
<1>14. CurHeld' /\ HeldOnce' /\ BatchFresh' /\ PeersKnown'
  BY <1>2 DEF CurHeld, HeldOnce, BatchFresh, PeersKnown, Handling, Closing
<1>15. c \in Listed /\ Listed' = Listed \ {c}
  BY <1>5, <1>8, <1>9, <1>11 DEF Listed
<1> QED
  BY <1>7, <1>13, <1>14, <1>15 DEF LinkInv

\* close() gives back the descriptor of a connection that is on no list.
LEMMA CloseStep ==
  ASSUME IInv, CloseConn
  PROVE  /\ LinkInv' /\ TypeOK'
         /\ Held' = [Held EXCEPT ![cur.fd] = None]
<1> USE DEF IInv, CloseConn, CloseFd
<1> DEFINE c == cur.conn
<1>1. cur.fd \in Fds /\ c \in Conns /\ Held[cur.fd] = c
  BY HeldCur DEF Handling
<1>2. TypeOK'
  BY DEF TypeOK, LoopStages, PeerStates, Events, NoEvent
<1>3. \A f \in Fds : sock'[f] = IF f = cur.fd THEN None ELSE sock[f]
  OBVIOUS
<1>4. \A f \in Fds : /\ f # cur.fd => Held[f] = sock[f]
                     /\ Held'[f] = IF f = cur.fd THEN None ELSE Held[f]
  BY <1>3 DEF Held
<1>5. Held' = [Held EXCEPT ![cur.fd] = None]
  BY <1>4 DEF Held
<1>6. CurHeld'
  BY DEF CurHeld, Handling
<1>7. HeldOnce'
  BY <1>4 DEF HeldOnce
<1>8. BatchFresh'
  BY <1>3 DEF BatchFresh, Handling, TypeOK, Events
<1>9. PeersKnown'
  <2>1. \A f \in Fds : f # cur.fd => Held[f] # c
    BY <1>1, NoneIsNoConn DEF HeldOnce
  <2>2. \A i \in DOMAIN backlog : backlog[i] # c
    BY <1>1 DEF PeersKnown
  <2>3. \A d \in Conns : peer'[d] = "none" => peer[d] = "none" \/ d = c
    BY DEF TypeOK
  <2>4. \A i \in DOMAIN backlog : backlog[i] \in Conns
    BY DEF TypeOK
  <2> QED
    BY <2>1, <2>2, <2>3, <2>4, <1>1, <1>4, NoneIsNoConn DEF PeersKnown
<1>10. ListHeld'
  <2>1. \A i \in DOMAIN clients : connFd[clients[i]] # cur.fd
    BY <1>1 DEF ListHeld
  <2> QED
    BY <2>1, <1>4 DEF ListHeld
<1> QED
  BY <1>2, <1>5, <1>6, <1>7, <1>8, <1>9, <1>10 DEF LinkInv

-----------------------------------------------------------------------------
(* The theorems *)

\* Each step of the loop and of the peers keeps the invariant.
LEMMA IInvStep == IInv /\ [Next]_vars => IInv'
<1> SUFFICES ASSUME IInv, [Next]_vars PROVE LinkInv' /\ TypeOK'
  BY DEF IInv, LinkInv
<1> USE DEF LoopStages
<1>1. ASSUME NEW c \in Conns, Arrive(c) PROVE LinkInv' /\ TypeOK'
  <2>1. backlog' \in Seq(Conns) /\ peer' \in [Conns -> PeerStates]
    BY <1>1 DEF IInv, Arrive, TypeOK, PeerStates
  <2>2. TypeOK'
    BY <1>1, <2>1 DEF IInv, Arrive, TypeOK
  <2> QED
    BY <1>1, <2>2, ArriveStep
<1>2. ASSUME NEW c \in Conns, PeerSends(c) \/ PeerCloses(c) \/ PeerResets(c)
      PROVE  LinkInv' /\ TypeOK'
  <2>1. PICK from \in SUBSET (PeerStates \ {"none"}), to \in PeerStates \ {"none"} :
          PeerActs(c, from, to)
    BY <1>2 DEF PeerSends, PeerCloses, PeerResets, PeerStates
  <2>2. TypeOK'
    BY <2>1 DEF PeerActs, IInv, TypeOK, PeerStates
  <2> QED
    BY <2>1, <2>2, PeerActsStep
<1>3. CASE Start \/ BatchDone
  BY <1>3, RoundStep DEF IInv, Start, BatchDone, TypeOK
<1>4. CASE EpollWait
  BY <1>4, EpollWaitStep DEF IInv, EpollWait, TypeOK
<1>5. CASE Queue
  BY <1>5, QueueStep
<1>6. ASSUME NEW e \in batch, AcceptConn(e) PROVE LinkInv' /\ TypeOK'
  BY <1>6, AcceptStep
<1>7. ASSUME NEW e \in batch, AcceptFails(e) PROVE LinkInv' /\ TypeOK'
  <2> USE <1>7 DEF AcceptFails, Take, IInv
  <2>1. TypeOK'
    BY DEF TypeOK
  <2>2. Held' = Held
    BY DEF Held
  <2>3. CurHeld' /\ HeldOnce' /\ BatchFresh' /\ PeersKnown'
    BY <2>2 DEF CurHeld, HeldOnce, BatchFresh, PeersKnown, Handling
  <2>4. ListHeld'
    BY <2>2 DEF ListHeld
  <2> QED
    BY <2>1, <2>3, <2>4 DEF LinkInv
<1>8. ASSUME NEW e \in batch, HandleHup(e) \/ HandleInput(e) PROVE LinkInv' /\ TypeOK'
  <2>1. TypeOK'
    BY <1>8 DEF HandleHup, HandleInput, Take, IInv, TypeOK
  <2> QED
    BY <1>8, <2>1, TakeStep DEF HandleHup, HandleInput
<1>9. CASE RecvInput \/ SpinEnds \/ UpstreamAnswers \/ UpstreamRefuses \/ Reply
  <2>1. PICK from \in Handling \ {"queue", "close"}, to \in Handling \ {"queue", "close"} :
          Move(from, to) /\ (from \in Closing => to \in Closing)
    BY <1>9 DEF RecvInput, SpinEnds, UpstreamAnswers, UpstreamRefuses, Reply, Handling, Closing
  <2>2. TypeOK'
    BY <2>1 DEF Move, IInv, TypeOK, Handling
  <2> QED
    BY <2>1, <2>2, MoveStep
<1>10. CASE RecvFails
  <2>1. TypeOK'
    BY <1>10 DEF RecvFails, CloseFd, IInv, TypeOK
  <2> QED
    BY <1>10, <2>1, RecvFailsStep
<1>11. CASE ReplyToReset \/ EpollFails
  <2>1. TypeOK'
    BY <1>11 DEF ReplyToReset, EpollFails, IInv, TypeOK
  <2> QED
    BY <1>11, <2>1, StillStep DEF ReplyToReset, EpollFails
<1>12. CASE Remove
  BY <1>12, RemoveStep
<1>13. CASE CloseConn
  BY <1>13, CloseStep
<1>14. CASE UNCHANGED vars
  <2>1. TypeOK'
    BY <1>14 DEF vars, IInv, TypeOK
  <2> QED
    BY <1>14, <2>1, StillStep DEF vars
<1> QED
  BY <1>1, <1>2, <1>3, <1>4, <1>5, <1>6, <1>7, <1>8, <1>9, <1>10, <1>11, <1>12, <1>13, <1>14
     DEF Next, PeerStep, LoopStep, Ended

\* IInv holds in every reachable state.
LEMMA IInvHolds == Spec => []IInv
<1>1. Init => IInv
  <2> SUFFICES ASSUME Init PROVE IInv
    OBVIOUS
  <2> USE DEF Init
  <2>1. TypeOK
    BY BoundsAreNat DEF TypeOK, LoopStages, PeerStates, Events, NoEvent, Fds, NoFd
  <2>2. \A f \in Fds : Held[f] = None
    BY DEF Held
  <2>3. CurHeld /\ HeldOnce /\ BatchFresh /\ ListHeld
    BY <2>2 DEF CurHeld, HeldOnce, BatchFresh, ListHeld, Handling
  <2>4. PeersKnown
    BY <2>2, NoneIsNoConn DEF PeersKnown
  <2> QED
    BY <2>1, <2>3, <2>4 DEF IInv
<1> QED
  BY <1>1, IInvStep, PTL DEF Spec

\* Every state of the loop is well typed: accept() is only called when a
\* connection waits, and the numbers that are queued are open descriptors.
THEOREM TypeCorrect == Spec => []TypeOK
<1>1. IInv => TypeOK
  BY DEF IInv
<1> QED
  BY <1>1, IInvHolds, PTL

\* However many connections are closed and accepted while a batch is worked
\* through, each of its events is still one of the connection it was ready for.
THEOREM EventsStayFresh == Spec => []NoStaleEvent
<1>1. IInv => NoStaleEvent
  BY DEF IInv, NoStaleEvent, BatchFresh, CurHeld, Handling, Closing
<1> QED
  BY <1>1, IInvHolds, PTL

\* Whenever the loop accepts or looks up, the list names the open sockets, each
\* once: also after recvData() has closed a socket that cleanup() closes again.
THEOREM ListIsSockets == Spec => []ListMatchesSockets
<1>1. IInv => ListMatchesSockets
  <2> SUFFICES ASSUME IInv, at \in {"wait", "events"}
               PROVE  /\ \A f \in Fds : sock[f] # None => connFd[sock[f]] = f /\ sock[f] \in Listed
                      /\ \A i \in DOMAIN clients :
                           /\ connFd[clients[i]] \in Fds
                           /\ sock[connFd[clients[i]]] = clients[i]
                           /\ \A j \in DOMAIN clients :
                                connFd[clients[i]] = connFd[clients[j]] => i = j
    BY DEF ListMatchesSockets
  <2>1. Held = sock
    BY HeldIsSock DEF IInv, Closing
  <2>2. \A f \in Fds : sock[f] # None => connFd[sock[f]] = f /\ sock[f] \in Listed
    BY <2>1 DEF IInv, ListHeld, Listed
  <2>3. \A i \in DOMAIN clients :
          connFd[clients[i]] \in Fds /\ sock[connFd[clients[i]]] = clients[i]
    BY <2>1 DEF IInv, ListHeld
  <2>4. \A i, j \in DOMAIN clients : connFd[clients[i]] = connFd[clients[j]] => i = j
    BY <2>3 DEF IInv, ListHeld
  <2> QED
    BY <2>2, <2>3, <2>4
<1> QED
  BY <1>1, IInvHolds, PTL

\* The loop implements the abstract table of connections, the same one that the
\* threads of the TLS server implement: accept, queueClientConnection,
\* removeClientConnection and the close in cleanup() are its operations, and
\* the early close in recvData() is none.
THEOREM TableRefinement == Spec => ImplementsConnectionTable
<1>1. Init => CT!Init
  BY DEF Init, CT!Init, Listed, Held
<1>2. IInv /\ IInv' /\ [Next]_vars => [CT!Next]_(CT!vars)
  <2> SUFFICES ASSUME IInv, IInv', [Next]_vars PROVE [CT!Next]_(CT!vars)
    OBVIOUS
  <2>1. ASSUME Held' = Held, clients' = clients PROVE UNCHANGED CT!vars
    BY <2>1 DEF CT!vars, Listed
  <2>2. ASSUME NEW e \in batch, AcceptConn(e) PROVE CT!Next
    <3>1. Held = sock /\ Held' = sock'
      BY <2>2 DEF AcceptConn, Held, IInv, TypeOK
    <3>2. backlog # <<>>
      BY <2>2 DEF AcceptConn, IInv, BatchFresh
    <3>3. Head(backlog) = backlog[1] /\ 1 \in DOMAIN backlog /\ backlog[1] \in Conns
      BY <3>2 DEF IInv, TypeOK
    <3>4. PICK f \in Fds : sock[f] = None /\ sock' = [sock EXCEPT ![f] = backlog[1]]
      BY <2>2, <3>3 DEF AcceptConn, LowestFree
    <3>5. \A g \in Fds : Held[g] # backlog[1]
      BY <3>3 DEF IInv, PeersKnown
    <3>6. Listed' = Listed
      BY <2>2 DEF AcceptConn, Listed
    <3>7. backlog[1] \notin Listed
      BY <3>5 DEF IInv, ListHeld, Listed
    <3>8. CT!Open(backlog[1], f)
      BY <3>1, <3>4, <3>5, <3>6, <3>7 DEF CT!Open, CT!Holds
    <3> QED
      BY <3>3, <3>8 DEF CT!Next
  <2>3. CASE Queue
    <3>1. Held = sock /\ Held' = sock'
      BY <2>3 DEF Queue, Held, IInv, TypeOK
    <3>2. cur.fd \in Fds /\ cur.conn \in Conns /\ Held[cur.fd] = cur.conn
      BY <2>3, HeldCur DEF Queue, Handling
    <3>3. cur.conn \notin Listed
      BY <2>3 DEF Queue, IInv, ListHeld, Listed
    <3>4. Listed' = Listed \cup {cur.conn}
      <4>1. /\ clients \in Seq(Conns) /\ clients' = <<cur.conn>> \o clients
            /\ Len(clients) \in Nat /\ DOMAIN clients = 1 .. Len(clients)
            /\ DOMAIN clients' = 1 .. Len(clients) + 1
            /\ 1 \in DOMAIN clients' /\ clients'[1] = cur.conn
            /\ \A i \in DOMAIN clients : i + 1 \in DOMAIN clients' /\ clients'[i + 1] = clients[i]
            /\ \A i \in DOMAIN clients' :
                 i # 1 => i - 1 \in DOMAIN clients /\ clients'[i] = clients[i - 1]
        BY <2>3, <3>2 DEF Queue, IInv, TypeOK
      <4>2. Listed' \subseteq Listed \cup {cur.conn}
        BY <4>1 DEF Listed
      <4>3. Listed \subseteq Listed' /\ cur.conn \in Listed'
        <5>1. \A i \in DOMAIN clients : clients[i] \in Listed'
          BY <4>1 DEF Listed
        <5> QED
          BY <4>1, <5>1 DEF Listed
      <4> QED
        BY <4>2, <4>3
    <3>5. CT!List(cur.conn)
      BY <2>3, <3>1, <3>2, <3>3, <3>4 DEF CT!List, CT!Holds, Queue
    <3> QED
      BY <3>2, <3>5 DEF CT!Next
  <2>4. CASE Remove
    <3>1. cur.conn \in Listed /\ Listed' = Listed \ {cur.conn}
      BY <2>4, RemoveStep
    <3>2. Held' = Held
      BY <2>4 DEF Remove, Held
    <3>3. cur.conn \in Conns
      BY <2>4, HeldCur DEF Remove, Handling
    <3>4. CT!Unlist(cur.conn)
      BY <3>1, <3>2 DEF CT!Unlist
    <3> QED
      BY <3>3, <3>4 DEF CT!Next
  <2>5. CASE CloseConn
    <3>1. cur.fd \in Fds /\ cur.conn \in Conns /\ Held[cur.fd] = cur.conn
      BY <2>5, HeldCur DEF CloseConn, Handling
    <3>2. Held' = [Held EXCEPT ![cur.fd] = None] /\ Listed' = Listed
      BY <2>5, CloseStep DEF CloseConn, Listed
    <3>3. cur.conn \notin Listed
      BY <2>5 DEF CloseConn, IInv, ListHeld, Listed
    <3>4. CT!Close(cur.conn, cur.fd)
      BY <3>1, <3>2, <3>3 DEF CT!Close, CT!Holds
    <3> QED
      BY <3>1, <3>4 DEF CT!Next
  <2>6. CASE RecvFails
    BY <2>6, <2>1, RecvFailsStep DEF RecvFails
  <2>7. ASSUME NEW e \in batch, HandleHup(e) \/ HandleInput(e) PROVE UNCHANGED CT!vars
    <3>1. e.fd \in Fds /\ sock[e.fd] = e.conn
      BY <2>7 DEF HandleHup, HandleInput, IInv, BatchFresh, TypeOK, Events
    <3>2. Held' = Held
      BY <2>7, <3>1 DEF HandleHup, HandleInput, Take, Held
    <3> QED
      BY <2>7, <3>2, <2>1 DEF HandleHup, HandleInput
  <2>8. ASSUME NEW from \in Handling \ {"queue", "close"}, NEW to \in Handling \ {"queue", "close"},
               Move(from, to), from \in Closing => to \in Closing
        PROVE  UNCHANGED CT!vars
    <3>1. Held' = Held
      BY <2>8, HeldCur DEF Move, Held, IInv, CurHeld, Closing, Handling
    <3> QED
      BY <2>8, <3>1, <2>1 DEF Move
  <2>9. CASE RecvInput \/ SpinEnds \/ UpstreamAnswers \/ UpstreamRefuses \/ Reply
    <3>1. \E from \in Handling \ {"queue", "close"}, to \in Handling \ {"queue", "close"} :
            Move(from, to) /\ (from \in Closing => to \in Closing)
      BY <2>9 DEF RecvInput, SpinEnds, UpstreamAnswers, UpstreamRefuses, Reply, Handling, Closing
    <3> QED
      BY <3>1, <2>8
  <2>10. ASSUME \/ \E c \in Conns : Arrive(c) \/ PeerSends(c) \/ PeerCloses(c) \/ PeerResets(c)
                \/ Start \/ EpollWait \/ BatchDone \/ ReplyToReset \/ EpollFails
                \/ \E e \in batch : AcceptFails(e)
                \/ UNCHANGED vars
         PROVE  UNCHANGED CT!vars
    <3>1. clients' = clients
      BY <2>10 DEF Arrive, PeerSends, PeerCloses, PeerResets, PeerActs, Start, EpollWait,
                   BatchDone, ReplyToReset, EpollFails, AcceptFails, Take, vars
    <3>2. sock' = sock
      BY <2>10 DEF Arrive, PeerSends, PeerCloses, PeerResets, PeerActs, Start, EpollWait,
                   BatchDone, ReplyToReset, EpollFails, AcceptFails, Take, vars
    <3>3. (at' = at /\ cur' = cur) \/ (at \notin Closing /\ at' \notin Closing)
      BY <2>10 DEF Arrive, PeerSends, PeerCloses, PeerResets, PeerActs, Start, EpollWait,
                   BatchDone, ReplyToReset, EpollFails, AcceptFails, Take, vars, Closing
    <3>4. Held' = Held
      BY <3>2, <3>3 DEF Held, Closing
    <3> QED
      BY <3>1, <3>4, <2>1
  <2> QED
    BY <2>2, <2>3, <2>4, <2>5, <2>6, <2>7, <2>9, <2>10
       DEF Next, PeerStep, LoopStep, Ended
<1> QED
  BY <1>1, <1>2, IInvHolds, PTL DEF Spec, CT!Spec, ImplementsConnectionTable
=============================================================================
