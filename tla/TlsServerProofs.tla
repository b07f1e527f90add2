-------------------------- MODULE TlsServerProofs --------------------------
(***************************************************************************)
(* Proofs about TlsServer, for every set of connections, every number of   *)
(* descriptors and every choice of Cases the theorems allow.               *)
(***************************************************************************)
EXTENDS TlsServer, FiniteSetTheorems, SequenceTheorems, TLAPS

-----------------------------------------------------------------------------
(* Type correctness *)

\* Taking the k-th node off the list leaves a list.
LEMMA WithoutType ==
  ASSUME clients \in Seq(Conns), NEW k \in DOMAIN clients
  PROVE  /\ Without(k) \in Seq(Conns)
         /\ DOMAIN Without(k) = 1 .. Len(clients) - 1
         /\ \A i \in 1 .. Len(clients) - 1 :
              Without(k)[i] = IF i < k THEN clients[i] ELSE clients[i + 1]
<1>1. /\ Len(clients) \in Nat
      /\ DOMAIN clients = 1 .. Len(clients)
      /\ \A i \in 1 .. Len(clients) : clients[i] \in Conns
  OBVIOUS
<1>2. Len(clients) - 1 \in Nat
  BY <1>1
<1>3. Without(k) \in [1 .. Len(clients) - 1 -> Conns]
  BY <1>1, <1>2 DEF Without
<1>4. Without(k) \in Seq(Conns)
  BY <1>2, <1>3, SeqDef
<1> QED
  BY <1>3, <1>4 DEF Without

\* Each step of the server keeps the state well typed.
LEMMA TypeStep == TypeOK /\ [Next]_vars => TypeOK'
<1> USE DEF Fds, NoFd
<1> SUFFICES ASSUME TypeOK, [Next]_vars PROVE TypeOK'
  OBVIOUS
<1> USE DEF TypeOK, Goto, Running, Waiting
<1>1. ASSUME NEW c \in Conns, NEW f \in Fds, Accept(c, f) PROVE TypeOK'
  BY <1>1 DEF Accept
<1>2. CASE AcceptFails
  BY <1>2 DEF AcceptFails, Die, shared
<1>3. ASSUME NEW c \in Conns, Queue(c) PROVE TypeOK'
  BY <1>3 DEF Queue
<1>4. ASSUME NEW c \in Conns, Spawn(c) \/ SpawnFails(c) PROVE TypeOK'
  BY <1>4 DEF Spawn, SpawnFails, shared
<1>5. ASSUME NEW c \in Conns, ThreadStep(c) PROVE TypeOK'
  <2>1. CASE Start(c)
    BY <2>1 DEF Start
  <2>2. CASE SslNew(c)
    BY <2>2 DEF SslNew
  <2>3. CASE Respond(c) \/ NoUpstreamFd(c) \/ Forward(c)
    BY <2>3 DEF Respond, NoUpstreamFd, Forward, shared
  <2>4. CASE CloseFile(c)
    BY <2>4 DEF CloseFile, CloseFd
  <2>5. CASE ClientMissing(c)
    BY <2>5 DEF ClientMissing, Die, shared
  <2>6. CASE CloseUpstream(c)
    BY <2>6 DEF CloseUpstream, CloseFd
  <2>7. CASE Remove(c)
    <3>1. PICK f \in FdReads(c) :
            /\ fd' = [fd EXCEPT ![c] = f]
            /\ \/ \E k \in DOMAIN clients :
                    /\ FirstWithFd(f, k)
                    /\ victim' = [victim EXCEPT ![c] = clients[k]]
                    /\ clients' = Without(k)
               \/ /\ NoneWithFd(f)
                  /\ victim' = [victim EXCEPT ![c] = None]
                  /\ UNCHANGED clients
      BY <2>7 DEF Remove
    <3>2. f \in Fds \cup {NoFd}
      BY DEF FdReads
    <3>3. clients' \in Seq(Conns) /\ victim' \in [Conns -> Conns \cup {None}]
      <4>1. CASE \E k \in DOMAIN clients :
                   /\ victim' = [victim EXCEPT ![c] = clients[k]]
                   /\ clients' = Without(k)
        <5>1. PICK k \in DOMAIN clients :
                   /\ victim' = [victim EXCEPT ![c] = clients[k]]
                   /\ clients' = Without(k)
          BY <4>1
        <5>2. clients[k] \in Conns
          OBVIOUS
        <5> QED
          BY <5>1, <5>2, WithoutType
      <4> QED
        BY <3>1, <4>1
    <3> QED
      BY <2>7, <3>1, <3>2, <3>3 DEF Remove
  <2>8. CASE FreeConn(c)
    BY <2>8 DEF FreeConn
  <2>9. CASE CloseConn(c)
    BY <2>9 DEF CloseConn, CloseFd
  <2>10. CASE Exit(c)
    BY <2>10 DEF Exit
  <2>11. ASSUME NEW f \in Fds, OpenFile(c, f) PROVE TypeOK'
    BY <2>11 DEF OpenFile, Opens
  <2>12. ASSUME NEW f \in Fds, OpenIndexThenProxy(c, f) PROVE TypeOK'
    BY <2>12 DEF OpenIndexThenProxy, Opens
  <2>13. ASSUME NEW f \in Fds, OpenUpstream(c, f) PROVE TypeOK'
    BY <2>13 DEF OpenUpstream, Opens
  <2> QED
    BY <1>5, <2>1, <2>2, <2>3, <2>4, <2>5, <2>6, <2>7, <2>8, <2>9, <2>10, <2>11,
       <2>12, <2>13 DEF ThreadStep
<1>6. ASSUME NEW c \in Conns, PeerStep(c) PROVE TypeOK'
  <2>1. CASE Handshake(c)
    BY <2>1 DEF Handshake, FdReads, shared
  <2>2. CASE HandshakeFails(c) \/ Connect(c) \/ RecvDone(c)
    BY <2>2 DEF HandshakeFails, Connect, RecvDone, shared
  <2>3. CASE ConnectFails(c) \/ RecvFails(c)
    BY <2>3 DEF ConnectFails, RecvFails, CloseFd
  <2> QED
    BY <1>6, <2>1, <2>2, <2>3 DEF PeerStep
<1>7. ASSUME NEW c \in Conns, Crash(c) PROVE TypeOK'
  BY <1>7 DEF Crash, PeerGone, WildRead, Die, shared
<1>8. CASE UNCHANGED vars
  BY <1>8 DEF vars, shared
<1> QED
  BY <1>1, <1>2, <1>3, <1>4, <1>5, <1>6, <1>7, <1>8
     DEF Next, Arrival, MainStep, Quiet

\* Every state of the server is well typed: in particular the list stays a
\* list through removals, and the descriptors that cleanup() and the handlers
\* pass to close() are numbers the process can have.
THEOREM TypeCorrect == Spec => []TypeOK
<1>1. Init => TypeOK
  BY ConnsFinite, NoneIsNoConn, MaxFdIsNat
     DEF Init, TypeOK, Running, Waiting, Fds, NoFd
<1> QED
  BY <1>1, TypeStep, PTL DEF Spec

-----------------------------------------------------------------------------
(* Descriptors, structures and list *)

\* The environments in which the descriptor properties hold.
Benign == "upstreamReset" \notin Cases /\ "tryProxyIndex" \notin Cases

\* The parts of the inductive invariant that tie the pieces of state together.
LinkInv == SocksHeld /\ OpenedUsed /\ StructsHeld /\ ListServing

\* A step that only moves a thread between stages that hold the same things.
LEMMA MoveOnly ==
  ASSUME IInv, TypeOK', NEW c \in Conns, NEW to \in Serving,
         pc[c] \in Serving, pc[c] \in UsingFd <=> to \in UsingFd,
         pc' = [pc EXCEPT ![c] = to],
         UNCHANGED <<sock, opened, clients, heap, connFd, fd, resFd, victim>>
  PROVE  LinkInv'
<1> USE DEF IInv, TypeOK
<1>1. SocksHeld'
  BY DEF SocksHeld, HoldingSock
<1>2. OpenedUsed'
  BY DEF OpenedUsed
<1>3. StructsHeld'
  BY DEF StructsHeld, Serving
<1>4. ListServing'
  BY DEF ListServing, Serving
<1> QED
  BY <1>1, <1>2, <1>3, <1>4 DEF LinkInv

\* A step that closes the descriptor the handler of c has open.
LEMMA CloseOpened ==
  ASSUME IInv, TypeOK', NEW c \in Conns, pc[c] \in UsingFd,
         pc' = [pc EXCEPT ![c] = "cleanup"], CloseFd(resFd[c]),
         UNCHANGED <<clients, heap, connFd, fd, resFd, victim>>
  PROVE  LinkInv'
<1> USE DEF IInv, TypeOK
<1>1. resFd[c] \in Fds /\ opened[resFd[c]] = c /\ sock[resFd[c]] = None
  BY NoneIsNoConn DEF OpenedUsed
<1>2. sock' = sock
  BY <1>1 DEF CloseFd
<1>3. opened' = [opened EXCEPT ![resFd[c]] = None]
  BY DEF CloseFd
<1>4. pc[c] \in Serving
  BY DEF UsingFd, Serving
<1>5. SocksHeld'
  BY <1>2, <1>4 DEF SocksHeld, HoldingSock, Serving
<1>6. OpenedUsed'
  BY <1>1, <1>2, <1>3, NoneIsNoConn DEF OpenedUsed, UsingFd
<1>7. StructsHeld'
  BY <1>4 DEF StructsHeld, Serving
<1>8. ListServing'
  BY <1>4 DEF ListServing, Serving
<1> QED
  BY <1>5, <1>6, <1>7, <1>8 DEF LinkInv

\* A step that opens a descriptor for the handler of c.
LEMMA OpenNew ==
  ASSUME IInv, TypeOK', NEW c \in Conns, NEW f \in Fds, NEW to \in UsingFd,
         pc[c] \in {"input", "proxy"}, pc' = [pc EXCEPT ![c] = to], Free(f),
         opened' = [opened EXCEPT ![f] = c], resFd' = [resFd EXCEPT ![c] = f],
         UNCHANGED <<sock, clients, heap, connFd, fd, victim>>
  PROVE  LinkInv'
<1> USE DEF IInv, TypeOK
<1>1. pc[c] \in Serving /\ pc[c] \notin UsingFd /\ to \in Serving
  BY DEF UsingFd, Serving
<1>2. SocksHeld'
  BY <1>1 DEF SocksHeld, HoldingSock
<1>3. OpenedUsed'
  BY <1>1, NoneIsNoConn DEF OpenedUsed, Free
<1>4. StructsHeld'
  BY <1>1 DEF StructsHeld, Serving
<1>5. ListServing'
  BY <1>1 DEF ListServing
<1> QED
  BY <1>2, <1>3, <1>4, <1>5 DEF LinkInv

\* In cleanup() a thread finds its own structure, and no other has its number.
LEMMA OwnEntry ==
  ASSUME IInv, NEW c \in Conns, pc[c] \in Serving,
         NEW k \in DOMAIN clients
  PROVE  connFd[clients[k]] = fd[c] <=> clients[k] = c
<1> USE DEF IInv, TypeOK
<1>1. clients[k] \in Conns /\ pc[clients[k]] \in Serving
  BY DEF ListServing
<1>2. connFd[clients[k]] = fd[clients[k]] /\ connFd[c] = fd[c]
  BY <1>1 DEF StructsHeld
<1>3. sock[fd[clients[k]]] = clients[k] /\ sock[fd[c]] = c
  BY <1>1 DEF SocksHeld, HoldingSock
<1> QED
  BY <1>2, <1>3

\* A connection that is not there holds no descriptor.
LEMMA Unheld ==
  ASSUME IInv, NEW c \in Conns, pc[c] = "none"
  PROVE  \A g \in Fds : sock[g] # c /\ opened[g] # c
BY NoneIsNoConn
   DEF IInv, SocksHeld, OpenedUsed, HoldingSock, Serving, UsingFd

\* accept() gives a new connection a descriptor nobody holds.
LEMMA AcceptStep ==
  ASSUME IInv, TypeOK', NEW c \in Conns, NEW f \in Fds, Accept(c, f)
  PROVE  LinkInv'
<1> USE DEF IInv, TypeOK, Accept, Goto
<1>1. pc[c] = "none" /\ Free(f) /\ c \notin heap
  BY DEF LowestFree
<1>2. \A g \in Fds : sock[g] # c /\ opened[g] # c
  BY <1>1, Unheld
<1>3. SocksHeld'
  BY <1>1, <1>2, NoneIsNoConn DEF SocksHeld, HoldingSock, Free, Serving
<1>4. OpenedUsed'
  BY <1>1, <1>2, NoneIsNoConn DEF OpenedUsed, UsingFd, Free
<1>5. StructsHeld'
  BY <1>1 DEF StructsHeld, Serving
<1>6. ListServing'
  BY <1>1 DEF ListServing, Serving
<1> QED
  BY <1>3, <1>4, <1>5, <1>6 DEF LinkInv

\* queueClientConnection puts a structure that was on no list at the head.
LEMMA QueueStep ==
  ASSUME IInv, TypeOK', NEW c \in Conns, Queue(c)
  PROVE  LinkInv'
<1> USE DEF IInv, TypeOK, Queue, Goto
<1>1. pc[c] = "accepted" /\ c \notin heap
  BY DEF StructsHeld, Serving
<1>2. SocksHeld'
  BY <1>1 DEF SocksHeld, HoldingSock, Serving
<1>3. OpenedUsed'
  BY <1>1 DEF OpenedUsed, UsingFd
<1>4. StructsHeld'
  BY <1>1 DEF StructsHeld, Serving
<1>5. /\ clients' = <<c>> \o clients
      /\ DOMAIN clients = 1 .. Len(clients)
      /\ Len(clients) \in Nat
      /\ DOMAIN clients' = 1 .. Len(clients) + 1
      /\ clients'[1] = c
      /\ \A i \in DOMAIN clients : clients'[i + 1] = clients[i]
      /\ \A i \in DOMAIN clients' : i # 1 => i - 1 \in DOMAIN clients /\ clients'[i] = clients[i - 1]
  OBVIOUS
<1>6. \A i \in DOMAIN clients : clients[i] # c
  BY <1>1 DEF ListServing, Serving
<1>7. ListServing'
  <2>1. \A i \in DOMAIN clients' : pc'[clients'[i]] \in Serving
    BY <1>1, <1>5, <1>6 DEF ListServing, Serving
  <2>2. \A d \in Conns : pc'[d] \in Serving => \E i \in DOMAIN clients' : clients'[i] = d
    <3> SUFFICES ASSUME NEW d \in Conns, pc'[d] \in Serving
                 PROVE  \E i \in DOMAIN clients' : clients'[i] = d
      OBVIOUS
    <3>1. CASE d = c
      <4>1. 1 \in DOMAIN clients' /\ clients'[1] = d
        BY <3>1, <1>5
      <4> QED
        BY <4>1
    <3>2. CASE d # c
      <4>1. PICK i \in DOMAIN clients : clients[i] = d
        BY <3>2 DEF ListServing
      <4>2. i + 1 \in DOMAIN clients' /\ clients'[i + 1] = d
        BY <4>1, <1>5
      <4> QED
        BY <4>2
    <3> QED
      BY <3>1, <3>2
  <2>3. \A i, j \in DOMAIN clients' : clients'[i] = clients'[j] => i = j
    BY <1>5, <1>6 DEF ListServing
  <2> QED
    BY <2>1, <2>2, <2>3 DEF ListServing
<1> QED
  BY <1>2, <1>3, <1>4, <1>7 DEF LinkInv

\* removeClientConnection takes exactly the calling thread's structure off.
LEMMA RemoveStep ==
  ASSUME IInv, TypeOK', NEW c \in Conns, Remove(c)
  PROVE  LinkInv'
<1> USE DEF IInv, TypeOK, Goto
<1>1. pc[c] = "cleanup" /\ pc[c] \in Serving /\ c \in heap
  BY DEF Remove, StructsHeld, Serving
<1>2. FdReads(c) = {fd[c]}
  BY <1>1 DEF FdReads, StructsHeld
<1>3. ~NoneWithFd(fd[c])
  BY <1>1, OwnEntry DEF NoneWithFd, ListServing
<1>4. PICK k \in DOMAIN clients : /\ FirstWithFd(fd[c], k)
                                 /\ victim' = [victim EXCEPT ![c] = clients[k]]
                                 /\ clients' = Without(k)
  BY <1>2, <1>3 DEF Remove
<1>5. clients[k] = c
  BY <1>1, <1>4, OwnEntry DEF FirstWithFd
<1>6. /\ pc' = [pc EXCEPT ![c] = "free"]
      /\ victim' = [victim EXCEPT ![c] = c]
      /\ fd' = fd
      /\ UNCHANGED <<sock, opened, heap, connFd, resFd>>
  BY <1>2, <1>4, <1>5 DEF Remove
<1>7. SocksHeld'
  BY <1>1, <1>6 DEF SocksHeld, HoldingSock, Serving
<1>8. OpenedUsed'
  BY <1>1, <1>6 DEF OpenedUsed, UsingFd
<1>9. StructsHeld'
  BY <1>1, <1>6 DEF StructsHeld, Serving
<1>10. /\ Len(clients) \in Nat /\ DOMAIN clients = 1 .. Len(clients)
       /\ DOMAIN clients' = 1 .. Len(clients) - 1
       /\ \A i \in 1 .. Len(clients) - 1 :
            clients'[i] = IF i < k THEN clients[i] ELSE clients[i + 1]
  BY <1>4, WithoutType
<1>11. \A i \in DOMAIN clients : clients[i] = c => i = k
  BY <1>5 DEF ListServing
<1>12. ListServing'
  <2>1. \A i \in DOMAIN clients' : pc'[clients'[i]] \in Serving
    <3> SUFFICES ASSUME NEW i \in DOMAIN clients' PROVE pc'[clients'[i]] \in Serving
      OBVIOUS
    <3>1. PICK j \in DOMAIN clients : clients'[i] = clients[j] /\ j # k
      <4>1. CASE i < k
        <5>1. i \in DOMAIN clients /\ clients'[i] = clients[i]
          BY <4>1, <1>10
        <5> QED
          BY <4>1, <5>1
      <4>2. CASE ~(i < k)
        <5>1. i + 1 \in DOMAIN clients /\ clients'[i] = clients[i + 1] /\ i + 1 # k
          BY <4>2, <1>10
        <5> QED
          BY <5>1
      <4> QED
        BY <4>1, <4>2
    <3>2. clients[j] # c /\ clients[j] \in Conns /\ pc[clients[j]] \in Serving
      BY <3>1, <1>11 DEF ListServing
    <3> QED
      BY <3>1, <3>2, <1>6
  <2>2. \A d \in Conns : pc'[d] \in Serving => \E i \in DOMAIN clients' : clients'[i] = d
    <3> SUFFICES ASSUME NEW d \in Conns, pc'[d] \in Serving
                 PROVE  \E i \in DOMAIN clients' : clients'[i] = d
      OBVIOUS
    <3>1. d # c
      BY <1>6 DEF Serving
    <3>2. PICK j \in DOMAIN clients : clients[j] = d
      BY <3>1, <1>6 DEF ListServing
    <3>3. j # k
      BY <3>1, <3>2, <1>5
    <3>4. CASE j < k
      <4>1. j \in DOMAIN clients' /\ clients'[j] = d
        BY <3>2, <3>4, <1>10
      <4> QED
        BY <4>1
    <3>5. CASE j > k
      <4>1. j - 1 \in DOMAIN clients' /\ clients'[j - 1] = d
        BY <3>2, <3>5, <1>10
      <4> QED
        BY <4>1
    <3> QED
      BY <3>3, <3>4, <3>5, <1>10
  <2>3. \A i, j \in DOMAIN clients' : clients'[i] = clients'[j] => i = j
    <3>1. \A i, j \in 1 .. Len(clients) : clients[i] = clients[j] => i = j
      BY <1>10 DEF ListServing
    <3> SUFFICES ASSUME NEW i \in 1 .. Len(clients) - 1,
                        NEW j \in 1 .. Len(clients) - 1, clients'[i] = clients'[j]
                 PROVE  i = j
      BY <1>10
    <3> DEFINE at(n) == IF n < k THEN n ELSE n + 1
    <3>2. at(i) \in 1 .. Len(clients) /\ at(j) \in 1 .. Len(clients)
      BY <1>10
    <3>3. clients[at(i)] = clients[at(j)]
      BY <1>10
    <3>4. at(i) = at(j)
      BY <3>1, <3>2, <3>3
    <3> QED
      BY <3>4, <1>10
  <2> QED
    BY <2>1, <2>2, <2>3 DEF ListServing
<1> QED
  BY <1>7, <1>8, <1>9, <1>12 DEF LinkInv

\* free() in cleanup() releases a structure that is no longer listed.
LEMMA FreeStep ==
  ASSUME IInv, TypeOK', NEW c \in Conns, FreeConn(c)
  PROVE  LinkInv'
<1> USE DEF IInv, TypeOK, FreeConn, Goto
<1>1. pc[c] = "free" /\ victim[c] = c
  BY DEF StructsHeld
<1>2. SocksHeld'
  BY <1>1 DEF SocksHeld, HoldingSock, Serving
<1>3. OpenedUsed'
  BY <1>1 DEF OpenedUsed, UsingFd
<1>4. StructsHeld'
  BY <1>1 DEF StructsHeld, Serving
<1>5. ListServing'
  BY <1>1 DEF ListServing, Serving
<1> QED
  BY <1>2, <1>3, <1>4, <1>5 DEF LinkInv

\* close() in cleanup() closes the client socket of the calling thread.
LEMMA CloseStep ==
  ASSUME IInv, TypeOK', NEW c \in Conns, CloseConn(c)
  PROVE  LinkInv'
<1> USE DEF IInv, TypeOK, CloseConn, Goto
<1>1. pc[c] = "close" /\ fd[c] \in Fds /\ sock[fd[c]] = c /\ opened[fd[c]] = None
  BY NoneIsNoConn DEF SocksHeld, HoldingSock, OpenedUsed
<1>2. opened' = opened /\ sock' = [sock EXCEPT ![fd[c]] = None]
  BY <1>1 DEF CloseFd
<1>3. \A f \in Fds : sock'[f] # c
  BY <1>1, <1>2, NoneIsNoConn DEF SocksHeld
<1>4. SocksHeld'
  BY <1>1, <1>2, <1>3, NoneIsNoConn DEF SocksHeld, HoldingSock, Serving
<1>5. OpenedUsed'
  BY <1>1, <1>2 DEF OpenedUsed, UsingFd
<1>6. StructsHeld'
  BY <1>1 DEF StructsHeld, Serving
<1>7. ListServing'
  BY <1>1 DEF ListServing, Serving
<1> QED
  BY <1>4, <1>5, <1>6, <1>7 DEF LinkInv

\* A thread that ends holds nothing.
LEMMA ExitStep ==
  ASSUME IInv, TypeOK', NEW c \in Conns, Exit(c)
  PROVE  LinkInv'
<1> USE DEF IInv, TypeOK, Exit, Goto
<1>1. pc[c] = "exit" /\ c \notin heap
  BY DEF StructsHeld, Serving
<1>2. SocksHeld'
  BY <1>1 DEF SocksHeld, HoldingSock, Serving
<1>3. OpenedUsed'
  BY <1>1 DEF OpenedUsed, UsingFd
<1>4. StructsHeld'
  BY <1>1 DEF StructsHeld, Serving
<1>5. ListServing'
  BY <1>1 DEF ListServing, Serving
<1> QED
  BY <1>2, <1>3, <1>4, <1>5 DEF LinkInv

\* Steps that end the process, or no step at all, change nothing shared.
LEMMA StillStep ==
  ASSUME IInv, UNCHANGED <<shared, pc, cur, fd, resFd, victim>>
  PROVE  LinkInv'
<1> USE DEF IInv, shared
<1>1. SocksHeld'
  BY DEF SocksHeld
<1>2. OpenedUsed'
  BY DEF OpenedUsed
<1>3. StructsHeld'
  BY DEF StructsHeld
<1>4. ListServing'
  BY DEF ListServing
<1> QED
  BY <1>1, <1>2, <1>3, <1>4 DEF LinkInv

\* The invariant is inductive where no upstream breaks and nothing leaks.
LEMMA IInvStep ==
  ASSUME Benign PROVE IInv /\ [Next]_vars => IInv'
<1> SUFFICES ASSUME IInv, [Next]_vars PROVE LinkInv' /\ TypeOK'
  BY DEF IInv, LinkInv
<1>0. TypeOK'
  BY TypeStep DEF IInv
<1> USE <1>0
<1>1. ASSUME NEW c \in Conns, NEW f \in Fds, Accept(c, f) PROVE LinkInv'
  BY <1>1, AcceptStep
<1>2. CASE AcceptFails
  BY <1>2, StillStep DEF AcceptFails, Die
<1>3. ASSUME NEW c \in Conns, Queue(c) PROVE LinkInv'
  BY <1>3, QueueStep
<1>4. ASSUME NEW c \in Conns, Spawn(c) \/ SpawnFails(c) PROVE LinkInv'
  BY <1>4, MoveOnly DEF Spawn, SpawnFails, Goto, shared, Serving, UsingFd
<1>5. ASSUME NEW c \in Conns, ThreadStep(c) PROVE LinkInv'
  <2>1. CASE Start(c)
    BY <2>1, MoveOnly DEF Start, Goto, Serving, UsingFd
  <2>2. CASE SslNew(c)
    BY <2>2, MoveOnly DEF SslNew, Goto, Serving, UsingFd
  <2>3. CASE Respond(c)
    BY <2>3, MoveOnly DEF Respond, Goto, shared, Serving, UsingFd
  <2>4. CASE NoUpstreamFd(c)
    BY <2>4, MoveOnly DEF NoUpstreamFd, Goto, shared, Serving, UsingFd
  <2>5. CASE Forward(c)
    BY <2>5, MoveOnly DEF Forward, Goto, shared, Serving, UsingFd
  <2>6. CASE CloseFile(c)
    BY <2>6, CloseOpened DEF CloseFile, Goto, UsingFd
  <2>7. CASE CloseUpstream(c)
    BY <2>7, CloseOpened DEF CloseUpstream, Goto, UsingFd
  <2>8. CASE ClientMissing(c)
    BY <2>8, StillStep DEF ClientMissing, Die
  <2>9. CASE Remove(c)
    BY <2>9, RemoveStep
  <2>10. CASE FreeConn(c)
    BY <2>10, FreeStep
  <2>11. CASE CloseConn(c)
    BY <2>11, CloseStep
  <2>12. CASE Exit(c)
    BY <2>12, ExitStep
  <2>13. ASSUME NEW f \in Fds, OpenFile(c, f) PROVE LinkInv'
    BY <2>13, OpenNew DEF OpenFile, Opens, LowestFree, Goto, UsingFd
  <2>14. ASSUME NEW f \in Fds, OpenIndexThenProxy(c, f) PROVE LinkInv'
    BY <2>14 DEF OpenIndexThenProxy, Benign
  <2>15. ASSUME NEW f \in Fds, OpenUpstream(c, f) PROVE LinkInv'
    <3>1. pc[c] \in {"input", "proxy"} /\ pc' = [pc EXCEPT ![c] = "connect"]
      BY <2>15 DEF OpenUpstream, Goto
    <3> QED
      BY <2>15, <3>1, OpenNew DEF OpenUpstream, Opens, LowestFree, UsingFd
  <2> QED
    BY <1>5, <2>1, <2>2, <2>3, <2>4, <2>5, <2>6, <2>7, <2>8, <2>9, <2>10, <2>11,
       <2>12, <2>13, <2>14, <2>15 DEF ThreadStep
<1>6. ASSUME NEW c \in Conns, PeerStep(c) PROVE LinkInv'
  <2>1. CASE Handshake(c)
    <3>1. FdReads(c) = {fd[c]}
      BY <2>1 DEF Handshake, Goto, FdReads, IInv, StructsHeld, Serving
    <3>2. fd' = fd
      BY <2>1, <3>1 DEF Handshake, IInv, TypeOK
    <3> QED
      BY <2>1, <3>2, MoveOnly DEF Handshake, Goto, shared, Serving, UsingFd
  <2>2. CASE HandshakeFails(c)
    BY <2>2, MoveOnly DEF HandshakeFails, Goto, shared, Serving, UsingFd
  <2>3. CASE Connect(c)
    BY <2>3, MoveOnly DEF Connect, Goto, shared, Serving, UsingFd
  <2>4. CASE ConnectFails(c)
    BY <2>4, CloseOpened DEF ConnectFails, Goto, UsingFd
  <2>5. CASE RecvDone(c)
    BY <2>5, MoveOnly DEF RecvDone, Goto, shared, Serving, UsingFd
  <2>6. CASE RecvFails(c)
    BY <2>6 DEF RecvFails, Benign
  <2> QED
    BY <1>6, <2>1, <2>2, <2>3, <2>4, <2>5, <2>6 DEF PeerStep
<1>7. ASSUME NEW c \in Conns, Crash(c) PROVE LinkInv'
  BY <1>7, StillStep DEF Crash, PeerGone, WildRead, Die
<1>8. CASE UNCHANGED vars
  BY <1>8, StillStep DEF vars
<1> QED
  BY <1>1, <1>2, <1>3, <1>4, <1>5, <1>6, <1>7, <1>8
     DEF Next, Arrival, MainStep, Quiet

\* IInv holds in every reachable state of a benign environment.
LEMMA IInvHolds ==
  ASSUME Benign PROVE Spec => []IInv
<1>1. Init => IInv
  <2> SUFFICES ASSUME Init PROVE IInv
    OBVIOUS
  <2>1. TypeOK
    BY MaxFdIsNat DEF Init, TypeOK, Running, Waiting, Fds, NoFd
  <2>2. SocksHeld /\ OpenedUsed /\ StructsHeld
    BY DEF Init, SocksHeld, OpenedUsed, StructsHeld, HoldingSock, Serving, UsingFd
  <2>3. ListServing
    BY DEF Init, ListServing, Serving
  <2> QED
    BY <2>1, <2>2, <2>3 DEF IInv
<1> QED
  BY <1>1, IInvStep, PTL DEF Spec

\* The theorems below hold for any number of connections and of descriptors
\* when no upstream connection breaks and no request takes the leaking
\* try_files path.

\* No connection is left without a thread.
AllStarted == \A c \in Conns : pc[c] # "unserved"

\* Where pthread_create() does not fail, every connection gets its thread.
LEMMA StartedStep ==
  ASSUME TypeOK, AllStarted, "threadLimit" \notin Cases, [Next]_vars
  PROVE  AllStarted'
<1> USE DEF AllStarted, Goto
<1>0. pc \in [Conns -> Running \cup Waiting]
  BY DEF TypeOK
<1>1. ASSUME NEW c \in Conns, NEW f \in Fds, Accept(c, f) PROVE AllStarted'
  BY <1>0, <1>1 DEF Accept
<1>2. ASSUME NEW c \in Conns, Queue(c) \/ Spawn(c) \/ SpawnFails(c) PROVE AllStarted'
  BY <1>0, <1>2 DEF Queue, Spawn, SpawnFails
<1>3. ASSUME NEW c \in Conns, Start(c) \/ SslNew(c) \/ Respond(c) \/ NoUpstreamFd(c)
                              \/ Forward(c)
      PROVE  AllStarted'
  BY <1>0, <1>3 DEF Start, SslNew, Respond, NoUpstreamFd, Forward
<1>4. ASSUME NEW c \in Conns, CloseFile(c) \/ CloseUpstream(c) \/ CloseConn(c)
      PROVE  AllStarted'
  BY <1>0, <1>4 DEF CloseFile, CloseUpstream, CloseConn
<1>5. ASSUME NEW c \in Conns, Remove(c) \/ FreeConn(c) \/ Exit(c) PROVE AllStarted'
  BY <1>0, <1>5 DEF Remove, FreeConn, Exit
<1>6. ASSUME NEW c \in Conns, NEW f \in Fds,
             OpenFile(c, f) \/ OpenIndexThenProxy(c, f) \/ OpenUpstream(c, f)
      PROVE  AllStarted'
  BY <1>0, <1>6 DEF OpenFile, OpenIndexThenProxy, OpenUpstream
<1>7. ASSUME NEW c \in Conns, PeerStep(c) PROVE AllStarted'
  BY <1>0, <1>7
     DEF PeerStep, Handshake, HandshakeFails, Connect, ConnectFails, RecvDone, RecvFails
<1>8. CASE Die \/ UNCHANGED vars
  BY <1>8 DEF Die, vars
<1> QED
  BY <1>1, <1>2, <1>3, <1>4, <1>5, <1>6, <1>7, <1>8
     DEF Next, Arrival, MainStep, ThreadStep, ClientMissing, AcceptFails, Quiet, Crash,
         PeerGone, WildRead

\* Where pthread_create() does not fail either, a descriptor that is open is the
\* socket of a connection between accept() and the close in cleanup(), and has
\* a thread from Spawn on, or is in use by a handler: none outlives its request.
THEOREM NothingLeaks ==
  ASSUME Benign, "threadLimit" \notin Cases PROVE Spec => []NoStrayFd
<1>1. Init => AllStarted
  BY DEF Init, AllStarted
<1>2. IInv /\ AllStarted /\ [Next]_vars => AllStarted'
  BY StartedStep DEF IInv
<1>3. IInv /\ AllStarted => NoStrayFd
  <2> SUFFICES ASSUME IInv, AllStarted, NEW f \in Fds
               PROVE  /\ sock[f] # None => pc[sock[f]] \notin {"none", "unserved", "exit"}
                      /\ opened[f] # None =>
                           /\ pc[opened[f]] \in UsingFd
                           /\ resFd[opened[f]] = f
    BY DEF NoStrayFd, UsingFd
  <2>1. sock[f] \in Conns \cup {None}
    BY DEF IInv, TypeOK
  <2> QED
    BY <2>1 DEF IInv, AllStarted, SocksHeld, OpenedUsed, HoldingSock, Serving
<1> QED
  BY <1>1, <1>2, <1>3, IInvHolds, PTL DEF Spec

\* The descriptors in the list of clients are open, unique, and the sockets of
\* the connections whose structures hold them.
THEOREM ListNamesOpenSockets ==
  ASSUME Benign PROVE Spec => []ListDescriptors
<1>1. IInv => ListDescriptors
  <2> SUFFICES ASSUME IInv, NEW i \in DOMAIN clients
               PROVE  /\ connFd[clients[i]] \in Fds
                      /\ sock[connFd[clients[i]]] = clients[i]
                      /\ \A j \in DOMAIN clients :
                           connFd[clients[i]] = connFd[clients[j]] => i = j
    BY DEF ListDescriptors
  <2>1. clients[i] \in Conns /\ pc[clients[i]] \in Serving
    BY DEF IInv, TypeOK, ListServing
  <2>2. connFd[clients[i]] = fd[clients[i]]
    BY <2>1 DEF IInv, StructsHeld
  <2>3. fd[clients[i]] \in Fds /\ sock[fd[clients[i]]] = clients[i]
    BY <2>1 DEF IInv, SocksHeld, HoldingSock
  <2>4. \A j \in DOMAIN clients : connFd[clients[i]] = connFd[clients[j]] => i = j
    BY <2>1, <2>2, OwnEntry DEF IInv, ListServing
  <2> QED
    BY <2>2, <2>3, <2>4
<1> QED
  BY <1>1, IInvHolds, PTL

\* getClient() finds the structure of the connection that asks.
THEOREM LookupFindsOwn ==
  ASSUME Benign PROVE Spec => []LookupOwn
<1>1. IInv => LookupOwn
  <2> SUFFICES ASSUME IInv, NEW c \in Conns, pc[c] = "forward"
               PROVE  \E k \in DOMAIN clients :
                        FirstWithFd(fd[c], k) /\ clients[k] = c
    BY DEF LookupOwn
  <2>1. pc[c] \in Serving
    BY DEF Serving
  <2>2. PICK k \in DOMAIN clients : clients[k] = c
    BY <2>1 DEF IInv, ListServing
  <2>3. FirstWithFd(fd[c], k)
    BY <2>1, <2>2, OwnEntry DEF FirstWithFd, IInv, ListServing, TypeOK
  <2> QED
    BY <2>2, <2>3
<1> QED
  BY <1>1, IInvHolds, PTL

\* No thread reads a client structure that has been freed.
THEOREM NoFreedStructRead ==
  ASSUME Benign PROVE Spec => []StructAlive
<1>1. IInv => StructAlive
  BY DEF IInv, StructAlive, StructsHeld, Serving
<1> QED
  BY <1>1, IInvHolds, PTL

\* In the same environments no thread closes a descriptor another has open.
THEOREM OnlyOwnersClose ==
  ASSUME Benign PROVE Spec => CloseOwn
<1> DEFINE Own == \A f \in Fds :
       /\ sock[f] # None /\ sock'[f] # sock[f] =>
            pc[sock[f]] = "close" /\ pc'[sock[f]] = "exit"
       /\ opened[f] # None /\ opened'[f] # opened[f] =>
            pc'[opened[f]] # pc[opened[f]]
<1>1. IInv /\ [Next]_vars => [Own]_vars
  <2> SUFFICES ASSUME IInv, [Next]_vars PROVE Own
    OBVIOUS
  <2> USE DEF IInv, TypeOK
  <2>1. CASE UNCHANGED <<sock, opened>>
    BY <2>1
  <2>2. ASSUME NEW c \in Conns, pc[c] \in UsingFd,
               pc' = [pc EXCEPT ![c] = "cleanup"], CloseFd(resFd[c])
        PROVE  Own
    <3>1. resFd[c] \in Fds /\ opened[resFd[c]] = c /\ sock[resFd[c]] = None
      BY <2>2, NoneIsNoConn DEF OpenedUsed
    <3> QED
      BY <2>2, <3>1 DEF CloseFd, UsingFd
  <2>3. ASSUME NEW c \in Conns, CloseConn(c) PROVE Own
    <3>1. fd[c] \in Fds /\ sock[fd[c]] = c /\ opened[fd[c]] = None
      BY <2>3, NoneIsNoConn DEF CloseConn, Goto, SocksHeld, HoldingSock, OpenedUsed
    <3> QED
      BY <2>3, <3>1 DEF CloseConn, Goto, CloseFd
  <2>4. ASSUME NEW c \in Conns, NEW f \in Fds, Accept(c, f) PROVE Own
    BY <2>4 DEF Accept, LowestFree, Free
  <2>5. ASSUME NEW c \in Conns, NEW f \in Fds, Opens(c, f) PROVE Own
    BY <2>5 DEF Opens, LowestFree, Free
  <2>6. ASSUME NEW c \in Conns, ThreadStep(c) PROVE Own
    BY <2>1, <2>2, <2>3, <2>5, <2>6
       DEF ThreadStep, Start, SslNew, Respond, CloseFile, NoUpstreamFd, Forward,
           ClientMissing, CloseUpstream, Remove, FreeConn, Exit, OpenFile,
           OpenIndexThenProxy, OpenUpstream, Die, shared, Goto, UsingFd
  <2>7. ASSUME NEW c \in Conns, PeerStep(c) PROVE Own
    BY <2>1, <2>2, <2>7
       DEF PeerStep, Handshake, HandshakeFails, Connect, ConnectFails, RecvDone,
           RecvFails, Benign, shared, Goto, UsingFd
  <2> QED
    BY <2>1, <2>4, <2>6, <2>7
       DEF Next, Arrival, MainStep, Quiet, AcceptFails, Queue, Spawn, SpawnFails,
           Crash, PeerGone, WildRead, Die, shared, vars
<1> QED
  BY <1>1, IInvHolds, PTL DEF Spec, CloseOwn

\* In the same environments the list and the client sockets implement the
\* abstract table of connections: accept, setClientConnection,
\* removeClientConnection and the close in cleanup() are its four operations.
THEOREM TableRefinement ==
  ASSUME Benign PROVE Spec => ImplementsConnectionTable
<1>1. Init => CT!Init
  BY DEF Init, CT!Init, Listed
<1>2. IInv /\ IInv' /\ [Next]_vars => [CT!Next]_(CT!vars)
  <2> SUFFICES ASSUME IInv, IInv', [Next]_vars PROVE [CT!Next]_(CT!vars)
    OBVIOUS
  <2> USE DEF IInv, TypeOK
  <2>1. /\ Listed = {c \in Conns : pc[c] \in Serving}
        /\ Listed' = {c \in Conns : pc'[c] \in Serving}
    BY DEF Listed, ListServing
  <2>2. ASSUME sock' = sock,
               \A d \in Conns : pc[d] \in Serving <=> pc'[d] \in Serving
        PROVE  UNCHANGED CT!vars
    BY <2>1, <2>2 DEF CT!vars
  <2>3. CASE UNCHANGED <<sock, pc>>
    BY <2>1, <2>3 DEF CT!vars
  <2>4. ASSUME NEW c \in Conns, NEW f \in Fds, Accept(c, f) PROVE CT!Next
    <3>1. pc[c] = "none" /\ pc' = [pc EXCEPT ![c] = "accepted"] /\ Free(f)
      BY <2>4 DEF Accept, Goto, LowestFree
    <3>2. Listed' = Listed /\ c \notin Listed
      BY <3>1, <2>1 DEF Serving
    <3>3. \A g \in Fds : sock[g] # c
      BY <3>1, Unheld
    <3>4. CT!Open(c, f)
      BY <2>4, <3>1, <3>2, <3>3 DEF CT!Open, CT!Holds, Accept, Free
    <3> QED
      BY <3>4 DEF CT!Next
  <2>5. ASSUME NEW c \in Conns, Queue(c) PROVE CT!Next
    <3>1. pc[c] = "accepted" /\ pc' = [pc EXCEPT ![c] = "queued"]
      BY <2>5 DEF Queue, Goto
    <3>2. c \notin Listed /\ Listed' = Listed \cup {c}
      BY <3>1, <2>1 DEF Serving
    <3>3. fd[c] \in Fds /\ sock[fd[c]] = c
      BY <3>1 DEF SocksHeld, HoldingSock
    <3>4. CT!List(c)
      BY <2>5, <3>2, <3>3 DEF CT!List, CT!Holds, Queue
    <3> QED
      BY <3>4 DEF CT!Next
  <2>6. ASSUME NEW c \in Conns, Remove(c) PROVE CT!Next
    <3>1. pc[c] = "cleanup" /\ pc' = [pc EXCEPT ![c] = "free"]
      BY <2>6 DEF Remove, Goto
    <3>2. c \in Listed /\ Listed' = Listed \ {c}
      BY <3>1, <2>1 DEF Serving
    <3>3. CT!Unlist(c)
      BY <2>6, <3>2 DEF CT!Unlist, Remove
    <3> QED
      BY <3>3 DEF CT!Next
  <2>7. ASSUME NEW c \in Conns, CloseConn(c) PROVE CT!Next
    <3>1. pc[c] = "close" /\ pc' = [pc EXCEPT ![c] = "exit"]
      BY <2>7 DEF CloseConn, Goto
    <3>2. c \notin Listed /\ Listed' = Listed
      BY <3>1, <2>1 DEF Serving
    <3>3. fd[c] \in Fds /\ sock[fd[c]] = c
      BY <3>1 DEF SocksHeld, HoldingSock
    <3>4. sock' = [sock EXCEPT ![fd[c]] = None]
      BY <2>7, <3>3 DEF CloseConn, CloseFd
    <3>5. CT!Close(c, fd[c])
      BY <3>2, <3>3, <3>4 DEF CT!Close, CT!Holds
    <3> QED
      BY <3>3, <3>5 DEF CT!Next
  <2>8. ASSUME NEW c \in Conns, pc[c] \in UsingFd,
               pc' = [pc EXCEPT ![c] = "cleanup"], CloseFd(resFd[c])
        PROVE  UNCHANGED CT!vars
    <3>1. sock' = sock
      BY <2>8, NoneIsNoConn DEF OpenedUsed, CloseFd
    <3>2. pc[c] \in Serving /\ "cleanup" \in Serving
      BY <2>8 DEF UsingFd, Serving
    <3> QED
      BY <2>2, <2>8, <3>1, <3>2
  <2>9. ASSUME NEW c \in Conns, ThreadStep(c) PROVE [CT!Next]_(CT!vars)
    <3>1. CASE CloseFile(c) \/ CloseUpstream(c)
      BY <3>1, <2>8 DEF CloseFile, CloseUpstream, Goto, UsingFd
    <3>2. CASE ClientMissing(c)
      BY <3>2, <2>3 DEF ClientMissing, Die, shared
    <3>3. CASE Remove(c) \/ CloseConn(c)
      BY <3>3, <2>6, <2>7
    <3>4. CASE \/ Start(c) \/ SslNew(c) \/ Respond(c) \/ NoUpstreamFd(c)
               \/ Forward(c) \/ FreeConn(c) \/ Exit(c)
      <4>1. /\ sock' = sock
            /\ \A d \in Conns : pc[d] \in Serving <=> pc'[d] \in Serving
        BY <3>4 DEF Start, SslNew, Respond, NoUpstreamFd, Forward, FreeConn, Exit,
                    Goto, shared, Serving
      <4> QED
        BY <4>1, <2>2
    <3>5. ASSUME NEW f \in Fds,
                 OpenFile(c, f) \/ OpenIndexThenProxy(c, f) \/ OpenUpstream(c, f)
          PROVE  UNCHANGED CT!vars
      <4>1. /\ sock' = sock
            /\ \A d \in Conns : pc[d] \in Serving <=> pc'[d] \in Serving
        BY <3>5 DEF OpenFile, OpenIndexThenProxy, OpenUpstream, Opens, Goto, Serving
      <4> QED
        BY <4>1, <2>2
    <3> QED
      BY <2>9, <3>1, <3>2, <3>3, <3>4, <3>5 DEF ThreadStep
  <2>10. ASSUME NEW c \in Conns, PeerStep(c) PROVE UNCHANGED CT!vars
    <3>1. CASE ConnectFails(c) \/ RecvFails(c)
      BY <3>1, <2>8 DEF ConnectFails, RecvFails, Benign, Goto, UsingFd
    <3>2. CASE Handshake(c) \/ HandshakeFails(c) \/ Connect(c) \/ RecvDone(c)
      <4>1. /\ sock' = sock
            /\ \A d \in Conns : pc[d] \in Serving <=> pc'[d] \in Serving
        BY <3>2 DEF Handshake, HandshakeFails, Connect, RecvDone, Goto, shared, Serving
      <4> QED
        BY <4>1, <2>2
    <3> QED
      BY <2>10, <3>1, <3>2 DEF PeerStep
  <2>11. ASSUME NEW c \in Conns, Spawn(c) \/ SpawnFails(c) PROVE UNCHANGED CT!vars
    <3>1. /\ sock' = sock
          /\ \A d \in Conns : pc[d] \in Serving <=> pc'[d] \in Serving
      BY <2>11 DEF Spawn, SpawnFails, Goto, shared, Serving
    <3> QED
      BY <3>1, <2>2
  <2>12. CASE UNCHANGED vars
    BY <2>12, <2>3 DEF vars, shared
  <2>13. CASE Next
    BY <2>13, <2>3, <2>4, <2>5, <2>9, <2>10, <2>11, <2>12
       DEF Next, Arrival, MainStep, Quiet, AcceptFails, Crash, PeerGone, WildRead,
           Die, shared
  <2> QED
    BY <2>12, <2>13
<1> QED
  BY <1>1, <1>2, IInvHolds, PTL DEF Spec, CT!Spec, ImplementsConnectionTable

-----------------------------------------------------------------------------
(* Counting threads *)

\* The number of connections at stages T, when they are where p says.
CountAt(T, p) == Cardinality({d \in Conns : p[d] \in T})

\* How that number changes when one connection moves.
LEMMA CountMove ==
  ASSUME NEW T, NEW p, NEW q, NEW c \in Conns, NEW to,
         DOMAIN p = Conns, q = [p EXCEPT ![c] = to]
  PROVE  /\ CountAt(T, p) \in Nat
         /\ (p[c] \in T <=> to \in T) => CountAt(T, q) = CountAt(T, p)
         /\ p[c] \notin T /\ to \in T => CountAt(T, q) = CountAt(T, p) + 1
         /\ p[c] \in T /\ to \notin T => CountAt(T, q) = CountAt(T, p) - 1
<1> DEFINE before == {d \in Conns : p[d] \in T}
           after  == {d \in Conns : q[d] \in T}
<1>1. \A d \in Conns : q[d] = IF d = c THEN to ELSE p[d]
  OBVIOUS
<1>2. IsFiniteSet(before) /\ IsFiniteSet(after)
  BY ConnsFinite, FS_Subset
<1>3. Cardinality(before) \in Nat /\ Cardinality(after) \in Nat
  BY <1>2, FS_CardinalityType
<1>4. ASSUME p[c] \in T <=> to \in T PROVE Cardinality(after) = Cardinality(before)
  <2>1. after = before
    BY <1>1, <1>4
  <2> QED
    BY <2>1
<1>5. ASSUME p[c] \notin T, to \in T PROVE Cardinality(after) = Cardinality(before) + 1
  <2>1. c \notin before /\ after = before \cup {c}
    BY <1>1, <1>5
  <2> QED
    BY <2>1, <1>2, FS_AddElement
<1>6. ASSUME p[c] \in T, to \notin T PROVE Cardinality(after) = Cardinality(before) - 1
  <2>1. c \in before /\ after = before \ {c}
    BY <1>1, <1>6
  <2> QED
    BY <2>1, <1>2, FS_RemoveElement
<1> QED
  BY <1>3, <1>4, <1>5, <1>6 DEF CountAt

\* Stages at which a thread has a reference to the SSL_CTX to give back, and at
\* which it is counted.
Referring == Running \ {"start", "sslnew", "close", "exit"}
Counted   == Running \ {"start"}

\* A step that touches neither counter nor the number of threads they count.
PlainMove(c, from, to) ==
  /\ Goto(c, from, to)
  /\ UNCHANGED <<ctxRefs, ssls, threadCount>>
  /\ from \in Referring <=> to \in Referring
  /\ from \in Counted <=> to \in Counted

Plain == \/ UNCHANGED <<ctxRefs, ssls, threadCount, pc>>
         \/ \E c \in Conns, from, to \in Running \cup Waiting : PlainMove(c, from, to)

\* What one step can do to the two counters, and to the threads they count.
LEMMA CounterSteps ==
  ASSUME [Next]_vars
  PROVE  Plain \/ \E c \in Conns : Start(c) \/ SslNew(c) \/ FreeConn(c) \/ Exit(c)
<1> DEFINE Moves(c, from, to) ==
             /\ Goto(c, from, to)
             /\ UNCHANGED <<ctxRefs, ssls, threadCount>>
           Stages == {"none", "accepted", "queued", "unserved", "start"}
           Within == Referring
<1>1. ASSUME NEW c \in Conns, NEW from \in Stages, NEW to \in Stages, Moves(c, from, to)
      PROVE  Plain
  <2>1. PlainMove(c, from, to)
    BY <1>1 DEF PlainMove, Referring, Counted, Running
  <2>2. from \in Running \cup Waiting /\ to \in Running \cup Waiting
    BY <1>1 DEF Running, Waiting
  <2> QED
    BY <2>1, <2>2 DEF Plain
<1>2. ASSUME NEW c \in Conns, NEW from \in Within, NEW to \in Within, Moves(c, from, to)
      PROVE  Plain
  <2>1. PlainMove(c, from, to)
    BY <1>2 DEF PlainMove, Referring, Counted
  <2>2. from \in Running \cup Waiting /\ to \in Running \cup Waiting
    BY <1>2 DEF Referring
  <2> QED
    BY <2>1, <2>2 DEF Plain
<1>3. ASSUME NEW c \in Conns, CloseConn(c) PROVE Plain
  <2>1. PlainMove(c, "close", "exit")
    BY <1>3 DEF CloseConn, PlainMove, Referring, Counted, Running
  <2> QED
    BY <2>1 DEF Plain, Running
<1>4. /\ \A s \in {"shake", "input", "file", "proxy", "connect", "forward", "recv",
                   "shut", "cleanup", "free"} : s \in Within
      /\ \A s \in {"none", "accepted", "queued", "unserved", "start"} : s \in Stages
  BY DEF Referring, Running
<1>5. ASSUME NEW c \in Conns, NEW f \in Fds, Accept(c, f) PROVE Plain
  <2>1. Moves(c, "none", "accepted")
    BY <1>5 DEF Accept
  <2> QED
    BY <2>1, <1>1, <1>4
<1>6. ASSUME NEW c \in Conns, Queue(c) PROVE Plain
  <2>1. Moves(c, "accepted", "queued")
    BY <1>6 DEF Queue
  <2> QED
    BY <2>1, <1>1, <1>4
<1>7. ASSUME NEW c \in Conns, Spawn(c) \/ SpawnFails(c) PROVE Plain
  <2>1. Moves(c, "queued", "start") \/ Moves(c, "queued", "unserved")
    BY <1>7 DEF Spawn, SpawnFails, shared
  <2> QED
    BY <2>1, <1>1, <1>4
<1>8. ASSUME NEW c \in Conns, Respond(c) \/ NoUpstreamFd(c) \/ Forward(c) PROVE Plain
  <2>1. \/ Moves(c, "input", "cleanup") \/ Moves(c, "proxy", "cleanup")
        \/ Moves(c, "forward", "recv")
    BY <1>8 DEF Respond, NoUpstreamFd, Forward, shared
  <2> QED
    BY <2>1, <1>2, <1>4
<1>9. ASSUME NEW c \in Conns, CloseFile(c) \/ CloseUpstream(c) \/ Remove(c) PROVE Plain
  <2>1. \/ Moves(c, "file", "cleanup") \/ Moves(c, "shut", "cleanup")
        \/ Moves(c, "cleanup", "free")
    BY <1>9 DEF CloseFile, CloseUpstream, Remove
  <2> QED
    BY <2>1, <1>2, <1>4
<1>10. ASSUME NEW c \in Conns, NEW f \in Fds,
              OpenFile(c, f) \/ OpenIndexThenProxy(c, f) \/ OpenUpstream(c, f)
       PROVE  Plain
  <2>1. \/ Moves(c, "input", "file") \/ Moves(c, "input", "proxy")
        \/ Moves(c, "input", "connect") \/ Moves(c, "proxy", "connect")
    BY <1>10 DEF OpenFile, OpenIndexThenProxy, OpenUpstream, Opens
  <2> QED
    BY <2>1, <1>2, <1>4
<1>11. ASSUME NEW c \in Conns, PeerStep(c) PROVE Plain
  <2>1. \/ Moves(c, "shake", "input") \/ Moves(c, "shake", "cleanup")
        \/ Moves(c, "connect", "forward") \/ Moves(c, "connect", "cleanup")
        \/ Moves(c, "recv", "shut")
    BY <1>11 DEF PeerStep, Handshake, HandshakeFails, Connect, ConnectFails, RecvDone,
                 RecvFails, shared
  <2> QED
    BY <2>1, <1>2, <1>4
<1>12. CASE Die \/ UNCHANGED vars
  BY <1>12 DEF Plain, Die, vars, shared
<1> HIDE DEF Moves, Stages, Within
<1> QED
  BY <1>3, <1>5, <1>6, <1>7, <1>8, <1>9, <1>10, <1>11, <1>12
     DEF Next, Arrival, MainStep, ThreadStep, ClientMissing, AcceptFails, Quiet, Crash,
         PeerGone, WildRead

\* A step that touches neither counter keeps both counts.
LEMMA PlainCounts ==
  ASSUME DOMAIN pc = Conns, Plain
  PROVE  /\ UNCHANGED <<ctxRefs, ssls, threadCount>>
         /\ CountAt(Referring, pc') = CountAt(Referring, pc)
         /\ CountAt(Counted, pc') = CountAt(Counted, pc)
<1>1. CASE UNCHANGED <<ctxRefs, ssls, threadCount, pc>>
  BY <1>1
<1>2. ASSUME NEW c \in Conns, NEW from, NEW to, PlainMove(c, from, to)
      PROVE  /\ UNCHANGED <<ctxRefs, ssls, threadCount>>
             /\ CountAt(Referring, pc') = CountAt(Referring, pc)
             /\ CountAt(Counted, pc') = CountAt(Counted, pc)
  <2>1. /\ pc' = [pc EXCEPT ![c] = to] /\ UNCHANGED <<ctxRefs, ssls, threadCount>>
        /\ pc[c] \in Referring <=> to \in Referring
        /\ pc[c] \in Counted <=> to \in Counted
    BY <1>2 DEF PlainMove, Goto
  <2> QED
    BY <2>1, CountMove
<1> QED
  BY <1>1, <1>2 DEF Plain

\* The counts after the four steps that do touch a counter.
LEMMA CounterMoves ==
  ASSUME DOMAIN pc = Conns, NEW c \in Conns
  PROVE  /\ CountAt(Referring, pc) \in Nat /\ CountAt(Counted, pc) \in Nat
         /\ Start(c) => /\ CountAt(Referring, pc') = CountAt(Referring, pc)
                        /\ CountAt(Counted, pc') = CountAt(Counted, pc) + 1
         /\ SslNew(c) => /\ CountAt(Referring, pc') = CountAt(Referring, pc) + 1
                         /\ CountAt(Counted, pc') = CountAt(Counted, pc)
         /\ FreeConn(c) => /\ CountAt(Referring, pc') = CountAt(Referring, pc) - 1
                           /\ CountAt(Counted, pc') = CountAt(Counted, pc)
         /\ Exit(c) => /\ CountAt(Referring, pc') = CountAt(Referring, pc)
                       /\ CountAt(Counted, pc') = CountAt(Counted, pc) - 1
<1>0. /\ {"start", "sslnew", "close", "exit", "none"} \cap Referring = {}
      /\ {"shake", "free"} \subseteq Referring
      /\ {"sslnew", "shake", "free", "close", "exit"} \subseteq Counted
      /\ {"start", "none"} \cap Counted = {}
  BY DEF Referring, Counted, Running
<1>1. ASSUME NEW from, NEW to, Goto(c, from, to)
      PROVE  /\ (from \in Referring <=> to \in Referring) =>
                  CountAt(Referring, pc') = CountAt(Referring, pc)
             /\ from \notin Referring /\ to \in Referring =>
                  CountAt(Referring, pc') = CountAt(Referring, pc) + 1
             /\ from \in Referring /\ to \notin Referring =>
                  CountAt(Referring, pc') = CountAt(Referring, pc) - 1
             /\ (from \in Counted <=> to \in Counted) =>
                  CountAt(Counted, pc') = CountAt(Counted, pc)
             /\ from \notin Counted /\ to \in Counted =>
                  CountAt(Counted, pc') = CountAt(Counted, pc) + 1
             /\ from \in Counted /\ to \notin Counted =>
                  CountAt(Counted, pc') = CountAt(Counted, pc) - 1
  <2>1. pc[c] = from /\ pc' = [pc EXCEPT ![c] = to]
    BY <1>1 DEF Goto
  <2> QED
    BY <2>1, CountMove
<1>2. CountAt(Referring, pc) \in Nat /\ CountAt(Counted, pc) \in Nat
  <2>1. \E q : q = [pc EXCEPT ![c] = pc[c]]
    OBVIOUS
  <2> QED
    BY <2>1, CountMove
<1>3. ASSUME Start(c)
      PROVE  /\ CountAt(Referring, pc') = CountAt(Referring, pc)
             /\ CountAt(Counted, pc') = CountAt(Counted, pc) + 1
  <2>1. Goto(c, "start", "sslnew")
    BY <1>3 DEF Start
  <2> QED
    BY <2>1, <1>0, <1>1
<1>4. ASSUME SslNew(c)
      PROVE  /\ CountAt(Referring, pc') = CountAt(Referring, pc) + 1
             /\ CountAt(Counted, pc') = CountAt(Counted, pc)
  <2>1. Goto(c, "sslnew", "shake")
    BY <1>4 DEF SslNew
  <2> QED
    BY <2>1, <1>0, <1>1
<1>5. ASSUME FreeConn(c)
      PROVE  /\ CountAt(Referring, pc') = CountAt(Referring, pc) - 1
             /\ CountAt(Counted, pc') = CountAt(Counted, pc)
  <2>1. Goto(c, "free", "close")
    BY <1>5 DEF FreeConn
  <2> QED
    BY <2>1, <1>0, <1>1
<1>6. ASSUME Exit(c)
      PROVE  /\ CountAt(Referring, pc') = CountAt(Referring, pc)
             /\ CountAt(Counted, pc') = CountAt(Counted, pc) - 1
  <2>1. Goto(c, "exit", "none")
    BY <1>6 DEF Exit
  <2> QED
    BY <2>1, <1>0, <1>1
<1> QED
  BY <1>2, <1>3, <1>4, <1>5, <1>6

\* No connection counts at the start.
LEMMA CountsAtStart ==
  ASSUME Init PROVE CountAt(Referring, pc) = 0 /\ CountAt(Counted, pc) = 0
<1>1. /\ {c \in Conns : pc[c] \in Referring} = {}
      /\ {c \in Conns : pc[c] \in Counted} = {}
  BY DEF Init, Referring, Counted, Running
<1> QED
  BY <1>1, FS_EmptySet DEF CountAt

\* In the same environments the reference count of the SSL_CTX and the counter
\* of threads are exact: each thread takes two references and gives one back,
\* the other stays with the SSL that nobody frees (SSL_new, cleanup, the two
\* sections under mutex1).
THEOREM CountersExact ==
  ASSUME Benign PROVE Spec => []Accounting
<1>1. Accounting <=> /\ ctxRefs = 1 + ssls + CountAt(Referring, pc)
                     /\ threadCount = CountAt(Counted, pc)
  BY DEF Accounting, CountAt, Referring, Counted
<1>2. Accounting' <=> /\ ctxRefs' = 1 + ssls' + CountAt(Referring, pc')
                      /\ threadCount' = CountAt(Counted, pc')
  BY DEF Accounting, CountAt, Referring, Counted
<1>3. Init => Accounting
  BY <1>1, CountsAtStart DEF Init
<1>4. IInv /\ Accounting /\ [Next]_vars => Accounting'
  <2> SUFFICES ASSUME IInv, Accounting, [Next]_vars PROVE Accounting'
    OBVIOUS
  <2>0. DOMAIN pc = Conns
    BY DEF IInv, TypeOK
  <2>1. CASE Plain
    BY <2>0, <2>1, <1>1, <1>2, PlainCounts
  <2>a. ctxRefs \in Int /\ ssls \in Int /\ threadCount \in Int
    BY DEF IInv, TypeOK
  <2>2. ASSUME NEW c \in Conns, Start(c) PROVE Accounting'
    <3>1. threadCount' = threadCount + 1 /\ ctxRefs' = ctxRefs /\ ssls' = ssls
      BY <2>2 DEF Start
    <3> QED
      BY <2>0, <2>a, <2>2, <3>1, <1>1, <1>2, CounterMoves
  <2>3. ASSUME NEW c \in Conns, SslNew(c) PROVE Accounting'
    <3>1. ctxRefs' = ctxRefs + 2 /\ ssls' = ssls + 1 /\ threadCount' = threadCount
      BY <2>3 DEF SslNew
    <3> QED
      BY <2>0, <2>a, <2>3, <3>1, <1>1, <1>2, CounterMoves
  <2>4. ASSUME NEW c \in Conns, Exit(c) PROVE Accounting'
    <3>1. threadCount' = threadCount - 1 /\ ctxRefs' = ctxRefs /\ ssls' = ssls
      BY <2>4 DEF Exit
    <3> QED
      BY <2>0, <2>a, <2>4, <3>1, <1>1, <1>2, CounterMoves
  <2>5. ASSUME NEW c \in Conns, FreeConn(c) PROVE Accounting'
    <3>1. victim[c] = c /\ c # None
      BY <2>5, NoneIsNoConn DEF FreeConn, Goto, IInv, StructsHeld
    <3>2. ctxRefs' = ctxRefs - 1 /\ threadCount' = threadCount /\ ssls' = ssls
      BY <2>5, <3>1 DEF FreeConn
    <3> QED
      BY <2>0, <2>a, <2>5, <3>2, <1>1, <1>2, CounterMoves
  <2> QED
    BY <2>1, <2>2, <2>3, <2>4, <2>5, CounterSteps
<1> QED
  BY <1>3, <1>4, IInvHolds, PTL DEF Spec

-----------------------------------------------------------------------------
(* What the threads share, in every environment *)

\* The structures on the list are allocated and appear once.
ListAlive ==
  \A i \in DOMAIN clients :
    /\ clients[i] \in heap
    /\ \A j \in DOMAIN clients : clients[i] = clients[j] => i = j

\* A structure that cleanup has taken off the list and not freed yet is
\* allocated, is no longer on the list, and is in the hands of one thread.
VictimsApart ==
  \A c \in Conns : pc[c] = "free" /\ victim[c] # None =>
    /\ victim[c] \in heap
    /\ \A i \in DOMAIN clients : clients[i] # victim[c]
    /\ \A d \in Conns : pc[d] = "free" /\ victim[d] = victim[c] => d = c

\* Between accept() and its place on the list a connection has no structure.
NotYetQueued == \A c \in Conns : pc[c] = "accepted" => c \notin heap

\* Every thread that may still give back a reference has one.
ContextHeld == ctxRefs >= 1 + CountAt(Referring, pc)

\* The invariant behind SharedAlive, which needs no assumption on Cases.
SharedInv == TypeOK /\ ListAlive /\ VictimsApart /\ NotYetQueued /\ ContextHeld

\* A step that leaves the list and the heap alone, and brings no connection to
\* "free" or to "accepted", keeps the three parts about structures.
LEMMA StructuresKept ==
  ASSUME SharedInv, UNCHANGED <<clients, heap>>,
         \A d \in Conns : pc'[d] = "free" => pc[d] = "free" /\ victim'[d] = victim[d],
         \A d \in Conns : pc'[d] = "accepted" => pc[d] = "accepted" \/ d \notin heap
  PROVE  ListAlive' /\ VictimsApart' /\ NotYetQueued'
<1>1. ListAlive'
  BY DEF SharedInv, ListAlive
<1>2. VictimsApart'
  BY DEF SharedInv, VictimsApart
<1>3. NotYetQueued'
  BY DEF SharedInv, NotYetQueued
<1> QED
  BY <1>1, <1>2, <1>3

\* The steps that change the list, the heap or the victim of a cleanup.
LEMMA StructureSteps ==
  ASSUME SharedInv, [Next]_vars
  PROVE  \/ ListAlive' /\ VictimsApart' /\ NotYetQueued'
         \/ \E c \in Conns : Queue(c) \/ Remove(c) \/ FreeConn(c)
<1> USE DEF Goto
<1>0. pc \in [Conns -> Running \cup Waiting] /\ victim \in [Conns -> Conns \cup {None}]
  BY DEF SharedInv, TypeOK
<1>1. ASSUME NEW c \in Conns, NEW f \in Fds, Accept(c, f)
      PROVE  ListAlive' /\ VictimsApart' /\ NotYetQueued'
  BY <1>0, <1>1, StructuresKept DEF Accept
<1>2. ASSUME NEW c \in Conns, Spawn(c) \/ SpawnFails(c)
      PROVE  ListAlive' /\ VictimsApart' /\ NotYetQueued'
  BY <1>0, <1>2, StructuresKept DEF Spawn, SpawnFails, shared
<1>3. ASSUME NEW c \in Conns, Start(c) \/ SslNew(c) \/ Respond(c) \/ NoUpstreamFd(c)
                              \/ Forward(c)
      PROVE  ListAlive' /\ VictimsApart' /\ NotYetQueued'
  BY <1>0, <1>3, StructuresKept DEF Start, SslNew, Respond, NoUpstreamFd, Forward, shared
<1>4. ASSUME NEW c \in Conns, CloseFile(c) \/ CloseUpstream(c) \/ CloseConn(c)
      PROVE  ListAlive' /\ VictimsApart' /\ NotYetQueued'
  BY <1>0, <1>4, StructuresKept DEF CloseFile, CloseUpstream, CloseConn
<1>5. ASSUME NEW c \in Conns, Exit(c)
      PROVE  ListAlive' /\ VictimsApart' /\ NotYetQueued'
  BY <1>0, <1>5, StructuresKept DEF Exit
<1>6. ASSUME NEW c \in Conns, NEW f \in Fds,
             OpenFile(c, f) \/ OpenIndexThenProxy(c, f) \/ OpenUpstream(c, f)
      PROVE  ListAlive' /\ VictimsApart' /\ NotYetQueued'
  BY <1>0, <1>6, StructuresKept DEF OpenFile, OpenIndexThenProxy, OpenUpstream, Opens
<1>7. ASSUME NEW c \in Conns, PeerStep(c)
      PROVE  ListAlive' /\ VictimsApart' /\ NotYetQueued'
  BY <1>0, <1>7, StructuresKept
     DEF PeerStep, Handshake, HandshakeFails, Connect, ConnectFails, RecvDone, RecvFails,
         shared
<1>8. CASE Die \/ UNCHANGED vars
  BY <1>8, StructuresKept DEF Die, vars, shared
<1> QED
  BY <1>1, <1>2, <1>3, <1>4, <1>5, <1>6, <1>7, <1>8
     DEF Next, Arrival, MainStep, ThreadStep, ClientMissing, AcceptFails, Quiet, Crash,
         PeerGone, WildRead

\* queueClientConnection() links a structure that was not allocated before.
LEMMA QueueShares ==
  ASSUME SharedInv, NEW c \in Conns, Queue(c)
  PROVE  ListAlive' /\ VictimsApart' /\ NotYetQueued'
<1>1. /\ clients \in Seq(Conns) /\ clients' = <<c>> \o clients
      /\ heap' = heap \cup {c} /\ victim' = victim
      /\ pc[c] = "accepted" /\ pc' = [pc EXCEPT ![c] = "queued"]
      /\ pc \in [Conns -> Running \cup Waiting]
  BY DEF Queue, Goto, SharedInv, TypeOK
<1>2. c \notin heap
  BY <1>1 DEF SharedInv, NotYetQueued
<1>3. /\ Len(clients) \in Nat /\ DOMAIN clients = 1 .. Len(clients)
      /\ DOMAIN clients' = 1 .. Len(clients) + 1
      /\ \A i \in 1 .. Len(clients) + 1 :
           clients'[i] = IF i = 1 THEN c ELSE clients[i - 1]
  BY <1>1
<1>4. \A i \in DOMAIN clients' : i # 1 => i - 1 \in DOMAIN clients /\ clients'[i] = clients[i - 1]
  BY <1>3
<1>5. \A i \in DOMAIN clients : clients[i] \in heap
  BY DEF SharedInv, ListAlive
<1>6. ListAlive'
  <2> SUFFICES ASSUME NEW i \in DOMAIN clients', NEW j \in DOMAIN clients'
               PROVE  clients'[i] \in heap' /\ (clients'[i] = clients'[j] => i = j)
    BY DEF ListAlive
  <2>1. clients'[i] \in heap'
    BY <1>1, <1>3, <1>4, <1>5
  <2>2. CASE i = 1 \/ j = 1
    BY <2>1, <2>2, <1>2, <1>3, <1>4, <1>5
  <2>3. CASE i # 1 /\ j # 1
    <3>1. clients[i - 1] = clients[j - 1] => i - 1 = j - 1
      BY <2>3, <1>4 DEF SharedInv, ListAlive
    <3> QED
      BY <3>1, <2>1, <2>3, <1>3, <1>4
  <2> QED
    BY <2>1, <2>2, <2>3
<1>7. VictimsApart'
  <2> SUFFICES ASSUME NEW d \in Conns, pc'[d] = "free", victim'[d] # None
               PROVE  /\ victim'[d] \in heap'
                      /\ \A i \in DOMAIN clients' : clients'[i] # victim'[d]
                      /\ \A e \in Conns : pc'[e] = "free" /\ victim'[e] = victim'[d] => e = d
    BY DEF VictimsApart
  <2>1. pc[d] = "free" /\ victim[d] # None
    BY <1>1
  <2>2. /\ victim[d] \in heap
        /\ \A i \in DOMAIN clients : clients[i] # victim[d]
        /\ \A e \in Conns : pc[e] = "free" /\ victim[e] = victim[d] => e = d
    BY <2>1 DEF SharedInv, VictimsApart
  <2>3. \A i \in DOMAIN clients' : clients'[i] # victim[d]
    BY <2>2, <1>2, <1>3, <1>4
  <2> QED
    BY <2>2, <2>3, <1>1
<1>8. NotYetQueued'
  BY <1>1 DEF SharedInv, NotYetQueued
<1> QED
  BY <1>6, <1>7, <1>8

\* removeClientConnection() hands the structure it unlinks to one thread.
LEMMA RemoveShares ==
  ASSUME SharedInv, NEW c \in Conns, Remove(c)
  PROVE  ListAlive' /\ VictimsApart' /\ NotYetQueued'
<1>1. /\ clients \in Seq(Conns) /\ heap' = heap
      /\ pc[c] = "cleanup" /\ pc' = [pc EXCEPT ![c] = "free"]
      /\ pc \in [Conns -> Running \cup Waiting]
      /\ victim \in [Conns -> Conns \cup {None}]
  BY DEF Remove, Goto, SharedInv, TypeOK
<1>2. NotYetQueued'
  BY <1>1 DEF SharedInv, NotYetQueued
<1>3. CASE clients' = clients /\ victim' = [victim EXCEPT ![c] = None]
  <2>1. ListAlive'
    BY <1>1, <1>3 DEF SharedInv, ListAlive
  <2>2. VictimsApart'
    BY <1>1, <1>3 DEF SharedInv, VictimsApart
  <2> QED
    BY <2>1, <2>2, <1>2
<1>4. ASSUME NEW k \in DOMAIN clients, clients' = Without(k),
             victim' = [victim EXCEPT ![c] = clients[k]]
      PROVE  ListAlive' /\ VictimsApart'
  <2>1. /\ Len(clients) \in Nat /\ DOMAIN clients = 1 .. Len(clients)
        /\ DOMAIN clients' = 1 .. Len(clients) - 1
        /\ \A i \in 1 .. Len(clients) - 1 :
             clients'[i] = IF i < k THEN clients[i] ELSE clients[i + 1]
    BY <1>1, <1>4, WithoutType
  <2>2. /\ \A i \in DOMAIN clients : clients[i] \in heap
        /\ \A i, j \in DOMAIN clients : clients[i] = clients[j] => i = j
    BY DEF SharedInv, ListAlive
  <2> DEFINE Old(i) == IF i < k THEN i ELSE i + 1
  <2>3. \A i \in DOMAIN clients' :
          Old(i) \in DOMAIN clients /\ Old(i) # k /\ clients'[i] = clients[Old(i)]
    BY <2>1
  <2>4. \A i, j \in DOMAIN clients' : Old(i) = Old(j) => i = j
    BY <2>1
  <2> HIDE DEF Old
  <2>5. ListAlive'
    BY <1>1, <2>2, <2>3, <2>4 DEF ListAlive
  <2>6. \A i \in DOMAIN clients' : clients'[i] # clients[k]
    BY <2>2, <2>3
  <2>7. VictimsApart'
    <3> SUFFICES ASSUME NEW d \in Conns, pc'[d] = "free", victim'[d] # None
                 PROVE  /\ victim'[d] \in heap'
                        /\ \A i \in DOMAIN clients' : clients'[i] # victim'[d]
                        /\ \A e \in Conns : pc'[e] = "free" /\ victim'[e] = victim'[d] => e = d
      BY DEF VictimsApart
    <3>1. \A e \in Conns \ {c} : pc'[e] = pc[e] /\ victim'[e] = victim[e]
      BY <1>1, <1>4
    <3>2. victim'[c] = clients[k] /\ clients[k] # None /\ clients[k] \in heap
      BY <1>1, <1>4, <2>2, NoneIsNoConn
    <3>3. \A e \in Conns \ {c} : pc'[e] = "free" /\ victim'[e] # None =>
            /\ victim[e] \in heap
            /\ \A i \in DOMAIN clients : clients[i] # victim[e]
            /\ \A g \in Conns : pc[g] = "free" /\ victim[g] = victim[e] => g = e
      BY <3>1 DEF SharedInv, VictimsApart
    <3>4. CASE d = c
      <4>1. \A e \in Conns \ {c} : pc'[e] = "free" => victim'[e] # clients[k]
        BY <3>1, <3>2, <3>3, <1>4
      <4> QED
        BY <3>4, <4>1, <3>2, <2>6, <1>1
    <3>5. CASE d # c
      <4>1. /\ victim'[d] = victim[d] /\ pc[d] = "free"
            /\ victim[d] \in heap
            /\ \A i \in DOMAIN clients : clients[i] # victim[d]
            /\ \A g \in Conns : pc[g] = "free" /\ victim[g] = victim[d] => g = d
        BY <3>1, <3>3, <3>5
      <4>2. \A i \in DOMAIN clients' : clients'[i] # victim[d]
        BY <4>1, <2>3
      <4>3. \A e \in Conns : pc'[e] = "free" /\ victim'[e] = victim[d] => e = d
        BY <4>1, <3>1, <3>2, <1>4
      <4> QED
        BY <4>1, <4>2, <4>3, <1>1
    <3> QED
      BY <3>4, <3>5
  <2> QED
    BY <2>5, <2>7
<1> QED
  BY <1>2, <1>3, <1>4 DEF Remove

\* cleanup() frees a structure that is no longer on the list and that no other
\* thread is about to free.
LEMMA FreeShares ==
  ASSUME SharedInv, NEW c \in Conns, FreeConn(c)
  PROVE  ListAlive' /\ VictimsApart' /\ NotYetQueued'
<1>1. /\ heap' = heap \ {victim[c]} /\ clients' = clients /\ victim' = victim
      /\ pc[c] = "free" /\ pc' = [pc EXCEPT ![c] = "close"]
      /\ pc \in [Conns -> Running \cup Waiting]
      /\ clients \in Seq(Conns)
  BY DEF FreeConn, Goto, SharedInv, TypeOK
<1>2. \A i \in DOMAIN clients : clients[i] # victim[c]
  BY <1>1, NoneIsNoConn DEF SharedInv, VictimsApart
<1>3. ListAlive'
  BY <1>1, <1>2 DEF SharedInv, ListAlive
<1>4. VictimsApart'
  BY <1>1 DEF SharedInv, VictimsApart
<1>5. NotYetQueued'
  BY <1>1 DEF SharedInv, NotYetQueued
<1> QED
  BY <1>3, <1>4, <1>5

\* Whatever fails or breaks, and whichever descriptor a thread closes by
\* mistake, the list links allocated structures once each and the SSL_CTX is
\* not freed under the main thread (queueClientConnection,
\* removeClientConnection, cleanup).
THEOREM SharedStaysAlive == Spec => []SharedAlive
<1>1. Init => SharedInv
  <2> SUFFICES ASSUME Init PROVE SharedInv
    OBVIOUS
  <2>1. TypeOK
    BY DEF Init, TypeOK, Fds, NoFd, Waiting
  <2>2. ListAlive /\ VictimsApart /\ NotYetQueued
    BY DEF Init, ListAlive, VictimsApart, NotYetQueued
  <2>3. ContextHeld
    BY CountsAtStart DEF Init, ContextHeld
  <2> QED
    BY <2>1, <2>2, <2>3 DEF SharedInv
<1>2. SharedInv /\ [Next]_vars => SharedInv'
  <2> SUFFICES ASSUME SharedInv, [Next]_vars PROVE SharedInv'
    OBVIOUS
  <2>1. TypeOK'
    BY TypeStep DEF SharedInv
  <2>2. ListAlive' /\ VictimsApart' /\ NotYetQueued'
    BY StructureSteps, QueueShares, RemoveShares, FreeShares
  <2>3. ContextHeld'
    <3>0. /\ DOMAIN pc = Conns /\ ctxRefs \in Int
          /\ ctxRefs >= 1 + CountAt(Referring, pc)
      BY DEF SharedInv, TypeOK, ContextHeld
    <3> SUFFICES ctxRefs' >= 1 + CountAt(Referring, pc')
      BY DEF ContextHeld, CountAt
    <3>1. CASE Plain
      BY <3>0, <3>1, PlainCounts
    <3>2. ASSUME NEW c \in Conns, Start(c) \/ SslNew(c) \/ FreeConn(c) \/ Exit(c)
          PROVE  ctxRefs' >= 1 + CountAt(Referring, pc')
      <4>1. \/ (Start(c) \/ Exit(c)) /\ ctxRefs' = ctxRefs
            \/ SslNew(c) /\ ctxRefs' = ctxRefs + 2
            \/ FreeConn(c) /\ (ctxRefs' = ctxRefs \/ ctxRefs' = ctxRefs - 1)
        BY <3>2 DEF Start, SslNew, Exit, FreeConn
      <4> QED
        BY <3>0, <4>1, CounterMoves
    <3> QED
      BY <3>1, <3>2, CounterSteps
  <2> QED
    BY <2>1, <2>2, <2>3 DEF SharedInv
<1>3. SharedInv => SharedAlive
  <2> SUFFICES ASSUME SharedInv PROVE SharedAlive
    OBVIOUS
  <2>1. CountAt(Referring, pc) \in Nat
    BY ConnsFinite, FS_Subset, FS_CardinalityType DEF CountAt
  <2> QED
    BY <2>1 DEF SharedInv, SharedAlive, ListAlive, ContextHeld, TypeOK
<1> QED
  BY <1>1, <1>2, <1>3, PTL DEF Spec
=============================================================================
