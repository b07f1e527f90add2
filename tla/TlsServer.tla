----------------------------- MODULE TlsServer -----------------------------
(***************************************************************************)
(* The threaded TLS server: tlsServer.c, with the connection list of       *)
(* serverState.c, the socket helpers of socket.c and the descriptors that  *)
(* the request handlers open and close on the way.                         *)
(*                                                                         *)
(* The main thread accepts, queues a client structure and starts a thread  *)
(* for it.  All threads share one descriptor table (the kernel gives out   *)
(* the lowest free number), one list of client structures, one SSL_CTX and *)
(* one thread counter.  A connection, its client structure and its thread  *)
(* are one element of Conns, which is used again once the thread is gone.  *)
(*                                                                         *)
(* The bytes exchanged are left out: a request is known by the descriptors *)
(* it makes its handler open.                                              *)
(***************************************************************************)
EXTENDS Integers, Sequences, FiniteSets

CONSTANTS Conns,    \* connections the model follows at one time
          MaxFd,    \* descriptors the process may have for connections
          MaxSsls,  \* bound: accept() no more once so many SSLs are made
          None,     \* no connection
          Cases     \* what the environment and the configuration bring about

CaseKinds == {"upstreamReset",  \* recv() from an upstream fails
              "threadLimit",    \* pthread_create() fails
              "peerGone",       \* a write to a client or upstream raises SIGPIPE
              "tryProxyIndex"}  \* try_files + proxy_pass on a directory with index

ASSUME ConnsFinite  == IsFiniteSet(Conns)
ASSUME NoneIsNoConn == None \notin Conns
ASSUME MaxFdIsNat   == MaxFd \in Nat
ASSUME MaxSslsIsNat == MaxSsls \in Nat
ASSUME CasesAreKinds == Cases \subseteq CaseKinds

Fds  == 1..MaxFd
NoFd == 0

VARIABLES
  up,           \* the process has not exited
  sock,         \* sock[f]: the connection whose client socket is f
  opened,       \* opened[f]: the connection whose handler opened f
  clients,      \* the linked list `clients`, head first
  heap,         \* client structures that are allocated
  connFd,       \* connFd[c]: the field c->fd
  ctxRefs,      \* reference count of the SSL_CTX
  ssls,         \* SSL objects that are allocated
  threadCount,  \* the counter behind mutex1
  pc,           \* where connection c's thread is
  cur,          \* main thread: the connection between accept and its thread
  fd,           \* fd[c]: clientFd of c's request, then the argument of cleanup
  resFd,        \* resFd[c]: localFd or upstream of c's request
  victim        \* victim[c]: the structure cleanup took off the list

shared == <<sock, opened, clients, heap, connFd, ctxRefs, ssls, threadCount>>
vars == <<up, shared, pc, cur, fd, resFd, victim>>

\* stages at which the connection's thread exists
Running == {"start", "sslnew", "shake", "input", "file", "proxy", "connect",
            "forward", "recv", "shut", "cleanup", "free", "close", "exit"}
\* before the thread exists, or without one
Waiting == {"none", "accepted", "queued", "unserved"}

Listed == {clients[k] : k \in DOMAIN clients}

TypeOK ==
  /\ up \in BOOLEAN
  /\ sock \in [Fds -> Conns \cup {None}]
  /\ opened \in [Fds -> Conns \cup {None}]
  /\ clients \in Seq(Conns)
  /\ heap \in SUBSET Conns
  /\ connFd \in [Conns -> Fds \cup {NoFd}]
  /\ ctxRefs \in Int
  /\ ssls \in Int
  /\ threadCount \in Int
  /\ pc \in [Conns -> Running \cup Waiting]
  /\ cur \in Conns \cup {None}
  /\ fd \in [Conns -> Fds \cup {NoFd}]
  /\ resFd \in [Conns -> Fds \cup {NoFd}]
  /\ victim \in [Conns -> Conns \cup {None}]

-----------------------------------------------------------------------------
(* The kernel's descriptor table *)

Free(f) == sock[f] = None /\ opened[f] = None

\* the number open(), socket() and accept() return
LowestFree(f) == Free(f) /\ \A g \in Fds : g < f => ~Free(g)

FdsExhausted == \A f \in Fds : ~Free(f)

\* close() of a number that is not open fails and changes nothing
CloseFd(f) ==
  /\ sock'   = [g \in Fds |-> IF g = f THEN None ELSE sock[g]]
  /\ opened' = [g \in Fds |-> IF g = f THEN None ELSE opened[g]]

(* The list of client connections, searched under `mutex` *)

\* k is the first node whose fd is f
FirstWithFd(f, k) ==
  /\ k \in DOMAIN clients
  /\ connFd[clients[k]] = f
  /\ \A j \in DOMAIN clients : j < k => connFd[clients[j]] # f

NoneWithFd(f) == \A k \in DOMAIN clients : connFd[clients[k]] # f

Without(k) == [i \in 1 .. Len(clients) - 1 |->
                 IF i < k THEN clients[i] ELSE clients[i + 1]]

\* What reading c->fd may give: the structure's field, or anything once freed
FdReads(c) == IF c \in heap THEN {connFd[c]} ELSE Fds \cup {NoFd}

-----------------------------------------------------------------------------
Init ==
  /\ up = TRUE
  /\ sock = [f \in Fds |-> None]
  /\ opened = [f \in Fds |-> None]
  /\ clients = <<>>
  /\ heap = {}
  /\ connFd = [c \in Conns |-> NoFd]
  /\ ctxRefs = 1
  /\ ssls = 0
  /\ threadCount = 0
  /\ pc = [c \in Conns |-> "none"]
  /\ cur = None
  /\ fd = [c \in Conns |-> NoFd]
  /\ resFd = [c \in Conns |-> NoFd]
  /\ victim = [c \in Conns |-> None]

Goto(c, from, to) == pc[c] = from /\ pc' = [pc EXCEPT ![c] = to]

Die == up' = FALSE /\ UNCHANGED <<shared, pc, cur, fd, resFd, victim>>

(* The main thread: tlsServer *)

Accept(c, f) ==
  /\ cur = None
  /\ ssls < MaxSsls
  /\ c \notin heap
  /\ LowestFree(f)
  /\ Goto(c, "none", "accepted")
  /\ sock' = [sock EXCEPT ![f] = c]
  /\ fd' = [fd EXCEPT ![c] = f]
  /\ cur' = c
  /\ UNCHANGED <<up, opened, clients, heap, connFd, ctxRefs, ssls, threadCount,
                 resFd, victim>>

\* mutant of AcceptFails: the result of accept() is used unchecked
AcceptErrorIgnored ==
  /\ cur = None /\ FdsExhausted
  /\ \E c \in Conns \ heap :
       /\ Goto(c, "none", "accepted")
       /\ fd' = [fd EXCEPT ![c] = -1]
       /\ cur' = c
  /\ UNCHANGED <<up, shared, resFd, victim>>

\* accept() fails for want of a descriptor: the server function returns and
\* the process ends with every thread in it
AcceptFails == cur = None /\ FdsExhausted /\ Die

Queue(c) ==
  /\ cur = c
  /\ Goto(c, "accepted", "queued")
  /\ heap' = heap \cup {c}
  /\ connFd' = [connFd EXCEPT ![c] = fd[c]]
  /\ clients' = <<c>> \o clients
  /\ UNCHANGED <<up, sock, opened, ctxRefs, ssls, threadCount, cur, fd, resFd, victim>>

Spawn(c) ==
  /\ cur = c
  /\ Goto(c, "queued", "start")
  /\ cur' = None
  /\ UNCHANGED <<up, shared, fd, resFd, victim>>

\* the result of pthread_create() is not looked at
SpawnFails(c) ==
  /\ "threadLimit" \in Cases
  /\ cur = c
  /\ Goto(c, "queued", "unserved")
  /\ cur' = None
  /\ UNCHANGED <<up, shared, fd, resFd, victim>>

(* A connection's thread: processRequest *)

Start(c) ==
  /\ Goto(c, "start", "sslnew")
  /\ threadCount' = threadCount + 1
  /\ UNCHANGED <<up, sock, opened, clients, heap, connFd, ctxRefs, ssls, cur, fd,
                 resFd, victim>>

\* SSL_new() refers to the SSL_CTX twice (its ctx and its session_ctx).  Nothing
\* calls SSL_free()
SslNew(c) ==
  /\ Goto(c, "sslnew", "shake")
  /\ ctxRefs' = ctxRefs + 2
  /\ ssls' = ssls + 1
  /\ UNCHANGED <<up, sock, opened, clients, heap, connFd, threadCount, cur, fd,
                 resFd, victim>>

\* mutant of Handshake: the newest connection is taken for the only one
HandshakeNewest(c) ==
  /\ Goto(c, "shake", "input")
  /\ clients # <<>>
  /\ fd' = [fd EXCEPT ![c] = connFd[Head(clients)]]
  /\ UNCHANGED <<up, shared, cur, resFd, victim>>

\* SSL_accept() succeeds and the request is set up from the structure
Handshake(c) ==
  /\ Goto(c, "shake", "input")
  /\ \E f \in FdReads(c) : fd' = [fd EXCEPT ![c] = f]
  /\ UNCHANGED <<up, shared, cur, resFd, victim>>

\* mutant of HandshakeFails: the error path frees the structure itself
HandshakeFailsFrees(c) ==
  /\ Goto(c, "shake", "cleanup")
  /\ heap' = heap \ {c}
  /\ UNCHANGED <<up, sock, opened, clients, connFd, ctxRefs, ssls, threadCount, cur, fd,
                 resFd, victim>>

HandshakeFails(c) ==
  /\ Goto(c, "shake", "cleanup")
  /\ UNCHANGED <<up, shared, cur, fd, resFd, victim>>

\* processInput() answers without opening anything, or could not open it
Respond(c) ==
  /\ Goto(c, "input", "cleanup")
  /\ UNCHANGED <<up, shared, cur, fd, resFd, victim>>

Opens(c, f) ==
  /\ LowestFree(f)
  /\ opened' = [opened EXCEPT ![f] = c]
  /\ UNCHANGED <<up, sock, clients, heap, connFd, ctxRefs, ssls, threadCount, cur, fd,
                 victim>>

\* a file for serveFile(), or the directory that showDirectoryListing() reads
OpenFile(c, f) ==
  /\ Goto(c, "input", "file")
  /\ Opens(c, f)
  /\ resFd' = [resFd EXCEPT ![c] = f]

\* handleTryFiles() opens the index file and then proxies the request, which
\* leaves req->localFd behind
OpenIndexThenProxy(c, f) ==
  /\ "tryProxyIndex" \in Cases
  /\ Goto(c, "input", "proxy")
  /\ Opens(c, f)
  /\ UNCHANGED resFd

\* mutant of CloseFile: the loop that sends does not stop at the end of file
CloseFileNever(c) ==
  /\ Goto(c, "file", "file")
  /\ UNCHANGED <<up, shared, cur, fd, resFd, victim>>

\* mutant of CloseFile: serveFile() returns without close(req->localFd)
CloseFileForgotten(c) ==
  /\ Goto(c, "file", "cleanup")
  /\ UNCHANGED <<up, shared, cur, fd, resFd, victim>>

CloseFile(c) ==
  /\ Goto(c, "file", "cleanup")
  /\ CloseFd(resFd[c])
  /\ UNCHANGED <<up, clients, heap, connFd, ctxRefs, ssls, threadCount, cur, fd,
                 resFd, victim>>

\* getUpstreamServer(), called from handleProxyPass() or handleFastCGIPass():
\* the two take the same steps from here to CloseUpstream, and the map names
\* one or the other for each
OpenUpstream(c, f) ==
  /\ \/ Goto(c, "input", "connect")
     \/ Goto(c, "proxy", "connect")
  /\ Opens(c, f)
  /\ resFd' = [resFd EXCEPT ![c] = f]

NoUpstreamFd(c) ==
  /\ FdsExhausted
  /\ Goto(c, "proxy", "cleanup")
  /\ UNCHANGED <<up, shared, cur, fd, resFd, victim>>

Connect(c) ==
  /\ Goto(c, "connect", "forward")
  /\ UNCHANGED <<up, shared, cur, fd, resFd, victim>>

ConnectFails(c) ==
  /\ Goto(c, "connect", "cleanup")
  /\ CloseFd(resFd[c])
  /\ UNCHANGED <<up, clients, heap, connFd, ctxRefs, ssls, threadCount, cur, fd,
                 resFd, victim>>

\* the headers go out, with X-Forwarded-For from getClient()
Forward(c) ==
  /\ Goto(c, "forward", "recv")
  /\ ~NoneWithFd(fd[c])
  /\ UNCHANGED <<up, shared, cur, fd, resFd, victim>>

\* "Missing client connection!": exit(1)
ClientMissing(c) == pc[c] = "forward" /\ NoneWithFd(fd[c]) /\ Die

\* mutant of RecvDone: the socket is closed at the end of the data, too
RecvDoneCloses(c) ==
  /\ Goto(c, "recv", "shut")
  /\ CloseFd(resFd[c])
  /\ UNCHANGED <<up, clients, heap, connFd, ctxRefs, ssls, threadCount, cur, fd,
                 resFd, victim>>

RecvDone(c) ==
  /\ Goto(c, "recv", "shut")
  /\ UNCHANGED <<up, shared, cur, fd, resFd, victim>>

\* recvData() closes the socket itself when recv() fails
RecvFails(c) ==
  /\ "upstreamReset" \in Cases
  /\ Goto(c, "recv", "shut")
  /\ CloseFd(resFd[c])
  /\ UNCHANGED <<up, clients, heap, connFd, ctxRefs, ssls, threadCount, cur, fd,
                 resFd, victim>>

CloseUpstream(c) ==
  /\ Goto(c, "shut", "cleanup")
  /\ CloseFd(resFd[c])
  /\ UNCHANGED <<up, clients, heap, connFd, ctxRefs, ssls, threadCount, cur, fd,
                 resFd, victim>>

\* the stages at which the client or the upstream is written to
PeerGone(c) ==
  /\ "peerGone" \in Cases
  /\ pc[c] \in {"shake", "input", "file", "forward", "recv"}
  /\ Die

\* the stages at which the structure is read: a freed one may crash the process
WildRead(c) ==
  /\ c \notin heap
  /\ pc[c] \in {"sslnew", "shake", "cleanup"}
  /\ Die

(* cleanup(c->fd) *)

\* mutant of Remove: a match at the head of the list is not unlinked
RemoveNotHead(c) ==
  /\ Goto(c, "cleanup", "free")
  /\ \E f \in FdReads(c) :
       /\ fd' = [fd EXCEPT ![c] = f]
       /\ \/ \E k \in DOMAIN clients :
               /\ FirstWithFd(f, k)
               /\ victim' = [victim EXCEPT ![c] = clients[k]]
               /\ clients' = IF k = 1 THEN clients ELSE Without(k)
          \/ /\ NoneWithFd(f)
             /\ victim' = [victim EXCEPT ![c] = None]
             /\ UNCHANGED clients
  /\ UNCHANGED <<up, sock, opened, heap, connFd, ctxRefs, ssls, threadCount, cur, resFd>>

Remove(c) ==
  /\ Goto(c, "cleanup", "free")
  /\ \E f \in FdReads(c) :
       /\ fd' = [fd EXCEPT ![c] = f]
       /\ \/ \E k \in DOMAIN clients :
               /\ FirstWithFd(f, k)
               /\ victim' = [victim EXCEPT ![c] = clients[k]]
               /\ clients' = Without(k)
          \/ /\ NoneWithFd(f)
             /\ victim' = [victim EXCEPT ![c] = None]
             /\ UNCHANGED clients
  /\ UNCHANGED <<up, sock, opened, heap, connFd, ctxRefs, ssls, threadCount, cur, resFd>>

\* mutant of FreeConn: SSL_free() is added, which drops both references of the
\* SSL, and SSL_CTX_free() is kept
FreeConnTwice(c) ==
  /\ Goto(c, "free", "close")
  /\ ctxRefs' = ctxRefs - 3
  /\ ssls' = ssls - 1
  /\ heap' = heap \ {victim[c]}
  /\ UNCHANGED <<up, sock, opened, clients, connFd, threadCount, cur, fd, resFd,
                 victim>>

\* mutant of FreeConn: the thread frees its own structure, not the one removed
FreeConnOwn(c) ==
  /\ Goto(c, "free", "close")
  /\ ctxRefs' = IF victim[c] = None THEN ctxRefs ELSE ctxRefs - 1
  /\ heap' = heap \ {c}
  /\ UNCHANGED <<up, sock, opened, clients, connFd, ssls, threadCount, cur, fd,
                 resFd, victim>>

FreeConn(c) ==
  /\ Goto(c, "free", "close")
  /\ ctxRefs' = IF victim[c] = None THEN ctxRefs ELSE ctxRefs - 1
  /\ heap' = heap \ {victim[c]}
  /\ UNCHANGED <<up, sock, opened, clients, connFd, ssls, threadCount, cur, fd,
                 resFd, victim>>

CloseConn(c) ==
  /\ Goto(c, "close", "exit")
  /\ CloseFd(fd[c])
  /\ UNCHANGED <<up, clients, heap, connFd, ctxRefs, ssls, threadCount, cur, fd,
                 resFd, victim>>

Exit(c) ==
  /\ Goto(c, "exit", "none")
  /\ threadCount' = threadCount - 1
  /\ fd' = [fd EXCEPT ![c] = NoFd]
  /\ resFd' = [resFd EXCEPT ![c] = NoFd]
  /\ victim' = [victim EXCEPT ![c] = None]
  /\ connFd' = [connFd EXCEPT ![c] = IF c \in heap THEN @ ELSE NoFd]
  /\ UNCHANGED <<up, sock, opened, clients, heap, ctxRefs, ssls, cur>>

-----------------------------------------------------------------------------
MainStep == \/ AcceptFails
            \/ \E c \in Conns : Queue(c) \/ Spawn(c) \/ SpawnFails(c)

\* what thread c does by itself
ThreadStep(c) ==
  \/ Start(c) \/ SslNew(c) \/ Respond(c) \/ CloseFile(c) \/ NoUpstreamFd(c)
  \/ Forward(c) \/ ClientMissing(c) \/ CloseUpstream(c)
  \/ Remove(c) \/ FreeConn(c) \/ CloseConn(c) \/ Exit(c)
  \/ \E f \in Fds : \/ OpenFile(c, f)
                   \/ OpenIndexThenProxy(c, f)
                   \/ OpenUpstream(c, f)

\* what thread c does when its peer or its upstream has acted
PeerStep(c) ==
  \/ Handshake(c) \/ HandshakeFails(c)
  \/ Connect(c) \/ ConnectFails(c) \/ RecvDone(c) \/ RecvFails(c)

Crash(c) == PeerGone(c) \/ WildRead(c)

Arrival == \E c \in Conns, f \in Fds : Accept(c, f)

\* the process has ended, or it waits in accept() with nobody to serve
Quiet == /\ ~up \/ \A c \in Conns : pc[c] \in {"none", "unserved"}
         /\ UNCHANGED vars

Next == \/ /\ up
           /\ \/ Arrival \/ MainStep
              \/ \E c \in Conns : ThreadStep(c) \/ PeerStep(c) \/ Crash(c)
        \/ Quiet

Spec == Init /\ [][Next]_vars

(***************************************************************************)
(* The threads are scheduled by the kernel, which starves none of them.    *)
(* The code sets no timeout on any socket, so that progress also needs     *)
(* each peer and upstream to answer or to close its end in the end.        *)
(***************************************************************************)
Fairness == /\ WF_vars(up /\ MainStep)
            /\ \A c \in Conns : /\ WF_vars(up /\ ThreadStep(c))
                                /\ WF_vars(up /\ PeerStep(c))

FairSpec == Spec /\ Fairness

-----------------------------------------------------------------------------
(* Properties *)

\* No descriptor outlives the request it was opened for, while every thread can
\* be started: a client socket belongs to a connection that is being set up or
\* that a thread is serving, and a file or an upstream socket is the one its
\* handler will close (socket.c cleanup, serveFile, handleProxyPass).
NoStrayFd ==
  \A f \in Fds :
    /\ sock[f] # None => pc[sock[f]] \notin {"none", "unserved", "exit"}
    /\ opened[f] # None =>
         /\ pc[opened[f]] \in {"file", "connect", "forward", "recv", "shut"}
         /\ resFd[opened[f]] = f

\* The list never holds two structures with the same descriptor, and each one
\* in it names the open socket of its own connection, so that searching it by
\* descriptor (getClientConnection, removeClientConnection) is unambiguous.
ListDescriptors ==
  \A i \in DOMAIN clients :
    /\ connFd[clients[i]] \in Fds
    /\ sock[connFd[clients[i]]] = clients[i]
    /\ \A j \in DOMAIN clients :
         connFd[clients[i]] = connFd[clients[j]] => i = j

\* getClient(req->clientFd) returns the structure of the connection that asks:
\* X-Forwarded-For carries the address of that client and of no other.
LookupOwn ==
  \A c \in Conns : pc[c] = "forward" =>
    \E k \in DOMAIN clients : FirstWithFd(fd[c], k) /\ clients[k] = c

\* A thread reads its client structure (c->ctx, c->fd) only while it is
\* allocated: no cleanup of another thread has freed it.
StructAlive ==
  \A c \in Conns :
    pc[c] \in {"start", "sslnew", "shake", "input", "file", "proxy", "connect",
              "forward", "recv", "shut", "cleanup"} => c \in heap

\* SSL_new takes two references to the shared SSL_CTX, cleanup gives one back
\* for the structure it frees and no SSL is ever freed: the count is the main
\* thread's reference, one for each SSL made since the start and one more for
\* each thread in between, so that it grows by one with every connection.
\* threadCount is the number of threads that have started and not ended.
Accounting ==
  /\ ctxRefs = 1 + ssls + Cardinality({c \in Conns :
        pc[c] \in Running \ {"start", "sslnew", "close", "exit"}})
  /\ threadCount = Cardinality({c \in Conns : pc[c] \in Running \ {"start"}})

\* A client socket is closed by the last step of its own thread's cleanup and
\* a handler's descriptor by that handler: no thread closes what another one
\* has open.
CloseOwn ==
  [][\A f \in Fds :
       /\ sock[f] # None /\ sock'[f] # sock[f] =>
            pc[sock[f]] = "close" /\ pc'[sock[f]] = "exit"
       /\ opened[f] # None /\ opened'[f] # opened[f] =>
            pc'[opened[f]] # pc[opened[f]]]_vars

\* The list and the sockets behave as the table of connections promises.
CT == INSTANCE ConnectionTable WITH listed <- Listed
ImplementsConnectionTable == CT!Spec

\* Whatever closes whichever descriptor, what the threads share stays usable:
\* the list never links a freed structure, nor one structure twice, because
\* unlinking under the mutex happens before free(), in whichever thread, and
\* SSL_new never gets a freed SSL_CTX.
SharedAlive ==
  /\ \A i \in DOMAIN clients :
       /\ clients[i] \in heap
       /\ \A j \in DOMAIN clients : clients[i] = clients[j] => i = j
  /\ ctxRefs >= 1

\* An accepted connection is served and closed, unless its thread cannot be
\* started (tlsServer.c:63) or the process ends.
ConnectionCompletes ==
  \A c \in Conns : pc[c] = "accepted" ~> (pc[c] \in {"none", "unserved"} \/ ~up)

(***************************************************************************)
(* The invariant behind the four descriptor properties, inductive when no  *)
(* upstream connection breaks and no request takes the try_files path that *)
(* leaves a descriptor open: each stage of a connection is tied to what it *)
(* holds in the descriptor table, on the heap and in the list, and back.   *)
(***************************************************************************)
Serving == {"queued", "unserved", "start", "sslnew", "shake", "input", "file",
            "proxy", "connect", "forward", "recv", "shut", "cleanup"}
HoldingSock == Serving \cup {"accepted", "free", "close"}
UsingFd == {"file", "connect", "forward", "recv", "shut"}

SocksHeld ==
  /\ \A c \in Conns : pc[c] \in HoldingSock => fd[c] \in Fds /\ sock[fd[c]] = c
  /\ \A f \in Fds : sock[f] # None => pc[sock[f]] \in HoldingSock /\ fd[sock[f]] = f

OpenedUsed ==
  /\ \A c \in Conns : pc[c] \in UsingFd => resFd[c] \in Fds /\ opened[resFd[c]] = c
  /\ \A f \in Fds : opened[f] # None => pc[opened[f]] \in UsingFd /\ resFd[opened[f]] = f
  /\ \A f \in Fds : sock[f] = None \/ opened[f] = None

StructsHeld ==
  \A c \in Conns :
    /\ pc[c] \in Serving \cup {"free"} <=> c \in heap
    /\ c \in heap => connFd[c] = fd[c]
    /\ pc[c] = "free" => victim[c] = c

ListServing ==
  /\ \A i \in DOMAIN clients : pc[clients[i]] \in Serving
  /\ \A c \in Conns : pc[c] \in Serving => \E i \in DOMAIN clients : clients[i] = c
  /\ \A i, j \in DOMAIN clients : clients[i] = clients[j] => i = j

IInv == TypeOK /\ SocksHeld /\ OpenedUsed /\ StructsHeld /\ ListServing
=============================================================================
