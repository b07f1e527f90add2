# A verification development for the OG web server

`ogws` is a small nginx-like web server in C: it reads an nginx-style
configuration, forks one process per listening port (or several), and each
process serves plain HTTP with an epoll loop or HTTPS with one thread per
connection. Requests are answered from files, from a directory listing, or by
passing them to an upstream over HTTP or FastCGI.

This directory holds TLA+ models of the parts that carry the program's logic,
TLC configurations that check them on small instances, and proofs checked by
TLAPS for every instance. `PROJECT.json` ties each definition to the lines it
models (`map`), lists the runs, the mutants that show that each property can
fail, the hazards the properties are aimed at, and the findings.

## 1. The system

| Part | Source | State it keeps | Operations |
|---|---|---|---|
| Process lifecycle | `ogws.c`, `daemonize.c`, `parseArgs.c` | pid file, `procList`, parent and child processes | start, daemonize, write the pid file, fork loop, parent-death signal, `-s stop/quit` |
| Configuration | `parseConfig.c`, `og_ws.y`, `serverState.c` | global lists of ports, locations, logs, upstream servers; list of servers | one `f_` function per directive, end of a block, `checkConfig`, `openLogFiles` |
| Event server | `server.c` | epoll set, event array, client list | wait, accept, receive, reply, cleanup |
| TLS server | `tlsServer.c` | client list, `SSL_CTX`, `threadCount`, thread per connection | accept, queue, start thread, handshake, request, cleanup |
| Client list | `serverState.c`, `socket.c` | linked list of `_clientConnection`, `mutex` | insert at the head, find and remove by descriptor |
| Request handling | `processInput.c`, `getDocRoot.c`, `handleGetVerb.c`, `handleTryFiles.c`, `handleProxyPass.c`, `handleFastCGIPass.c`, `sendErrorResponse.c` | `_request`, local and upstream descriptors, static `tryTarget` | choose server and location, open, send, proxy, fall back |
| Directory listing | `showDirectoryListing.c` | global list `fragments` | build, count, send and free the lines of the page |
| Upstream groups | `getUpstreamServer.c`, `parseConfig.c` | list of nodes and `currentServer` per group | build from weights, take the next server, connect |
| Socket input/output | `socket.c` | byte counts | send, receive, send a file, over TLS or not |
| Supporting code | `expandIncludeFiles.c`, `parseMimeTypes.c`, `log.c`, `getTimestamp.c`, `og_ws.l` | tables read once | string and file handling |

How the parts meet: the configuration is read once, before any fork, and the
processes inherit it. `startProcesses` turns the ports into `procList`, and the
process of an element calls `server` or `tlsServer`. Both servers enter
connections in the client list and call `processInput`, which chooses a handler
by the type flags of the location. A handler finds its client again by
descriptor number (`getClient`), and `cleanup` removes it by descriptor number.
Within a TLS process all threads share the descriptor table, the client list
(behind a mutex), the `SSL_CTX`, a thread counter (behind another mutex), and,
without any lock, the upstream groups, the static `tryTarget` of
`handleTryFiles.c` and the list `fragments` of `showDirectoryListing.c`.

What is hard here:

* descriptor numbers name connections, and the kernel hands a number out again
  as soon as it is closed, while other threads still hold copies of it;
* `recvData` closes a socket that its caller closes again;
* one batch of epoll events is worked off while handling it changes the
  descriptors;
* `currentServer` is moved without a lock and is NULL for a moment; `tryTarget`
  is set, checked and read three more times, and `fragments` is built and emptied,
  without one;
* `send` and `recv` are taken to do all their work at once, or to fail in a way
  that counts as progress; a request or a status line is expected in one piece;
* no socket has a timeout, and the event loop blocks in `recv` and `send`;
* children must die with their parent, and a pid file outlives its process;
* the parser collects everything in global lists and moves them at the end of
  a block, so that what is left behind changes the next block.

What makes each part correct:

| Part | Properties |
|---|---|
| Client list and descriptors | no descriptor outlives its request, the list names each open socket once, a lookup finds the caller's own structure, nobody reads a freed structure, nobody closes another's descriptor |
| TLS server | reference and thread counts balance, every connection completes |
| Event server | no stale event, list and sockets agree, every request is dealt with |
| Upstream groups | a round visits each node of a group once, an address belongs to one server, `currentServer` never stays NULL |
| Socket input/output | what the client gets is the response and what the upstream gets is the request, in order and to the end; Content-Length is true; every request ends |
| Request handling | one response and one log record per request, but for malformed `try_files` and upstreams that are not there or say nothing; the right server; a fallback is the request's own; files are closed; a wrong pointer is followed for known reasons only |
| Directory listing | a page shows its own directory, and leaves nothing for the next one |
| Lifecycle | one process per element, every port given its processes, also when some end by themselves; children go with their parent, a stop hits the daemon, a service without pid file stays down |
| Configuration | ports consistent, nothing carried over between servers, requests that are passed on have a target, TLS ports a certificate, logs share descriptors by path, undefined behaviour only where it is known |

## 2. Modules

| Module | Models | Checked by |
|---|---|---|
| `ConnectionTable` | abstract specification: what the list of connections promises | refined by the two servers |
| `TlsServer` | `tlsServer.c` and, per request, the descriptors of the handlers | `MCTlsServer`, `TlsServerProofs` |
| `EventServer` | the loop of `server.c` | `MCEventServer`, `EventServerProofs` |
| `UpstreamGroup` | building and rotating upstream groups | `MCUpstreamGroup`, `UpstreamGroupProofs` |
| `Lifecycle` | commands, daemon, pid file, forks | `MCLifecycle`, `LifecycleProofs` |
| `Config` | parsing, checking, opening of logs | `MCConfig`, `ConfigProofs` |
| `SocketIO` | the loops of `socket.c` and of the proxy handlers, byte by byte | `MCSocketIO`, `SocketIOProofs` |
| `Listing` | the shared list of `showDirectoryListing.c` | with `Requests`, `ListingProofs` |
| `Requests` | a request from its first line to its log record, in several threads; extends `Listing` | `MCRequests`, `RequestsProofs` |

A constant `Cases` says which misfortunes of the environment may happen (an
upstream resets, `pthread_create` fails, ...). A run names the ones it allows,
so that each property is claimed exactly where it holds. Definitions marked `mutant of`
are wrong on purpose: they are what the named action would be with a plausible
bug, and no specification uses them.

### ConnectionTable

`sock` (descriptor to connection) and `listed`. A connection is given an unused
descriptor, entered in the table while it holds one, leaves the table, and only
then gives the descriptor back. The two servers show that they implement it
with `listed` mapped to the structures linked in `clients`.

### TlsServer

A connection, its client structure and its thread are one element of `Conns`,
used again when the thread has ended. `sock` and `opened` together are the
descriptor table; `clients`, `connFd` and `heap` are the list, its `fd` fields
and what is allocated; `ctxRefs` and `threadCount` are the two counts, and `ssls` the
SSL objects, each with two references to the `SSL_CTX`, of which `cleanup` gives
back one; no SSL is ever freed, so both numbers grow with every connection, and
`MaxSsls` bounds a behaviour by accepting no more. `pc[c]`
is the place in `processRequest`; the main thread is between `accept` and
`pthread_create` for the connection `cur`.

| Action | Code |
|---|---|
| `Accept`, `AcceptFails` | `accept`; on failure `tlsServer` returns and the process ends |
| `Queue`, `Spawn`, `SpawnFails` | `queueClientConnection`; `pthread_create`, whose result is ignored |
| `Start`, `SslNew`, `Handshake`, `HandshakeFails` | `processRequest` up to `processInput` |
| `Respond`, `OpenFile`, `CloseFile` | answers without a descriptor; `serveFile` and the directory listing |
| `OpenIndexThenProxy` | `handleTryFiles` hands an opened index file to the proxy |
| `OpenUpstream` to `CloseUpstream` | `getUpstreamServer` and the proxy handlers, with `recvData` |
| `Remove`, `FreeConn`, `CloseConn`, `Exit` | `cleanup` and the end of the thread |
| `PeerGone`, `WildRead`, `ClientMissing` | ends of the process: SIGPIPE at any stage that writes to a client (the handshake included) or to an upstream, a read of freed memory, `exit(1)` |

The steps between which another thread can run are separate actions: each
system call and each section under a mutex is one. A read of a freed structure
is a choice of any descriptor, or a crash. Bytes are left out: a request is
known by which descriptors it opens. FastCGI and HTTP upstreams take the same
steps.

### EventServer

One loop with stage `at` and current event `cur`; `batch` is the part of the
event array not handled yet, in any order (the order epoll returns events in is
not specified). `peer[c]` is what the client has done: sent, closed, reset. The
peers act at any moment, also between `epoll_wait` and the handling. An event
remembers whose socket it was for; only properties look at that. A failed
`recv` closes the socket inside `recvData` and goes on to send an error response
to a closed descriptor; `sendData` then counts failures as progress (`spin`)
until its counter wraps, which the model allows and does not force.

`Start` creates and adds the listening socket; `EpollFails` stands for every
error of socket, bind, listen and epoll calls, each of which ends the process.
Only the listening socket is non-blocking, so the stages `recv`, `upstream` and
`reply` hold the whole loop. The mapping to `ConnectionTable` lets a descriptor
count as the connection's until `cleanup` closes it (`Held`): that `recvData` has
closed it before is invisible, because nothing is accepted in between.

### UpstreamGroup

First the configuration is read: `DeclareServer` puts one node per unit of
weight in front of `servers`, `EndGroup` gives the list to a group (and does not
empty it), `NameGroup` is a `proxy_pass` that names the group. Then workers run
`getUpstreamServer`, one access to `currentServer` at a time: copy the port,
copy the address, load `next`, store it, check for NULL, wrap, connect. The
process is a plain server with one worker or a TLS server with all of them.

### Lifecycle

Commands and servers are processes in `Pids`; a pid is used again when its process ends.
`pidFile` is absent, empty or holds a pid, and `writers` are the processes that have the
present file open (a removed file swallows what is written to it). `End` lets processes
end together with the children that have asked for the parent-death signal. A serving
process may end by itself (`ServerEnds`: `bind` or `accept` fails, SIGPIPE, a
segmentation fault), and a child whose `prctl` fails exits (`ArmFails`); nobody restarts
them, and since the parent does not wait for its children, one that ends before its
parent stays a zombie until the parent is gone (`EndWith`). `slot[p]` is the process's
pointer into `procList` and `left[p]` its `pcount`. `Run` is the administrator; without
the case `overlap` a command is given only when the last one is done.

### Config

The file is any sequence, within the bounds, of the directives of one
vocabulary; a vocabulary holds directives that share state, and files that mix
vocabularies are left to the proofs, because no directive reads what one of another
vocabulary has written. Each `f_` function is an action with the guard of the
grammar (which block it may occur in). A location block has up to `MaxInLocation`
directives; `expires` and a `fastcgi_param` in one (`Expires`, `LocationParam`) make no
location. `CloseServer` is `f_server`, `CloseHttp` is
`f_http`, `CheckServers` is `checkConfig` with `popServer`, `OpenLogFile` one turn
of `openLogFiles`. `said` and `written` keep what each block says (its `uris`, what its
location directives have asked for, `asks`, and which of them came `first`), for the
properties to compare with. Freed constants, freed list nodes and an
allocation of no length lead to the stage `undefined`.

### SocketIO

One request, followed from its first `recv` to its end; nothing here is shared. Bytes
have an identity, so that a property can tell a lost, repeated or foreign byte. `Send`,
`SendFails` and `SendInterrupted` are the outcomes of one turn of the loop in
`sendData`, with `nleft` an int of a small width and `ptr` the pointer, which may go
back in front of the buffer. `Recv`, `RecvEnd`, `RecvFails`, `RecvInterrupted` are
`recvData`, whose room, pointer and result an interruption shifts by one. At the stage
`pass` the same loop sends the request to the upstream, in up to three pieces
(`ForwardRequest`: headers, X-Forwarded-For, body); `asked` is what the upstream is to
get and `passed` what it has got. An upstream that resets its connection there makes the
next write raise SIGPIPE, or the loop spin. `ServeFile` and `SendFile` are `serveFile`
and its one attempt to send the body; `Status` and `NoStatus` end a turn of the
forwarding loop, which the HTTP and FastCGI handlers have word for word. The program
installs no signal handler, so an interruption only happens with signals the models know
nothing of; the case is there because the code has branches for it. `EAGAIN` cannot
happen, because client and upstream sockets block.

### Listing and Requests

`Listing` is the global list: `Look`, `LinkFirst`, `Walk`, `Link`, `Fill` are
`addFragment`, cut where another thread can see the difference; `Count`, `Test`,
`Take`, `Advance`, `SendFragment` are the response. A thread that follows NULL or a
freed node ends the behaviour with the process (`died`), and nodes are not used
again. `page[w].alone` remembers whether another listing was under way.

`Requests` is everything around it. A step runs up to the next use of `tryTarget` or
`fragments`, since all else is local to the thread. A job starts with the server of its
process's port (`ServerOfPort`), whose log takes a 400 or 413. `FindServer` and
`Dispatch` are the choice of server, location and handler; `TryFiles` sets the static
variable, `CheckTarget` reads it again to see whether it is NULL, and `Allocate`, `Copy`
and `OpenTarget` or `NoTargetFile` read it after that; `met` is set in a request whose
`tryTarget` another thread changes in between (`Trying`). `Reply` adds a response and
its log record. `Forward` answers with what the upstream said; beside it, the upstream
may be missing (`NoUpstream` follows NULL: no address, an empty group, a group another
thread is moving in), refuse (`UpstreamFails`), end before its first byte (`NoAnswer`
logs a 200 and sends nothing) or cost the process (`ForwardDies`). Each write to a
client may raise SIGPIPE. What `stat`, `open` and `opendir` answer is arbitrary. A path
is a sequence of components, a regular expression the set of what it matches, and a
request's data is complete, empty, without a blank, cut short or too long. How bytes
reach the client is `SocketIO`, and which descriptors the files have is `TlsServer`;
here open files are counted.

## 3. Runs

Passing runs. "States" are distinct states with the symmetry of the run.

| Run | Bounds | States | Shows |
|---|---|---|---|
| `tls_safety` | 3 connections, 4 descriptors, `MaxSsls` 3, peers may vanish | 264 008 | `NoStrayFd`, `ListDescriptors`, `LookupOwn`, `StructAlive`, `Accounting`, `CloseOwn`, refinement of `ConnectionTable` |
| `tls_faults` | 2 connections, 3 descriptors, `MaxSsls` 3, upstreams reset, descriptors leak, threads fail to start, peers vanish | 104 903 | `SharedAlive`, `ConnectionCompletes` |
| `event_server` | 3 connections, 2 descriptors, batches of 2, clients reset | 59 189 | `NoStaleEvent`, `ListMatchesSockets`, refinement of `ConnectionTable`, `RequestsAnswered` |
| `group_rotation` | 1 or 2 workers, 2 servers, weights -1 to 2, 2 server directives in up to 2 blocks | 499 216 | `FullRounds`, `CurrentServer` |
| `lifecycle_sequential` | 6 processes, 0 to 2 workers per port, 2 ports, forks may fail, servers may end by themselves | 2 263 | `PortsServed`, `PidFileTrue` |
| `config` | 2 servers with up to 2 ports, names and index files each, 2 location blocks with up to 2 of 7 directives each, 2 log paths and the default, with and without `-n` | 1 327 993 | `PortsConsistent`, `OwnDirectives`, `TargetKnown`, `LogsShared`, `UndefinedExplained` |
| `socket_io` | buffer of 3 bytes, status in 2, int of -6 to 5, 4 bytes per transfer, up to 6 bytes, 1 interruption, requests in 1 to 3 pieces, every case | 831 472 | `InOrder`, `PassedOn`, `AllDelivered`, `WholeIfArrived`, `DeathsExplained`, `RequestEnds` |
| `requests` | 2 threads, 2 requests of 16 kinds, 3 configurations, upstreams that are missing, silent or deadly, directories of up to 2 entries, with and without `-n` | 1 933 116 | `AnsweredOnce`, `OwnFallback`, `ListingExact`, `DeathExplained`, `NothingLeft`, `RightServer` |

A type invariant is checked by `tls_safety` and by the passing runs of the other modules, but
for `UpstreamGroup`, whose types are only proved.

Why the bounds are enough for the cases to happen. Three connections are needed for the
descriptor hazards: one closes a number, a second is given it, a third is given it again
after a wrong close. Four descriptors are one client socket each and one for a handler,
so that running out of descriptors also happens; an element of `Conns` is used again,
and with `MaxSsls` 3 a connection can be accepted three times over, beside threads that
have not made their SSL yet, and those that never start. With two connections and three
descriptors one thread can already close the socket of the other, and two leaked
descriptors leave one for everybody. Three connections against two descriptors make the
event loop's `accept` fail and hand every number out again, and with the listening
socket more descriptors are ready than the two events of a batch, the smallest batch in
which one event can spoil another. Two workers are the smallest race on `currentServer`;
two directives of weight up to 2 make lists of none to four nodes, in one block or
inherited from block to block. Six processes are the daemon with its three children, a
stop command, and one that a failed start has left behind; any of the daemon's processes
may end in between. Two server blocks show what one leaves for the next, and the default
server after them what is left at the end; two location blocks, in one server or in two,
show what one leaves for the other, and four directives in one location bring every pair
of them together in either order, before or after any third; three logs and the default
are the shortest list in which a path comes back after another one. In `socket_io` six
bytes are two full buffers and more than one transfer or an int can hold, so that exact
multiples, short reads, the int of Content-Length and the wrap of `nleft` all happen; an
upstream can hang up before, between and after the three pieces of a request. Two
threads are the smallest race on `tryTarget` and on `fragments`; two requests suffice
for one to find what another has left behind, and two entries for a list that is longer
than its head. The configurations have every kind of location, with and without an
upstream to go to, servers that share names and ports, and listings with `try_files`.

### Runs that expect a violation

Each one is a statement of the repository that the code does not keep
(`findings` in `PROJECT.json` quotes both sides).

| Run | Statement | What happens |
|---|---|---|
| `tls_reset` | `LookupOwn` | an upstream's reset leads to two closes of one number, the second hits another client, and a lookup finds a third one |
| `group_threads` | `NoNullDereference` | a thread follows `currentServer` while another has it at NULL |
| `group_weights` | `WeightedRoundRobin` | the second group of a file also has the servers of the first one, beside its own weights |
| `lifecycle_orphan` | `NoOrphans` | a parent killed between `fork` and `prctl` leaves a child |

The descriptor properties of `tls_safety` are therefore claimed without `upstreamReset`
and `tryProxyIndex`, and `tls_faults` says what is left with them. `FullRounds` compares
a group's traffic with the nodes of its list, and with weights only for the first
group, since `group_weights` shows what the others get.

### Behaviour of the code that the models contain and no run states

These follow the source, differ from what its comments or documentation say,
and shape what the properties can claim.

* `pthread_create`'s result is ignored (`tlsServer.c:63`): the connection stays
  listed and open for ever (`SpawnFails`, stage `unserved`), so `tls_safety`, which
  says that no descriptor is left behind, is without that case, and
  `ConnectionCompletes` excepts it. That such a connection disturbs no other is proved
  (`Benign` allows it).
* An `SSL` is never freed, and with it one of its two references to the `SSL_CTX`:
  `Accounting` states by how much the count grows.
* A process that ends is not started again: `PortsServed` counts it among the
  processes its port was given.
* `handleTryFiles` opens the index file and then proxies, which leaves the
  descriptor open (`OpenIndexThenProxy`, `OpenIndex`) until `accept` fails;
  `NothingLeft` leaves such locations out. The comment there also names
  `fastcgi_pass`, which is not looked at.
* A malformed `try_files` is answered with 404 and then answered again, or the
  fallback that is not there is followed (`AnsweredOnce`, `DeathExplained`). Since
  `tryTarget` is set and checked in two steps, a request of another thread in between
  can give a well-formed one that 404, or take it from a malformed one.
* An upstream that accepts no connection leaves the client without any answer, and
  one that closes before its first byte leaves it without an answer and a 200 in
  the log (`UpstreamFails`, `NoAnswer`).
* A Host without a port says nothing of the port the request came in on:
  `getServerForHost` takes the first port of the first server, and `RightServer` claims
  no more than that.
* Threads overwrite each other's `tryTarget` and `fragments`: another location's
  file is served under this one's path, lines of two directories are mixed, or the
  process dies. `OwnFallback` and `ListingExact` say what holds without an overlap.
* A request that does not reach the end of its Host line in one `recv` ends the
  process (`Cut`); so does an unknown host under `-n`, after its 404 (`NoServer`).
* A request whose location matches nothing gets 500, where the comment in
  `getDocRoot.c` speaks of the default document root.
* A response of an upstream is cut at the first buffer that `recv` does not fill,
  and a first segment without its status line ends the process (`NoStatus`).
* A failed `send` makes `nleft` grow until it wraps, 2^31 calls later; `RequestEnds`
  rests on that.
* Nothing handles SIGPIPE: a client's reset before the response ends the process
  (`PeerGone`, `ReplyToReset`), and so does an upstream that hangs up while it is passed
  the request (`Sigpipe` at the stage `pass`).
* A group whose servers all have weight 0 or are backups is empty, if no
  earlier block leaves it others, and its first request follows NULL.
* `-s stop` removes the pid file, and `checkConfig` refuses to start without one
  (`PidFileMissing`); `Touch` is the administrator who creates it again. A start
  that fails after writing leaves a stale pid behind, so `PidFileTrue` is
  about the times when a daemon runs.
* `listen ssl 443` sets the flag on the port before (`FTls`), which
  `PortsConsistent` says nothing of; a `root` after
  another directive has made the location, a second group and a second `listen *`
  free what is not their own (`UndefinedExplained`).
* The directives of a second location block change the location of the first one
  (`Pending`), and `f_location` then overwrites its match: a server with the five location
  blocks of `test/location-test.conf` has one location. `OwnDirectives` says so.
* A location block with nothing but `expires` makes no location, and `f_location` changes
  the match of the shared default, for later servers too; `OwnDirectives` leaves the
  match out of such files.
* `proxyPassToUpstreamGroup` gives a new location `TYPE_UPSTREAM_GROUP` and not
  `TYPE_PROXY_PASS` (`parseConfig.c:312`), so that local files are served for it; the same
  way a root and a `fastcgi_pass` to a group make a location that is passed on and has no
  address, which `checkDocRoots` accepts (`TargetKnown` names it).
* With TLS the result of `read` in `sendFile` is not looked at: after a short read the
  client gets what lies in memory behind the bytes read (`InOrder` excepts them).
* `proxyPassToHost` gives a new location `TYPE_PROXY_PASS` for `fastcgi_pass`,
  too.
* `-n` removes the first server of the file instead of the default one, which is
  last, and frees logs that are still on the list (`FollowDanglingLog`).
* The certificate is only looked for when `server->tls` is set, and nothing sets
  it, so `ServerOk` does not mention it.

### Fairness

`TlsServer`: weak fairness of the main thread, of each thread's own steps, and
of what each thread does when its peer has acted. The kernel schedules every
thread; that peers and upstreams answer or close in the end is an assumption
the code needs, because it sets no timeout. No fairness is assumed of new
connections or of crashes.

`EventServer`: weak fairness of the loop as a whole: there is one thread and it
never waits for a lock. An upstream's answer is a step of the loop, which again
assumes that upstreams answer or close: without it one silent upstream holds the
loop in `recv`, and no other client is served. That the loop of `sendData` over a
closed descriptor ends is what `socket_io` shows. Strong fairness for each
descriptor says that `epoll_wait`, which returns ready descriptors in turn, does
not pass one over for ever when more are ready than fit. Nothing is assumed about
peers.

`SocketIO`: weak fairness of the thread, whose client reads what it is sent, and of
the upstream, which sends its whole response and closes unless it keeps its
connections open. No fairness of resets or interruptions.

The other modules have safety properties only.

## 4. Proofs

Each module named `...Proofs` extends the module it is about, and its theorems hold
for every value of the constants that satisfies the named assumptions of that
module. TLC evaluates those assumptions in the runs.

| Theorem | States | Under |
|---|---|---|
| `TlsServerProofs!TypeCorrect` | `TypeOK` | any environment |
| `TlsServerProofs!NothingLeaks` | `NoStrayFd` | `Benign`, every thread can be started |
| `TlsServerProofs!ListNamesOpenSockets`, `LookupFindsOwn`, `NoFreedStructRead`, `OnlyOwnersClose` | `ListDescriptors`, `LookupOwn`, `StructAlive`, `CloseOwn` | `Benign` |
| `TlsServerProofs!CountersExact` | `Accounting` | `Benign` |
| `TlsServerProofs!TableRefinement` | `ImplementsConnectionTable` | `Benign` |
| `TlsServerProofs!SharedStaysAlive` | `SharedAlive` | any environment |
| `EventServerProofs!TypeCorrect`, `EventsStayFresh`, `ListIsSockets` | `TypeOK`, `NoStaleEvent`, `ListMatchesSockets` | any environment |
| `EventServerProofs!TableRefinement` | `ImplementsConnectionTable` | any environment |
| `UpstreamGroupProofs!TypeCorrect`, `CurrentServerKept`, `RotationIsFull` | `TypeOK`, `CurrentServer`, `FullRounds` | any workers, servers, weights |
| `LifecycleProofs!TypeCorrect`, `SlotsStayApart` | `TypeOK`, `SlotsApart` | any overlap of commands |
| `LifecycleProofs!PidFileStaysTrue`, `PortsAreServed`, `LoopIsComplete` | `PidFileTrue`, `PortsServed`, `EveryElementGiven` | `Sequential` |
| `RequestsProofs!AnswersCounted`, `FallbackIsOwn`, `NothingIsLeft`, `ServerIsRight` | `AnsweredOnce`, `OwnFallback`, `NothingLeft`, `RightServer` | any threads, sites, requests |
| `RequestsProofs!DeathsOutsideListings` | `DeathsFit`: `DeathExplained` but for the listings | any threads, sites, requests |
| `ListingProofs!ListInvariance` | `LInv`: the list is acyclic, and what a listing that is alone finds on it | any threads, sites, requests, directories |
| `ListingProofs!TypesKept`, `ListingsAreExact`, `DeathsAreExplained` | `TypeOK`, `ListingExact`, `DeathExplained` | any threads, sites, requests, directories |
| `SocketIOProofs!TypeCorrect`, `BytesInOrder`, `WholeResponse`, `DeathsAreExplained` | `TypeOK`, `InOrder`, `WholeIfArrived`, `DeathsExplained` | all sizes, any environment |
| `SocketIOProofs!Delivered` | `AllDelivered` | `Unwrapped` |
| `ConfigProofs!TypeCorrect`, `ConsistentPorts`, `DirectivesAreOwn`, `TargetsAreKnown`, `DescriptorsAreShared` | `TypeOK`, `PortsConsistent`, `OwnDirectives`, `TargetKnown`, `LogsShared` | any vocabulary, files of any length |
| `ConfigProofs!UndefinedIsExplained` | `UndefinedExplained` | no server is named `*` |

The hypotheses:

* `Benign`: neither `upstreamReset` nor `tryProxyIndex` is a case; clients may vanish
  and threads may fail to start. With either case a number is closed twice or never,
  as `tls_reset` shows, and the properties do not hold. `NothingLeaks` also excludes
  `threadLimit`: the socket of a thread that was not started is never closed.
* `Sequential`: `overlap` is not a case. Two starts at once write one pid file.
* `Unwrapped`: the buffer, or a header, and the interruptions fit in an int. With
  more interruptions `nleft` wraps and the rest of a piece is not sent. `socket_io` has
  five for INT_MAX, three for the buffer and one interruption, which fit.
* No server is named `*`: `dupName` compares names only, so after `server_name *` one
  `listen *` frees its constant. The names of the runs are model values, which are not `*`.

Assumptions on constants that the proofs needed and that say something of the code: a
process has a worker (`SomeWorker`); the pids are not the marks for an absent or empty
file (`NoPidInMarks`); the threads are finitely many (`WorkersFinite`); a path is a
sequence (`InputsHavePaths`); what the parser hands over are lists of servers with
positive ports, since `f_listen` takes no others, and with names and locations
(`SitesAreServers`); a buffer and a response header fit in an int (`BuffersFitInt`); the
port lists of a configuration are finite sequences (`PortListsAreLists`).

### The invariants

None of the properties is inductive, and each proof module begins with an invariant that
is. TLC has checked each of them on the constants of its module's run, and the
proof is one lemma for each action or shape of step.

`TlsServerProofs`. `LookupOwn` speaks about one stage only, and says nothing about the
stages before it that make it true. `IInv` ties each stage to what a connection holds
there, and back: from `accept` to `close` its descriptor is its own socket, and every
open socket belongs to a connection in those stages (`SocksHeld`); the same for the
handler's descriptor (`OpenedUsed`); the structure is allocated exactly from queueing to
`free` (`StructsHeld`); the list holds the connections from queueing to unlinking, each
once (`ListServing`). The converse halves make it inductive: that an unused number is
held by nobody is what keeps `accept` from giving one number to two connections.
Unlinking rests on `OwnEntry`: the first node with the number of the thread is the node
of the thread. `NothingLeaks` adds that no stage is `unserved` (`AllStarted`).
`CountersExact` adds how the cardinality of the threads at certain stages moves when one
thread does. With faults a thread may unlink and free another's structure; `SharedInv`
then says that what is listed is allocated, that a structure which is unlinked and not
yet freed is allocated and in the hands of one thread, that a connection has no
structure before it is queued, and that `ctxRefs` is at least the references held.

`EventServerProofs`. The event being handled names its connection's descriptor, which
only `recvData` may have closed before `cleanup` (`CurHeld`); the rest of the batch is of
other descriptors, all open and unchanged (`BatchFresh`); a connection that waits to be
accepted holds no descriptor (`PeersKnown`); list and descriptors agree but for the
connection being queued or unlinked (`ListHeld`). `NoStaleEvent` is then a matter of no
number being given out while it has an event left in the array.

`UpstreamGroupProofs`. `Placed` says what a worker has in hand at each stage, `CurrentKept`
that whoever leaves NULL in `currentServer` is about to wrap it, `AloneUndisturbed` that
a lone worker finds the pointer where it left it. The first half of `CurrentServer`
holds for any number of racing workers: another one's store may repair or repeat the
NULL, and the last to store is always one that checks.

`FullRounds` follows from two more invariants, which `IInv` supports. `Weighed`
compares lists with weights: each list, also the one under construction, has as many
nodes of a server as the blocks so far weigh it, which for the first group is its own
block. Weights are folds, which add up the
positions of a sequence in an order that a CHOOSE fixes; so the proof first shows that
any order gives the same sum (`AnyOrder`, from the least size of a set of positions at
which two orders could differ), and only then that one more directive adds its weight.
`Rotating` compares what a group has been sent with its list: for some position `p`, the
latest requests are the servers up to `p`, going back around the ring (`Turned`), and the
worker is on its way to the next position (`Spot`). A full round then visits each position
once, and the bijection between requests and nodes carries the shares over. It is only
claimed of a worker that is alone: racing workers repeat and skip servers.

`LifecycleProofs`. `Counting` relates `pcount` to the pointer into `procList`, `Kin`
places the children behind their parent's pointer, `Apart` keeps them on different
elements. With commands one after the other, `FileFits` says what the pid file holds at
each stage of a start and of a stop, and `Complete` that every element behind the
pointer has a child, alive or a zombie: a process that ends by itself keeps its element
while its parent lives. `SlotsStayApart` and `LoopIsComplete` together say that the
children and the elements of `procList` correspond one to one. The rest of `PortsServed`
is about `addPort`: going over the ports puts each of them into `procList`
`worker_processes` times (`Listed`). That is a fold, too; it is unfolded one port at a
time (`FoldExists`, `FoldSteps`), and a least port after which the list could be wrong
does not exist.

`RequestsProofs`. `JobsFit` counts the responses a request has got at each stage, with
the 404 that `CheckTarget` may have sent before (`Early`), and says what it has in hand
of `tryTarget` until it meets another one; `FilesCounted` says that the open files are
those of the threads about to serve one, unless a location leaks; `FragmentsTaken` that
the last listing leaves no head behind; `Routed` rests on the lemma that a set of
positions has a first one, got from well-foundedness.

`ListingProofs`. `next` fields are read along chains, which a recursive function
computes; it is defined only if the chains end. Threads link, send and free each other's
nodes, so `Acyclic` gives every node a rank that grows along `next`; a node that is
linked has no successor yet and nothing points to it (`HeapFits`), so it can be given
the highest. Out of ranks the proof builds the function of the chains (`OneRankMore`)
and shows that there is no other. For a listing that is alone, `OnPath` says at each
stage which of its nodes are linked and which are sent: the list is exactly those in
between, in the order of the directory. A listing that another one overlaps is not
`alone` from then on, and `AloneFits` keeps the two apart.

`SocketIOProofs`. Bytes are numbered by their place in the answer (`ByteOf`). `Counted`:
while the client is there, the bytes it has got, those `sendData` has left and those in
later pieces add up to what is due at this stage, one more for each interrupted call.
`Ordered`: without interruptions, what is out is the answer so far, but for what TLS
sends behind the bytes that `read` has got, and the buffer continues it. `Pointing`:
`nleft` and `ptr` move together until `nleft` wraps. `FirstBuffer` and `Arrived` relate
the result of the last `recvData` to what has been received. These hold for every buffer
size, int width and length: the wrap of `nleft` is part of the proof (`AsIntFacts`), and
so is a pointer in front of the buffer.

`ConfigProofs`. `Mirrors`: a global list is what the block has said so far, the latest
first, and then its default; each directive keeps it, `Reverse` and `Moved` turn it into
`OrDefault`, and what is left at the end of a block is the list of an empty block.
`Pended` says what the directives of a block tell of the pending location: which of
host, group, fallback and root it has (`Holds`), and so whether the next directive frees
what is not its own, and which flags (`Flagged`), which is what `TargetKnown` needs.
`MatchesSaid` says that the pending location matches what the latest closed location
block says, as long as every block has made a location of its own; the default keeps its
match for the same reason. `ServersFit` holds these facts for the servers made so far: a
server keeps what its block says while logs and blocks are appended. `Checked` is what
`checkConfig` has let pass; with `PortsFit`, that the default port is only marked by an
`ssl` that comes too early, it gives the certificate. `FdsFit` is the sharing of
descriptors for the logs opened so far: a log has its own number or that of an earlier
log with its path.

### Only model-checked

* Liveness (`ConnectionCompletes`, `RequestsAnswered`, `RequestEnds`): fairness and ENABLED are
  out of the prover's reach.
* `PassedOn` of `socket_io`, which has no theorem yet.
* The violation runs.

Every other invariant that a passing run checks is stated by a theorem. What the proofs take
from the model are its bounds as constants of any size (`MaxGroups`, `MaxNodes`, ...), not
their values in the runs.

## 5. Not modelled

* the text of requests, headers, log records, traces and time stamps; FastCGI
  records, which the code does not write either: it forwards the HTTP request;
* include files (copying lines to a temporary file, recursively and without a
  bound), the lexer, and MIME types (a table read once, character by character,
  before the first request; a tab is searched for past the end of a line);
* directives that set a single value, such as `user`, `pid`, `sendfile` or
  `ssl_protocols`, and that most of these values are never used;
* the length of a numeric `fastcgi_param` that is a power of ten, one byte short,
  which the smallest block of the allocator absorbs;
* the system beyond its calls: name resolution, the TLS protocol, permissions.

## 6. Plan

In this order; all but item 7 and the rest of item 8 are done.

1. The descriptors, list and threads of the TLS server, the abstract table, and
   the proofs about them.
2. The event loop, refining the same table.
3. Upstream groups, from weights to rotation, with racing threads.
4. Process lifecycle; configuration.
5. `SocketIO`, which `EventServer` relies on for the end of the stage `spin`.
6. `Listing` and `Requests`: one response per request over all handlers, threads
   sharing `fragments` and `tryTarget`.
7. Composition of `Config` with `Lifecycle` (the ports of an accepted
   configuration are the ones served) and of `TlsServer` with `UpstreamGroup`.
8. Proofs of the invariants, action properties and refinements that the passing runs
   check (section 4); `PassedOn` is left.
