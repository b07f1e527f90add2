------------------------------ MODULE Requests ------------------------------
(***************************************************************************)
(* What a worker does with a request: processInput.c, getDocRoot.c,        *)
(* handleTryFiles.c, handleGetVerb.c, sendErrorResponse.c and log.c, with  *)
(* the directory listings of module Listing.  The workers are the threads  *)
(* of a TLS server; with one worker it is the event server.                *)
(*                                                                         *)
(* Everything of a request is local to its worker but `fragments` and the  *)
(* static variable tryTarget, so that a step runs up to the next use of    *)
(* one of these.  The file system, the clients and the upstream servers    *)
(* are outside: stat() and open() answer as they please, and any write may *)
(* raise SIGPIPE.  How bytes get to the client is module SocketIO; how     *)
(* getUpstreamServer moves in a group is module UpstreamGroup.             *)
(***************************************************************************)
EXTENDS Listing

CONSTANTS Sites,        \* configurations: lists of servers
          Inputs,       \* what clients send
          MaxPathLen,   \* maxLen
          MaxRequests   \* bound on requests

ASSUME RequestBounds == <<>> \notin Sites /\ MaxPathLen \in Nat /\ MaxRequests \in Nat
ASSUME WorkersFinite == IsFiniteSet(Workers)
ASSUME InputsHavePaths == Inputs # {} /\ \A input \in Inputs : input.path \in Seq(STRING)

IsList(q) == Len(q) \in Nat /\ DOMAIN q = 1..Len(q)

\* what the parser makes of server and location blocks
ASSUME SitesAreServers ==
  \A site \in Sites :
    /\ IsList(site)
    /\ \A k \in DOMAIN site :
         /\ IsList(site[k].ports) /\ \A i \in DOMAIN site[k].ports : site[k].ports[i] > 0
         /\ IsList(site[k].locations)
         /\ \A i \in DOMAIN site[k].locations :
              LET loc == site[k].locations[i]
              IN  /\ loc.root \in Seq(STRING) /\ IsList(loc.targets)
                  /\ \A t \in DOMAIN loc.targets : loc.targets[t].text \in Seq(STRING)

VARIABLES
  servers,        \* the list of servers, a sequence
  defaultServer,  \* no -n on the command line
  listenPort,     \* the port this process serves
  tryTarget,      \* the static variable: a path, <<>> for NULL
  job,            \* job[w]: the request worker w has
  requests,       \* requests so far
  filesOpen       \* files that are open

fixed  == <<servers, defaultServer, listenPort>>
shared == <<heap, page, fixed, tryTarget, requests, filesOpen>>
vars   == <<at, died, job, shared>>

Stages == ListingStages \cup
          {"idle", "input", "routed", "tryFiles", "check", "stat", "upstream", "alloc",
           "copy", "statTarget", "serve", "done"}

NoWorker == "none"
NoTarget == <<>>
NoLocation == [matchType |-> "none", match |-> <<>>, type |-> {}, root |-> <<>>,
               targets |-> <<>>, address |-> FALSE]

HasPort(n, s) == \E i \in DOMAIN s.ports : s.ports[i] = n

\* startProcesses(): a port is served for the first server that has it
ServerOfPort ==
  LET here == {k \in DOMAIN servers : HasPort(listenPort, servers[k])}
  IN  CHOOSE k \in here : \A m \in here : k <= m

\* room: bytes allocated for the fallback's path; path: what is asked for;
\* file: the file that was served; met: another request has set tryTarget to
\* something else since this one did
NewJob(input) == [input |-> input, server |-> ServerOfPort, loc |-> NoLocation, room |-> 0,
                  path |-> input.path, file |-> <<>>, fallback |-> FALSE,
                  replies |-> <<>>, logged |-> <<>>, met |-> FALSE]

TypeOK ==
  /\ ListingTypeOK
  /\ at \in [Workers -> Stages]
  /\ died.how \in {"no", "null", "undefined", "signal", "exit"} /\ died.by \in Workers \cup {NoWorker}
  /\ defaultServer \in BOOLEAN /\ requests \in 0..MaxRequests /\ filesOpen \in Nat
  /\ servers \in Sites /\ tryTarget \in Seq(STRING)
  /\ \A w \in Workers :
       /\ job[w].input \in Inputs /\ job[w].server \in 0..Len(servers)
       /\ job[w].loc = NoLocation \/ \E i \in DOMAIN servers[job[w].server].locations :
                                       servers[job[w].server].locations[i] = job[w].loc

Init ==
  /\ ListingInit
  /\ at = [w \in Workers |-> "idle"]
  /\ died = [how |-> "no", by |-> NoWorker]
  /\ servers \in Sites /\ defaultServer \in BOOLEAN
  /\ \E k \in DOMAIN servers : listenPort \in Range(servers[k].ports)
  /\ tryTarget = NoTarget
  /\ job = [w \in Workers |-> NewJob(CHOOSE i \in Inputs : TRUE)]
  /\ requests = 0 /\ filesOpen = 0

-----------------------------------------------------------------------------
(* Responses and their log records *)

Reply(j, code, body) ==
  [j EXCEPT !.replies = Append(@, [code |-> code, body |-> body]),
            !.logged  = Append(@, [code |-> code, server |-> j.server])]

\* the worker goes on with j at a stage
Set(w, stage, j) == job' = [job EXCEPT ![w] = j] /\ Goto(w, stage) /\ UNCHANGED died

Crash(w, how) == Dies(w, how) /\ UNCHANGED <<fixed, tryTarget, job, requests, filesOpen>>

\* sendErrorResponse(): SIGPIPE ends the process if the client has hung up
Error(w, code, stage) ==
  \/ Set(w, stage, Reply(job[w], code, "error"))
  \/ Crash(w, "signal")

\* it is the last thing most handlers do
Fail(w, code) == Error(w, code, "done")

\* mutant of Serve: the file is closed twice
ServeClosesTwice(w) ==
  /\ at[w] = "serve"
  /\ Set(w, "done", Reply(job[w], 200, "file"))
  /\ filesOpen' = filesOpen - 2
  /\ UNCHANGED <<heap, page, fixed, tryTarget, requests>>

\* serveFile() sends the file, logs it and closes it
Serve(w) ==
  /\ at[w] = "serve"
  /\ \/ /\ Set(w, "done", Reply(job[w], 200, "file"))
        /\ filesOpen' = filesOpen - 1
        /\ UNCHANGED <<heap, page, fixed, tryTarget, requests>>
     \/ Crash(w, "signal")

\* open() gives the request a descriptor for a file
Open(w, stage, j) ==
  /\ Set(w, stage, j)
  /\ filesOpen' = filesOpen + 1
  /\ UNCHANGED <<heap, page, fixed, tryTarget, requests>>

-----------------------------------------------------------------------------
(* processInput *)

Request(w, input) ==
  /\ at[w] \in {"idle", "done"} /\ requests < MaxRequests
  /\ requests' = requests + 1
  /\ Set(w, "input", NewJob(input))
  /\ UNCHANGED <<heap, page, fixed, tryTarget, filesOpen>>

\* 413 for a full buffer, 400 without data or without a blank; a failed
\* SSL_read leaves `received` uninitialized and the buffer empty: one of these
Refuse(w) ==
  /\ at[w] = "input" /\ job[w].input.data \in {"full", "nothing", "junk"}
  /\ Fail(w, IF job[w].input.data = "full" THEN 413 ELSE 400)
  /\ UNCHANGED shared

\* the data ends before the end of the Host line: strchr() returns NULL
Cut(w) ==
  /\ at[w] = "input" /\ job[w].input.data = "cut"
  /\ Crash(w, "null")

\* mutant of Serves: the port is not compared
ServesAnyPort(s, name, port) == name \in s.names

Serves(s, name, port) == name \in s.names /\ HasPort(port, s)

\* the port to look for: what atoi() makes of the text after the colon in
\* Host, or without a colon the first port of the first server
PortOf(input) == IF input.colon THEN input.port ELSE servers[1].ports[1]

\* mutant of GetServerForHost: there is no default
GetServerForHostStrict(input) ==
  LET found == {k \in DOMAIN servers : Serves(servers[k], input.name, PortOf(input))}
  IN  IF found # {} THEN CHOOSE k \in found : \A m \in found : k <= m ELSE 0

\* position of the server in the list, 0 for NULL
GetServerForHost(input) ==
  LET found == {k \in DOMAIN servers : Serves(servers[k], input.name, PortOf(input))}
  IN  IF found # {} THEN CHOOSE k \in found : \A m \in found : k <= m
      ELSE IF defaultServer THEN 1 ELSE 0

FindServer(w) ==
  /\ at[w] = "input" /\ job[w].input.data = "ok"
  /\ Set(w, "routed", [job[w] EXCEPT !.server = GetServerForHost(job[w].input)])
  /\ UNCHANGED shared

\* the 404 is sent, then errorLog looks for the name of the server
NoServer(w) ==
  /\ at[w] = "routed" /\ job[w].server = 0
  /\ \/ /\ died' = [how |-> "null", by |-> w]
        /\ job' = [job EXCEPT ![w].replies = Append(@, [code |-> 404, body |-> "error"])]
        /\ UNCHANGED <<at, shared>>
     \/ Crash(w, "signal")

\* regexec() is outside: a regular expression is the set of what it matches
Matches(loc, path) == CASE loc.matchType = "regex"  -> path \in loc.match
                        [] loc.matchType = "prefix" -> IsPrefix(loc.match, path)
                        [] loc.matchType = "equal"  -> loc.match = path

\* getDocRoot: the first location that matches, NoLocation for NULL
GetDocRoot(s, path) ==
  LET found == {i \in DOMAIN s.locations : Matches(s.locations[i], path)}
  IN  IF found = {} THEN NoLocation
      ELSE s.locations[CHOOSE i \in found : \A m \in found : i <= m]

NoDocRoot(w) ==
  /\ at[w] = "routed" /\ job[w].server # 0
  /\ GetDocRoot(servers[job[w].server], job[w].path) = NoLocation
  /\ Fail(w, 500)
  /\ UNCHANGED shared

TooLong(loc, path) == Len(loc.root) + Len(path) > MaxPathLen

UriTooLong(w) ==
  /\ at[w] = "routed" /\ job[w].server # 0
  /\ LET loc == GetDocRoot(servers[job[w].server], job[w].path)
     IN  loc # NoLocation /\ TooLong(loc, job[w].path)
  /\ Fail(w, 414)
  /\ UNCHANGED shared

\* which handler a location's flags and the verb lead to
Handler(loc, verb) ==
  CASE "TRY_FILES" \in loc.type -> "tryFiles"
    [] "TRY_FILES" \notin loc.type /\ loc.type \cap {"PROXY_PASS", "FASTCGI_PASS"} # {} -> "upstream"
    [] OTHER -> IF verb \in {"GET", "HEAD"} THEN "stat" ELSE "done"

Dispatch(w) ==
  /\ at[w] = "routed" /\ job[w].server # 0
  /\ LET loc  == GetDocRoot(servers[job[w].server], job[w].path)
         goal == Handler(loc, job[w].input.verb)
     IN  /\ loc # NoLocation /\ ~TooLong(loc, job[w].path) /\ goal # "done"
         /\ Set(w, goal, [job[w] EXCEPT !.loc = loc])
  /\ UNCHANGED shared

NotAllowed(w) ==
  /\ at[w] = "routed" /\ job[w].server # 0
  /\ LET loc == GetDocRoot(servers[job[w].server], job[w].path)
     IN  /\ loc # NoLocation /\ ~TooLong(loc, job[w].path)
         /\ Handler(loc, job[w].input.verb) = "done"
  /\ Fail(w, 405)
  /\ UNCHANGED shared

-----------------------------------------------------------------------------
(* handleProxyPass and handleFastCGIPass *)

InGroup(v) == at[v] = "upstream" /\ "UPSTREAM_GROUP" \in job[v].loc.type

\* getUpstreamServer() follows NULL: no address, an empty group, or another
\* thread has moved currentServer past the end of a group
NoUpstream(w) ==
  /\ at[w] = "upstream"
  /\ ~job[w].loc.address \/ (InGroup(w) /\ \E v \in Workers \ {w} : InGroup(v))
  /\ Crash(w, "null")

\* no connection to the upstream server: the handler just returns
UpstreamFails(w) ==
  /\ at[w] = "upstream" /\ job[w].loc.address
  /\ Set(w, "done", job[w])
  /\ UNCHANGED shared

\* getClient() exits, a write raises SIGPIPE, or strchr() finds no blank and
\* no code in the first bytes of the response
ForwardDies(w) ==
  /\ at[w] = "upstream" /\ job[w].loc.address
  /\ \E how \in {"exit", "signal", "null"} : Crash(w, how)

\* the connection ends before the first byte: httpCode is still 200
NoAnswer(w) ==
  /\ at[w] = "upstream" /\ job[w].loc.address
  /\ Set(w, "done", [job[w] EXCEPT !.logged = Append(@, [code |-> 200, server |-> job[w].server])])
  /\ UNCHANGED shared

UpstreamCodes == {200, 500}

Forward(w, code) ==
  /\ at[w] = "upstream" /\ job[w].loc.address
  /\ Set(w, "done", Reply(job[w], code, "forwarded"))
  /\ UNCHANGED shared

-----------------------------------------------------------------------------
(* handleTryFiles *)

\* $uri, $uri/ and a file; NoTarget otherwise
CheckTryFilesFormat(loc) ==
  IF /\ Len(loc.targets) >= 3
     /\ loc.targets[1].kind = "$uri" /\ loc.targets[2].kind = "$uri/"
  THEN loc.targets[3].text ELSE NoTarget

\* requests that have set tryTarget and may still read it
Trying == {v \in Workers : at[v] \in {"check", "stat", "alloc", "copy", "statTarget"}
                           /\ "TRY_FILES" \in job[v].loc.type}

\* mutant of Target: a target that is set is kept
TargetKept(loc) == IF tryTarget # NoTarget THEN tryTarget ELSE CheckTryFilesFormat(loc)

\* what tryTarget becomes
Target(loc) == CheckTryFilesFormat(loc)

\* tryTarget is set, which meets the requests that may still read it
TryFiles(w) ==
  /\ at[w] = "tryFiles"
  /\ tryTarget' = Target(job[w].loc)
  /\ job' = [v \in Workers |->
               [job[v] EXCEPT !.met = @ \/ (v \in Trying /\ tryTarget' # tryTarget)]]
  /\ Goto(w, "check")
  /\ UNCHANGED <<died, heap, page, fixed, requests, filesOpen>>

\* NULL is answered with 404, and the handler goes on
CheckTarget(w) ==
  /\ at[w] = "check"
  /\ IF tryTarget = NoTarget THEN Error(w, 404, "stat") ELSE Set(w, "stat", job[w])
  /\ UNCHANGED shared

TryingFiles(j) == "TRY_FILES" \in j.loc.type

\* nothing to serve: 404, or serveDefaultFile, or proxy_pass instead of it
Missing(w) ==
  IF ~TryingFiles(job[w]) THEN Fail(w, 404)
  ELSE Set(w, IF "PROXY_PASS" \in job[w].loc.type THEN "upstream" ELSE "alloc", job[w])

\* mutant of NotFound: the handler goes on after the 404
NotFoundGoesOn(w) ==
  /\ at[w] = "stat" /\ ~TryingFiles(job[w])
  /\ Set(w, "stat", Reply(job[w], 404, "error"))
  /\ UNCHANGED shared

\* pathExists() or open() fails
NotFound(w) ==
  /\ at[w] = "stat"
  /\ Missing(w)
  /\ UNCHANGED shared

OpenPath(w) ==
  /\ at[w] = "stat"
  /\ Open(w, "serve", [job[w] EXCEPT !.file = job[w].loc.root \o job[w].path])

\* a directory with an index file; what is passed on leaves the file open
OpenIndex(w) ==
  /\ at[w] = "stat"
  /\ Open(w, IF TryingFiles(job[w]) /\ "PROXY_PASS" \in job[w].loc.type THEN "upstream" ELSE "serve",
          [job[w] EXCEPT !.file = job[w].loc.root \o job[w].path])

\* a directory without index file
NoIndex(w) ==
  /\ at[w] = "stat" /\ ~servers[job[w].server].autoIndex
  /\ Missing(w)
  /\ UNCHANGED shared

ListDirectory(w, n) ==
  /\ at[w] = "stat" /\ servers[job[w].server].autoIndex
  /\ BeginListing(w, n)
  /\ UNCHANGED <<died, heap, fixed, tryTarget, job, requests, filesOpen>>

\* opendir() fails
NoDirectory(w) ==
  /\ at[w] = "stat" /\ servers[job[w].server].autoIndex
  /\ Fail(w, 404)
  /\ UNCHANGED shared

EndListing(w) ==
  /\ at[w] = "test" /\ Emptied
  /\ Set(w, "done", Reply(job[w], 200, "listing"))
  /\ UNCHANGED shared

(* serveDefaultFile reads tryTarget three times *)

\* malloc(strlen(tryTarget) + 1)
Allocate(w) ==
  /\ at[w] = "alloc"
  /\ IF tryTarget = NoTarget
     THEN Crash(w, "null")
     ELSE Set(w, "copy", [job[w] EXCEPT !.room = Len(tryTarget)]) /\ UNCHANGED shared

\* strcpy(req->path, tryTarget)
Copy(w) ==
  /\ at[w] = "copy"
  /\ IF tryTarget = NoTarget THEN Crash(w, "null")
     ELSE IF Len(tryTarget) > job[w].room THEN Crash(w, "undefined")
     ELSE Set(w, "statTarget", [job[w] EXCEPT !.path = tryTarget]) /\ UNCHANGED shared

\* pathExists(req, tryTarget): -1 counts as TRUE, and then open() fails
OpenTarget(w) ==
  /\ at[w] = "statTarget"
  /\ IF tryTarget = NoTarget
     THEN Crash(w, "null")
     ELSE Open(w, "serve", [job[w] EXCEPT !.file = job[w].loc.root \o tryTarget,
                                          !.fallback = TRUE])

\* the fallback is missing or a directory
NoTargetFile(w) ==
  /\ at[w] = "statTarget"
  /\ IF tryTarget = NoTarget THEN Crash(w, "null") ELSE Fail(w, 404) /\ UNCHANGED shared

-----------------------------------------------------------------------------
Step(w) ==
  \/ \E input \in Inputs : Request(w, input)
  \/ Refuse(w) \/ Cut(w) \/ FindServer(w) \/ NoServer(w) \/ NoDocRoot(w) \/ UriTooLong(w)
  \/ Dispatch(w) \/ NotAllowed(w)
  \/ NoUpstream(w) \/ UpstreamFails(w) \/ ForwardDies(w) \/ NoAnswer(w)
  \/ \E code \in UpstreamCodes : Forward(w, code)
  \/ TryFiles(w) \/ CheckTarget(w)
  \/ NotFound(w) \/ OpenPath(w) \/ OpenIndex(w) \/ NoIndex(w)
  \/ \E n \in 1..MaxEntries : ListDirectory(w, n)
  \/ NoDirectory(w)
  \/ ListingStep(w) /\ UNCHANGED <<fixed, tryTarget, job, requests, filesOpen>>
  \/ EndListing(w)
  \/ Allocate(w) \/ Copy(w) \/ OpenTarget(w) \/ NoTargetFile(w) \/ Serve(w)

Busy == {w \in Workers : at[w] \notin {"idle", "done"}}

\* the process has died, or no further request comes
Rest == /\ died.how # "no" \/ (Busy = {} /\ requests = MaxRequests)
        /\ UNCHANGED vars

Next == (died.how = "no" /\ \E w \in Workers : Step(w)) \/ Rest

Spec == Init /\ [][Next]_vars
-----------------------------------------------------------------------------
(* Properties *)

Finished == {w \in Workers : died.how = "no" /\ at[w] = "done"}

Malformed(j) == TryingFiles(j) /\ CheckTryFilesFormat(j.loc) = NoTarget

\* what is passed on to an upstream server, for want of a file if it tries files
PassesOn(j) ==
  "PROXY_PASS" \in j.loc.type \/ ("FASTCGI_PASS" \in j.loc.type /\ ~TryingFiles(j))

\* how often handleTryFiles may have answered before the handler's last step
Early(j) == IF j.met THEN {0, 1} ELSE IF Malformed(j) THEN {1} ELSE {0}

\* A request that has ended got one response, after a 404 if its try_files is
\* malformed: which of the two another thread's request may turn round, if it
\* sets tryTarget between lines 106 and 107.  Only a request that had to be
\* passed on may go without its last response, when the upstream server is not
\* there or says nothing; then a 200 may be logged all the same.  Every
\* response was logged once, with its code, in the log of the server that was
\* chosen.
AnsweredOnce ==
  \A w \in Finished :
    LET j == job[w]
    IN  /\ \E n \in Early(j) :
             \/ Len(j.replies) = n + 1 /\ Len(j.logged) = n + 1
             \/ PassesOn(j) /\ Len(j.replies) = n /\ Len(j.logged) \in {n, n + 1}
        /\ \A i \in DOMAIN j.replies :
             j.logged[i] = [code |-> j.replies[i].code, server |-> j.server]

\* A request that falls back gets the file that its own location names, and
\* is logged under that name, unless another thread's request has changed
\* tryTarget in between.
OwnFallback ==
  \A w \in Finished : job[w].fallback /\ ~job[w].met =>
    /\ job[w].file = job[w].loc.root \o CheckTryFilesFormat(job[w].loc)
    /\ job[w].path = CheckTryFilesFormat(job[w].loc)

\* A listing that no other listing overlaps shows the entries of its own
\* directory, with the Content-Length of these.
ListingExact ==
  \A w \in Finished :
    (\E i \in DOMAIN job[w].replies : job[w].replies[i].body = "listing") => Exact(w)

\* The process follows a NULL or a dangling pointer only for a request that
\* ended before its Host line did, that names an unknown host under -n, that
\* had to be passed on, that falls back with a malformed try_files, or that met
\* another thread at tryTarget or at the list of fragments; and memory that is
\* not its own it touches only after such a meeting.  Its other ends, SIGPIPE
\* and exit(), are those of a peer that has hung up or of a client that is not
\* in the list.
DeathExplained ==
  LET j       == job[died.by]
      meeting == j.met \/ (died.by \in Listings /\ ~page[died.by].alone)
  IN  /\ died.how = "null" =>
           \/ j.input.data = "cut"
           \/ ~defaultServer /\ j.server = 0
           \/ at[died.by] = "upstream"
           \/ Malformed(j) \/ meeting
      /\ died.how = "undefined" => meeting

\* Requests leave nothing behind for later ones.  When no listing is under way
\* the global list of fragments is empty, even if listings have overlapped and
\* a fragment was lost.  When no request is being answered no file is open,
\* unless a location combines try_files with proxy_pass: every other way
\* through the handlers that opens a file ends in the close() of serveFile.
NothingLeft ==
  /\ died.how = "no" /\ Listings = {} => fragments = NULL
  /\ Busy = {} /\ filesOpen # 0 =>
       \E k \in DOMAIN servers : \E i \in DOMAIN servers[k].locations :
         {"TRY_FILES", "PROXY_PASS"} \subseteq servers[k].locations[i].type

\* A request whose Host names a server of this port gets the first such
\* server, if Host carries the port or the port is the first of the first
\* server: a Host without a port says nothing of the port it came in on.
RightServer ==
  \A w \in Workers :
    LET j    == job[w]
        here == {k \in DOMAIN servers : /\ j.input.name \in servers[k].names
                                        /\ listenPort \in Range(servers[k].ports)}
    IN  /\ at[w] = "routed" /\ here # {}
        /\ IF j.input.colon THEN j.input.port = listenPort ELSE listenPort = servers[1].ports[1]
        => j.server \in here /\ \A k \in here : j.server <= k
=============================================================================
