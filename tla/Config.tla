------------------------------- MODULE Config -------------------------------
(***************************************************************************)
(* Reading and checking the configuration: the f_ functions and checks of  *)
(* parseConfig.c, called in the order the grammar of og_ws.y gives, the    *)
(* lists of serverState.c they fill, and what processInput.c then makes of *)
(* a location's type.                                                      *)
(*                                                                         *)
(* The functions collect ports, names, index files, locations and logs in  *)
(* global lists whose last element is a default; the end of a server block *)
(* moves all but the default to the server.  A list is a sequence, head    *)
(* first.  The file is any sequence of the directives of a vocabulary      *)
(* within the bounds; what it says is kept in `said` and `written`, for    *)
(* the properties to compare with.                                         *)
(***************************************************************************)
EXTENDS Integers, SequencesExt

CONSTANTS PortNums,       \* port numbers the file may name
          Names,          \* server names and index files it may name
          Uris,           \* what a location block may match
          Paths,          \* log files it may name
          Vocabularies,   \* the sets of directives a file may be written with
          MaxServers,     \* bound on server blocks
          MaxLocations,   \* bound on location blocks of all servers
          MaxInLocation,  \* bound on directives in a location block
          MaxItems        \* bound on ports, names and index files of a server

LogKinds == {"access_log", "error_log"}
LocationKinds == {"root", "proxy_host", "proxy_group", "fastcgi_host", "fastcgi_group",
                  "try_files", "expires"}
DirectiveKinds == LogKinds \cup LocationKinds \cup
                  {"listen", "listen_name", "server_name", "index", "ssl_certificate",
                   "fastcgi_param"}

ASSUME VocabulariesAreKinds == Vocabularies \subseteq SUBSET DirectiveKinds
ASSUME PortNumsArePositive == PortNums \subseteq Nat \ {0}

DefaultPort == 8080
DefaultUri  == "/"
DefaultName == "*"
DefaultIndex == "index.html"
DefaultPath == "/var/log/ogws"

VARIABLES
  ctx,            \* the block being read, or how far main has come
  defaultServer,  \* no -n on the command line
  vocabulary,     \* the directives this file uses
  ports,          \* `ports`
  names,          \* `serverNames`
  indexFiles,     \* `indexFiles`
  locations,      \* `locations`
  logs,           \* logs[kind]: the list of all log files of a kind
  currentLog,     \* currentLog[kind]: position of the current log, 0 for none
  certFile,       \* `certFile` is set
  said,           \* what the file says since the end of the last server block
  servers,        \* the list of servers
  written,        \* what the file says for each server block
  logFds,         \* logFds[kind][i]: descriptor of logs[kind][i]
  danglingLogs    \* danglingLogs[kind]: positions that popServer has freed

given   == <<defaultServer, vocabulary>>
lists   == <<ports, names, indexFiles, locations>>
logging == <<logs, currentLog>>
done    == <<servers, written>>
opened  == <<logFds, danglingLogs>>
vars    == <<ctx, given, lists, logging, certFile, said, done, opened>>

Contexts == {"http", "server", "location", "parsed", "checked", "ready",
             "refused", "undefined"}

\* the TYPE_ flags; literal: the root is a string constant, not from malloc
Flags == {"PROXY_PASS", "DOC_ROOT", "TRY_FILES", "UPSTREAM_GROUP", "FASTCGI_PASS"}
Locations == [type : SUBSET Flags, match : Uris \cup {DefaultUri}, literal : BOOLEAN,
              passTo : BOOLEAN, group : BOOLEAN, tryTarget : BOOLEAN, expires : BOOLEAN]
Ports == [portNum : PortNums \cup {DefaultPort}, tls : BOOLEAN]

\* defaultPort and defaultLocation
DefPort == [portNum |-> DefaultPort, tls |-> FALSE]
DefLocation == [type |-> {"DOC_ROOT"}, match |-> DefaultUri, literal |-> TRUE,
                passTo |-> FALSE, group |-> FALSE, tryTarget |-> FALSE, expires |-> FALSE]

\* first: the directive that makes the first location; asks: what directives
\* make or change locations; groups: how often a group is named; early: an
\* `ssl` comes before the first port; wild: how often `listen *` is said; odd:
\* the value 0 for a fastcgi_param, or `expires off`
NewBlock == [listens |-> <<>>, names |-> <<>>, index |-> <<>>, uris |-> <<>>,
             first |-> "none", asks |-> {}, groups |-> 0,
             logs |-> [kind \in LogKinds |-> DefaultPath], cert |-> FALSE, early |-> FALSE,
             wild |-> 0, odd |-> FALSE]

TypeOK ==
  /\ ctx \in Contexts
  /\ defaultServer \in BOOLEAN /\ vocabulary \in Vocabularies /\ certFile \in BOOLEAN
  /\ ports \in Seq(Ports) /\ ports # <<>>
  /\ locations \in Seq(Locations) /\ locations # <<>>
  /\ names # <<>> /\ Last(names) = DefaultName
  /\ indexFiles # <<>> /\ Last(indexFiles) = DefaultIndex
  /\ \A kind \in LogKinds :
       /\ logs[kind] \in Seq(Paths \cup {DefaultPath}) /\ logs[kind] # <<>>
       /\ currentLog[kind] \in 0..Len(logs[kind])
       /\ logFds[kind] \in Seq(Nat)
       /\ danglingLogs[kind] \subseteq 1..Len(logs[kind])
  /\ \A k \in DOMAIN servers :
       /\ servers[k].ports \in Seq(Ports) /\ servers[k].ports # <<>>
       /\ servers[k].locations \in Seq(Locations) /\ servers[k].locations # <<>>
       /\ \A kind \in LogKinds : servers[k].log[kind] \in 1..Len(logs[kind])
       /\ servers[k].block \in 0..Len(written)

Init ==
  /\ ctx = "http"
  /\ defaultServer \in BOOLEAN /\ vocabulary \in Vocabularies
  /\ ports = <<DefPort>> /\ names = <<DefaultName>> /\ indexFiles = <<DefaultIndex>>
  /\ locations = <<DefLocation>>
  /\ logs = [kind \in LogKinds |-> <<DefaultPath>>]
  /\ currentLog = [kind \in LogKinds |-> 0] /\ certFile = FALSE
  /\ said = NewBlock /\ servers = <<>> /\ written = <<>>
  /\ logFds = [kind \in LogKinds |-> <<>>] /\ danglingLogs = [kind \in LogKinds |-> {}]

-----------------------------------------------------------------------------
OpenServer ==
  /\ ctx = "http" /\ Len(written) < MaxServers
  /\ ctx' = "server"
  /\ UNCHANGED <<given, lists, logging, certFile, said, done, opened>>

(* listen, server_name, index and ssl_certificate *)

\* what the file says, in order and without repetition
Added(seq, x) == IF Contains(seq, x) THEN seq ELSE Append(seq, x)

DupPort(ps, n) == \E i \in 1 .. Len(ps) - 1 : ps[i].portNum = n

FListen(ps, n) == IF DupPort(ps, n) THEN ps ELSE <<[portNum |-> n, tls |-> FALSE]>> \o ps

FTls(ps) == [ps EXCEPT ![1].tls = TRUE]

\* the options of listen are handled in the order they are written
Listen(n, opt) ==
  /\ ctx = "server" /\ "listen" \in vocabulary /\ Len(ports) <= MaxItems
  /\ ports' = CASE opt = "plain"    -> FListen(ports, n)
                [] opt = "ssl"      -> FTls(FListen(ports, n))
                [] opt = "sslFirst" -> FListen(FTls(ports), n)
  /\ said' = [said EXCEPT !.listens = Added(@, n),
                          !.early = @ \/ (opt = "sslFirst" /\ Len(ports) = 1)]
  /\ UNCHANGED <<ctx, given, names, indexFiles, locations, logging, certFile, done, opened>>

\* the default is skipped
DupName(name) == \E i \in 1 .. Len(names) - 1 : names[i] = name

ServerName(name) ==
  /\ ctx = "server" /\ "server_name" \in vocabulary /\ Len(names) <= MaxItems
  /\ names' = IF DupName(name) THEN names ELSE <<name>> \o names
  /\ said' = [said EXCEPT !.names = Added(@, name)]
  /\ UNCHANGED <<ctx, given, ports, indexFiles, locations, logging, certFile, done, opened>>

\* listen *: the name is a string constant, which is freed if it is repeated
ListenAny ==
  /\ ctx = "server" /\ "listen_name" \in vocabulary /\ Len(names) <= MaxItems
  /\ names' = IF DupName(DefaultName) THEN names ELSE <<DefaultName>> \o names
  /\ ctx' = IF DupName(DefaultName) THEN "undefined" ELSE ctx
  /\ said' = [said EXCEPT !.names = Added(@, DefaultName), !.wild = @ + 1]
  /\ UNCHANGED <<given, ports, indexFiles, locations, logging, certFile, done, opened>>

IndexFile(name) ==
  /\ ctx \in {"http", "server"} /\ "index" \in vocabulary /\ Len(indexFiles) <= MaxItems
  /\ indexFiles' = <<name>> \o indexFiles
  /\ said' = [said EXCEPT !.index = Append(@, name)]
  /\ UNCHANGED <<ctx, given, ports, names, locations, logging, certFile, done, opened>>

\* a second certificate is ignored; the key is handled in the same way
Certificate ==
  /\ ctx \in {"http", "server"} /\ "ssl_certificate" \in vocabulary
  /\ certFile' = TRUE
  /\ said' = [said EXCEPT !.cert = TRUE]
  /\ UNCHANGED <<ctx, given, lists, logging, done, opened>>

(* access_log and error_log *)

LogFile(kind, path) ==
  /\ ctx \in {"http", "server"} /\ kind \in vocabulary
  /\ currentLog[kind] = 0
  /\ logs' = [logs EXCEPT ![kind] = Append(@, path)]
  /\ currentLog' = [currentLog EXCEPT ![kind] = Len(logs[kind]) + 1]
  /\ said' = [said EXCEPT !.logs[kind] = path]
  /\ UNCHANGED <<ctx, given, lists, certFile, done, opened>>

\* "More than one access log defined for a server, not allowed"
LogFileTwice(kind) ==
  /\ ctx \in {"http", "server"} /\ kind \in vocabulary
  /\ currentLog[kind] # 0
  /\ ctx' = "refused"
  /\ UNCHANGED <<given, lists, logging, certFile, said, done, opened>>

\* the length of the number 0 is minus infinity
FastcgiParam(zero) ==
  /\ ctx \in {"http", "server"} /\ "fastcgi_param" \in vocabulary
  /\ ctx' = IF zero THEN "undefined" ELSE ctx
  /\ said' = [said EXCEPT !.odd = @ \/ zero]
  /\ UNCHANGED <<given, lists, logging, certFile, done, opened>>

(* location blocks; what f_location does comes at the end of the block *)

\* location blocks read so far
LocationBlocks == FoldSeq(LAMBDA b, sum : sum + Len(b.uris), Len(said.uris), written)

OpenLocation(uri) ==
  /\ ctx = "server" /\ LocationBlocks < MaxLocations
  /\ vocabulary \cap (LocationKinds \cup {"fastcgi_param"}) # {}
  /\ ctx' = "location"
  /\ said' = [said EXCEPT !.uris = Append(@, [uri |-> uri, count |-> 0, own |-> FALSE])]
  /\ UNCHANGED <<given, lists, logging, certFile, done, opened>>

CloseLocation ==
  /\ ctx = "location" /\ Last(said.uris).count > 0
  /\ ctx' = "server"
  /\ locations' = [locations EXCEPT ![1].match = Last(said.uris).uri]
  /\ UNCHANGED <<given, ports, names, indexFiles, logging, certFile, said, done, opened>>

\* there is a location besides the default: it is taken for the current one
Pending == Len(locations) > 1

\* a new location starts as a copy of the default
Fresh == Last(locations)

\* the pending location becomes `changed`, or `new` is put in front
Update(changed, new) ==
  locations' = IF Pending THEN [locations EXCEPT ![1] = changed]
                          ELSE <<new>> \o locations

Rest == UNCHANGED <<given, ports, names, indexFiles, logging, certFile, done, opened>>

\* what the file says once directive d has made or changed a location
Making(d) ==
  [said EXCEPT !.first = IF @ = "none" THEN d ELSE @, !.asks = @ \cup {d},
               !.groups = IF d \in {"proxy_group", "fastcgi_group"} THEN @ + 1 ELSE @]

InLocation(d) ==
  /\ ctx = "location" /\ d \in vocabulary /\ Last(said.uris).count < MaxInLocation
  /\ said' = [Making(d) EXCEPT !.uris[Len(said.uris)].count = @ + 1,
                               !.uris[Len(said.uris)].own = TRUE]
  /\ Rest

\* mutant of SetRoot: what is in place counts as a constant
SetRootLiteral(loc) == [loc EXCEPT !.type = @ \cup {"DOC_ROOT"}]

SetRoot(loc) == [loc EXCEPT !.type = @ \cup {"DOC_ROOT"}, !.literal = FALSE]

\* the old root of a pending location is freed, even if it is a constant
Root ==
  /\ \/ InLocation("root")
     \/ /\ ctx = "server" /\ "root" \in vocabulary
        /\ said' = Making("root")
        /\ Rest
  /\ Update(SetRoot(Head(locations)), SetRoot(Fresh))
  /\ ctx' = IF Pending /\ locations[1].literal THEN "undefined" ELSE ctx

\* flag: what the directive asks for; a new location gets PROXY_PASS instead
PassToHost(d, flag) ==
  /\ InLocation(d)
  /\ Update([Head(locations) EXCEPT !.type = @ \cup {flag}, !.passTo = TRUE],
            [Fresh EXCEPT !.type = @ \cup {"PROXY_PASS"}, !.passTo = TRUE])
  /\ UNCHANGED ctx

\* naming a group a second time frees it while the list of groups holds it
PassToGroup(d, flag) ==
  /\ InLocation(d)
  /\ Update([Head(locations) EXCEPT !.type = @ \cup {flag}, !.group = TRUE],
            [Fresh EXCEPT !.type = @ \cup {"UPSTREAM_GROUP"}, !.group = TRUE])
  /\ ctx' = IF Pending /\ locations[1].group THEN "undefined" ELSE ctx

ProxyPass == \/ PassToHost("proxy_host", "PROXY_PASS")
             \/ PassToGroup("proxy_group", "PROXY_PASS")

FastcgiPass == \/ PassToHost("fastcgi_host", "FASTCGI_PASS")
               \/ PassToGroup("fastcgi_group", "FASTCGI_PASS")

SetTryFiles(loc) == [loc EXCEPT !.type = @ \cup {"TRY_FILES"}, !.tryTarget = TRUE]

TryFiles ==
  /\ InLocation("try_files")
  /\ Update(SetTryFiles(Head(locations)), SetTryFiles(Fresh))
  /\ UNCHANGED ctx

\* a directive that makes no location, and leads nowhere if it is odd
NotOwn(d, odd) ==
  /\ ctx = "location" /\ d \in vocabulary /\ Last(said.uris).count < MaxInLocation
  /\ ctx' = IF odd THEN "undefined" ELSE ctx
  /\ said' = [said EXCEPT !.uris[Len(said.uris)].count = @ + 1, !.odd = @ \/ odd]
  /\ Rest

\* sets a field of the first location in the list, the default if it is alone;
\* `expires off` passes a string constant, which is then freed
Expires(off) ==
  /\ NotOwn("expires", off)
  /\ locations' = [locations EXCEPT ![1].expires = ~off]

\* fastcgi_param in a location block
LocationParam(zero) == NotOwn("fastcgi_param", zero) /\ UNCHANGED locations

(* the ends of the server blocks and of the http block *)

\* mutant of Moved: the default is not copied when it is alone
MovedNoCopy(list) == Front(list)

\* all of a list but the default, or a copy of the default if it is alone
Moved(list) == IF Len(list) = 1 THEN list ELSE Front(list)

\* the server that a block makes; only the locations keep their order
NewServer == [ports |-> Reverse(Moved(ports)), names |-> Reverse(Moved(names)),
              index |-> Reverse(Moved(indexFiles)), locations |-> Moved(locations),
              log |-> [kind \in LogKinds |-> IF currentLog[kind] = 0 THEN 1 ELSE currentLog[kind]],
              cert |-> certFile, block |-> Len(written) + 1]

\* mutant of Emptied: the locations stay in the global list
EmptiedOfPorts ==
  /\ ports' = <<Last(ports)>> /\ names' = <<Last(names)>>
  /\ indexFiles' = <<Last(indexFiles)>> /\ UNCHANGED locations

\* only the defaults are left in the global lists
Emptied ==
  /\ ports' = <<Last(ports)>> /\ names' = <<Last(names)>>
  /\ indexFiles' = <<Last(indexFiles)>> /\ locations' = <<Last(locations)>>

CloseServer ==
  /\ ctx = "server"
  /\ ctx' = "http"
  /\ servers' = Append(servers, NewServer)
  /\ Emptied
  /\ currentLog' = [kind \in LogKinds |-> 0] /\ certFile' = FALSE
  /\ written' = Append(written, said) /\ said' = NewBlock
  /\ UNCHANGED <<given, logs, opened>>

\* f_http adds the default server at the end of the list
CloseHttp ==
  /\ ctx = "http"
  /\ ctx' = "parsed"
  /\ servers' = Append(servers, [ports |-> ports, names |-> names, index |-> indexFiles,
                                 locations |-> locations, log |-> [kind \in LogKinds |-> 1],
                                 cert |-> certFile, block |-> 0])
  /\ UNCHANGED <<given, lists, logging, certFile, said, written, opened>>

-----------------------------------------------------------------------------
(* checkConfig *)

\* popServer takes the first server off the list and frees its logs
Remaining == IF defaultServer THEN servers ELSE Tail(servers)

\* mutant of PortOk: only the ports of one server are compared
PortOkAlone(s) == \A i, j \in DOMAIN s.ports :
                    s.ports[i].portNum = s.ports[j].portNum => s.ports[i].tls = s.ports[j].tls

PortOk(s) ==
  \A i \in DOMAIN s.ports, k \in DOMAIN Remaining :
    \A j \in DOMAIN Remaining[k].ports :
      Remaining[k].ports[j].portNum = s.ports[i].portNum
        => Remaining[k].ports[j].tls = s.ports[i].tls

\* mutant of DocRootOk: a proxy_pass without a host is let through
DocRootOkAlways(loc) == TRUE

\* the doc root itself is readable here
DocRootOk(loc) ==
  CASE "PROXY_PASS" \in loc.type -> loc.passTo
    [] "PROXY_PASS" \notin loc.type /\ "DOC_ROOT" \in loc.type -> TRUE
    [] OTHER -> "TRY_FILES" \in loc.type /\ loc.tryTarget

\* the certificate is looked for only when server->tls is set; nothing sets it
ServerOk(s) == PortOk(s) /\ \A i \in DOMAIN s.locations : DocRootOk(s.locations[i])

CheckServers ==
  /\ ctx = "parsed"
  /\ servers' = Remaining
  /\ danglingLogs' = [kind \in LogKinds |-> IF defaultServer THEN {} ELSE {Head(servers).log[kind]}]
  /\ ctx' = IF \A k \in DOMAIN Remaining : ServerOk(Remaining[k]) THEN "checked" ELSE "refused"
  /\ UNCHANGED <<given, lists, logging, certFile, said, written, logFds>>

(* openLogFiles *)

\* mutant of PathAlreadyOpened: only the latest file is looked at
LatestOpened(kind, i) ==
  IF i > 1 /\ logs[kind][i - 1] = logs[kind][i] THEN logFds[kind][i - 1] ELSE i

\* the descriptor an earlier log has for this path, or else a new one
PathAlreadyOpened(kind, i) ==
  LET same == {j \in DOMAIN logFds[kind] : logs[kind][j] = logs[kind][i]}
  IN  IF same = {} THEN i ELSE logFds[kind][CHOOSE j \in same : TRUE]

\* the next log of a list is handled; the access logs come first
AtLog(kind) ==
  /\ ctx = "checked" /\ Len(logFds[kind]) < Len(logs[kind])
  /\ kind = "error_log" => Len(logFds["access_log"]) = Len(logs["access_log"])

OpenLogFile(kind) ==
  /\ AtLog(kind)
  /\ logFds' = [logFds EXCEPT ![kind] = Append(@, PathAlreadyOpened(kind, Len(@) + 1))]
  /\ UNCHANGED <<ctx, given, lists, logging, certFile, said, done, danglingLogs>>

\* the list runs through a node that popServer has freed
FollowDanglingLog(kind) ==
  /\ AtLog(kind) /\ Len(logFds[kind]) + 1 \in danglingLogs[kind]
  /\ ctx' = "undefined"
  /\ UNCHANGED <<given, lists, logging, certFile, said, done, opened>>

Ready ==
  /\ ctx = "checked" /\ \A kind \in LogKinds : Len(logFds[kind]) = Len(logs[kind])
  /\ ctx' = "ready"
  /\ UNCHANGED <<given, lists, logging, certFile, said, done, opened>>

\* a host name that does not resolve; a pid file, doc root or log that cannot
\* be opened; a file that does not parse
EnvironmentFails ==
  /\ ctx \in {"location", "parsed", "checked"}
  /\ ctx' = "refused"
  /\ UNCHANGED <<given, lists, logging, certFile, said, done, opened>>

Ended == ctx \in {"ready", "refused", "undefined"} /\ UNCHANGED vars

-----------------------------------------------------------------------------
Directive ==
  \/ \E n \in PortNums, opt \in {"plain", "ssl", "sslFirst"} : Listen(n, opt)
  \/ \E name \in Names : ServerName(name) \/ IndexFile(name)
  \/ ListenAny \/ Certificate
  \/ \E kind \in LogKinds : LogFileTwice(kind) \/ \E path \in Paths : LogFile(kind, path)
  \/ \E zero \in BOOLEAN : FastcgiParam(zero) \/ LocationParam(zero)
  \/ Root \/ ProxyPass \/ FastcgiPass \/ TryFiles
  \/ \E off \in BOOLEAN : Expires(off)

Next == \/ OpenServer \/ CloseServer \/ CloseHttp
        \/ \E uri \in Uris : OpenLocation(uri)
        \/ CloseLocation \/ Directive
        \/ CheckServers
        \/ \E kind \in LogKinds : OpenLogFile(kind) \/ FollowDanglingLog(kind)
        \/ Ready \/ EnvironmentFails \/ Ended

Spec == Init /\ [][Next]_vars
-----------------------------------------------------------------------------
(* Properties *)

Accepted == ctx \in {"checked", "ready"}

\* processInput: which handler a request for this location gets
Handler(loc) == IF "TRY_FILES" \in loc.type THEN "try_files"
                ELSE IF "PROXY_PASS" \in loc.type THEN "proxy"
                ELSE IF "FASTCGI_PASS" \in loc.type THEN "fastcgi" ELSE "file"

\* configureContext: the certificate of a port's process is that of the first
\* server in the list with the port
CertificateFor(n) ==
  LET has == {k \in DOMAIN servers : \E i \in DOMAIN servers[k].ports : servers[k].ports[i].portNum = n}
  IN  servers[CHOOSE k \in has : \A m \in has : k <= m].cert

\* every server with a TLS port names a certificate, and no `ssl` is said
\* before the port it is meant for
Certified ==
  /\ \A b \in DOMAIN written : ~written[b].early
  /\ \A k \in DOMAIN servers : servers[k].block # 0 /\ (\E i \in DOMAIN servers[k].ports : servers[k].ports[i].tls)
                                 => written[servers[k].block].cert

\* In an accepted configuration a port is TLS for all the servers that listen
\* on it or for none, so that the one process per port (startProcesses) serves
\* all of them alike; and if the servers are certified, every TLS process finds
\* a certificate, whichever server comes first.  Whether `ssl` has got to the
\* port it was written for is another matter: `listen ssl 443` sets it on the
\* port in front of the list, which is the one before (f_tls).
PortsConsistent ==
  Accepted => \A k \in DOMAIN servers : \A i \in DOMAIN servers[k].ports :
    LET port == servers[k].ports[i]
    IN  /\ \A m \in DOMAIN servers : \A j \in DOMAIN servers[m].ports :
             port.portNum = servers[m].ports[j].portNum => port.tls = servers[m].ports[j].tls
        /\ Certified /\ port.tls => CertificateFor(port.portNum)

OrDefault(seq, default) == IF seq = <<>> THEN <<default>> ELSE seq

\* every location block makes a location of its own (one that only says
\* expires changes the default instead)
OwnUris == \A b \in DOMAIN written : \A i \in DOMAIN written[b].uris : written[b].uris[i].own

\* What location directives have to do with what a location has.
Holds(loc, asks) ==
  /\ loc.passTo <=> asks \cap {"proxy_host", "fastcgi_host"} # {}
  /\ loc.group <=> asks \cap {"proxy_group", "fastcgi_group"} # {}
  /\ loc.tryTarget <=> "try_files" \in asks
  /\ "TRY_FILES" \in loc.type <=> "try_files" \in asks
  /\ loc.literal <=> "root" \notin asks

\* A server has the ports, names, index files and logs that its own block
\* names, or that are named before the block and after the one before, in the
\* order of the file, and the default of each kind it does not name: the global
\* lists carry nothing over, whatever was repeated or left out.  Its location
\* blocks make one location: it has the host, group, fallback and root that any
\* of them, and nothing outside the server's block, asks for, and matches what
\* the last of them matches.
OwnDirectives ==
  \A k \in DOMAIN servers : servers[k].block # 0 =>
    LET s == servers[k]
        b == written[s.block]
    IN  /\ [i \in DOMAIN s.ports |-> s.ports[i].portNum] = OrDefault(b.listens, DefaultPort)
        /\ s.names = OrDefault(b.names, DefaultName)
        /\ s.index = OrDefault(b.index, DefaultIndex)
        /\ \A kind \in LogKinds : logs[kind][s.log[kind]] = b.logs[kind]
        /\ Len(s.locations) = 1 /\ Holds(s.locations[1], b.asks)
        /\ OwnUris => s.locations[1].match = IF b.uris = <<>> THEN DefaultUri
                                             ELSE b.uris[Len(b.uris)].uri

\* getUpstreamServer: what it takes the address from
HasTarget(loc) == IF "UPSTREAM_GROUP" \in loc.type THEN loc.group ELSE loc.passTo

\* A request that an accepted configuration sends to handleProxyPass or to
\* handleFastCGIPass has an upstream to go to, with one exception, which
\* checkDocRoots lets through: fastcgi_pass names a group in a location that a
\* root has made, so that the location gets neither an address nor the flag that
\* getUpstreamServer looks for the group by.
TargetKnown ==
  Accepted =>
    \A k \in DOMAIN servers : \A i \in DOMAIN servers[k].locations :
      LET loc == servers[k].locations[i]
      IN  Handler(loc) \in {"proxy", "fastcgi"} /\ ~HasTarget(loc) =>
            /\ Handler(loc) = "fastcgi" /\ servers[k].block # 0
            /\ written[servers[k].block].first = "root"
            /\ "fastcgi_group" \in written[servers[k].block].asks

\* Logs of a kind with the same path share a descriptor and logs with
\* different paths never do, whatever the order they are declared in.
LogsShared ==
  ctx = "ready" => \A kind \in LogKinds : \A i, j \in DOMAIN logs[kind] :
                     logs[kind][i] = logs[kind][j] <=> logFds[kind][i] = logFds[kind][j]

\* what a block must say for the parser to free what is not its own
Fatal(b) ==
  \/ b.wild > 1 \/ b.odd
  \/ b.first # "root" /\ "root" \in b.asks
  \/ b.groups > 1

\* Reading the file ends in undefined behaviour exactly if a server block says
\* `listen *` twice, `expires off`, a fastcgi_param 0, a root after another
\* directive has made its first location, or a second group; after that, only
\* -n leads there, by the logs that popServer frees.
UndefinedExplained ==
  /\ Fatal(said) => ctx = "undefined"
  /\ \A b \in DOMAIN written : ~Fatal(written[b])
  /\ ctx = "undefined" => Fatal(said) \/ ~defaultServer
=============================================================================
