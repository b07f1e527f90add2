--------------------------- MODULE RequestsProofs ---------------------------
(***************************************************************************)
(* Proofs about Requests, for every number of workers, every configuration *)
(* and every set of requests.                                              *)
(***************************************************************************)
EXTENDS Requests, FiniteSetTheorems, WellFoundedInduction, TLAPS

-----------------------------------------------------------------------------
(* The invariant *)

\* The locations of the configuration.
Locations == {NoLocation} \cup UNION {Range(servers[k].locations) : k \in DOMAIN servers}

\* What responses are made of.
Bodies == {"error", "file", "forwarded", "listing"}

Jobs == [input : Inputs, server : 0..Len(servers), loc : Locations, room : Nat,
         path : Seq(STRING), file : Seq(STRING), fallback : BOOLEAN,
         replies : Seq([code : Nat, body : Bodies]),
         logged : Seq([code : Nat, server : Nat]), met : BOOLEAN]

\* The types of what requests are made of; the pages of listings are left out.
Typed ==
  /\ servers \in Sites /\ filesOpen \in Int
  /\ \E k \in DOMAIN servers : HasPort(listenPort, servers[k])
  /\ at \in [Workers -> Stages] /\ job \in [Workers -> Jobs]
  /\ tryTarget \in Seq(STRING)

Handling == ListingStages \cup {"stat", "upstream", "alloc", "copy", "statTarget", "serve"}

\* Each response is in the log, with its code and under the request's server.
Logged(j) ==
  /\ Len(j.logged) = Len(j.replies)
  /\ \A i \in DOMAIN j.replies : j.logged[i] = [code |-> j.replies[i].code, server |-> j.server]

\* What AnsweredOnce says of a request that has ended.
Ended(j) ==
  /\ \E n \in Early(j) :
       \/ Len(j.replies) = n + 1 /\ Len(j.logged) = n + 1
       \/ PassesOn(j) /\ Len(j.replies) = n /\ Len(j.logged) \in {n, n + 1}
  /\ \A i \in DOMAIN j.replies : j.logged[i] = [code |-> j.replies[i].code, server |-> j.server]

\* How many responses a request has got at a stage.
Answered(s, j) ==
  /\ s \in {"input", "routed"} => j.loc = NoLocation
  /\ s \in {"input", "routed", "tryFiles", "check"} => Len(j.replies) = 0
  /\ s \in Handling => Len(j.replies) \in Early(j)
  /\ s = "upstream" => PassesOn(j)
  /\ IF s = "done" THEN Ended(j) ELSE Logged(j)

\* What a request that has not met another one has in hand of t, the value of
\* tryTarget.
Falling(t, s, j) ==
  /\ s \in {"tryFiles", "check", "alloc", "copy", "statTarget"} => TryingFiles(j)
  /\ s \in {"check", "stat", "alloc", "copy", "statTarget"} /\ TryingFiles(j) /\ ~j.met =>
       t = CheckTryFilesFormat(j.loc)
  /\ s = "copy" /\ ~j.met => j.room = Len(CheckTryFilesFormat(j.loc))
  /\ s = "statTarget" /\ ~j.met => j.path = CheckTryFilesFormat(j.loc)
  /\ s \notin {"idle", "serve", "done"} => ~j.fallback
  /\ s \in {"serve", "done"} /\ j.fallback /\ ~j.met =>
       /\ j.file = j.loc.root \o CheckTryFilesFormat(j.loc)
       /\ j.path = CheckTryFilesFormat(j.loc)

Fits(t, s, j) == Answered(s, j) /\ Falling(t, s, j)

JobsFit == died.how = "no" => \A w \in Workers : Fits(tryTarget, at[w], job[w])

\* k is the first server of a list that serves the name and the port of a
\* request; without one it is the default.
FirstFound(list, default, input, k) ==
  LET port  == IF input.colon THEN input.port ELSE list[1].ports[1]
      found == {i \in DOMAIN list : Serves(list[i], input.name, port)}
  IN  /\ found # {} => k \in found /\ \A i \in found : k <= i
      /\ found = {} => k = IF default THEN 1 ELSE 0

\* The server of a request is the one getServerForHost has found.
Routed == \A w \in Workers :
            at[w] = "routed" => FirstFound(servers, defaultServer, job[w].input, job[w].server)

\* What a pointer that a worker at a stage should not have followed has to do
\* with its request.
Explained(how, default, s, j) ==
  /\ how = "null" => \/ j.input.data = "cut" \/ (~default /\ j.server = 0) \/ s = "upstream"
                     \/ Malformed(j) \/ j.met
  /\ how = "undefined" => j.met

\* A death outside the listings is explained.
DeathsFit ==
  died.how # "no" /\ died.by \notin Listings =>
    Explained(died.how, defaultServer, at[died.by], job[died.by])

\* Some location would leave a file open.
Leaky == \E k \in DOMAIN servers : \E i \in DOMAIN servers[k].locations :
           {"TRY_FILES", "PROXY_PASS"} \subseteq servers[k].locations[i].type

\* The workers that have a file to serve.
Serving(stages) == {w \in Workers : stages[w] = "serve"}

FilesCounted == Leaky \/ filesOpen = Cardinality(Serving(at))

FragmentsTaken == Listings = {} => fragments = NULL

IInv == Typed /\ JobsFit /\ Routed /\ DeathsFit /\ FilesCounted /\ FragmentsTaken

-----------------------------------------------------------------------------
(* Searching the lists of servers and locations *)

\* A set of positions has a first one.
LEMMA Least ==
  ASSUME NEW T, T \subseteq Nat, T # {}
  PROVE  \E m \in T : \A k \in T : m <= k
<1> DEFINE R == OpToRel(<, Nat)
<1>1. IsWellFoundedOn(R, Nat)
  BY NatLessThanWellFounded
<1>2. \A x, y \in Nat : <<x, y>> \in R <=> x < y
  BY DEF OpToRel
<1> HIDE DEF R
<1>3. PICK m \in T : \A y \in T : ~ (<<y, m>> \in R)
  BY <1>1, WFMin
<1>4. \A y \in T : ~ (y < m)
  BY <1>2, <1>3
<1> QED
  BY <1>4

\* getServerForHost returns the first server that serves the name and the port,
\* and otherwise the default.
LEMMA FirstServer ==
  ASSUME servers \in Sites, NEW input
  PROVE  /\ GetServerForHost(input) \in 0..Len(servers)
         /\ FirstFound(servers, defaultServer, input, GetServerForHost(input))
<1> DEFINE found == {k \in DOMAIN servers : Serves(servers[k], input.name, PortOf(input))}
<1>1. Len(servers) \in Nat /\ DOMAIN servers = 1..Len(servers) /\ servers # <<>>
  BY SitesAreServers, RequestBounds DEF IsList
<1>2. found \subseteq Nat /\ found \subseteq 1..Len(servers)
  BY <1>1
<1>3. CASE found # {}
  <2>1. \E k \in found : \A m \in found : k <= m
    BY <1>2, <1>3, Least
  <2>2. GetServerForHost(input) = CHOOSE k \in found : \A m \in found : k <= m
    BY <1>3 DEF GetServerForHost
  <2> HIDE DEF found
  <2>3. GetServerForHost(input) \in found /\ \A k \in found : GetServerForHost(input) <= k
    BY <2>1, <2>2
  <2> QED
    BY <1>1, <1>2, <1>3, <2>3 DEF found, FirstFound, PortOf
<1>4. CASE found = {}
  <2>1. GetServerForHost(input) = IF defaultServer THEN 1 ELSE 0
    BY <1>4 DEF GetServerForHost
  <2>2. 1 \in 0..Len(servers)
    BY <1>1, SitesAreServers
  <2> QED
    BY <1>1, <1>4, <2>1, <2>2 DEF FirstFound, PortOf
<1> QED
  BY <1>3, <1>4

\* The port of the process has a server.
LEMMA PortHasServer ==
  ASSUME servers \in Sites, \E k \in DOMAIN servers : HasPort(listenPort, servers[k])
  PROVE  ServerOfPort \in 0..Len(servers)
<1> DEFINE here == {k \in DOMAIN servers : HasPort(listenPort, servers[k])}
<1>1. Len(servers) \in Nat /\ DOMAIN servers = 1..Len(servers)
  BY SitesAreServers DEF IsList
<1>2. here \subseteq Nat /\ here \subseteq 1..Len(servers) /\ here # {}
  BY <1>1
<1>3. ServerOfPort = CHOOSE k \in here : \A m \in here : k <= m
  BY DEF ServerOfPort
<1> HIDE DEF here
<1>4. \E k \in here : \A m \in here : k <= m
  BY <1>2, Least
<1>5. ServerOfPort \in here
  BY <1>3, <1>4
<1> QED
  BY <1>1, <1>2, <1>5

\* What the handlers may rely on in a location of the configuration.
LEMMA LocationFields ==
  ASSUME servers \in Sites, NEW loc \in Locations
  PROVE  loc.root \in Seq(STRING) /\ CheckTryFilesFormat(loc) \in Seq(STRING)
<1>1. CASE loc = NoLocation
  BY <1>1 DEF NoLocation, CheckTryFilesFormat, NoTarget
<1>2. CASE loc # NoLocation
  <2>1. PICK k \in DOMAIN servers : loc \in Range(servers[k].locations)
    BY <1>2 DEF Locations
  <2>2. PICK i \in DOMAIN servers[k].locations : loc = servers[k].locations[i]
    BY <2>1 DEF Range
  <2>3. /\ loc.root \in Seq(STRING) /\ IsList(loc.targets)
        /\ \A t \in DOMAIN loc.targets : loc.targets[t].text \in Seq(STRING)
    BY <2>2, SitesAreServers
  <2>4. Len(loc.targets) >= 3 => loc.targets[3].text \in Seq(STRING)
    BY <2>3 DEF IsList
  <2>5. NoTarget \in Seq(STRING)
    BY DEF NoTarget
  <2>6. \/ CheckTryFilesFormat(loc) = NoTarget
        \/ Len(loc.targets) >= 3 /\ CheckTryFilesFormat(loc) = loc.targets[3].text
    BY DEF CheckTryFilesFormat
  <2> QED
    BY <2>3, <2>4, <2>5, <2>6
<1> QED
  BY <1>1, <1>2

\* getDocRoot returns a location of the configuration, or NULL.
LEMMA LocationFound ==
  ASSUME servers \in Sites, NEW k \in DOMAIN servers, NEW path
  PROVE  GetDocRoot(servers[k], path) \in Locations
<1> DEFINE found == {i \in DOMAIN servers[k].locations : Matches(servers[k].locations[i], path)}
<1>1. CASE found = {}
  BY <1>1 DEF GetDocRoot, Locations
<1>2. CASE found # {}
  <2>1. found \subseteq Nat
    BY SitesAreServers DEF IsList
  <2>2. \E i \in found : \A m \in found : i <= m
    BY <1>2, <2>1, Least
  <2> DEFINE first == CHOOSE i \in found : \A m \in found : i <= m
  <2>3. GetDocRoot(servers[k], path) = servers[k].locations[first]
    BY <1>2 DEF GetDocRoot
  <2> HIDE DEF found
  <2>4. first \in found
    BY <2>2
  <2> HIDE DEF first
  <2>5. first \in DOMAIN servers[k].locations
    BY <2>4 DEF found
  <2>6. servers[k].locations[first] \in Range(servers[k].locations)
    BY <2>5 DEF Range
  <2> QED
    BY <2>3, <2>6 DEF Locations
<1> QED
  BY <1>1, <1>2

\* A location that both tries files and passes on makes the configuration leaky.
LEMMA LeakyLocation ==
  ASSUME NEW loc \in Locations, {"TRY_FILES", "PROXY_PASS"} \subseteq loc.type
  PROVE  Leaky
<1>1. loc # NoLocation
  BY DEF NoLocation
<1>2. PICK k \in DOMAIN servers : loc \in Range(servers[k].locations)
  BY <1>1 DEF Locations
<1>3. PICK i \in DOMAIN servers[k].locations : loc = servers[k].locations[i]
  BY <1>2 DEF Range
<1> QED
  BY <1>3 DEF Leaky

-----------------------------------------------------------------------------
(* What a step does to the request of one worker *)

\* sendErrorResponse and its likes add one response and its log record.
LEMMA ReplyEffect ==
  ASSUME NEW j \in Jobs, NEW code \in Nat, NEW body \in Bodies
  PROVE  LET r == Reply(j, code, body)
         IN  /\ r \in Jobs /\ Len(r.replies) = Len(j.replies) + 1
             /\ Logged(j) => Logged(r)
             /\ r.input = j.input /\ r.server = j.server /\ r.loc = j.loc /\ r.room = j.room
             /\ r.path = j.path /\ r.file = j.file /\ r.fallback = j.fallback /\ r.met = j.met
<1> DEFINE r == Reply(j, code, body)
           c == [code |-> code, body |-> body]
           l == [code |-> code, server |-> j.server]
<1>1. /\ j.server \in Nat /\ j.replies \in Seq([code : Nat, body : Bodies])
      /\ j.logged \in Seq([code : Nat, server : Nat])
  BY DEF Jobs
<1>2. c \in [code : Nat, body : Bodies] /\ l \in [code : Nat, server : Nat]
  BY <1>1
<1>3. /\ r.replies = Append(j.replies, c) /\ r.logged = Append(j.logged, l)
      /\ r = [j EXCEPT !.replies = Append(j.replies, c), !.logged = Append(j.logged, l)]
  BY DEF Reply, Jobs
<1> HIDE DEF c, l
<1>4. /\ Append(j.replies, c) \in Seq([code : Nat, body : Bodies])
      /\ Append(j.logged, l) \in Seq([code : Nat, server : Nat])
  BY <1>1, <1>2
<1>5. /\ r \in Jobs
      /\ r.input = j.input /\ r.server = j.server /\ r.loc = j.loc /\ r.room = j.room
      /\ r.path = j.path /\ r.file = j.file /\ r.fallback = j.fallback /\ r.met = j.met
  BY <1>3, <1>4 DEF Jobs
<1>6. Len(r.replies) = Len(j.replies) + 1
  BY <1>1, <1>2, <1>3
<1>7. ASSUME Logged(j) PROVE Logged(r)
  <2>1. Len(j.logged) = Len(j.replies) /\ Len(j.replies) \in Nat /\ DOMAIN j.replies = 1..Len(j.replies)
    BY <1>1, <1>7 DEF Logged
  <2>2. Len(r.logged) = Len(r.replies) /\ DOMAIN r.replies = 1..(Len(j.replies) + 1)
    BY <1>1, <1>2, <1>3, <2>1
  <2>3. ASSUME NEW i \in 1..(Len(j.replies) + 1)
        PROVE  r.logged[i] = [code |-> r.replies[i].code, server |-> r.server]
    <3>1. CASE i = Len(j.replies) + 1
      <4>1. r.logged[i] = l /\ r.replies[i] = c
        BY <1>1, <1>2, <1>3, <2>1, <3>1
      <4> QED
        BY <1>5, <4>1 DEF c, l
    <3>2. CASE i # Len(j.replies) + 1
      <4>1. i \in 1..Len(j.replies)
        BY <2>1, <3>2
      <4>2. r.logged[i] = j.logged[i] /\ r.replies[i] = j.replies[i]
        BY <1>1, <1>2, <1>3, <2>1, <4>1
      <4> QED
        BY <1>5, <1>7, <2>1, <4>1, <4>2 DEF Logged
    <3> QED
      BY <3>1, <3>2
  <2> QED
    BY <2>2, <2>3 DEF Logged
<1> QED
  BY <1>5, <1>6, <1>7

\* A handler may have answered before its last step at most once.
LEMMA EarlyAre ==
  ASSUME NEW j
  PROVE  Early(j) \subseteq {0, 1} /\ (~Malformed(j) => 0 \in Early(j)) /\ (j.met => 1 \in Early(j))
BY DEF Early

\* The last response of a handler.
LEMMA EndFits ==
  ASSUME NEW t, NEW s \in {"input", "routed"} \cup Handling, NEW j \in Jobs, Fits(t, s, j),
         NEW code \in Nat, NEW body \in Bodies
  PROVE  Reply(j, code, body) \in Jobs /\ Fits(t, "done", Reply(j, code, body))
<1> DEFINE r == Reply(j, code, body)
<1>1. s # "done"
  BY DEF Handling, ListingStages
<1>2. Logged(j) /\ Falling(t, s, j)
  BY <1>1 DEF Fits, Answered
<1>3. /\ r \in Jobs /\ Len(r.replies) = Len(j.replies) + 1 /\ Logged(r)
      /\ r.loc = j.loc /\ r.path = j.path /\ r.file = j.file /\ r.fallback = j.fallback
      /\ r.met = j.met
  BY <1>2, ReplyEffect
<1> HIDE DEF r
<1>4. Early(r) = Early(j)
  BY <1>3 DEF Early, Malformed, TryingFiles
<1>5. Len(j.replies) \in Early(j)
  <2>1. CASE s \in {"input", "routed"}
    <3>1. ~Malformed(j) /\ Len(j.replies) = 0
      BY <2>1 DEF Fits, Answered, Malformed, TryingFiles, NoLocation
    <3> QED
      BY <3>1, EarlyAre
  <2>2. CASE s \in Handling
    BY <2>2 DEF Fits, Answered
  <2> QED
    BY <2>1, <2>2
<1>6. Ended(r)
  BY <1>3, <1>4, <1>5 DEF Ended, Logged
<1>7. Answered("done", r)
  BY <1>6 DEF Answered, Handling, ListingStages
<1>8. s \notin {"idle", "done"}
  BY DEF Handling, ListingStages
<1>9. Falling(t, "done", r)
  BY <1>2, <1>3, <1>8 DEF Falling
<1> QED
  BY <1>3, <1>7, <1>9 DEF Fits, r

\* All stages of a listing ask the same of a request.
LEMMA ListingFits ==
  ASSUME NEW t, NEW s \in ListingStages \cup {"stat"}, NEW r \in ListingStages, NEW j, Fits(t, s, j)
  PROVE  Fits(t, r, j)
BY DEF Fits, Answered, Falling, Handling, ListingStages

\* The number of files that are served follows a worker's stage.
LEMMA ServingMoves ==
  ASSUME NEW A \in [Workers -> Stages], NEW w \in Workers, NEW s \in Stages
  PROVE  /\ Cardinality(Serving(A)) \in Nat
         /\ Cardinality(Serving([A EXCEPT ![w] = s])) =
              Cardinality(Serving(A)) + (IF s = "serve" THEN 1 ELSE 0)
                - (IF A[w] = "serve" THEN 1 ELSE 0)
<1> DEFINE B == [A EXCEPT ![w] = s]
<1>1. IsFiniteSet(Serving(A))
  BY WorkersFinite, FS_Subset DEF Serving
<1>2. Cardinality(Serving(A)) \in Nat
  BY <1>1, FS_CardinalityType
<1>3. CASE (s = "serve") <=> (A[w] = "serve")
  <2>1. Serving(B) = Serving(A)
    BY <1>3 DEF Serving
  <2> QED
    BY <1>2, <1>3, <2>1
<1>4. CASE s = "serve" /\ A[w] # "serve"
  <2>1. Serving(B) = Serving(A) \cup {w} /\ w \notin Serving(A)
    BY <1>4 DEF Serving
  <2>2. Cardinality(Serving(B)) = Cardinality(Serving(A)) + 1
    BY <1>1, <2>1, FS_AddElement
  <2> QED
    BY <1>2, <1>4, <2>2
<1>5. CASE s # "serve" /\ A[w] = "serve"
  <2>1. Serving(B) = Serving(A) \ {w} /\ w \in Serving(A)
    BY <1>5 DEF Serving
  <2>2. Cardinality(Serving(B)) = Cardinality(Serving(A)) - 1
    BY <1>1, <2>1, FS_RemoveElement
  <2> QED
    BY <1>2, <1>5, <2>2
<1> QED
  BY <1>3, <1>4, <1>5

\* The configuration does not change, and neither does what depends on it only.
LEMMA ConfigurationKept ==
  ASSUME UNCHANGED fixed
  PROVE  /\ servers' = servers /\ defaultServer' = defaultServer /\ listenPort' = listenPort
         /\ Jobs' = Jobs /\ (Leaky' <=> Leaky)
BY DEF fixed, Jobs, Locations, Leaky

\* A step that takes one worker to a stage and a request that fit together
\* keeps the invariant, if it counts the files it opens and closes.
LEMMA SetKeeps ==
  ASSUME IInv, died.how = "no", UNCHANGED <<fixed, tryTarget>>,
         NEW w \in Workers, NEW s \in Stages, NEW j \in Jobs, Set(w, s, j), Fits(tryTarget, s, j),
         s = "routed" => FirstFound(servers, defaultServer, j.input, j.server),
         filesOpen' \in Int, FragmentsTaken',
         Leaky \/ filesOpen' = filesOpen + (IF s = "serve" THEN 1 ELSE 0)
                                 - (IF at[w] = "serve" THEN 1 ELSE 0)
  PROVE  IInv'
<1>1. /\ servers' = servers /\ defaultServer' = defaultServer /\ listenPort' = listenPort
      /\ Jobs' = Jobs /\ (Leaky' <=> Leaky)
  BY ConfigurationKept
<1>2. /\ at' = [at EXCEPT ![w] = s] /\ job' = [job EXCEPT ![w] = j] /\ died' = died
      /\ tryTarget' = tryTarget
      /\ at \in [Workers -> Stages] /\ job \in [Workers -> Jobs]
  BY DEF Set, Goto, IInv, Typed
<1>3. \A v \in Workers : /\ at'[v] = IF v = w THEN s ELSE at[v]
                         /\ job'[v] = IF v = w THEN j ELSE job[v]
  BY <1>2
<1>4. Typed'
  BY <1>1, <1>2 DEF IInv, Typed
<1>5. JobsFit'
  BY <1>2, <1>3 DEF IInv, JobsFit
<1>6. Routed'
  BY <1>1, <1>3 DEF IInv, Routed
<1>7. DeathsFit'
  BY <1>2 DEF DeathsFit
<1>8. FilesCounted'
  <2>1. CASE Leaky
    BY <1>1, <2>1 DEF FilesCounted
  <2>2. CASE ~Leaky
    <3>1. filesOpen = Cardinality(Serving(at))
      BY <2>2 DEF IInv, FilesCounted
    <3>2. /\ Cardinality(Serving(at)) \in Nat
          /\ Cardinality(Serving(at')) = Cardinality(Serving(at)) + (IF s = "serve" THEN 1 ELSE 0)
                                           - (IF at[w] = "serve" THEN 1 ELSE 0)
      BY <1>2, ServingMoves
    <3> QED
      BY <2>2, <3>1, <3>2 DEF FilesCounted
  <2> QED
    BY <2>1, <2>2
<1> QED
  BY <1>4, <1>5, <1>6, <1>7, <1>8 DEF IInv

\* While no listing ends, the list of fragments is only left to listings.
LEMMA FragmentsStay ==
  ASSUME IInv, NEW w \in Workers, NEW s \in Stages, at' = [at EXCEPT ![w] = s],
         \/ s \in ListingStages
         \/ fragments' = fragments /\ at[w] \notin ListingStages
         \/ fragments' = NULL
  PROVE  FragmentsTaken'
<1>1. at \in [Workers -> Stages] /\ FragmentsTaken
  BY DEF IInv, Typed
<1>2. \A v \in Workers : at'[v] = IF v = w THEN s ELSE at[v]
  BY <1>1
<1>3. CASE s \in ListingStages
  BY <1>2, <1>3 DEF FragmentsTaken, Listings
<1>4. CASE fragments' = fragments /\ at[w] \notin ListingStages
  <2>1. Listings \subseteq Listings'
    BY <1>2, <1>4 DEF Listings
  <2> QED
    BY <1>1, <1>4, <2>1 DEF FragmentsTaken
<1>5. CASE fragments' = NULL
  BY <1>5 DEF FragmentsTaken, NULL
<1> QED
  BY <1>3, <1>4, <1>5

\* A step of a worker outside the listings that opens or closes no file.
LEMMA MoveKeeps ==
  ASSUME IInv, died.how = "no", UNCHANGED shared,
         NEW w \in Workers, NEW s \in Stages, NEW j \in Jobs, Set(w, s, j), Fits(tryTarget, s, j),
         s = "routed" => FirstFound(servers, defaultServer, j.input, j.server),
         s # "serve", at[w] \notin ListingStages \cup {"serve"}
  PROVE  IInv'
<1>1. UNCHANGED <<fixed, tryTarget>> /\ filesOpen' = filesOpen /\ fragments' = fragments
  BY DEF shared, heap
<1>2. filesOpen \in Int
  BY DEF IInv, Typed
<1>3. FragmentsTaken'
  BY <1>1, FragmentsStay DEF Set, Goto
<1>4. filesOpen' = filesOpen + (IF s = "serve" THEN 1 ELSE 0) - (IF at[w] = "serve" THEN 1 ELSE 0)
  BY <1>1, <1>2
<1> QED
  BY <1>1, <1>2, <1>3, <1>4, SetKeeps

\* What the invariant says of the request of one worker.
LEMMA JobFacts ==
  ASSUME IInv, died.how = "no", NEW w \in Workers
  PROVE  /\ at[w] \in Stages /\ job[w] \in Jobs /\ Fits(tryTarget, at[w], job[w])
         /\ job[w].loc \in Locations /\ job[w].server \in 0..Len(servers)
         /\ job[w].path \in Seq(STRING) /\ job[w].input \in Inputs
         /\ tryTarget \in Seq(STRING) /\ servers \in Sites
<1>1. at[w] \in Stages /\ job[w] \in Jobs /\ tryTarget \in Seq(STRING) /\ servers \in Sites
  BY DEF IInv, Typed
<1>2. Fits(tryTarget, at[w], job[w])
  BY DEF IInv, JobsFit
<1> QED
  BY <1>1, <1>2 DEF Jobs

\* A handler ends with its last response.
LEMMA EndKeeps ==
  ASSUME IInv, died.how = "no", UNCHANGED shared, NEW w \in Workers,
         at[w] \in {"input", "routed"} \cup (Handling \ (ListingStages \cup {"serve"})),
         NEW code \in Nat, NEW body \in Bodies, Set(w, "done", Reply(job[w], code, body))
  PROVE  IInv'
<1>1. job[w] \in Jobs /\ Fits(tryTarget, at[w], job[w])
  BY JobFacts
<1>2. /\ Reply(job[w], code, body) \in Jobs
      /\ Fits(tryTarget, "done", Reply(job[w], code, body))
  BY <1>1, EndFits
<1>3. at[w] \notin ListingStages \cup {"serve"} /\ "done" \in Stages
  BY DEF ListingStages, Stages
<1> QED
  BY <1>2, <1>3, MoveKeeps

\* The process dies of a request that explains it, or of a listing.
LEMMA CrashKeeps ==
  ASSUME IInv, NEW w \in Workers, NEW how, how # "no",
         at[w] \in ListingStages \/ Explained(how, defaultServer, at[w], job[w]), Crash(w, how)
  PROVE  IInv'
<1>1. /\ died' = [how |-> how, by |-> w] /\ at' = at /\ fragments' = fragments /\ job' = job
      /\ filesOpen' = filesOpen /\ tryTarget' = tryTarget /\ UNCHANGED fixed
  BY DEF Crash, Dies, heap
<1>2. /\ servers' = servers /\ defaultServer' = defaultServer /\ listenPort' = listenPort
      /\ Jobs' = Jobs /\ (Leaky' <=> Leaky)
  BY <1>1, ConfigurationKept
<1>3. Typed' /\ Routed' /\ FilesCounted' /\ FragmentsTaken'
  BY <1>1, <1>2 DEF IInv, Typed, Routed, FilesCounted, FragmentsTaken, Listings
<1>4. died'.how = how /\ died'.how # "no" /\ died'.by = w
  BY <1>1
<1>5. JobsFit'
  BY <1>4 DEF JobsFit
<1>6. at[w] \in ListingStages => w \in Listings'
  BY <1>1 DEF Listings
<1>7. DeathsFit'
  BY <1>1, <1>2, <1>4, <1>6 DEF DeathsFit
<1> QED
  BY <1>3, <1>5, <1>7 DEF IInv

\* A peer may have hung up whatever the request.
LEMMA HangUpKeeps ==
  ASSUME IInv, NEW w \in Workers, NEW how \in {"signal", "exit"}, Crash(w, how)
  PROVE  IInv'
<1>1. Explained(how, defaultServer, at[w], job[w])
  BY DEF Explained
<1> QED
  BY <1>1, CrashKeeps

LEMMA FailKeeps ==
  ASSUME IInv, died.how = "no", UNCHANGED shared, NEW w \in Workers,
         at[w] \in {"input", "routed"} \cup (Handling \ (ListingStages \cup {"serve"})),
         NEW code \in Nat, Fail(w, code)
  PROVE  IInv'
<1>1. "error" \in Bodies
  BY DEF Bodies
<1>2. CASE Set(w, "done", Reply(job[w], code, "error"))
  BY <1>1, <1>2, EndKeeps
<1>3. CASE Crash(w, "signal")
  BY <1>3, HangUpKeeps
<1> QED
  BY <1>2, <1>3 DEF Fail, Error

-----------------------------------------------------------------------------
(* processInput and the handlers *)

LEMMA RequestKeeps ==
  ASSUME IInv, died.how = "no", NEW w \in Workers, NEW input \in Inputs, Request(w, input)
  PROVE  IInv'
<1> DEFINE j == NewJob(input)
<1>1. ServerOfPort \in 0..Len(servers)
  BY PortHasServer DEF IInv, Typed
<1>2. j \in Jobs
  <2>1. NoLocation \in Locations /\ input.path \in Seq(STRING)
    BY InputsHavePaths DEF Locations
  <2>2. /\ <<>> \in Seq(STRING) /\ <<>> \in Seq([code : Nat, body : Bodies])
        /\ <<>> \in Seq([code : Nat, server : Nat])
    OBVIOUS
  <2> QED
    BY <1>1, <2>1, <2>2 DEF Jobs, NewJob
<1>3. Fits(tryTarget, "input", j)
  <2>1. Answered("input", j)
    BY DEF Logged, Answered, NewJob, Handling, ListingStages
  <2>2. Falling(tryTarget, "input", j)
    BY DEF Falling, NewJob
  <2> QED
    BY <2>1, <2>2 DEF Fits
<1> HIDE DEF j
<1>4. /\ Set(w, "input", j) /\ UNCHANGED <<fixed, tryTarget>> /\ filesOpen' = filesOpen
      /\ fragments' = fragments /\ at[w] \notin ListingStages \cup {"serve"}
  BY DEF Request, heap, ListingStages, j
<1>5. "input" \in Stages /\ filesOpen \in Int
  BY DEF Stages, IInv, Typed
<1>6. FragmentsTaken'
  BY <1>4, <1>5, FragmentsStay DEF Set, Goto
<1>7. filesOpen' \in Int /\ filesOpen' = filesOpen + (IF "input" = "serve" THEN 1 ELSE 0)
                                           - (IF at[w] = "serve" THEN 1 ELSE 0)
  BY <1>4, <1>5
<1> QED
  BY <1>2, <1>3, <1>4, <1>5, <1>6, <1>7, SetKeeps

LEMMA RefuseKeeps ==
  ASSUME IInv, died.how = "no", NEW w \in Workers, Refuse(w)
  PROVE  IInv'
<1>1. (IF job[w].input.data = "full" THEN 413 ELSE 400) \in Nat
  OBVIOUS
<1>2. UNCHANGED shared /\ Fail(w, IF job[w].input.data = "full" THEN 413 ELSE 400) /\ at[w] = "input"
  BY DEF Refuse
<1> QED
  BY <1>1, <1>2, FailKeeps

LEMMA CutKeeps ==
  ASSUME IInv, died.how = "no", NEW w \in Workers, Cut(w)
  PROVE  IInv'
<1>1. Explained("null", defaultServer, at[w], job[w]) /\ Crash(w, "null")
  BY DEF Cut, Explained
<1> QED
  BY <1>1, CrashKeeps

LEMMA FindServerKeeps ==
  ASSUME IInv, died.how = "no", NEW w \in Workers, FindServer(w)
  PROVE  IInv'
<1> DEFINE k == GetServerForHost(job[w].input)
           j == [job[w] EXCEPT !.server = k]
<1>1. /\ at[w] = "input" /\ job[w] \in Jobs /\ Fits(tryTarget, "input", job[w]) /\ servers \in Sites
  BY JobFacts DEF FindServer
<1>2. k \in 0..Len(servers) /\ FirstFound(servers, defaultServer, job[w].input, k)
  BY <1>1, FirstServer
<1>3. Set(w, "routed", j) /\ UNCHANGED shared
  BY DEF FindServer
<1> HIDE DEF k
<1>4. /\ j \in Jobs /\ j.server = k /\ j.input = job[w].input /\ j.loc = job[w].loc
      /\ j.replies = job[w].replies /\ j.logged = job[w].logged /\ j.fallback = job[w].fallback
  BY <1>1, <1>2 DEF Jobs
<1> HIDE DEF j
<1>5. Fits(tryTarget, "routed", j)
  <2>1. Len(j.replies) = 0 /\ j.loc = NoLocation /\ ~j.fallback /\ Len(j.logged) = 0
    BY <1>1, <1>4 DEF Fits, Answered, Logged, Falling
  <2>2. Logged(j)
    <3>1. j.replies = <<>>
      BY <1>4, <2>1 DEF Jobs
    <3> QED
      BY <2>1, <3>1 DEF Logged
  <2>3. Answered("routed", j)
    BY <2>1, <2>2 DEF Answered, Handling, ListingStages
  <2>4. Falling(tryTarget, "routed", j)
    BY <2>1 DEF Falling
  <2> QED
    BY <2>3, <2>4 DEF Fits
<1>6. "routed" \in Stages /\ at[w] \notin ListingStages \cup {"serve"}
  BY <1>1 DEF Stages, ListingStages
<1> QED
  BY <1>2, <1>3, <1>4, <1>5, <1>6, MoveKeeps

\* The 404 is out when errorLog follows NULL.
LEMMA ErrorLogKeeps ==
  ASSUME IInv, NEW w \in Workers, at[w] = "routed", job[w].server = 0,
         died' = [how |-> "null", by |-> w], UNCHANGED <<at, shared>>,
         job' = [job EXCEPT ![w].replies = Append(@, [code |-> 404, body |-> "error"])]
  PROVE  IInv'
<1> DEFINE rs == Append(job[w].replies, [code |-> 404, body |-> "error"])
           j  == [job[w] EXCEPT !.replies = rs]
<1>1. /\ died' = [how |-> "null", by |-> w] /\ at' = at /\ fragments' = fragments
      /\ job' = [job EXCEPT ![w] = j]
      /\ filesOpen' = filesOpen /\ tryTarget' = tryTarget /\ UNCHANGED fixed
  BY DEF shared, heap
<1>2. /\ servers' = servers /\ defaultServer' = defaultServer /\ listenPort' = listenPort
      /\ Jobs' = Jobs /\ (Leaky' <=> Leaky)
  BY <1>1, ConfigurationKept
<1>3. job[w] \in Jobs /\ job \in [Workers -> Jobs] /\ servers \in Sites
  BY DEF IInv, Typed
<1>4. j \in Jobs /\ j.server = 0 /\ j.input = job[w].input
  <2>1. /\ job[w].replies \in Seq([code : Nat, body : Bodies])
        /\ [code |-> 404, body |-> "error"] \in [code : Nat, body : Bodies]
    BY <1>3 DEF Jobs, Bodies
  <2>2. rs \in Seq([code : Nat, body : Bodies])
    BY <2>1
  <2> HIDE DEF rs
  <2>3. j \in Jobs
    BY <1>3, <2>2 DEF Jobs
  <2>4. j.server = job[w].server /\ j.input = job[w].input
    BY <1>3 DEF Jobs
  <2> QED
    BY <2>3, <2>4
<1> HIDE DEF j
<1>5. job'[w] = j /\ job' \in [Workers -> Jobs] /\ \A v \in Workers : v # w => job'[v] = job[v]
  BY <1>1, <1>3, <1>4
<1>6. ~defaultServer
  <2>1. FirstFound(servers, defaultServer, job[w].input, 0)
    BY <1>1 DEF IInv, Routed
  <2>2. 0 \notin DOMAIN servers
    BY <1>3, SitesAreServers DEF IsList
  <2> QED
    BY <2>1, <2>2 DEF FirstFound
<1>7. Typed' /\ FilesCounted' /\ FragmentsTaken'
  BY <1>1, <1>2, <1>5 DEF IInv, Typed, FilesCounted, FragmentsTaken, Listings
<1>8. Routed'
  BY <1>1, <1>2, <1>4, <1>5 DEF IInv, Routed
<1>9. died'.how = "null" /\ died'.by = w
  BY <1>1
<1>10. JobsFit'
  BY <1>9 DEF JobsFit
<1>11. DeathsFit'
  BY <1>2, <1>4, <1>5, <1>6, <1>9 DEF DeathsFit, Explained
<1> QED
  BY <1>7, <1>8, <1>10, <1>11 DEF IInv

LEMMA NoServerKeeps ==
  ASSUME IInv, died.how = "no", NEW w \in Workers, NoServer(w)
  PROVE  IInv'
BY ErrorLogKeeps, HangUpKeeps DEF NoServer

LEMMA NoDocRootKeeps ==
  ASSUME IInv, died.how = "no", NEW w \in Workers, NoDocRoot(w) \/ UriTooLong(w) \/ NotAllowed(w)
  PROVE  IInv'
<1>1. at[w] = "routed" /\ UNCHANGED shared /\ (Fail(w, 500) \/ Fail(w, 414) \/ Fail(w, 405))
  BY DEF NoDocRoot, UriTooLong, NotAllowed
<1>2. 500 \in Nat /\ 414 \in Nat /\ 405 \in Nat
  OBVIOUS
<1> QED
  BY <1>1, <1>2, FailKeeps

LEMMA DispatchKeeps ==
  ASSUME IInv, died.how = "no", NEW w \in Workers, Dispatch(w)
  PROVE  IInv'
<1> DEFINE loc  == GetDocRoot(servers[job[w].server], job[w].path)
           j    == [job[w] EXCEPT !.loc = loc]
           goal == Handler(loc, job[w].input.verb)
<1>1. /\ at[w] = "routed" /\ job[w] \in Jobs /\ Fits(tryTarget, "routed", job[w])
      /\ servers \in Sites /\ job[w].server \in DOMAIN servers
  BY JobFacts, SitesAreServers DEF Dispatch, IsList
<1>2. loc \in Locations
  BY <1>1, LocationFound
<1>3. UNCHANGED shared /\ Set(w, goal, j) /\ goal # "done"
  BY DEF Dispatch
<1>4. /\ goal \in {"tryFiles", "upstream", "stat"}
      /\ goal = "tryFiles" <=> "TRY_FILES" \in loc.type
      /\ goal = "upstream" => loc.type \cap {"PROXY_PASS", "FASTCGI_PASS"} # {}
  BY <1>3 DEF Handler
<1> HIDE DEF loc, goal
<1>5. /\ j \in Jobs /\ j.loc = loc /\ j.server = job[w].server /\ j.replies = job[w].replies
      /\ j.logged = job[w].logged /\ j.fallback = job[w].fallback
  BY <1>1, <1>2 DEF Jobs
<1> HIDE DEF j
<1>6. Len(j.replies) = 0 /\ ~j.fallback /\ Logged(j)
  BY <1>1, <1>5 DEF Fits, Answered, Logged, Falling
<1>7. goal \in Stages /\ at[w] \notin ListingStages \cup {"serve"} /\ goal \notin {"serve", "routed"}
  BY <1>1, <1>4 DEF Stages, ListingStages
<1>8. goal # "tryFiles" => ~TryingFiles(j) /\ 0 \in Early(j)
  BY <1>4, <1>5, EarlyAre DEF TryingFiles, Malformed
<1>9. Answered(goal, j)
  BY <1>4, <1>5, <1>6, <1>8 DEF Answered, PassesOn, Handling, ListingStages
<1>10. Falling(tryTarget, goal, j)
  BY <1>4, <1>5, <1>6, <1>8 DEF Falling, TryingFiles
<1> QED
  BY <1>3, <1>5, <1>7, <1>9, <1>10, MoveKeeps DEF Fits

\* The response that is logged though the upstream server has sent none.
LEMMA NoAnswerFits ==
  ASSUME NEW t, NEW j \in Jobs, Fits(t, "upstream", j), NEW l \in [code : Nat, server : Nat],
         NEW k, k = [j EXCEPT !.logged = Append(@, l)]
  PROVE  k \in Jobs /\ Fits(t, "done", k)
<1>1. j.logged \in Seq([code : Nat, server : Nat]) /\ j.replies \in Seq([code : Nat, body : Bodies])
  BY DEF Jobs
<1>2. Append(j.logged, l) \in Seq([code : Nat, server : Nat])
  BY <1>1
<1>3. /\ k \in Jobs /\ k.logged = Append(j.logged, l) /\ k.replies = j.replies
      /\ k.server = j.server /\ k.loc = j.loc /\ k.path = j.path /\ k.file = j.file
      /\ k.fallback = j.fallback /\ k.met = j.met
  BY <1>2 DEF Jobs
<1>4. Logged(j) /\ Len(j.replies) \in Early(j) /\ PassesOn(j)
  BY DEF Fits, Answered, Handling
<1>5. Early(k) = Early(j) /\ PassesOn(k)
  BY <1>3, <1>4 DEF Early, Malformed, TryingFiles, PassesOn
<1>6. Len(k.logged) = Len(k.replies) + 1 /\ \A i \in DOMAIN k.replies : k.logged[i] = j.logged[i]
  <2>1. Len(j.logged) = Len(j.replies)
    BY <1>4 DEF Logged
  <2>2. PICK a : a = j.logged
    OBVIOUS
  <2>3. PICK b : b = j.replies
    OBVIOUS
  <2>4. a \in Seq([code : Nat, server : Nat]) /\ b \in Seq([code : Nat, body : Bodies]) /\ Len(a) = Len(b)
    BY <1>1, <2>1, <2>2, <2>3
  <2>5. Len(Append(a, l)) = Len(b) + 1 /\ \A i \in DOMAIN b : Append(a, l)[i] = a[i]
    BY ONLY <2>4, l \in [code : Nat, server : Nat]
  <2> QED
    BY <1>3, <2>2, <2>3, <2>5
<1>7. Ended(k)
  <2>1. \A i \in DOMAIN k.replies : k.logged[i] = [code |-> k.replies[i].code, server |-> k.server]
    BY <1>3, <1>4, <1>6 DEF Logged
  <2> QED
    BY <1>3, <1>4, <1>5, <1>6, <2>1 DEF Ended
<1>8. Answered("done", k)
  BY <1>7 DEF Answered, Handling, ListingStages
<1>9. Falling(t, "done", k)
  BY <1>3 DEF Fits, Falling
<1> QED
  BY <1>3, <1>8, <1>9 DEF Fits

LEMMA UpstreamKeeps ==
  ASSUME IInv, died.how = "no", NEW w \in Workers,
         \/ UpstreamFails(w) \/ NoAnswer(w)
         \/ \E code \in UpstreamCodes : Forward(w, code)
  PROVE  IInv'
<1>1. /\ at[w] = "upstream" /\ job[w] \in Jobs /\ Fits(tryTarget, "upstream", job[w])
      /\ UNCHANGED shared
  BY JobFacts DEF Forward, UpstreamFails, NoAnswer
<1>2. /\ at[w] \in Handling \ (ListingStages \cup {"serve"}) /\ "forwarded" \in Bodies
      /\ "done" \in Stages
  BY <1>1 DEF Handling, ListingStages, Bodies, Stages
<1>3. ASSUME NEW code \in UpstreamCodes, Forward(w, code)
      PROVE  IInv'
  <2>1. code \in Nat /\ Set(w, "done", Reply(job[w], code, "forwarded"))
    BY <1>3 DEF UpstreamCodes, Forward
  <2> QED
    BY <1>1, <1>2, <2>1, EndKeeps
<1>4. CASE UpstreamFails(w)
  <2>1. Logged(job[w]) /\ Len(job[w].replies) \in Early(job[w]) /\ PassesOn(job[w])
    BY <1>1 DEF Fits, Answered, Handling
  <2>2. Ended(job[w])
    BY <2>1 DEF Ended, Logged
  <2>3. Fits(tryTarget, "done", job[w])
    BY <1>1, <2>2 DEF Fits, Answered, Falling, Handling, ListingStages
  <2>4. Set(w, "done", job[w])
    BY <1>4 DEF UpstreamFails
  <2> QED
    BY <1>1, <1>2, <2>3, <2>4, MoveKeeps
<1>5. CASE NoAnswer(w)
  <2>1. PICK l : l = [code |-> 200, server |-> job[w].server]
    OBVIOUS
  <2>2. PICK k : k = [job[w] EXCEPT !.logged = Append(@, l)]
    OBVIOUS
  <2>3. l \in [code : Nat, server : Nat]
    BY <1>1, <2>1 DEF Jobs
  <2>4. k \in Jobs /\ Fits(tryTarget, "done", k)
    BY <1>1, <2>2, <2>3, NoAnswerFits
  <2>5. Set(w, "done", k)
    BY <1>5, <2>1, <2>2 DEF NoAnswer
  <2> QED
    BY <1>1, <1>2, <2>4, <2>5, MoveKeeps
<1> QED
  BY <1>3, <1>4, <1>5

LEMMA UpstreamDies ==
  ASSUME IInv, NEW w \in Workers, NoUpstream(w) \/ ForwardDies(w)
  PROVE  IInv'
<1>1. at[w] = "upstream" /\ \E how \in {"exit", "signal", "null"} : Crash(w, how)
  BY DEF NoUpstream, ForwardDies
<1>2. PICK how \in {"exit", "signal", "null"} : Crash(w, how)
  BY <1>1
<1>3. Explained(how, defaultServer, at[w], job[w]) /\ how # "no"
  BY <1>1 DEF Explained
<1> QED
  BY <1>2, <1>3, CrashKeeps

LEMMA NotFoundKeeps ==
  ASSUME IInv, died.how = "no", NEW w \in Workers, NotFound(w) \/ NoIndex(w)
  PROVE  IInv'
<1>1. /\ at[w] = "stat" /\ Missing(w) /\ UNCHANGED shared
      /\ job[w] \in Jobs /\ Fits(tryTarget, "stat", job[w])
  BY JobFacts DEF NotFound, NoIndex
<1>2. /\ at[w] \in Handling \ (ListingStages \cup {"serve"}) /\ 404 \in Nat
      /\ "alloc" \in Stages /\ "upstream" \in Stages
  BY <1>1 DEF Handling, ListingStages, Stages
<1>3. CASE ~TryingFiles(job[w])
  BY <1>1, <1>2, <1>3, FailKeeps DEF Missing
<1>4. CASE TryingFiles(job[w]) /\ "PROXY_PASS" \in job[w].loc.type
  <2>1. Fits(tryTarget, "upstream", job[w])
    BY <1>1, <1>4 DEF Fits, Answered, Falling, Handling, ListingStages, PassesOn
  <2>2. Set(w, "upstream", job[w])
    BY <1>1, <1>4 DEF Missing
  <2> QED
    BY <1>1, <1>2, <2>1, <2>2, MoveKeeps
<1>5. CASE TryingFiles(job[w]) /\ "PROXY_PASS" \notin job[w].loc.type
  <2>1. Fits(tryTarget, "alloc", job[w])
    BY <1>1, <1>5 DEF Fits, Answered, Falling, Handling, ListingStages
  <2>2. Set(w, "alloc", job[w])
    BY <1>1, <1>5 DEF Missing
  <2> QED
    BY <1>1, <1>2, <2>1, <2>2, MoveKeeps
<1> QED
  BY <1>3, <1>4, <1>5

LEMMA NoDirectoryKeeps ==
  ASSUME IInv, died.how = "no", NEW w \in Workers, NoDirectory(w)
  PROVE  IInv'
<1>1. at[w] = "stat" /\ UNCHANGED shared /\ Fail(w, 404)
  BY DEF NoDirectory
<1>2. at[w] \in Handling \ (ListingStages \cup {"serve"}) /\ 404 \in Nat
  BY <1>1 DEF Handling, ListingStages
<1> QED
  BY <1>1, <1>2, FailKeeps

\* A file is opened to be served; elsewhere only a leaky location opens one.
LEMMA OpenKeeps ==
  ASSUME IInv, died.how = "no", NEW w \in Workers, NEW s \in Stages, NEW j \in Jobs,
         Open(w, s, j), Fits(tryTarget, s, j), s # "routed", s = "serve" \/ Leaky,
         at[w] \notin ListingStages \cup {"serve"}
  PROVE  IInv'
<1>1. /\ Set(w, s, j) /\ UNCHANGED <<fixed, tryTarget>> /\ filesOpen' = filesOpen + 1
      /\ fragments' = fragments
  BY DEF Open, heap
<1>2. filesOpen \in Int /\ filesOpen' \in Int
  BY <1>1 DEF IInv, Typed
<1>3. FragmentsTaken'
  BY <1>1, FragmentsStay DEF Set, Goto
<1>4. Leaky \/ filesOpen' = filesOpen + (IF s = "serve" THEN 1 ELSE 0)
                              - (IF at[w] = "serve" THEN 1 ELSE 0)
  BY <1>1, <1>2
<1> QED
  BY <1>1, <1>2, <1>3, <1>4, SetKeeps

LEMMA OpenFileKeeps ==
  ASSUME IInv, died.how = "no", NEW w \in Workers, OpenPath(w) \/ OpenIndex(w)
  PROVE  IInv'
<1> DEFINE file == job[w].loc.root \o job[w].path
           j    == [job[w] EXCEPT !.file = file]
           on   == TryingFiles(job[w]) /\ "PROXY_PASS" \in job[w].loc.type
<1>1. /\ at[w] = "stat" /\ job[w] \in Jobs /\ Fits(tryTarget, "stat", job[w])
      /\ job[w].loc \in Locations
  BY JobFacts DEF OpenPath, OpenIndex
<1>2. file \in Seq(STRING)
  <2>1. job[w].loc.root \in Seq(STRING) /\ job[w].path \in Seq(STRING)
    BY JobFacts, LocationFields
  <2> QED
    BY <2>1
<1>3. Open(w, "serve", j) \/ (on /\ Open(w, "upstream", j))
  BY DEF OpenPath, OpenIndex
<1> HIDE DEF file
<1>4. /\ j \in Jobs /\ j.loc = job[w].loc /\ j.server = job[w].server /\ j.replies = job[w].replies
      /\ j.logged = job[w].logged /\ j.fallback = job[w].fallback /\ j.met = job[w].met
  BY <1>1, <1>2 DEF Jobs
<1> HIDE DEF j
<1>5. /\ Logged(j) /\ ~j.fallback /\ Len(j.replies) \in Early(j)
  <2>1. Early(j) = Early(job[w])
    BY <1>4 DEF Early, Malformed, TryingFiles
  <2>2. Len(j.replies) \in Early(j)
    BY <1>1, <1>4, <2>1 DEF Fits, Answered, Handling
  <2> QED
    BY <1>1, <1>4, <2>2 DEF Fits, Answered, Falling, Logged
<1>6. Fits(tryTarget, "serve", j)
  BY <1>5 DEF Fits, Answered, Falling, Handling, ListingStages
<1>7. /\ "serve" \in Stages /\ "upstream" \in Stages /\ at[w] \notin ListingStages \cup {"serve"}
  BY <1>1 DEF Stages, ListingStages
<1>8. CASE Open(w, "serve", j)
  BY <1>4, <1>6, <1>7, <1>8, OpenKeeps
<1>9. CASE on /\ Open(w, "upstream", j)
  <2>1. Leaky
    BY <1>1, <1>9, LeakyLocation DEF TryingFiles
  <2>2. Fits(tryTarget, "upstream", j)
    BY <1>4, <1>5, <1>9 DEF Fits, Answered, Falling, Handling, ListingStages, PassesOn
  <2> QED
    BY <1>4, <1>7, <1>9, <2>1, <2>2, OpenKeeps
<1> QED
  BY <1>3, <1>8, <1>9

LEMMA ServeKeeps ==
  ASSUME IInv, died.how = "no", NEW w \in Workers, Serve(w)
  PROVE  IInv'
<1> DEFINE j == Reply(job[w], 200, "file")
<1>1. CASE Crash(w, "signal")
  BY <1>1, HangUpKeeps
<1>2. CASE ~Crash(w, "signal")
  <2>1. /\ at[w] = "serve" /\ job[w] \in Jobs /\ Fits(tryTarget, "serve", job[w])
        /\ Set(w, "done", j) /\ UNCHANGED <<fixed, tryTarget>> /\ filesOpen' = filesOpen - 1
        /\ fragments' = fragments
    BY <1>2, JobFacts DEF Serve, heap
  <2>2. /\ "serve" \in Handling /\ "file" \in Bodies /\ 200 \in Nat /\ "done" \in Stages
        /\ at[w] \notin ListingStages
    BY <2>1 DEF Handling, Bodies, Stages, ListingStages
  <2>3. j \in Jobs /\ Fits(tryTarget, "done", j)
    BY <2>1, <2>2, EndFits
  <2> HIDE DEF j
  <2>4. FragmentsTaken'
    BY <2>1, <2>2, FragmentsStay DEF Set, Goto
  <2>5. filesOpen \in Int
    BY DEF IInv, Typed
  <2>6. filesOpen' \in Int /\ filesOpen' = filesOpen + (IF "done" = "serve" THEN 1 ELSE 0)
                                             - (IF at[w] = "serve" THEN 1 ELSE 0)
    BY <2>1, <2>5
  <2> QED
    BY <2>1, <2>2, <2>3, <2>4, <2>6, SetKeeps
<1> QED
  BY <1>1, <1>2

-----------------------------------------------------------------------------
(* handleTryFiles *)

\* A request whose target is overwritten with another one is marked.
LEMMA TryFilesKeeps ==
  ASSUME IInv, died.how = "no", NEW w \in Workers, TryFiles(w)
  PROVE  IInv'
<1> DEFINE target == CheckTryFilesFormat(job[w].loc)
           Met(v) == [job[v] EXCEPT !.met = @ \/ (v \in Trying /\ target # tryTarget)]
           To(v)  == IF v = w THEN "check" ELSE at[v]
<1>1. /\ at[w] = "tryFiles" /\ at' = [at EXCEPT ![w] = "check"] /\ tryTarget' = target
      /\ job' = [v \in Workers |-> Met(v)]
      /\ died' = died /\ fragments' = fragments /\ filesOpen' = filesOpen /\ UNCHANGED fixed
  BY DEF TryFiles, Target, Goto, heap
<1>2. /\ servers' = servers /\ defaultServer' = defaultServer /\ listenPort' = listenPort
      /\ Jobs' = Jobs /\ (Leaky' <=> Leaky)
  BY <1>1, ConfigurationKept
<1>3. /\ at \in [Workers -> Stages] /\ job \in [Workers -> Jobs] /\ servers \in Sites
      /\ filesOpen \in Int /\ Fits(tryTarget, "tryFiles", job[w]) /\ job[w].loc \in Locations
      /\ "check" \in Stages /\ at[w] \notin ListingStages
  BY <1>1, JobFacts DEF IInv, Typed, Stages, ListingStages
<1>4. target \in Seq(STRING)
  BY <1>3, LocationFields
<1>5. ASSUME NEW v \in Workers
      PROVE  /\ Met(v) \in Jobs /\ Fits(target, To(v), Met(v))
             /\ Met(v).input = job[v].input /\ Met(v).server = job[v].server
  <2> DEFINE m == Met(v)
  <2>1. job[v] \in Jobs /\ Fits(tryTarget, at[v], job[v])
    BY <1>3 DEF IInv, JobsFit
  <2>2. /\ m \in Jobs /\ m.input = job[v].input /\ m.server = job[v].server /\ m.loc = job[v].loc
        /\ m.room = job[v].room /\ m.path = job[v].path /\ m.file = job[v].file
        /\ m.fallback = job[v].fallback /\ m.replies = job[v].replies /\ m.logged = job[v].logged
        /\ m.met <=> job[v].met \/ (v \in Trying /\ target # tryTarget)
    BY <2>1 DEF Jobs
  <2>3. v = w => target = CheckTryFilesFormat(m.loc)
    BY <2>2
  <2> HIDE DEF Met, target
  <2>4. /\ Malformed(m) <=> Malformed(job[v])
        /\ TryingFiles(m) <=> TryingFiles(job[v])
        /\ PassesOn(m) <=> PassesOn(job[v])
    BY <2>2 DEF Malformed, TryingFiles, PassesOn
  <2>5. Early(job[v]) \subseteq Early(m)
    BY <2>2, <2>4 DEF Early
  <2>6. Logged(job[v]) => Logged(m)
    BY <2>2 DEF Logged
  <2>7. Ended(job[v]) => Ended(m)
    BY <2>2, <2>4, <2>5 DEF Ended
  <2>8. CASE v = w
    <3>1. /\ Logged(m) /\ Len(m.replies) = 0 /\ TryingFiles(m) /\ ~m.fallback /\ To(v) = "check"
      BY <1>1, <2>1, <2>2, <2>4, <2>6, <2>8 DEF Fits, Answered, Falling
    <3>2. Answered("check", m)
      BY <3>1 DEF Answered, Handling, ListingStages
    <3>3. Falling(target, "check", m)
      BY <2>3, <2>8, <3>1 DEF Falling
    <3> QED
      BY <2>2, <3>1, <3>2, <3>3 DEF Fits
  <2>9. CASE v # w
    <3>1. Answered(at[v], m)
      BY <2>1, <2>2, <2>4, <2>5, <2>6, <2>7 DEF Fits, Answered
    <3>2. ~m.met /\ at[v] \in {"check", "stat", "alloc", "copy", "statTarget"} /\ TryingFiles(m) =>
            target = tryTarget
      BY <2>2, <2>4 DEF Trying, TryingFiles
    <3>3. Falling(target, at[v], m)
      BY <2>1, <2>2, <2>4, <3>2 DEF Fits, Falling
    <3> QED
      BY <2>2, <2>9, <3>1, <3>3 DEF Fits
  <2> QED
    BY <2>8, <2>9
<1> HIDE DEF Met, target
<1>6. \A v \in Workers : job'[v] = Met(v) /\ at'[v] = To(v)
  BY <1>1, <1>3
<1> HIDE DEF To
<1>7. at' \in [Workers -> Stages] /\ job' \in [Workers -> Jobs]
  BY <1>1, <1>3, <1>5
<1>8. Typed'
  BY <1>1, <1>2, <1>4, <1>7 DEF IInv, Typed
<1>9. JobsFit'
  BY <1>1, <1>5, <1>6 DEF JobsFit
<1>10. Routed'
  <2>1. \A v \in Workers : at'[v] = "routed" => at[v] = "routed"
    BY <1>6 DEF To
  <2> QED
    BY <1>2, <1>5, <1>6, <2>1 DEF IInv, Routed
<1>11. DeathsFit'
  BY <1>1 DEF DeathsFit
<1>12. FilesCounted'
  <2>1. Serving(at') = Serving(at)
    BY <1>1, <1>6 DEF Serving, To
  <2> QED
    BY <1>1, <1>2, <2>1 DEF IInv, FilesCounted
<1>13. FragmentsTaken'
  BY <1>1, <1>3, FragmentsStay
<1> QED
  BY <1>8, <1>9, <1>10, <1>11, <1>12, <1>13 DEF IInv

\* tryTarget is read again: a request that has not met another one finds what
\* it has set.
LEMMA CheckTargetKeeps ==
  ASSUME IInv, died.how = "no", NEW w \in Workers, CheckTarget(w)
  PROVE  IInv'
<1>1. /\ at[w] = "check" /\ job[w] \in Jobs /\ Fits(tryTarget, "check", job[w]) /\ UNCHANGED shared
  BY JobFacts DEF CheckTarget
<1>2. /\ Len(job[w].replies) = 0 /\ Logged(job[w]) /\ TryingFiles(job[w]) /\ ~job[w].fallback
      /\ ~job[w].met => tryTarget = CheckTryFilesFormat(job[w].loc)
  BY <1>1 DEF Fits, Answered, Falling
<1>3. "stat" \in Stages /\ at[w] \notin ListingStages \cup {"serve"}
  BY <1>1 DEF Stages, ListingStages
<1>4. CASE Crash(w, "signal")
  BY <1>4, HangUpKeeps
<1>5. CASE tryTarget = NoTarget /\ ~Crash(w, "signal")
  <2> DEFINE r == Reply(job[w], 404, "error")
  <2>1. Set(w, "stat", r)
    BY <1>5 DEF CheckTarget, Error
  <2>2. "error" \in Bodies /\ 404 \in Nat
    BY DEF Bodies
  <2>3. /\ r \in Jobs /\ Len(r.replies) = Len(job[w].replies) + 1 /\ Logged(r)
        /\ r.loc = job[w].loc /\ r.fallback = job[w].fallback /\ r.met = job[w].met
    <3>1. job[w] \in Jobs /\ Logged(job[w])
      BY <1>1, <1>2
    <3>2. r \in Jobs /\ Len(r.replies) = Len(job[w].replies) + 1
      BY <2>2, <3>1, ReplyEffect
    <3>3. Logged(r)
      BY <2>2, <3>1, ReplyEffect
    <3>4. r.loc = job[w].loc /\ r.fallback = job[w].fallback /\ r.met = job[w].met
      BY <2>2, <3>1, ReplyEffect
    <3> QED
      BY <3>2, <3>3, <3>4
  <2> HIDE DEF r
  <2>4. Len(r.replies) = 1 /\ TryingFiles(r)
    BY <1>2, <2>3 DEF TryingFiles
  <2>5. 1 \in Early(r)
    BY <1>2, <1>5, <2>3, <2>4 DEF Early, Malformed
  <2>6. Answered("stat", r)
    BY <2>3, <2>4, <2>5 DEF Answered, Handling, ListingStages
  <2>7. Falling(tryTarget, "stat", r)
    BY <1>2, <2>3 DEF Falling
  <2> QED
    BY <1>1, <1>3, <2>1, <2>3, <2>6, <2>7, MoveKeeps DEF Fits
<1>6. CASE tryTarget # NoTarget
  <2>1. Set(w, "stat", job[w])
    BY <1>6 DEF CheckTarget
  <2>2. 0 \in Early(job[w])
    BY <1>2, <1>6, EarlyAre DEF Malformed, Early
  <2>3. Answered("stat", job[w])
    BY <1>2, <2>2 DEF Answered, Handling, ListingStages
  <2>4. Falling(tryTarget, "stat", job[w])
    BY <1>2 DEF Falling
  <2> QED
    BY <1>1, <1>3, <2>1, <2>3, <2>4, MoveKeeps DEF Fits
<1> QED
  BY <1>4, <1>5, <1>6

\* serveDefaultFile reads tryTarget: NULL only for a malformed try_files, or
\* after another request.
LEMMA AllocateKeeps ==
  ASSUME IInv, died.how = "no", NEW w \in Workers, Allocate(w)
  PROVE  IInv'
<1>1. /\ at[w] = "alloc" /\ job[w] \in Jobs /\ Fits(tryTarget, "alloc", job[w])
      /\ tryTarget \in Seq(STRING)
  BY JobFacts DEF Allocate
<1>2. TryingFiles(job[w]) /\ (job[w].met \/ tryTarget = CheckTryFilesFormat(job[w].loc))
  BY <1>1 DEF Fits, Falling
<1>3. CASE tryTarget = NoTarget
  <2>1. Explained("null", defaultServer, at[w], job[w]) /\ Crash(w, "null")
    BY <1>2, <1>3 DEF Allocate, Explained, Malformed
  <2> QED
    BY <2>1, CrashKeeps
<1>4. CASE tryTarget # NoTarget
  <2> DEFINE room == Len(tryTarget)
             j    == [job[w] EXCEPT !.room = room]
  <2>1. Set(w, "copy", j) /\ UNCHANGED shared
    BY <1>4 DEF Allocate
  <2>2. room \in Nat
    BY <1>1
  <2> HIDE DEF room
  <2>3. /\ j \in Jobs /\ j.loc = job[w].loc /\ j.server = job[w].server /\ j.replies = job[w].replies
        /\ j.logged = job[w].logged /\ j.fallback = job[w].fallback /\ j.met = job[w].met
        /\ j.room = room
    BY <1>1, <2>2 DEF Jobs
  <2> HIDE DEF j
  <2>4. /\ Malformed(j) <=> Malformed(job[w])
        /\ TryingFiles(j) <=> TryingFiles(job[w])
    BY <2>3 DEF Malformed, TryingFiles
  <2>5. Answered("copy", j)
    BY <1>1, <2>3, <2>4 DEF Fits, Logged, Answered, Early, Handling, ListingStages
  <2>6. Falling(tryTarget, "copy", j)
    BY <1>1, <1>2, <2>3, <2>4 DEF Fits, Falling, room
  <2>7. "copy" \in Stages /\ at[w] \notin ListingStages \cup {"serve"}
    BY <1>1 DEF Stages, ListingStages
  <2> QED
    BY <2>1, <2>3, <2>5, <2>6, <2>7, MoveKeeps DEF Fits
<1> QED
  BY <1>3, <1>4

\* The room is that of the target, unless another request has changed it.
LEMMA CopyKeeps ==
  ASSUME IInv, died.how = "no", NEW w \in Workers, Copy(w)
  PROVE  IInv'
<1>1. /\ at[w] = "copy" /\ job[w] \in Jobs /\ Fits(tryTarget, "copy", job[w])
      /\ tryTarget \in Seq(STRING)
  BY JobFacts DEF Copy
<1>2. /\ TryingFiles(job[w])
      /\ job[w].met \/ (/\ tryTarget = CheckTryFilesFormat(job[w].loc)
                        /\ job[w].room = Len(tryTarget))
  BY <1>1 DEF Fits, Falling
<1>3. CASE tryTarget = NoTarget
  <2>1. Explained("null", defaultServer, at[w], job[w]) /\ Crash(w, "null")
    BY <1>2, <1>3 DEF Copy, Explained, Malformed
  <2> QED
    BY <2>1, CrashKeeps
<1>4. CASE tryTarget # NoTarget /\ Len(tryTarget) > job[w].room
  <2>1. job[w].met
    BY <1>1, <1>2, <1>4
  <2>2. Explained("undefined", defaultServer, at[w], job[w]) /\ Crash(w, "undefined")
    BY <1>4, <2>1 DEF Copy, Explained
  <2> QED
    BY <2>2, CrashKeeps
<1>5. CASE tryTarget # NoTarget /\ ~(Len(tryTarget) > job[w].room)
  <2> DEFINE j == [job[w] EXCEPT !.path = tryTarget]
  <2>1. Set(w, "statTarget", j) /\ UNCHANGED shared
    BY <1>5 DEF Copy
  <2>2. /\ j \in Jobs /\ j.loc = job[w].loc /\ j.server = job[w].server /\ j.replies = job[w].replies
        /\ j.logged = job[w].logged /\ j.fallback = job[w].fallback /\ j.met = job[w].met
        /\ j.path = tryTarget
    BY <1>1 DEF Jobs
  <2> HIDE DEF j
  <2>3. /\ Malformed(j) <=> Malformed(job[w])
        /\ TryingFiles(j) <=> TryingFiles(job[w])
    BY <2>2 DEF Malformed, TryingFiles
  <2>4. Answered("statTarget", j)
    BY <1>1, <2>2, <2>3 DEF Fits, Logged, Answered, Early, Handling, ListingStages
  <2>5. Falling(tryTarget, "statTarget", j)
    BY <1>1, <1>2, <2>2, <2>3 DEF Fits, Falling
  <2>6. "statTarget" \in Stages /\ at[w] \notin ListingStages \cup {"serve"}
    BY <1>1 DEF Stages, ListingStages
  <2> QED
    BY <2>1, <2>2, <2>4, <2>5, <2>6, MoveKeeps DEF Fits
<1> QED
  BY <1>3, <1>4, <1>5

LEMMA TargetKeeps ==
  ASSUME IInv, died.how = "no", NEW w \in Workers, OpenTarget(w) \/ NoTargetFile(w)
  PROVE  IInv'
<1>1. /\ at[w] = "statTarget" /\ job[w] \in Jobs /\ Fits(tryTarget, "statTarget", job[w])
      /\ tryTarget \in Seq(STRING) /\ job[w].loc \in Locations
  BY JobFacts DEF OpenTarget, NoTargetFile
<1>2. /\ TryingFiles(job[w])
      /\ job[w].met \/ (/\ tryTarget = CheckTryFilesFormat(job[w].loc)
                        /\ job[w].path = tryTarget)
  BY <1>1 DEF Fits, Falling
<1>3. /\ at[w] \in Handling \ (ListingStages \cup {"serve"}) /\ 404 \in Nat /\ "serve" \in Stages
      /\ at[w] \notin ListingStages \cup {"serve"}
  BY <1>1 DEF Handling, ListingStages, Stages
<1>4. CASE tryTarget = NoTarget
  <2>1. Explained("null", defaultServer, at[w], job[w]) /\ Crash(w, "null")
    BY <1>2, <1>4 DEF OpenTarget, NoTargetFile, Explained, Malformed
  <2> QED
    BY <2>1, CrashKeeps
<1>5. CASE tryTarget # NoTarget /\ NoTargetFile(w)
  BY <1>3, <1>5, FailKeeps DEF NoTargetFile
<1>6. CASE tryTarget # NoTarget /\ OpenTarget(w)
  <2> DEFINE file == job[w].loc.root \o tryTarget
             j    == [job[w] EXCEPT !.file = file, !.fallback = TRUE]
  <2>1. Open(w, "serve", j)
    BY <1>6 DEF OpenTarget
  <2>2. file \in Seq(STRING)
    <3>1. job[w].loc.root \in Seq(STRING)
      BY JobFacts, LocationFields
    <3> QED
      BY <1>1, <3>1
  <2> HIDE DEF file
  <2>3. /\ j \in Jobs /\ j.loc = job[w].loc /\ j.server = job[w].server /\ j.replies = job[w].replies
        /\ j.logged = job[w].logged /\ j.met = job[w].met /\ j.path = job[w].path /\ j.file = file
    BY <1>1, <2>2 DEF Jobs
  <2> HIDE DEF j
  <2>4. Malformed(j) <=> Malformed(job[w])
    BY <2>3 DEF Malformed, TryingFiles
  <2>5. Answered("serve", j)
    BY <1>1, <2>3, <2>4 DEF Fits, Logged, Answered, Early, Handling, ListingStages
  <2>6. Falling(tryTarget, "serve", j)
    BY <1>2, <2>3 DEF Falling, file
  <2> QED
    BY <1>3, <2>1, <2>3, <2>5, <2>6, OpenKeeps DEF Fits
<1> QED
  BY <1>4, <1>5, <1>6

-----------------------------------------------------------------------------
(* Listings *)

\* A step that leaves the requests alone and stays within listings.
LEMMA ListKeeps ==
  ASSUME IInv, died.how = "no", NEW w \in Workers, NEW s \in ListingStages,
         at[w] \in ListingStages \cup {"stat"}, Goto(w, s), UNCHANGED died,
         UNCHANGED <<fixed, tryTarget, job, filesOpen>>
  PROVE  IInv'
<1>1. /\ job[w] \in Jobs /\ Fits(tryTarget, at[w], job[w]) /\ at[w] \in Stages
      /\ job \in [Workers -> Jobs] /\ filesOpen \in Int
  BY JobFacts DEF IInv, Typed
<1>2. Fits(tryTarget, s, job[w])
  BY <1>1, ListingFits
<1>3. s \in Stages /\ s \notin {"serve", "routed"} /\ at[w] # "serve"
  BY DEF Stages, ListingStages
<1>4. Set(w, s, job[w])
  BY <1>1 DEF Set
<1>5. FragmentsTaken'
  BY <1>3, FragmentsStay DEF Goto
<1>6. filesOpen' \in Int /\ filesOpen' = filesOpen + (IF s = "serve" THEN 1 ELSE 0)
                                           - (IF at[w] = "serve" THEN 1 ELSE 0)
  BY <1>1, <1>3
<1> QED
  BY <1>1, <1>2, <1>3, <1>4, <1>5, <1>6, SetKeeps

\* What a step of a listing does outside the list: it goes on, or the process dies.
LEMMA ListingMoves ==
  ASSUME NEW w \in Workers, ListingStep(w)
  PROVE  /\ at[w] \in ListingStages
         /\ \/ \E s \in ListingStages : Goto(w, s) /\ UNCHANGED died
            \/ \E how \in {"null", "undefined", "signal"} : Dies(w, how)
<1> DEFINE Goes == /\ at[w] \in ListingStages
                   /\ \/ \E s \in ListingStages : Goto(w, s) /\ UNCHANGED died
                      \/ \E how \in {"null", "undefined", "signal"} : Dies(w, how)
<1> USE DEF ListingStages
<1>1. CASE Look(w)
  BY <1>1 DEF Look
<1>2. CASE LinkFirst(w)
  BY <1>2 DEF LinkFirst
<1>3. CASE Walk(w)
  BY <1>3 DEF Walk
<1>4. CASE Link(w)
  BY <1>4 DEF Link
<1>5. CASE Fill(w)
  BY <1>5 DEF Fill
<1>6. CASE Count(w)
  BY <1>6 DEF Count
<1>7. CASE Test(w)
  BY <1>7 DEF Test
<1>8. CASE Take(w)
  BY <1>8 DEF Take
<1>9. CASE Advance(w)
  BY <1>9 DEF Advance
<1>10. CASE SendFragment(w)
  BY <1>10 DEF SendFragment
<1> QED
  BY <1>1, <1>2, <1>3, <1>4, <1>5, <1>6, <1>7, <1>8, <1>9, <1>10 DEF ListingStep

LEMMA ListingKeeps ==
  ASSUME IInv, died.how = "no", NEW w \in Workers, ListingStep(w),
         UNCHANGED <<fixed, tryTarget, job, requests, filesOpen>>
  PROVE  IInv'
<1>1. /\ at[w] \in ListingStages
      /\ \/ \E s \in ListingStages : Goto(w, s) /\ UNCHANGED died
         \/ \E how \in {"null", "undefined", "signal"} : Dies(w, how)
  BY ListingMoves
<1>2. CASE \E s \in ListingStages : Goto(w, s) /\ UNCHANGED died
  BY <1>1, <1>2, ListKeeps
<1>3. ASSUME NEW how \in {"null", "undefined", "signal"}, Dies(w, how)
      PROVE  IInv'
  <2>1. Crash(w, how) /\ how # "no"
    BY <1>3 DEF Crash
  <2> QED
    BY <1>1, <2>1, CrashKeeps
<1> QED
  BY <1>1, <1>2, <1>3

LEMMA ListDirectoryKeeps ==
  ASSUME IInv, died.how = "no", NEW w \in Workers, NEW n, ListDirectory(w, n)
  PROVE  IInv'
<1>1. /\ at[w] = "stat" /\ Goto(w, "look") /\ UNCHANGED died
      /\ UNCHANGED <<fixed, tryTarget, job, filesOpen>>
  BY DEF ListDirectory, BeginListing
<1>2. "look" \in ListingStages
  BY DEF ListingStages
<1> QED
  BY <1>1, <1>2, ListKeeps

LEMMA EndListingKeeps ==
  ASSUME IInv, died.how = "no", NEW w \in Workers, EndListing(w)
  PROVE  IInv'
<1> DEFINE j == Reply(job[w], 200, "listing")
<1>1. /\ at[w] = "test" /\ job[w] \in Jobs /\ Fits(tryTarget, "test", job[w])
      /\ Set(w, "done", j) /\ UNCHANGED <<fixed, tryTarget>> /\ filesOpen' = filesOpen
      /\ fragments' = NULL
  BY JobFacts DEF EndListing, Emptied, shared, heap
<1>2. /\ "test" \in Handling /\ "listing" \in Bodies /\ 200 \in Nat /\ "done" \in Stages
  BY DEF Handling, Bodies, Stages, ListingStages
<1>3. j \in Jobs /\ Fits(tryTarget, "done", j)
  BY <1>1, <1>2, EndFits
<1> HIDE DEF j
<1>4. FragmentsTaken'
  BY <1>1, <1>2, FragmentsStay DEF Set, Goto
<1>5. filesOpen \in Int
  BY DEF IInv, Typed
<1>6. filesOpen' \in Int /\ filesOpen' = filesOpen + (IF "done" = "serve" THEN 1 ELSE 0)
                                           - (IF at[w] = "serve" THEN 1 ELSE 0)
  BY <1>1, <1>5
<1> QED
  BY <1>1, <1>2, <1>3, <1>4, <1>6, SetKeeps

-----------------------------------------------------------------------------
(* The theorems *)

LEMMA InitKeeps ==
  ASSUME Init
  PROVE  IInv
<1> DEFINE input == CHOOSE i \in Inputs : TRUE
           j     == NewJob(input)
<1>1. input \in Inputs
  BY InputsHavePaths
<1> HIDE DEF input
<1>2. /\ servers \in Sites /\ \E k \in DOMAIN servers : HasPort(listenPort, servers[k])
      /\ ServerOfPort \in 0..Len(servers)
  <2>1. servers \in Sites /\ \E k \in DOMAIN servers : HasPort(listenPort, servers[k])
    BY DEF Init, Range, HasPort
  <2> QED
    BY <2>1, PortHasServer
<1>3. j \in Jobs
  <2>1. NoLocation \in Locations /\ input.path \in Seq(STRING)
    BY <1>1, InputsHavePaths DEF Locations
  <2>2. /\ <<>> \in Seq(STRING) /\ <<>> \in Seq([code : Nat, body : Bodies])
        /\ <<>> \in Seq([code : Nat, server : Nat])
    OBVIOUS
  <2> QED
    BY <1>1, <1>2, <2>1, <2>2 DEF Jobs, NewJob
<1>4. Fits(NoTarget, "idle", j)
  <2>1. Answered("idle", j)
    BY DEF Logged, Answered, NewJob, Handling, ListingStages
  <2>2. Falling(NoTarget, "idle", j)
    BY DEF Falling, NewJob
  <2> QED
    BY <2>1, <2>2 DEF Fits
<1>5. /\ at = [w \in Workers |-> "idle"] /\ job = [w \in Workers |-> j] /\ tryTarget = NoTarget
      /\ died.how = "no" /\ fragments = NULL /\ filesOpen = 0
  BY DEF Init, ListingInit, input
<1> HIDE DEF j
<1>6. Typed
  <2>1. NoTarget \in Seq(STRING) /\ "idle" \in Stages
    BY DEF NoTarget, Stages
  <2> QED
    BY <1>2, <1>3, <1>5, <2>1 DEF Typed
<1>7. JobsFit /\ Routed /\ DeathsFit
  BY <1>4, <1>5 DEF JobsFit, Routed, DeathsFit
<1>8. FilesCounted
  <2>1. Serving(at) = {}
    BY <1>5 DEF Serving
  <2> QED
    BY <1>5, <2>1, FS_EmptySet DEF FilesCounted
<1>9. FragmentsTaken
  BY <1>5 DEF FragmentsTaken
<1> QED
  BY <1>6, <1>7, <1>8, <1>9 DEF IInv

LEMMA StepKeeps ==
  ASSUME IInv, died.how = "no", NEW w \in Workers, Step(w)
  PROVE  IInv'
<1>1. CASE \E input \in Inputs : Request(w, input)
  BY <1>1, RequestKeeps
<1>2. CASE Refuse(w)
  BY <1>2, RefuseKeeps
<1>3. CASE Cut(w)
  BY <1>3, CutKeeps
<1>4. CASE FindServer(w)
  BY <1>4, FindServerKeeps
<1>5. CASE NoServer(w)
  BY <1>5, NoServerKeeps
<1>6. CASE NoDocRoot(w) \/ UriTooLong(w) \/ NotAllowed(w)
  BY <1>6, NoDocRootKeeps
<1>7. CASE Dispatch(w)
  BY <1>7, DispatchKeeps
<1>8. CASE UpstreamFails(w) \/ NoAnswer(w) \/ \E code \in UpstreamCodes : Forward(w, code)
  BY <1>8, UpstreamKeeps
<1>9. CASE TryFiles(w) \/ CheckTarget(w)
  BY <1>9, TryFilesKeeps, CheckTargetKeeps
<1>10. CASE NotFound(w) \/ NoIndex(w)
  BY <1>10, NotFoundKeeps
<1>11. CASE OpenPath(w) \/ OpenIndex(w)
  BY <1>11, OpenFileKeeps
<1>12. CASE \E n \in 1..MaxEntries : ListDirectory(w, n)
  BY <1>12, ListDirectoryKeeps
<1>13. CASE NoDirectory(w)
  BY <1>13, NoDirectoryKeeps
<1>14. CASE ListingStep(w) /\ UNCHANGED <<fixed, tryTarget, job, requests, filesOpen>>
  BY <1>14, ListingKeeps
<1>15. CASE EndListing(w)
  BY <1>15, EndListingKeeps
<1>16. CASE Allocate(w)
  BY <1>16, AllocateKeeps
<1>17. CASE Copy(w)
  BY <1>17, CopyKeeps
<1>18. CASE OpenTarget(w) \/ NoTargetFile(w)
  BY <1>18, TargetKeeps
<1>19. CASE Serve(w)
  BY <1>19, ServeKeeps
<1>20. CASE NoUpstream(w) \/ ForwardDies(w)
  BY <1>20, UpstreamDies
<1> QED
  BY <1>1, <1>2, <1>3, <1>4, <1>5, <1>6, <1>7, <1>8, <1>9, <1>10, <1>11, <1>12, <1>13, <1>14,
     <1>15, <1>16, <1>17, <1>18, <1>19, <1>20 DEF Step

LEMMA IdleKeeps ==
  ASSUME IInv, UNCHANGED vars
  PROVE  IInv'
<1>1. /\ at' = at /\ died' = died /\ job' = job /\ fragments' = fragments /\ UNCHANGED fixed
      /\ tryTarget' = tryTarget /\ filesOpen' = filesOpen
  BY DEF vars, shared, heap
<1>2. /\ servers' = servers /\ defaultServer' = defaultServer /\ listenPort' = listenPort
      /\ Jobs' = Jobs /\ (Leaky' <=> Leaky)
  BY <1>1, ConfigurationKept
<1>3. Typed' /\ JobsFit' /\ Routed' /\ FilesCounted' /\ FragmentsTaken'
  BY <1>1, <1>2 DEF IInv, Typed, JobsFit, Routed, FilesCounted, FragmentsTaken, Listings
<1>4. DeathsFit'
  BY <1>1, <1>2 DEF IInv, DeathsFit, Listings
<1> QED
  BY <1>3, <1>4 DEF IInv

\* The invariant holds throughout.
THEOREM Invariance == Spec => []IInv
<1>1. Init => IInv
  BY InitKeeps
<1>2. IInv /\ [Next]_vars => IInv'
  BY StepKeeps, IdleKeeps DEF Next, Rest
<1> QED
  BY <1>1, <1>2, PTL DEF Spec

\* A request that has ended was answered once, after a 404 if its try_files is
\* malformed; without its last response went only one that had to be passed on;
\* and every response is in the log.
THEOREM AnswersCounted == Spec => []AnsweredOnce
<1>1. IInv => AnsweredOnce
  <2> SUFFICES ASSUME IInv, NEW w \in Finished
               PROVE  Ended(job[w])
    BY DEF AnsweredOnce, Ended
  <2>1. w \in Workers /\ died.how = "no" /\ at[w] = "done"
    BY DEF Finished
  <2>2. Fits(tryTarget, "done", job[w])
    BY <2>1, JobFacts
  <2> QED
    BY <2>2 DEF Fits, Answered
<1> QED
  BY <1>1, Invariance, PTL

\* A request that falls back gets the file its own location names, unless
\* another thread has changed tryTarget in between.
THEOREM FallbackIsOwn == Spec => []OwnFallback
<1>1. IInv => OwnFallback
  <2> SUFFICES ASSUME IInv, NEW w \in Finished, job[w].fallback, ~job[w].met
               PROVE  /\ job[w].file = job[w].loc.root \o CheckTryFilesFormat(job[w].loc)
                      /\ job[w].path = CheckTryFilesFormat(job[w].loc)
    BY DEF OwnFallback
  <2>1. w \in Workers /\ died.how = "no" /\ at[w] = "done"
    BY DEF Finished
  <2>2. Fits(tryTarget, "done", job[w])
    BY <2>1, JobFacts
  <2> QED
    BY <2>2 DEF Fits, Falling
<1> QED
  BY <1>1, Invariance, PTL

\* Requests leave no fragment and, unless a location combines try_files with
\* proxy_pass, no open file behind.
THEOREM NothingIsLeft == Spec => []NothingLeft
<1>1. IInv => NothingLeft
  <2> SUFFICES ASSUME IInv
               PROVE  NothingLeft
    OBVIOUS
  <2>1. Listings = {} => fragments = NULL
    BY DEF IInv, FragmentsTaken
  <2>2. ASSUME Busy = {}, filesOpen # 0
        PROVE  Leaky
    <3>1. Serving(at) = {}
      BY <2>2 DEF Busy, Serving
    <3>2. Cardinality(Serving(at)) = 0
      BY <3>1, FS_EmptySet
    <3> QED
      BY <2>2, <3>2 DEF IInv, FilesCounted
  <2> QED
    BY <2>1, <2>2 DEF NothingLeft, Leaky
<1> QED
  BY <1>1, Invariance, PTL

\* getServerForHost chooses the first server of the port that has the name.
THEOREM ServerIsRight == Spec => []RightServer
<1>1. IInv => RightServer
  <2> SUFFICES ASSUME IInv, NEW w \in Workers, at[w] = "routed",
                      NEW here, here = {k \in DOMAIN servers :
                                          /\ job[w].input.name \in servers[k].names
                                          /\ listenPort \in Range(servers[k].ports)},
                      here # {},
                      IF job[w].input.colon THEN job[w].input.port = listenPort
                                            ELSE listenPort = servers[1].ports[1]
               PROVE  job[w].server \in here /\ \A k \in here : job[w].server <= k
    BY DEF RightServer
  <2> DEFINE port  == IF job[w].input.colon THEN job[w].input.port ELSE servers[1].ports[1]
             found == {i \in DOMAIN servers : Serves(servers[i], job[w].input.name, port)}
  <2>1. FirstFound(servers, defaultServer, job[w].input, job[w].server)
    BY DEF IInv, Routed
  <2>2. found # {} => job[w].server \in found /\ \A i \in found : job[w].server <= i
    BY <2>1 DEF FirstFound
  <2>3. \A k \in DOMAIN servers : HasPort(listenPort, servers[k]) <=> listenPort \in Range(servers[k].ports)
    BY DEF HasPort, Range
  <2>4. CASE port = listenPort
    <3>1. found = here
      BY <2>3, <2>4 DEF Serves
    <3> QED
      BY <2>2, <3>1
  <2>5. port = listenPort
    OBVIOUS
  <2> QED
    BY <2>4, <2>5
<1> QED
  BY <1>1, Invariance, PTL

\* Outside the listings, the process follows NULL only for a request that was
\* cut short, names an unknown host under -n, had to be passed on, has a
\* malformed try_files, or met another thread at tryTarget; and it touches
\* memory that is not its own only after such a meeting.
THEOREM DeathsOutsideListings == Spec => []DeathsFit
BY Invariance, PTL DEF IInv
=============================================================================
