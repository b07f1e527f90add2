---------------------------- MODULE ConfigProofs ----------------------------
(***************************************************************************)
(* Proofs about Config, for all sets of ports, names, locations, paths and *)
(* vocabularies, and for files of any length.                              *)
(***************************************************************************)
EXTENDS Config, WellFoundedInduction, TLAPS

-----------------------------------------------------------------------------
(* The invariant *)

NameSet  == Names \cup {DefaultName}
IndexSet == Names \cup {DefaultIndex}
PathSet  == Paths \cup {DefaultPath}
NumSet   == PortNums \cup {DefaultPort}
UriItems == [uri : Uris, count : Nat, own : BOOLEAN]

\* What a block of the file can say.
Blocks == [listens : Seq(PortNums), names : Seq(NameSet), index : Seq(Names),
           uris : Seq(UriItems), first : (LocationKinds \ {"expires"}) \cup {"none"}, asks : SUBSET LocationKinds,
           groups : Nat, logs : [LogKinds -> PathSet], cert : BOOLEAN, early : BOOLEAN,
           wild : Nat, odd : BOOLEAN]

\* What the parser makes of it.
Servers == [ports : Seq(Ports), names : Seq(NameSet), index : Seq(IndexSet),
            locations : Seq(Locations), log : [LogKinds -> Nat], cert : BOOLEAN, block : Nat]

Typed ==
  /\ ctx \in Contexts /\ defaultServer \in BOOLEAN /\ vocabulary \in Vocabularies
  /\ ports \in Seq(Ports) /\ names \in Seq(NameSet) /\ indexFiles \in Seq(IndexSet)
  /\ locations \in Seq(Locations)
  /\ logs \in [LogKinds -> Seq(PathSet)] /\ currentLog \in [LogKinds -> Nat]
  /\ certFile \in BOOLEAN /\ said \in Blocks
  /\ servers \in Seq(Servers) /\ written \in Seq(Blocks)
  /\ logFds \in [LogKinds -> Seq(Nat)] /\ danglingLogs \in [LogKinds -> SUBSET Nat]

\* A global list has what the file says, the latest first, and then its default.
Mirrors(list, default, seq) ==
  /\ Len(list) = Len(seq) + 1 /\ list[Len(list)] = default
  /\ \A i \in 1..Len(seq) : list[Len(list) - i] = seq[i]

Nums(ps) == [i \in 1..Len(ps) |-> ps[i].portNum]

ListsSaid ==
  /\ Mirrors(Nums(ports), DefaultPort, said.listens)
  /\ Mirrors(names, DefaultName, said.names)
  /\ Mirrors(indexFiles, DefaultIndex, said.index)
  /\ certFile = said.cert

\* A server keeps the lists of the block it was made from.
ListsKept(s, b) ==
  /\ [i \in DOMAIN s.ports |-> s.ports[i].portNum] = OrDefault(b.listens, DefaultPort)
  /\ s.names = OrDefault(b.names, DefaultName)
  /\ s.index = OrDefault(b.index, DefaultIndex)
  /\ s.cert = b.cert /\ s.ports # <<>>

\* The current log is the one the file names, or the default.
LogsSaid ==
  \A kind \in LogKinds :
    /\ Len(logs[kind]) >= 1 /\ logs[kind][1] = DefaultPath
    /\ currentLog[kind] <= Len(logs[kind])
    /\ said.logs[kind] = logs[kind][IF currentLog[kind] = 0 THEN 1 ELSE currentLog[kind]]

\* Descriptors of the logs opened so far: a log has its own number or that of an
\* earlier log.
FdsFit ==
  /\ ctx \in {"http", "server", "location", "parsed"} =>
       \A kind \in LogKinds : logFds[kind] = <<>>
  /\ \A kind \in LogKinds :
       /\ Len(logFds[kind]) <= Len(logs[kind])
       /\ ctx = "ready" => Len(logFds[kind]) = Len(logs[kind])
       /\ \A i \in 1..Len(logFds[kind]) : logFds[kind][i] \in 1..i
       /\ \A i, j \in 1..Len(logFds[kind]) :
            logs[kind][i] = logs[kind][j] <=> logFds[kind][i] = logFds[kind][j]
       /\ \A i \in danglingLogs[kind] : i \in 1..Len(logs[kind])
       /\ defaultServer => danglingLogs[kind] = {}

\* The directives that name a group.
Groupers == {"proxy_group", "fastcgi_group"}

\* A location that asks for a group has one.
GroupSet(loc) == "UPSTREAM_GROUP" \in loc.type => loc.group

\* What the flags of a location tell of the directives.
Flagged(loc, first, asks) ==
  /\ "FASTCGI_PASS" \in loc.type => asks \cap {"fastcgi_host", "fastcgi_group"} # {}
  /\ first \in Groupers => "UPSTREAM_GROUP" \in loc.type
  /\ first \in asks \/ (first = "none" /\ asks = {})

\* No directive has been at a location.
Plain(loc) == Holds(loc, {}) /\ "FASTCGI_PASS" \notin loc.type

\* There is at most one location besides the default, and what the file has
\* said tells what it is like.
Pended ==
  ctx # "undefined" =>
    /\ Len(locations) \in {1, 2}
    /\ Len(locations) = 1 => said.first = "none" /\ said.asks = {} /\ said.groups = 0
    /\ Len(locations) = 2 =>
         /\ said.first # "none"
         /\ said.first # "root" => locations[1].literal /\ "root" \notin said.asks
         /\ said.first = "root" => ~locations[1].literal
         /\ said.groups = IF locations[1].group THEN 1 ELSE 0
    /\ Holds(locations[1], said.asks) /\ Flagged(locations[1], said.first, said.asks)
    /\ ~said.odd /\ said.wild <= 1
    /\ said.wild = 1 => Contains(said.names, DefaultName)
    /\ DefaultName \notin Names /\ Contains(said.names, DefaultName) => said.wild = 1

\* The default is what new locations start from.
DefaultKept ==
  /\ Len(locations) >= 1
  /\ ctx # "undefined" => /\ Last(locations).literal /\ ~Last(locations).group
                          /\ Plain(Last(locations))
  /\ \A i \in 1..Len(locations) : GroupSet(locations[i])

\* How a block begins, and what an open location block looks like.
Contextual ==
  /\ ctx = "http" => Len(ports) = 1 /\ Len(locations) = 1 /\ ~said.early /\ said.uris = <<>>
  /\ ctx = "location" => said.uris # <<>>
  /\ ctx = "parsed" => servers # <<>>

\* The blocks up to the n-th make locations of their own.
OwnUpTo(blocks, n) == \A b \in 1..n : \A i \in 1..Len(blocks[b].uris) : blocks[b].uris[i].own

\* The location block that is open, if there is one, does not count yet.
Closed == IF ctx = "location" THEN Len(said.uris) - 1 ELSE Len(said.uris)

\* The matches are those of the location blocks that have been closed.
MatchesSaid ==
  /\ ctx # "undefined" =>
       \A i \in 1..Len(said.uris) : said.uris[i].own => Len(locations) = 2
  /\ ctx \in {"http", "server", "location"} /\ OwnUpTo(written, Len(written))
       /\ (\A i \in 1..Closed : said.uris[i].own) =>
       /\ locations[Len(locations)].match = DefaultUri
       /\ locations[1].match = IF Closed = 0 THEN DefaultUri ELSE said.uris[Closed].uri

MatchesKept(s, b) ==
  s.locations[1].match = IF b.uris = <<>> THEN DefaultUri ELSE b.uris[Len(b.uris)].uri

\* No ssl option has come before the port it is meant for.
NoneEarly(blocks) == \A b \in 1..Len(blocks) : ~blocks[b].early

PortsFit == NoneEarly(written) /\ ~said.early => ~ports[Len(ports)].tls

\* Every server has what its own block says.
ServerFits(s) ==
  /\ s.ports # <<>> /\ s.locations # <<>>
  /\ \A kind \in LogKinds : s.log[kind] \in 1..Len(logs[kind])
  /\ \A i \in 1..Len(s.locations) : GroupSet(s.locations[i])
  /\ s.block = 0 =>
       /\ NoneEarly(written) => \A i \in 1..Len(s.ports) : ~s.ports[i].tls
       /\ \A i \in 1..Len(s.locations) : "FASTCGI_PASS" \notin s.locations[i].type
  /\ s.block # 0 =>
       /\ s.block \in 1..Len(written)
       /\ ListsKept(s, written[s.block])
       /\ Len(s.locations) = 1
       /\ Holds(s.locations[1], written[s.block].asks)
       /\ Flagged(s.locations[1], written[s.block].first, written[s.block].asks)
       /\ \A kind \in LogKinds : logs[kind][s.log[kind]] = written[s.block].logs[kind]
       /\ OwnUpTo(written, s.block) => MatchesKept(s, written[s.block])

ServersFit == \A k \in 1..Len(servers) : ServerFits(servers[k])

\* What has been read to its end was not fatal, and what was fatal is known.
FatalKnown ==
  /\ \A b \in 1..Len(written) : ~Fatal(written[b])
  /\ DefaultName \notin Names /\ ctx = "undefined" => Fatal(said) \/ ~defaultServer

\* What checkConfig has let pass.
Checked ==
  Accepted =>
    /\ \A k \in 1..Len(servers) : \A i \in 1..Len(servers[k].locations) :
         DocRootOk(servers[k].locations[i])
    /\ \A k, m \in 1..Len(servers) :
         \A i \in 1..Len(servers[k].ports), j \in 1..Len(servers[m].ports) :
           servers[k].ports[i].portNum = servers[m].ports[j].portNum =>
             servers[k].ports[i].tls = servers[m].ports[j].tls

IInv == /\ Typed /\ ListsSaid /\ LogsSaid /\ FdsFit /\ Pended /\ DefaultKept /\ Contextual
        /\ MatchesSaid /\ PortsFit /\ ServersFit /\ FatalKnown /\ Checked

-----------------------------------------------------------------------------
(* The global lists *)

\* Putting an element in front of a list.
LEMMA ConsFacts ==
  ASSUME NEW S, NEW list \in Seq(S), NEW x \in S
  PROVE  /\ <<x>> \o list \in Seq(S)
         /\ Len(<<x>> \o list) = Len(list) + 1
         /\ (<<x>> \o list)[1] = x
         /\ \A i \in 1..Len(list) : (<<x>> \o list)[i + 1] = list[i]
<1>1. <<x>> \in Seq(S) /\ Len(<<x>>) = 1 /\ <<x>>[1] = x
  OBVIOUS
<1>2. PICK one \in Seq(S) : one = <<x>> /\ Len(one) = 1 /\ one[1] = x
  BY <1>1
<1>3. /\ one \o list \in Seq(S) /\ Len(one \o list) = Len(one) + Len(list)
      /\ \A i \in 1..Len(one) : (one \o list)[i] = one[i]
      /\ \A i \in 1..Len(list) : (one \o list)[Len(one) + i] = list[i]
  OBVIOUS
<1>4. \A i \in 1..Len(list) : 1 + i = i + 1
  OBVIOUS
<1> QED
  BY <1>2, <1>3, <1>4

\* A new directive goes to the front of the list.
LEMMA MirrorsCons ==
  ASSUME NEW S, NEW list \in Seq(S), NEW T, NEW seq \in Seq(T), NEW default, NEW x \in S, x \in T,
         Mirrors(list, default, seq)
  PROVE  Mirrors(<<x>> \o list, default, Append(seq, x))
<1> DEFINE l == <<x>> \o list
           q == Append(seq, x)
<1>1. /\ l \in Seq(S) /\ Len(l) = Len(list) + 1 /\ l[1] = x
      /\ \A i \in 1..Len(list) : l[i + 1] = list[i]
  BY ConsFacts
<1>2. /\ Len(seq) \in Nat /\ Len(q) = Len(seq) + 1 /\ q[Len(seq) + 1] = x
      /\ \A i \in 1..Len(seq) : q[i] = seq[i]
  OBVIOUS
<1>3. /\ Len(list) = Len(seq) + 1 /\ list[Len(list)] = default
      /\ \A i \in 1..Len(seq) : list[Len(list) - i] = seq[i]
  BY DEF Mirrors
<1> HIDE DEF l, q
<1>4. Len(l) = Len(q) + 1 /\ Len(l) = Len(seq) + 2
  BY <1>1, <1>2, <1>3
<1>5. l[Len(l)] = default
  <2>1. Len(list) \in 1..Len(list) /\ Len(l) = Len(list) + 1
    BY <1>1, <1>2, <1>3
  <2>2. l[Len(list) + 1] = list[Len(list)]
    BY <1>1, <2>1
  <2> QED
    BY <1>3, <2>1, <2>2
<1>6. ASSUME NEW i \in 1..Len(q)
      PROVE  l[Len(l) - i] = q[i]
  <2>1. CASE i = Len(seq) + 1
    <3>1. Len(l) - i = 1
      BY <1>2, <1>4, <2>1
    <3> QED
      BY <1>1, <1>2, <2>1, <3>1
  <2>2. CASE i # Len(seq) + 1
    <3>1. i \in 1..Len(seq)
      BY <1>2, <2>2
    <3>2. Len(list) - i \in 1..Len(list) /\ Len(l) - i = (Len(list) - i) + 1
      BY <1>1, <1>2, <1>3, <3>1
    <3>3. l[(Len(list) - i) + 1] = list[Len(list) - i]
      BY <1>1, <3>2
    <3> QED
      BY <1>2, <1>3, <3>1, <3>2, <3>3
  <2> QED
    BY <2>1, <2>2
<1> QED
  BY <1>4, <1>5, <1>6 DEF Mirrors, l, q

\* The search for a duplicate, which skips the default, finds what the file
\* has said.
LEMMA MirrorsFind ==
  ASSUME NEW S, NEW list \in Seq(S), NEW T, NEW seq \in Seq(T), NEW default, NEW x,
         Mirrors(list, default, seq)
  PROVE  (\E i \in 1 .. Len(list) - 1 : list[i] = x) <=> Contains(seq, x)
<1>1. /\ Len(seq) \in Nat /\ Len(list) = Len(seq) + 1
      /\ \A i \in 1..Len(seq) : list[Len(list) - i] = seq[i]
  BY DEF Mirrors
<1>2. ASSUME NEW i \in 1 .. Len(list) - 1, list[i] = x
      PROVE  Contains(seq, x)
  <2>1. Len(list) - i \in 1..Len(seq) /\ Len(list) - (Len(list) - i) = i
    BY <1>1
  <2>2. list[Len(list) - (Len(list) - i)] = seq[Len(list) - i]
    BY <1>1, <2>1
  <2> QED
    BY <1>2, <2>1, <2>2 DEF Contains
<1>3. ASSUME NEW i \in 1..Len(seq), seq[i] = x
      PROVE  \E m \in 1 .. Len(list) - 1 : list[m] = x
  <2>1. Len(list) - i \in 1 .. Len(list) - 1
    BY <1>1
  <2> QED
    BY <1>1, <1>3, <2>1
<1> QED
  BY <1>2, <1>3 DEF Contains

\* The list that a server gets is what the file has said, in its order, or the
\* default.
LEMMA MirrorsMoved ==
  ASSUME NEW S, NEW list \in Seq(S), NEW T, NEW seq \in Seq(T), NEW default,
         Mirrors(list, default, seq)
  PROVE  Reverse(Moved(list)) = OrDefault(seq, default)
<1>1. /\ Len(seq) \in Nat /\ Len(list) = Len(seq) + 1 /\ list[Len(list)] = default
      /\ \A i \in 1..Len(seq) : list[Len(list) - i] = seq[i]
  BY DEF Mirrors
<1>2. CASE Len(seq) = 0
  <2>1. seq = <<>> /\ Len(list) = 1
    BY <1>1, <1>2
  <2>2. Reverse(Moved(list)) = [i \in 1..Len(list) |-> list[(Len(list) - i) + 1]]
    BY <2>1 DEF Moved, Reverse
  <2>3. [i \in 1..Len(list) |-> list[(Len(list) - i) + 1]] = <<default>>
    BY <1>1, <2>1
  <2> QED
    BY <2>1, <2>2, <2>3 DEF OrDefault
<1>3. CASE Len(seq) # 0
  <2> DEFINE f == Front(list)
  <2>1. Moved(list) = f /\ seq # <<>>
    BY <1>1, <1>3 DEF Moved
  <2>2. f \in Seq(S) /\ Len(f) = Len(seq) /\ \A i \in 1..Len(seq) : f[i] = list[i]
    <3>1. Len(list) - 1 = Len(seq)
      BY <1>1
    <3>2. f = SubSeq(list, 1, Len(seq))
      BY <3>1 DEF Front
    <3> QED
      BY <1>1, <3>2
  <2> HIDE DEF f
  <2>3. Reverse(f) = [i \in 1..Len(seq) |-> f[(Len(seq) - i) + 1]]
    BY <2>2 DEF Reverse
  <2>4. ASSUME NEW i \in 1..Len(seq)
        PROVE  f[(Len(seq) - i) + 1] = seq[i]
    <3>1. (Len(seq) - i) + 1 \in 1..Len(seq) /\ Len(list) - i = (Len(seq) - i) + 1
      BY <1>1
    <3> QED
      BY <1>1, <2>2, <3>1
  <2>5. Reverse(f) = [i \in 1..Len(seq) |-> seq[i]]
    BY <2>3, <2>4
  <2>6. seq = [i \in 1..Len(seq) |-> seq[i]]
    OBVIOUS
  <2> QED
    BY <2>1, <2>5, <2>6 DEF OrDefault
<1> QED
  BY <1>2, <1>3

\* Moving keeps the type and leaves nothing empty.
LEMMA MovedFacts ==
  ASSUME NEW S, NEW list \in Seq(S), Len(list) >= 1
  PROVE  /\ Moved(list) \in Seq(S) /\ Len(Moved(list)) >= 1
         /\ Len(Moved(list)) = IF Len(list) = 1 THEN 1 ELSE Len(list) - 1
         /\ \A i \in 1..Len(Moved(list)) : Moved(list)[i] = list[i]
         /\ Last(list) \in S
         /\ <<Last(list)>> \in Seq(S) /\ Len(<<Last(list)>>) = 1 /\ <<Last(list)>>[1] = list[Len(list)]
<1>1. Last(list) \in S /\ Last(list) = list[Len(list)]
  BY DEF Last
<1>2. <<Last(list)>> \in Seq(S) /\ Len(<<Last(list)>>) = 1 /\ <<Last(list)>>[1] = list[Len(list)]
  BY <1>1
<1>3. CASE Len(list) = 1
  BY <1>1, <1>2, <1>3 DEF Moved
<1>4. CASE Len(list) # 1
  <2>1. PICK k \in Nat : k = Len(list) - 1 /\ k >= 1 /\ k <= Len(list)
    <3>1. PICK m \in Nat : m = Len(list)
      OBVIOUS
    <3>2. m >= 1 /\ m # 1
      BY <1>4, <3>1
    <3>3. m - 1 \in Nat /\ m - 1 >= 1 /\ m - 1 <= m
      BY <3>2
    <3> QED
      BY <3>1, <3>3
  <2>2. Moved(list) = SubSeq(list, 1, k)
    BY <1>4, <2>1 DEF Moved, Front
  <2>3. /\ SubSeq(list, 1, k) \in Seq(S) /\ Len(SubSeq(list, 1, k)) = k
        /\ \A i \in 1..k : SubSeq(list, 1, k)[i] = list[i]
    BY <2>1
  <2> QED
    BY <1>1, <1>2, <1>4, <2>1, <2>2, <2>3
<1> QED
  BY <1>3, <1>4

LEMMA ReverseFacts ==
  ASSUME NEW S, NEW list \in Seq(S)
  PROVE  /\ Reverse(list) \in Seq(S) /\ Len(Reverse(list)) = Len(list)
         /\ \A i \in 1..Len(list) : Reverse(list)[i] = list[Len(list) - i + 1]
<1>1. Len(list) \in Nat /\ \A i \in 1..Len(list) : Len(list) - i + 1 \in 1..Len(list)
  OBVIOUS
<1>2. \A i \in 1..Len(list) : list[(Len(list) - i) + 1] \in S
  BY <1>1
<1> QED
  BY <1>1, <1>2 DEF Reverse

-----------------------------------------------------------------------------
(* listen *)

LEMMA NumsFacts ==
  ASSUME NEW ps \in Seq(Ports)
  PROVE  /\ Nums(ps) \in Seq(NumSet) /\ Len(Nums(ps)) = Len(ps)
         /\ \A i \in 1..Len(ps) : Nums(ps)[i] = ps[i].portNum
<1>1. ASSUME NEW i \in 1..Len(ps)
      PROVE  ps[i].portNum \in NumSet
  <2>1. ps[i] \in Ports
    OBVIOUS
  <2> QED
    BY <2>1 DEF Ports, NumSet
<1> QED
  BY <1>1 DEF Nums

\* f_listen puts a port in front, unless the file has said it before.
LEMMA FListenFacts ==
  ASSUME NEW ps \in Seq(Ports), NEW seq \in Seq(PortNums), NEW n \in PortNums,
         Mirrors(Nums(ps), DefaultPort, seq)
  PROVE  /\ FListen(ps, n) \in Seq(Ports) /\ Len(FListen(ps, n)) >= 2
         /\ FListen(ps, n)[Len(FListen(ps, n))] = ps[Len(ps)]
         /\ Mirrors(Nums(FListen(ps, n)), DefaultPort, Added(seq, n))
         /\ Added(seq, n) \in Seq(PortNums)
<1>1. /\ Nums(ps) \in Seq(NumSet) /\ Len(Nums(ps)) = Len(ps) /\ Len(ps) \in Nat
      /\ \A i \in 1..Len(ps) : Nums(ps)[i] = ps[i].portNum
  BY NumsFacts
<1>2. Len(ps) = Len(seq) + 1 /\ Len(seq) \in Nat
  BY <1>1 DEF Mirrors
<1>3. DupPort(ps, n) <=> Contains(seq, n)
  <2>1. (\E i \in 1 .. Len(Nums(ps)) - 1 : Nums(ps)[i] = n) <=> Contains(seq, n)
    BY <1>1, MirrorsFind
  <2>2. \A i \in 1 .. Len(ps) - 1 : i \in 1..Len(ps)
    BY <1>1
  <2> QED
    BY <1>1, <2>1, <2>2 DEF DupPort
<1>4. CASE DupPort(ps, n)
  <2>1. Contains(seq, n)
    BY <1>3, <1>4
  <2>2. FListen(ps, n) = ps /\ Added(seq, n) = seq
    BY <1>4, <2>1 DEF FListen, Added
  <2>3. Len(ps) >= 2
    BY <1>1, <1>4 DEF DupPort
  <2> QED
    BY <2>2, <2>3
<1>5. CASE ~DupPort(ps, n)
  <2> DEFINE p == [portNum |-> n, tls |-> FALSE]
             l == <<p>> \o ps
  <2>1. FListen(ps, n) = l /\ Added(seq, n) = Append(seq, n)
    BY <1>3, <1>5 DEF FListen, Added
  <2>2. p \in Ports /\ p.portNum = n /\ n \in NumSet
    BY DEF Ports, NumSet
  <2> HIDE DEF p
  <2>3. /\ l \in Seq(Ports) /\ Len(l) = Len(ps) + 1 /\ l[1] = p
        /\ \A i \in 1..Len(ps) : l[i + 1] = ps[i]
    BY <2>2, ConsFacts
  <2> HIDE DEF l
  <2>4. l[Len(l)] = ps[Len(ps)] /\ Len(l) >= 2
    <3>1. Len(ps) \in 1..Len(ps)
      BY <1>2
    <3> QED
      BY <1>2, <2>3, <3>1
  <2>5. Nums(l) = <<n>> \o Nums(ps)
    <3> DEFINE m == <<n>> \o Nums(ps)
    <3>1. /\ m \in Seq(NumSet) /\ Len(m) = Len(Nums(ps)) + 1 /\ m[1] = n
          /\ \A i \in 1..Len(Nums(ps)) : m[i + 1] = Nums(ps)[i]
      BY <1>1, <2>2, ConsFacts
    <3> HIDE DEF m
    <3>2. /\ Nums(l) \in Seq(NumSet) /\ Len(Nums(l)) = Len(l)
          /\ \A i \in 1..Len(l) : Nums(l)[i] = l[i].portNum
      BY <2>3, NumsFacts
    <3>3. Len(m) = Len(Nums(l)) /\ Len(m) = Len(ps) + 1
      BY <1>1, <2>3, <3>1, <3>2
    <3>4. ASSUME NEW i \in 1..Len(m)
          PROVE  m[i] = Nums(l)[i]
      <4>1. CASE i = 1
        BY <2>2, <2>3, <3>1, <3>2, <3>3, <4>1
      <4>2. CASE i # 1
        <5>1. i - 1 \in 1..Len(ps) /\ i = (i - 1) + 1
          BY <1>1, <3>3, <4>2
        <5>2. m[i] = Nums(ps)[i - 1]
          BY <1>1, <3>1, <5>1
        <5>3. Nums(l)[i] = ps[i - 1].portNum
          BY <2>3, <3>2, <3>3, <5>1
        <5> QED
          BY <1>1, <5>1, <5>2, <5>3
      <4> QED
        BY <4>1, <4>2
    <3>5. m = Nums(l)
      BY <3>1, <3>2, <3>3, <3>4
    <3> QED
      BY <3>5 DEF m
  <2>6. Mirrors(<<n>> \o Nums(ps), DefaultPort, Append(seq, n))
    BY <1>1, <2>2, MirrorsCons
  <2> QED
    BY <2>1, <2>3, <2>4, <2>5, <2>6
<1> QED
  BY <1>4, <1>5

\* f_tls changes the head of the list, which is the default if it is alone.
LEMMA FTlsFacts ==
  ASSUME NEW ps \in Seq(Ports), Len(ps) >= 1
  PROVE  /\ FTls(ps) \in Seq(Ports) /\ Len(FTls(ps)) = Len(ps) /\ Nums(FTls(ps)) = Nums(ps)
         /\ Len(ps) >= 2 => FTls(ps)[Len(FTls(ps))] = ps[Len(ps)]
<1>1. ps \in [1..Len(ps) -> Ports] /\ Len(ps) \in Nat
  OBVIOUS
<1>2. FTls(ps) = [ps EXCEPT ![1] = [ps[1] EXCEPT !.tls = TRUE]]
  BY DEF FTls
<1>3. 1 \in 1..Len(ps) /\ ps[1] \in Ports
  BY <1>1
<1>4. [ps[1] EXCEPT !.tls = TRUE] \in Ports /\ [ps[1] EXCEPT !.tls = TRUE].portNum = ps[1].portNum
  BY <1>3 DEF Ports
<1>5. FTls(ps) \in [1..Len(ps) -> Ports] /\ FTls(ps)[1].portNum = ps[1].portNum
  BY <1>1, <1>2, <1>3, <1>4
<1>6. FTls(ps) \in Seq(Ports) /\ Len(FTls(ps)) = Len(ps)
  BY <1>1, <1>5
<1>7. \A i \in 1..Len(ps) : i # 1 => FTls(ps)[i] = ps[i]
  BY <1>1, <1>2
<1>8. Nums(FTls(ps)) = Nums(ps)
  <2>1. \A i \in 1..Len(ps) : FTls(ps)[i].portNum = ps[i].portNum
    BY <1>5, <1>7
  <2> QED
    BY <1>6, <2>1 DEF Nums
<1>9. Len(ps) >= 2 => FTls(ps)[Len(FTls(ps))] = ps[Len(ps)]
  BY <1>1, <1>6, <1>7
<1> QED
  BY <1>6, <1>8, <1>9

-----------------------------------------------------------------------------
(* Steps that change little *)

LEMMA OpenServerKeeps ==
  ASSUME IInv, OpenServer
  PROVE  IInv'
<1>1. /\ ctx = "http"
      /\ ctx' = "server"
  BY DEF OpenServer, given, lists, logging, done, opened, vars
<1>2. /\ defaultServer' = defaultServer /\ vocabulary' = vocabulary /\ ports' = ports
      /\ names' = names /\ indexFiles' = indexFiles /\ locations' = locations /\ logs' = logs
      /\ currentLog' = currentLog /\ certFile' = certFile /\ said' = said /\ servers' = servers
      /\ written' = written /\ logFds' = logFds /\ danglingLogs' = danglingLogs
  BY DEF OpenServer, given, lists, logging, done, opened, vars
<1>11. Typed'
  BY <1>1, <1>2 DEF IInv, Typed, Contexts
<1>12. ListsSaid'
  BY <1>1, <1>2 DEF IInv, ListsSaid
<1>13. LogsSaid'
  BY <1>1, <1>2 DEF IInv, LogsSaid
<1>14. FdsFit'
  BY <1>1, <1>2 DEF IInv, FdsFit
<1>15. Pended'
  BY <1>1, <1>2 DEF IInv, Pended
<1>16. DefaultKept'
  BY <1>1, <1>2 DEF IInv, DefaultKept
<1>17. Contextual'
  BY <1>1, <1>2 DEF IInv, Contextual
<1>18. MatchesSaid'
  BY <1>1, <1>2 DEF IInv, MatchesSaid, Closed
<1>19. PortsFit'
  BY <1>1, <1>2 DEF IInv, PortsFit
<1>20. ServersFit'
  BY <1>1, <1>2 DEF IInv, ServersFit, ServerFits
<1>21. FatalKnown'
  BY <1>1, <1>2 DEF IInv, FatalKnown, Fatal
<1>22. Checked'
  BY <1>1, <1>2 DEF IInv, Checked, Accepted
<1> QED
  BY <1>11, <1>12, <1>13, <1>14, <1>15, <1>16, <1>17, <1>18, <1>19, <1>20, <1>21, <1>22 DEF IInv

LEMMA LogFileTwiceKeeps ==
  ASSUME IInv, NEW kind \in LogKinds, LogFileTwice(kind)
  PROVE  IInv'
<1>1. /\ ctx \in {"http", "server"}
      /\ ctx' = "refused"
  BY DEF LogFileTwice, given, lists, logging, done, opened, vars
<1>2. /\ defaultServer' = defaultServer /\ vocabulary' = vocabulary /\ ports' = ports
      /\ names' = names /\ indexFiles' = indexFiles /\ locations' = locations /\ logs' = logs
      /\ currentLog' = currentLog /\ certFile' = certFile /\ said' = said /\ servers' = servers
      /\ written' = written /\ logFds' = logFds /\ danglingLogs' = danglingLogs
  BY DEF LogFileTwice, given, lists, logging, done, opened, vars
<1>11. Typed'
  BY <1>1, <1>2 DEF IInv, Typed, Contexts
<1>12. ListsSaid'
  BY <1>1, <1>2 DEF IInv, ListsSaid
<1>13. LogsSaid'
  BY <1>1, <1>2 DEF IInv, LogsSaid
<1>14. FdsFit'
  BY <1>1, <1>2 DEF IInv, FdsFit
<1>15. Pended'
  BY <1>1, <1>2 DEF IInv, Pended
<1>16. DefaultKept'
  BY <1>1, <1>2 DEF IInv, DefaultKept
<1>17. Contextual'
  BY <1>1, <1>2 DEF IInv, Contextual
<1>18. MatchesSaid'
  BY <1>1, <1>2 DEF IInv, MatchesSaid, Closed
<1>19. PortsFit'
  BY <1>1, <1>2 DEF IInv, PortsFit
<1>20. ServersFit'
  BY <1>1, <1>2 DEF IInv, ServersFit, ServerFits
<1>21. FatalKnown'
  BY <1>1, <1>2 DEF IInv, FatalKnown, Fatal
<1>22. Checked'
  BY <1>1, <1>2 DEF IInv, Checked, Accepted
<1> QED
  BY <1>11, <1>12, <1>13, <1>14, <1>15, <1>16, <1>17, <1>18, <1>19, <1>20, <1>21, <1>22 DEF IInv

LEMMA EnvironmentFailsKeeps ==
  ASSUME IInv, EnvironmentFails
  PROVE  IInv'
<1>1. /\ ctx \in {"location", "parsed", "checked"}
      /\ ctx' = "refused"
  BY DEF EnvironmentFails, given, lists, logging, done, opened, vars
<1>2. /\ defaultServer' = defaultServer /\ vocabulary' = vocabulary /\ ports' = ports
      /\ names' = names /\ indexFiles' = indexFiles /\ locations' = locations /\ logs' = logs
      /\ currentLog' = currentLog /\ certFile' = certFile /\ said' = said /\ servers' = servers
      /\ written' = written /\ logFds' = logFds /\ danglingLogs' = danglingLogs
  BY DEF EnvironmentFails, given, lists, logging, done, opened, vars
<1>11. Typed'
  BY <1>1, <1>2 DEF IInv, Typed, Contexts
<1>12. ListsSaid'
  BY <1>1, <1>2 DEF IInv, ListsSaid
<1>13. LogsSaid'
  BY <1>1, <1>2 DEF IInv, LogsSaid
<1>14. FdsFit'
  BY <1>1, <1>2 DEF IInv, FdsFit
<1>15. Pended'
  BY <1>1, <1>2 DEF IInv, Pended
<1>16. DefaultKept'
  BY <1>1, <1>2 DEF IInv, DefaultKept
<1>17. Contextual'
  BY <1>1, <1>2 DEF IInv, Contextual
<1>18. MatchesSaid'
  BY <1>1, <1>2 DEF IInv, MatchesSaid, Closed
<1>19. PortsFit'
  BY <1>1, <1>2 DEF IInv, PortsFit
<1>20. ServersFit'
  BY <1>1, <1>2 DEF IInv, ServersFit, ServerFits
<1>21. FatalKnown'
  BY <1>1, <1>2 DEF IInv, FatalKnown, Fatal
<1>22. Checked'
  BY <1>1, <1>2 DEF IInv, Checked, Accepted
<1> QED
  BY <1>11, <1>12, <1>13, <1>14, <1>15, <1>16, <1>17, <1>18, <1>19, <1>20, <1>21, <1>22 DEF IInv

LEMMA ReadyKeeps ==
  ASSUME IInv, Ready
  PROVE  IInv'
<1>1. /\ ctx = "checked" /\ \A kind \in LogKinds : Len(logFds[kind]) = Len(logs[kind])
      /\ ctx' = "ready"
  BY DEF Ready, given, lists, logging, done, opened, vars
<1>2. /\ defaultServer' = defaultServer /\ vocabulary' = vocabulary /\ ports' = ports
      /\ names' = names /\ indexFiles' = indexFiles /\ locations' = locations /\ logs' = logs
      /\ currentLog' = currentLog /\ certFile' = certFile /\ said' = said /\ servers' = servers
      /\ written' = written /\ logFds' = logFds /\ danglingLogs' = danglingLogs
  BY DEF Ready, given, lists, logging, done, opened, vars
<1>11. Typed'
  BY <1>1, <1>2 DEF IInv, Typed, Contexts
<1>12. ListsSaid'
  BY <1>1, <1>2 DEF IInv, ListsSaid
<1>13. LogsSaid'
  BY <1>1, <1>2 DEF IInv, LogsSaid
<1>14. FdsFit'
  BY <1>1, <1>2 DEF IInv, FdsFit
<1>15. Pended'
  BY <1>1, <1>2 DEF IInv, Pended
<1>16. DefaultKept'
  BY <1>1, <1>2 DEF IInv, DefaultKept
<1>17. Contextual'
  BY <1>1, <1>2 DEF IInv, Contextual
<1>18. MatchesSaid'
  BY <1>1, <1>2 DEF IInv, MatchesSaid, Closed
<1>19. PortsFit'
  BY <1>1, <1>2 DEF IInv, PortsFit
<1>20. ServersFit'
  BY <1>1, <1>2 DEF IInv, ServersFit, ServerFits
<1>21. FatalKnown'
  BY <1>1, <1>2 DEF IInv, FatalKnown, Fatal
<1>22. Checked'
  BY <1>1, <1>2 DEF IInv, Checked, Accepted
<1> QED
  BY <1>11, <1>12, <1>13, <1>14, <1>15, <1>16, <1>17, <1>18, <1>19, <1>20, <1>21, <1>22 DEF IInv

LEMMA IdleKeeps ==
  ASSUME IInv, UNCHANGED vars
  PROVE  IInv'
<1>2. /\ ctx' = ctx /\ defaultServer' = defaultServer /\ vocabulary' = vocabulary
      /\ ports' = ports /\ names' = names /\ indexFiles' = indexFiles /\ locations' = locations
      /\ logs' = logs /\ currentLog' = currentLog /\ certFile' = certFile /\ said' = said
      /\ servers' = servers /\ written' = written /\ logFds' = logFds
      /\ danglingLogs' = danglingLogs
  BY DEF vars, given, lists, logging, done, opened
<1>11. Typed'
  BY <1>2 DEF IInv, Typed
<1>12. ListsSaid'
  BY <1>2 DEF IInv, ListsSaid
<1>13. LogsSaid'
  BY <1>2 DEF IInv, LogsSaid
<1>14. FdsFit'
  BY <1>2 DEF IInv, FdsFit
<1>15. Pended'
  BY <1>2 DEF IInv, Pended
<1>16. DefaultKept'
  BY <1>2 DEF IInv, DefaultKept
<1>17. Contextual'
  BY <1>2 DEF IInv, Contextual
<1>18. MatchesSaid'
  BY <1>2 DEF IInv, MatchesSaid, Closed
<1>19. PortsFit'
  BY <1>2 DEF IInv, PortsFit
<1>20. ServersFit'
  BY <1>2 DEF IInv, ServersFit, ServerFits
<1>21. FatalKnown'
  BY <1>2 DEF IInv, FatalKnown, Fatal
<1>22. Checked'
  BY <1>2 DEF IInv, Checked, Accepted
<1> QED
  BY <1>11, <1>12, <1>13, <1>14, <1>15, <1>16, <1>17, <1>18, <1>19, <1>20, <1>21, <1>22 DEF IInv

LEMMA FollowDanglingLogKeeps ==
  ASSUME IInv, NEW kind \in LogKinds, FollowDanglingLog(kind)
  PROVE  IInv'
<1>1. /\ ctx = "checked" /\ Len(logFds[kind]) + 1 \in danglingLogs[kind]
      /\ ctx' = "undefined"
  BY DEF FollowDanglingLog, given, lists, logging, done, opened, vars, AtLog
<1>2. /\ defaultServer' = defaultServer /\ vocabulary' = vocabulary /\ ports' = ports
      /\ names' = names /\ indexFiles' = indexFiles /\ locations' = locations /\ logs' = logs
      /\ currentLog' = currentLog /\ certFile' = certFile /\ said' = said /\ servers' = servers
      /\ written' = written /\ logFds' = logFds /\ danglingLogs' = danglingLogs
  BY DEF FollowDanglingLog, given, lists, logging, done, opened, vars, AtLog
<1>11. Typed'
  BY <1>1, <1>2 DEF IInv, Typed, Contexts
<1>12. ListsSaid'
  BY <1>1, <1>2 DEF IInv, ListsSaid
<1>13. LogsSaid'
  BY <1>1, <1>2 DEF IInv, LogsSaid
<1>14. FdsFit'
  BY <1>1, <1>2 DEF IInv, FdsFit
<1>15. Pended'
  BY <1>1, <1>2 DEF IInv, Pended
<1>16. DefaultKept'
  BY <1>1, <1>2 DEF IInv, DefaultKept
<1>17. Contextual'
  BY <1>1, <1>2 DEF IInv, Contextual
<1>18. MatchesSaid'
  BY <1>1, <1>2 DEF IInv, MatchesSaid, Closed
<1>19. PortsFit'
  BY <1>1, <1>2 DEF IInv, PortsFit
<1>20. ServersFit'
  BY <1>1, <1>2 DEF IInv, ServersFit, ServerFits
<1>21. FatalKnown'
  <2>1. ~defaultServer
    BY <1>1 DEF IInv, FdsFit
  <2> QED
    BY <1>1, <1>2, <2>1 DEF IInv, FatalKnown
<1>22. Checked'
  BY <1>1, <1>2 DEF IInv, Checked, Accepted
<1> QED
  BY <1>11, <1>12, <1>13, <1>14, <1>15, <1>16, <1>17, <1>18, <1>19, <1>20, <1>21, <1>22 DEF IInv

LEMMA CertificateKeeps ==
  ASSUME IInv, Certificate
  PROVE  IInv'
<1>1. /\ ctx \in {"http", "server"}
      /\ certFile' = TRUE
  BY DEF Certificate, given, lists, logging, done, opened, vars
<1>2. /\ ctx' = ctx /\ defaultServer' = defaultServer /\ vocabulary' = vocabulary
      /\ ports' = ports /\ names' = names /\ indexFiles' = indexFiles /\ locations' = locations
      /\ logs' = logs /\ currentLog' = currentLog /\ servers' = servers /\ written' = written
      /\ logFds' = logFds /\ danglingLogs' = danglingLogs
  BY DEF Certificate, given, lists, logging, done, opened, vars
<1>3. /\ said' \in Blocks /\ said'.listens = said.listens /\ said'.names = said.names
      /\ said'.index = said.index /\ said'.uris = said.uris /\ said'.first = said.first
      /\ said'.asks = said.asks /\ said'.groups = said.groups /\ said'.logs = said.logs
      /\ said'.cert = TRUE /\ said'.early = said.early /\ said'.wild = said.wild
      /\ said'.odd = said.odd
  <2>1. said \in Blocks
    BY DEF IInv, Typed
  <2>2. said' = [said EXCEPT !.cert = TRUE]
    BY DEF Certificate
  <2> QED
    BY <2>1, <2>2 DEF Blocks
<1>11. Typed'
  BY <1>1, <1>2, <1>3 DEF IInv, Typed
<1>12. ListsSaid'
  BY <1>1, <1>2, <1>3 DEF IInv, ListsSaid
<1>13. LogsSaid'
  BY <1>1, <1>2, <1>3 DEF IInv, LogsSaid
<1>14. FdsFit'
  BY <1>1, <1>2, <1>3 DEF IInv, FdsFit
<1>15. Pended'
  BY <1>1, <1>2, <1>3 DEF IInv, Pended
<1>16. DefaultKept'
  BY <1>1, <1>2, <1>3 DEF IInv, DefaultKept
<1>17. Contextual'
  BY <1>1, <1>2, <1>3 DEF IInv, Contextual
<1>18. MatchesSaid'
  BY <1>1, <1>2, <1>3 DEF IInv, MatchesSaid, Closed
<1>19. PortsFit'
  BY <1>1, <1>2, <1>3 DEF IInv, PortsFit
<1>20. ServersFit'
  BY <1>1, <1>2, <1>3 DEF IInv, ServersFit, ServerFits
<1>21. FatalKnown'
  BY <1>1, <1>2, <1>3 DEF IInv, FatalKnown, Fatal
<1>22. Checked'
  BY <1>1, <1>2, <1>3 DEF IInv, Checked, Accepted
<1> QED
  BY <1>11, <1>12, <1>13, <1>14, <1>15, <1>16, <1>17, <1>18, <1>19, <1>20, <1>21, <1>22 DEF IInv

LEMMA FastcgiParamKeeps ==
  ASSUME IInv, NEW zero \in BOOLEAN, FastcgiParam(zero)
  PROVE  IInv'
<1>1. /\ ctx \in {"http", "server"}
      /\ ctx' = (IF zero THEN "undefined" ELSE ctx)
  BY DEF FastcgiParam, given, lists, logging, done, opened, vars
<1>2. /\ defaultServer' = defaultServer /\ vocabulary' = vocabulary /\ ports' = ports
      /\ names' = names /\ indexFiles' = indexFiles /\ locations' = locations /\ logs' = logs
      /\ currentLog' = currentLog /\ certFile' = certFile /\ servers' = servers
      /\ written' = written /\ logFds' = logFds /\ danglingLogs' = danglingLogs
  BY DEF FastcgiParam, given, lists, logging, done, opened, vars
<1>3. /\ said' \in Blocks /\ said'.listens = said.listens /\ said'.names = said.names
      /\ said'.index = said.index /\ said'.uris = said.uris /\ said'.first = said.first
      /\ said'.asks = said.asks /\ said'.groups = said.groups /\ said'.logs = said.logs
      /\ said'.cert = said.cert /\ said'.early = said.early /\ said'.wild = said.wild
      /\ said'.odd = (said.odd \/ zero)
  <2>1. said \in Blocks
    BY DEF IInv, Typed
  <2>2. said' = [said EXCEPT !.odd = @ \/ zero]
    BY DEF FastcgiParam
  <2>3. (said.odd \/ zero) \in BOOLEAN
    BY Zenon
  <2> QED
    BY <2>1, <2>2, <2>3 DEF Blocks
<1>11. Typed'
  BY <1>1, <1>2, <1>3 DEF IInv, Typed, Contexts
<1>12. ListsSaid'
  BY <1>1, <1>2, <1>3 DEF IInv, ListsSaid
<1>13. LogsSaid'
  BY <1>1, <1>2, <1>3 DEF IInv, LogsSaid
<1>14. FdsFit'
  BY <1>1, <1>2, <1>3 DEF IInv, FdsFit
<1>15. Pended'
  BY <1>1, <1>2, <1>3 DEF IInv, Pended
<1>16. DefaultKept'
  BY <1>1, <1>2, <1>3 DEF IInv, DefaultKept
<1>17. Contextual'
  BY <1>1, <1>2, <1>3 DEF IInv, Contextual
<1>18. MatchesSaid'
  BY <1>1, <1>2, <1>3 DEF IInv, MatchesSaid, Closed
<1>19. PortsFit'
  BY <1>1, <1>2, <1>3 DEF IInv, PortsFit
<1>20. ServersFit'
  BY <1>1, <1>2, <1>3 DEF IInv, ServersFit, ServerFits
<1>21. FatalKnown'
  BY <1>1, <1>2, <1>3 DEF IInv, FatalKnown, Fatal
<1>22. Checked'
  BY <1>1, <1>2, <1>3 DEF IInv, Checked, Accepted
<1> QED
  BY <1>11, <1>12, <1>13, <1>14, <1>15, <1>16, <1>17, <1>18, <1>19, <1>20, <1>21, <1>22 DEF IInv

-----------------------------------------------------------------------------
(* Directives that fill a list *)

\* What is found in a list before its default.
Found(list, x) == \E i \in 1 .. Len(list) - 1 : list[i] = x

Put(list, x) == IF Found(list, x) THEN list ELSE <<x>> \o list

\* A directive that may be repeated.
LEMMA PutFacts ==
  ASSUME NEW S, NEW list \in Seq(S), NEW T, NEW seq \in Seq(T), NEW default, NEW x \in S, x \in T,
         Mirrors(list, default, seq)
  PROVE  /\ Found(list, x) <=> Contains(seq, x)
         /\ Put(list, x) \in Seq(S) /\ Mirrors(Put(list, x), default, Added(seq, x))
         /\ Added(seq, x) \in Seq(T)
         /\ \A y : Contains(Added(seq, x), y) <=> Contains(seq, y) \/ x = y
<1>1. Found(list, x) <=> Contains(seq, x)
  BY MirrorsFind DEF Found
<1>2. CASE Found(list, x)
  <2>1. Added(seq, x) = seq
    BY <1>1, <1>2 DEF Added
  <2>2. \A y : x = y => Contains(seq, y)
    BY <1>1, <1>2
  <2> QED
    BY <1>1, <1>2, <2>1, <2>2 DEF Put
<1>3. CASE ~Found(list, x)
  <2>1. Added(seq, x) = Append(seq, x)
    BY <1>1, <1>3 DEF Added
  <2>2. <<x>> \o list \in Seq(S) /\ Mirrors(<<x>> \o list, default, Append(seq, x))
    BY ConsFacts, MirrorsCons
  <2>3. /\ Append(seq, x) \in Seq(T) /\ Len(Append(seq, x)) = Len(seq) + 1 /\ Len(seq) \in Nat
        /\ Append(seq, x)[Len(seq) + 1] = x
        /\ \A i \in 1..Len(seq) : Append(seq, x)[i] = seq[i]
    OBVIOUS
  <2>4. ASSUME NEW y
        PROVE  Contains(Append(seq, x), y) <=> Contains(seq, y) \/ x = y
    <3>1. \A i \in 1..(Len(seq) + 1) : i \in 1..Len(seq) \/ i = Len(seq) + 1
      BY <2>3
    <3>2. Len(seq) + 1 \in 1..(Len(seq) + 1) /\ \A i \in 1..Len(seq) : i \in 1..(Len(seq) + 1)
      BY <2>3
    <3> QED
      BY <2>3, <3>1, <3>2 DEF Contains
  <2> QED
    BY <1>1, <1>3, <2>1, <2>2, <2>3, <2>4 DEF Put
<1> QED
  BY <1>2, <1>3

LEMMA ListenKeeps ==
  ASSUME IInv, NEW n \in PortNums, NEW opt \in {"plain", "ssl", "sslFirst"}, Listen(n, opt)
  PROVE  IInv'
<1>0. /\ said \in Blocks /\ said.listens \in Seq(PortNums) /\ ports \in Seq(Ports)
      /\ Len(ports) = Len(said.listens) + 1 /\ Len(ports) \in Nat /\ Len(said.listens) \in Nat
      /\ Mirrors(Nums(ports), DefaultPort, said.listens)
  <2>1. said \in Blocks /\ ports \in Seq(Ports) /\ Mirrors(Nums(ports), DefaultPort, said.listens)
    BY DEF IInv, Typed, ListsSaid
  <2>2. said.listens \in Seq(PortNums)
    BY <2>1 DEF Blocks
  <2>3. Len(Nums(ports)) = Len(ports)
    BY <2>1, NumsFacts
  <2> QED
    BY <2>1, <2>2, <2>3 DEF Mirrors
<1>1. /\ ctx = "server"
  BY DEF Listen, given, lists, logging, done, opened, vars
<1>2. /\ ctx' = ctx /\ defaultServer' = defaultServer /\ vocabulary' = vocabulary
      /\ names' = names /\ indexFiles' = indexFiles /\ locations' = locations /\ logs' = logs
      /\ currentLog' = currentLog /\ certFile' = certFile /\ servers' = servers
      /\ written' = written /\ logFds' = logFds /\ danglingLogs' = danglingLogs
  BY DEF Listen, given, lists, logging, done, opened, vars
<1>3. /\ said' \in Blocks /\ said'.listens = Added(said.listens, n) /\ said'.names = said.names
      /\ said'.index = said.index /\ said'.uris = said.uris /\ said'.first = said.first
      /\ said'.asks = said.asks /\ said'.groups = said.groups /\ said'.logs = said.logs
      /\ said'.cert = said.cert
      /\ said'.early = (said.early \/ (opt = "sslFirst" /\ Len(ports) = 1))
      /\ said'.wild = said.wild /\ said'.odd = said.odd
  <2>1. said' = [said EXCEPT !.listens = Added(@, n),
                             !.early = @ \/ (opt = "sslFirst" /\ Len(ports) = 1)]
    BY DEF Listen
  <2>2. (said.early \/ (opt = "sslFirst" /\ Len(ports) = 1)) \in BOOLEAN
    BY Zenon
  <2>3. Added(said.listens, n) \in Seq(PortNums)
    BY <1>0, FListenFacts
  <2> QED
    BY <1>0, <2>1, <2>2, <2>3 DEF Blocks
<1>4. /\ ports' \in Seq(Ports) /\ Mirrors(Nums(ports'), DefaultPort, Added(said.listens, n))
      /\ \/ opt = "sslFirst" /\ Len(ports) = 1
         \/ ports'[Len(ports')] = ports[Len(ports)]
  <2>1. /\ FListen(ports, n) \in Seq(Ports) /\ Len(FListen(ports, n)) >= 2
        /\ FListen(ports, n)[Len(FListen(ports, n))] = ports[Len(ports)]
        /\ Mirrors(Nums(FListen(ports, n)), DefaultPort, Added(said.listens, n))
    BY <1>0, FListenFacts
  <2>2. CASE opt = "plain"
    <3>1. ports' = FListen(ports, n)
      BY <2>2 DEF Listen
    <3> QED
      BY <2>1, <3>1
  <2>3. CASE opt = "ssl"
    <3>1. ports' = FTls(FListen(ports, n))
      BY <2>3 DEF Listen
    <3> DEFINE l == FListen(ports, n)
    <3> HIDE DEF l
    <3>2. l \in Seq(Ports) /\ Len(l) >= 2 /\ Len(l) \in Nat
      BY <2>1 DEF l
    <3>3. /\ FTls(l) \in Seq(Ports) /\ Nums(FTls(l)) = Nums(l)
          /\ FTls(l)[Len(FTls(l))] = l[Len(l)]
      BY <3>2, FTlsFacts
    <3> QED
      BY <2>1, <3>1, <3>3 DEF l
  <2>4. CASE opt = "sslFirst"
    <3>1. ports' = FListen(FTls(ports), n)
      BY <2>4 DEF Listen
    <3>2. /\ FTls(ports) \in Seq(Ports) /\ Nums(FTls(ports)) = Nums(ports)
          /\ Len(ports) >= 2 => FTls(ports)[Len(FTls(ports))] = ports[Len(ports)]
      BY <1>0, FTlsFacts
    <3> DEFINE l == FTls(ports)
    <3> HIDE DEF l
    <3>3. /\ l \in Seq(Ports) /\ Mirrors(Nums(l), DefaultPort, said.listens)
          /\ Len(ports) >= 2 => l[Len(l)] = ports[Len(ports)]
      BY <1>0, <3>2 DEF l
    <3>4. /\ FListen(l, n) \in Seq(Ports)
          /\ FListen(l, n)[Len(FListen(l, n))] = l[Len(l)]
          /\ Mirrors(Nums(FListen(l, n)), DefaultPort, Added(said.listens, n))
      BY <1>0, <3>3, FListenFacts
    <3>5. Len(ports) = 1 \/ Len(ports) >= 2
      BY <1>0
    <3> QED
      BY <2>4, <3>1, <3>3, <3>4, <3>5 DEF l
  <2> QED
    BY <2>2, <2>3, <2>4
<1>11. Typed'
  BY <1>1, <1>2, <1>3, <1>4 DEF IInv, Typed
<1>12. ListsSaid'
  BY <1>1, <1>2, <1>3, <1>4 DEF IInv, ListsSaid
<1>13. LogsSaid'
  BY <1>1, <1>2, <1>3, <1>4 DEF IInv, LogsSaid
<1>14. FdsFit'
  BY <1>1, <1>2, <1>3, <1>4 DEF IInv, FdsFit
<1>15. Pended'
  BY <1>1, <1>2, <1>3, <1>4 DEF IInv, Pended
<1>16. DefaultKept'
  BY <1>1, <1>2, <1>3, <1>4 DEF IInv, DefaultKept
<1>17. Contextual'
  BY <1>1, <1>2, <1>3, <1>4 DEF IInv, Contextual
<1>18. MatchesSaid'
  BY <1>1, <1>2, <1>3, <1>4 DEF IInv, MatchesSaid, Closed
<1>19. PortsFit'
  BY <1>1, <1>2, <1>3, <1>4 DEF IInv, PortsFit
<1>20. ServersFit'
  BY <1>1, <1>2, <1>3, <1>4 DEF IInv, ServersFit, ServerFits
<1>21. FatalKnown'
  BY <1>1, <1>2, <1>3, <1>4 DEF IInv, FatalKnown, Fatal
<1>22. Checked'
  BY <1>1, <1>2, <1>3, <1>4 DEF IInv, Checked, Accepted
<1> QED
  BY <1>11, <1>12, <1>13, <1>14, <1>15, <1>16, <1>17, <1>18, <1>19, <1>20, <1>21, <1>22 DEF IInv

LEMMA ServerNameKeeps ==
  ASSUME IInv, NEW name \in Names, ServerName(name)
  PROVE  IInv'
<1>0. /\ said \in Blocks /\ said.names \in Seq(NameSet) /\ names \in Seq(NameSet)
      /\ Mirrors(names, DefaultName, said.names)
  <2>1. said \in Blocks /\ names \in Seq(NameSet) /\ Mirrors(names, DefaultName, said.names)
    BY DEF IInv, Typed, ListsSaid
  <2> QED
    BY <2>1 DEF Blocks
<1>4. /\ names' \in Seq(NameSet) /\ Mirrors(names', DefaultName, Added(said.names, name))
      /\ Added(said.names, name) \in Seq(NameSet)
      /\ \A y : Contains(Added(said.names, name), y) <=> Contains(said.names, y) \/ name = y
  <2>1. name \in NameSet
    BY DEF NameSet
  <2>2. names' = Put(names, name)
    BY DEF ServerName, DupName, Put, Found
  <2> QED
    BY <1>0, <2>1, <2>2, PutFacts
<1>1. /\ ctx = "server"
  BY DEF ServerName, given, lists, logging, done, opened, vars
<1>2. /\ ctx' = ctx /\ defaultServer' = defaultServer /\ vocabulary' = vocabulary
      /\ ports' = ports /\ indexFiles' = indexFiles /\ locations' = locations /\ logs' = logs
      /\ currentLog' = currentLog /\ certFile' = certFile /\ servers' = servers
      /\ written' = written /\ logFds' = logFds /\ danglingLogs' = danglingLogs
  BY DEF ServerName, given, lists, logging, done, opened, vars
<1>3. /\ said' \in Blocks /\ said'.listens = said.listens
      /\ said'.names = Added(said.names, name) /\ said'.index = said.index
      /\ said'.uris = said.uris /\ said'.first = said.first /\ said'.asks = said.asks
      /\ said'.groups = said.groups /\ said'.logs = said.logs /\ said'.cert = said.cert
      /\ said'.early = said.early /\ said'.wild = said.wild /\ said'.odd = said.odd
  <2>1. said' = [said EXCEPT !.names = Added(@, name)]
    BY DEF ServerName
  <2> QED
    BY <1>0, <1>4, <2>1 DEF Blocks
<1>11. Typed'
  BY <1>1, <1>2, <1>3, <1>4 DEF IInv, Typed
<1>12. ListsSaid'
  BY <1>1, <1>2, <1>3, <1>4 DEF IInv, ListsSaid
<1>13. LogsSaid'
  BY <1>1, <1>2, <1>3 DEF IInv, LogsSaid
<1>14. FdsFit'
  BY <1>1, <1>2, <1>3 DEF IInv, FdsFit
<1>15. Pended'
  BY <1>1, <1>2, <1>3, <1>4 DEF IInv, Pended
<1>16. DefaultKept'
  BY <1>1, <1>2, <1>3 DEF IInv, DefaultKept
<1>17. Contextual'
  BY <1>1, <1>2, <1>3 DEF IInv, Contextual
<1>18. MatchesSaid'
  BY <1>1, <1>2, <1>3 DEF IInv, MatchesSaid, Closed
<1>19. PortsFit'
  BY <1>1, <1>2, <1>3 DEF IInv, PortsFit
<1>20. ServersFit'
  BY <1>1, <1>2, <1>3 DEF IInv, ServersFit, ServerFits
<1>21. FatalKnown'
  BY <1>1, <1>2, <1>3 DEF IInv, FatalKnown, Fatal
<1>22. Checked'
  BY <1>1, <1>2, <1>3 DEF IInv, Checked, Accepted
<1> QED
  BY <1>11, <1>12, <1>13, <1>14, <1>15, <1>16, <1>17, <1>18, <1>19, <1>20, <1>21, <1>22 DEF IInv

LEMMA ListenAnyKeeps ==
  ASSUME IInv, ListenAny
  PROVE  IInv'
<1>0. /\ said \in Blocks /\ said.names \in Seq(NameSet) /\ names \in Seq(NameSet)
      /\ Mirrors(names, DefaultName, said.names)
  <2>1. said \in Blocks /\ names \in Seq(NameSet) /\ Mirrors(names, DefaultName, said.names)
    BY DEF IInv, Typed, ListsSaid
  <2> QED
    BY <2>1 DEF Blocks
<1>4. /\ names' \in Seq(NameSet) /\ Mirrors(names', DefaultName, Added(said.names, DefaultName))
      /\ Added(said.names, DefaultName) \in Seq(NameSet)
      /\ Contains(Added(said.names, DefaultName), DefaultName)
      /\ DupName(DefaultName) <=> Contains(said.names, DefaultName)
  <2>1. DefaultName \in NameSet
    BY DEF NameSet
  <2>2. names' = Put(names, DefaultName) /\ (DupName(DefaultName) <=> Found(names, DefaultName))
    BY DEF ListenAny, DupName, Put, Found
  <2>3. /\ Found(names, DefaultName) <=> Contains(said.names, DefaultName)
        /\ Put(names, DefaultName) \in Seq(NameSet)
        /\ Mirrors(Put(names, DefaultName), DefaultName, Added(said.names, DefaultName))
        /\ Added(said.names, DefaultName) \in Seq(NameSet)
        /\ \A y : Contains(Added(said.names, DefaultName), y) <=>
                  Contains(said.names, y) \/ DefaultName = y
    BY <1>0, <2>1, PutFacts
  <2>4. Contains(Added(said.names, DefaultName), DefaultName)
    BY <2>3
  <2> QED
    BY <2>2, <2>3, <2>4
<1>1. /\ ctx = "server"
      /\ ctx' = (IF DupName(DefaultName) THEN "undefined" ELSE ctx)
  BY DEF ListenAny, given, lists, logging, done, opened, vars
<1>2. /\ defaultServer' = defaultServer /\ vocabulary' = vocabulary /\ ports' = ports
      /\ indexFiles' = indexFiles /\ locations' = locations /\ logs' = logs
      /\ currentLog' = currentLog /\ certFile' = certFile /\ servers' = servers
      /\ written' = written /\ logFds' = logFds /\ danglingLogs' = danglingLogs
  BY DEF ListenAny, given, lists, logging, done, opened, vars
<1>3. /\ said' \in Blocks /\ said'.listens = said.listens
      /\ said'.names = Added(said.names, DefaultName) /\ said'.index = said.index
      /\ said'.uris = said.uris /\ said'.first = said.first /\ said'.asks = said.asks
      /\ said'.groups = said.groups /\ said'.logs = said.logs /\ said'.cert = said.cert
      /\ said'.early = said.early /\ said'.wild = said.wild + 1 /\ said'.odd = said.odd
  <2>1. said' = [said EXCEPT !.names = Added(@, DefaultName), !.wild = @ + 1]
    BY DEF ListenAny
  <2>2. said.wild + 1 \in Nat
    BY <1>0 DEF Blocks
  <2> QED
    BY <1>0, <1>4, <2>1, <2>2 DEF Blocks
<1>5. said.wild \in Nat /\ said.wild <= 1
  <2>1. said.wild \in Nat
    BY <1>0 DEF Blocks
  <2> QED
    BY <1>1, <2>1 DEF IInv, Pended
<1>11. Typed'
  BY <1>1, <1>2, <1>3, <1>4 DEF IInv, Typed, Contexts
<1>12. ListsSaid'
  BY <1>1, <1>2, <1>3, <1>4 DEF IInv, ListsSaid
<1>13. LogsSaid'
  BY <1>1, <1>2, <1>3, <1>5 DEF IInv, LogsSaid
<1>14. FdsFit'
  BY <1>1, <1>2, <1>3, <1>5 DEF IInv, FdsFit
<1>15. Pended'
  <2> SUFFICES ASSUME ctx' # "undefined"
               PROVE  Pended'
    BY DEF Pended
  <2>1. ~Contains(said.names, DefaultName) /\ ctx' = "server"
    BY <1>1, <1>4
  <2>2. said.wild = 0
    BY <1>1, <1>5, <2>1 DEF IInv, Pended
  <2>3. said'.wild = 1
    BY <1>3, <2>2
  <2> QED
    BY <1>1, <1>2, <1>3, <1>4, <2>1, <2>3 DEF IInv, Pended
<1>16. DefaultKept'
  BY <1>1, <1>2, <1>3, <1>5 DEF IInv, DefaultKept
<1>17. Contextual'
  BY <1>1, <1>2, <1>3, <1>5 DEF IInv, Contextual
<1>18. MatchesSaid'
  BY <1>1, <1>2, <1>3, <1>5 DEF IInv, MatchesSaid, Closed
<1>19. PortsFit'
  BY <1>1, <1>2, <1>3, <1>5 DEF IInv, PortsFit
<1>20. ServersFit'
  BY <1>1, <1>2, <1>3, <1>5 DEF IInv, ServersFit, ServerFits
<1>21. FatalKnown'
  <2> SUFFICES ASSUME DefaultName \notin Names, ctx' = "undefined"
               PROVE  Fatal(said')
    BY <1>2 DEF IInv, FatalKnown
  <2>1. Contains(said.names, DefaultName)
    BY <1>1, <1>4
  <2>2. said.wild = 1
    BY <1>1, <2>1 DEF IInv, Pended
  <2>3. said'.wild > 1
    BY <1>3, <2>2
  <2> QED
    BY <2>3 DEF Fatal
<1>22. Checked'
  BY <1>1, <1>2, <1>3, <1>5 DEF IInv, Checked, Accepted
<1> QED
  BY <1>11, <1>12, <1>13, <1>14, <1>15, <1>16, <1>17, <1>18, <1>19, <1>20, <1>21, <1>22 DEF IInv

LEMMA IndexFileKeeps ==
  ASSUME IInv, NEW name \in Names, IndexFile(name)
  PROVE  IInv'
<1>0. /\ said \in Blocks /\ said.index \in Seq(Names) /\ indexFiles \in Seq(IndexSet)
      /\ Mirrors(indexFiles, DefaultIndex, said.index)
  <2>1. said \in Blocks /\ indexFiles \in Seq(IndexSet) /\ Mirrors(indexFiles, DefaultIndex, said.index)
    BY DEF IInv, Typed, ListsSaid
  <2> QED
    BY <2>1 DEF Blocks
<1>4. /\ <<name>> \o indexFiles \in Seq(IndexSet)
      /\ Mirrors(<<name>> \o indexFiles, DefaultIndex, Append(said.index, name))
      /\ Append(said.index, name) \in Seq(Names)
  <2>1. name \in IndexSet
    BY DEF IndexSet
  <2>2. Append(said.index, name) \in Seq(Names)
    BY <1>0
  <2> QED
    BY <1>0, <2>1, <2>2, ConsFacts, MirrorsCons
<1>1. /\ ctx \in {"http", "server"}
      /\ indexFiles' = <<name>> \o indexFiles
  BY DEF IndexFile, given, lists, logging, done, opened, vars
<1>2. /\ ctx' = ctx /\ defaultServer' = defaultServer /\ vocabulary' = vocabulary
      /\ ports' = ports /\ names' = names /\ locations' = locations /\ logs' = logs
      /\ currentLog' = currentLog /\ certFile' = certFile /\ servers' = servers
      /\ written' = written /\ logFds' = logFds /\ danglingLogs' = danglingLogs
  BY DEF IndexFile, given, lists, logging, done, opened, vars
<1>3. /\ said' \in Blocks /\ said'.listens = said.listens /\ said'.names = said.names
      /\ said'.index = Append(said.index, name) /\ said'.uris = said.uris
      /\ said'.first = said.first /\ said'.asks = said.asks /\ said'.groups = said.groups
      /\ said'.logs = said.logs /\ said'.cert = said.cert /\ said'.early = said.early
      /\ said'.wild = said.wild /\ said'.odd = said.odd
  <2>1. said' = [said EXCEPT !.index = Append(@, name)]
    BY DEF IndexFile
  <2> QED
    BY <1>0, <1>4, <2>1 DEF Blocks
<1>11. Typed'
  BY <1>1, <1>2, <1>3, <1>4 DEF IInv, Typed
<1>12. ListsSaid'
  BY <1>1, <1>2, <1>3, <1>4 DEF IInv, ListsSaid
<1>13. LogsSaid'
  BY <1>1, <1>2, <1>3 DEF IInv, LogsSaid
<1>14. FdsFit'
  BY <1>1, <1>2, <1>3 DEF IInv, FdsFit
<1>15. Pended'
  BY <1>1, <1>2, <1>3 DEF IInv, Pended
<1>16. DefaultKept'
  BY <1>1, <1>2, <1>3 DEF IInv, DefaultKept
<1>17. Contextual'
  BY <1>1, <1>2, <1>3 DEF IInv, Contextual
<1>18. MatchesSaid'
  BY <1>1, <1>2, <1>3 DEF IInv, MatchesSaid, Closed
<1>19. PortsFit'
  BY <1>1, <1>2, <1>3 DEF IInv, PortsFit
<1>20. ServersFit'
  BY <1>1, <1>2, <1>3 DEF IInv, ServersFit, ServerFits
<1>21. FatalKnown'
  BY <1>1, <1>2, <1>3 DEF IInv, FatalKnown, Fatal
<1>22. Checked'
  BY <1>1, <1>2, <1>3 DEF IInv, Checked, Accepted
<1> QED
  BY <1>11, <1>12, <1>13, <1>14, <1>15, <1>16, <1>17, <1>18, <1>19, <1>20, <1>21, <1>22 DEF IInv

-----------------------------------------------------------------------------
(* Logs *)

LEMMA LogFileKeeps ==
  ASSUME IInv, NEW kind \in LogKinds, NEW path \in Paths, LogFile(kind, path)
  PROVE  IInv'
<1>0. /\ said \in Blocks /\ said.logs \in [LogKinds -> PathSet] /\ path \in PathSet
      /\ logs \in [LogKinds -> Seq(PathSet)] /\ currentLog \in [LogKinds -> Nat]
      /\ \A k \in LogKinds : logs[k] \in Seq(PathSet) /\ Len(logs[k]) \in Nat
  <2>1. /\ said \in Blocks /\ logs \in [LogKinds -> Seq(PathSet)] /\ currentLog \in [LogKinds -> Nat]
    BY DEF IInv, Typed
  <2>2. \A k \in LogKinds : logs[k] \in Seq(PathSet)
    BY <2>1
  <2>3. \A k \in LogKinds : Len(logs[k]) \in Nat
    BY <2>2
  <2> QED
    BY <2>1, <2>2, <2>3 DEF Blocks, PathSet
<1>1. /\ ctx \in {"http", "server"} /\ currentLog[kind] = 0
      /\ logs' = [logs EXCEPT ![kind] = Append(@, path)]
      /\ currentLog' = [currentLog EXCEPT ![kind] = Len(logs[kind]) + 1]
  BY DEF LogFile, given, lists, logging, done, opened, vars
<1>2. /\ ctx' = ctx /\ defaultServer' = defaultServer /\ vocabulary' = vocabulary
      /\ ports' = ports /\ names' = names /\ indexFiles' = indexFiles /\ locations' = locations
      /\ certFile' = certFile /\ servers' = servers /\ written' = written /\ logFds' = logFds
      /\ danglingLogs' = danglingLogs
  BY DEF LogFile, given, lists, logging, done, opened, vars
<1>3. /\ said' \in Blocks /\ said'.listens = said.listens /\ said'.names = said.names
      /\ said'.index = said.index /\ said'.uris = said.uris /\ said'.first = said.first
      /\ said'.asks = said.asks /\ said'.groups = said.groups
      /\ said'.logs = [said.logs EXCEPT ![kind] = path] /\ said'.cert = said.cert
      /\ said'.early = said.early /\ said'.wild = said.wild /\ said'.odd = said.odd
  <2>1. said' = [said EXCEPT !.logs[kind] = path]
    BY DEF LogFile
  <2>2. [said.logs EXCEPT ![kind] = path] \in [LogKinds -> PathSet]
    BY <1>0
  <2>3. said' = [said EXCEPT !.logs = [said.logs EXCEPT ![kind] = path]]
    BY <2>1
  <2> QED
    BY <1>0, <2>2, <2>3 DEF Blocks
<1>4. /\ logs'[kind] = Append(logs[kind], path) /\ \A k \in LogKinds : k # kind => logs'[k] = logs[k]
      /\ currentLog'[kind] = Len(logs[kind]) + 1
      /\ \A k \in LogKinds : k # kind => currentLog'[k] = currentLog[k]
      /\ said'.logs[kind] = path /\ \A k \in LogKinds : k # kind => said'.logs[k] = said.logs[k]
  BY <1>0, <1>1, <1>3
<1>5. /\ Append(logs[kind], path) \in Seq(PathSet) /\ Len(Append(logs[kind], path)) = Len(logs[kind]) + 1
      /\ Append(logs[kind], path)[Len(logs[kind]) + 1] = path
      /\ \A i \in 1..Len(logs[kind]) : Append(logs[kind], path)[i] = logs[kind][i]
  BY <1>0
<1>6. \A k \in LogKinds : /\ Len(logs'[k]) \in Nat /\ Len(logs'[k]) >= Len(logs[k])
                          /\ \A i \in 1..Len(logs[k]) : logs'[k][i] = logs[k][i]
  <2>1. Len(logs[kind]) + 1 \in Nat /\ Len(logs[kind]) + 1 >= Len(logs[kind])
    BY <1>0
  <2>2. ASSUME NEW k \in LogKinds
        PROVE  /\ Len(logs'[k]) \in Nat /\ Len(logs'[k]) >= Len(logs[k])
               /\ \A i \in 1..Len(logs[k]) : logs'[k][i] = logs[k][i]
    <3>1. CASE k = kind
      BY <1>4, <1>5, <2>1, <3>1
    <3>2. CASE k # kind
      <4>1. logs'[k] = logs[k] /\ Len(logs[k]) \in Nat
        BY <1>0, <1>4, <3>2
      <4>2. Len(logs[k]) >= Len(logs[k])
        BY <4>1
      <4> QED
        BY <4>1, <4>2
    <3> QED
      BY <3>1, <3>2
  <2> QED
    BY <2>2
<1>11. Typed'
  <2>1. logs' \in [LogKinds -> Seq(PathSet)]
    BY <1>0, <1>1, <1>5
  <2>2. currentLog' \in [LogKinds -> Nat]
    <3>1. Len(logs[kind]) + 1 \in Nat
      BY <1>0
    <3> QED
      BY <1>0, <1>1, <3>1
  <2> QED
    BY <1>2, <1>3, <2>1, <2>2 DEF IInv, Typed
<1>12. ListsSaid'
  BY <1>1, <1>2, <1>3, <1>4, <1>5, <1>6 DEF IInv, ListsSaid
<1>13. LogsSaid'
  <2> SUFFICES ASSUME NEW k \in LogKinds
               PROVE  /\ Len(logs'[k]) >= 1 /\ logs'[k][1] = DefaultPath
                      /\ currentLog'[k] <= Len(logs'[k])
                      /\ said'.logs[k] = logs'[k][IF currentLog'[k] = 0 THEN 1 ELSE currentLog'[k]]
    BY DEF LogsSaid
  <2>1. /\ Len(logs[k]) >= 1 /\ logs[k][1] = DefaultPath /\ currentLog[k] <= Len(logs[k])
        /\ said.logs[k] = logs[k][IF currentLog[k] = 0 THEN 1 ELSE currentLog[k]]
    BY DEF IInv, LogsSaid
  <2>2. CASE k = kind
    <3>1. /\ Len(logs[kind]) + 1 >= 1 /\ Len(logs[kind]) + 1 # 0 /\ 1 \in 1..Len(logs[kind])
          /\ Len(logs[kind]) + 1 <= Len(logs[kind]) + 1
      BY <1>0, <2>1, <2>2
    <3> QED
      BY <1>4, <1>5, <2>1, <2>2, <3>1
  <2>3. CASE k # kind
    BY <1>4, <2>1, <2>3
  <2> QED
    BY <2>2, <2>3
<1>14. FdsFit'
  <2>1. \A k \in LogKinds : logFds[k] = <<>>
    BY <1>1 DEF IInv, FdsFit
  <2>2. \A k \in LogKinds : \A i \in danglingLogs[k] : i \in 1..Len(logs'[k])
    <3>1. \A k \in LogKinds : \A i \in danglingLogs[k] : i \in 1..Len(logs[k])
      BY DEF IInv, FdsFit
    <3> QED
      BY <1>0, <1>6, <3>1
  <2>3. Len(<<>>) = 0 /\ 1..0 = {} /\ \A k \in LogKinds : 0 <= Len(logs'[k])
    BY <1>0, <1>6
  <2>4. /\ logFds' = logFds /\ danglingLogs' = danglingLogs /\ defaultServer' = defaultServer
        /\ ctx' # "ready"
        /\ \A k \in LogKinds : defaultServer => danglingLogs[k] = {}
    BY <1>1, <1>2 DEF IInv, FdsFit
  <2> QED
    BY <2>1, <2>2, <2>3, <2>4 DEF FdsFit
<1>15. Pended'
  BY <1>1, <1>2, <1>3, <1>4, <1>5, <1>6 DEF IInv, Pended
<1>16. DefaultKept'
  BY <1>1, <1>2, <1>3, <1>4, <1>5, <1>6 DEF IInv, DefaultKept
<1>17. Contextual'
  BY <1>1, <1>2, <1>3, <1>4, <1>5, <1>6 DEF IInv, Contextual
<1>18. MatchesSaid'
  BY <1>1, <1>2, <1>3, <1>4, <1>5, <1>6 DEF IInv, MatchesSaid, Closed
<1>19. PortsFit'
  BY <1>1, <1>2, <1>3, <1>4, <1>5, <1>6 DEF IInv, PortsFit
<1>20. ServersFit'
  <2> SUFFICES ASSUME NEW k \in 1..Len(servers)
               PROVE  ServerFits(servers[k])'
    BY <1>2 DEF ServersFit
  <2>1. ServerFits(servers[k])
    BY DEF IInv, ServersFit
  <2>2. \A m \in LogKinds : /\ servers[k].log[m] \in 1..Len(logs'[m])
                            /\ logs'[m][servers[k].log[m]] = logs[m][servers[k].log[m]]
    <3>1. \A m \in LogKinds : servers[k].log[m] \in 1..Len(logs[m])
      BY <2>1 DEF ServerFits
    <3> QED
      BY <1>0, <1>6, <3>1
  <2> QED
    BY <1>2, <2>1, <2>2 DEF ServerFits
<1>21. FatalKnown'
  BY <1>1, <1>2, <1>3, <1>4, <1>5, <1>6 DEF IInv, FatalKnown, Fatal
<1>22. Checked'
  BY <1>1, <1>2, <1>3, <1>4, <1>5, <1>6 DEF IInv, Checked, Accepted
<1> QED
  BY <1>11, <1>12, <1>13, <1>14, <1>15, <1>16, <1>17, <1>18, <1>19, <1>20, <1>21, <1>22 DEF IInv

LEMMA OpenLogFileKeeps ==
  ASSUME IInv, NEW kind \in LogKinds, OpenLogFile(kind)
  PROVE  IInv'
<1> DEFINE m  == Len(logFds[kind]) + 1
           fd == PathAlreadyOpened(kind, m)
           fs == Append(logFds[kind], fd)
<1>0. /\ logFds \in [LogKinds -> Seq(Nat)] /\ logFds[kind] \in Seq(Nat) /\ Len(logFds[kind]) \in Nat
      /\ logs[kind] \in Seq(PathSet) /\ Len(logs[kind]) \in Nat
  <2>1. logFds \in [LogKinds -> Seq(Nat)] /\ logs \in [LogKinds -> Seq(PathSet)]
    BY DEF IInv, Typed
  <2>2. logFds[kind] \in Seq(Nat) /\ logs[kind] \in Seq(PathSet)
    BY <2>1
  <2> QED
    BY <2>1, <2>2
<1>1. /\ ctx = "checked" /\ Len(logFds[kind]) < Len(logs[kind])
      /\ logFds' = [logFds EXCEPT ![kind] = Append(@, PathAlreadyOpened(kind, Len(@) + 1))]
  BY DEF OpenLogFile, given, lists, logging, done, opened, vars, AtLog
<1>2. /\ ctx' = ctx /\ defaultServer' = defaultServer /\ vocabulary' = vocabulary
      /\ ports' = ports /\ names' = names /\ indexFiles' = indexFiles /\ locations' = locations
      /\ logs' = logs /\ currentLog' = currentLog /\ certFile' = certFile /\ said' = said
      /\ servers' = servers /\ written' = written /\ danglingLogs' = danglingLogs
  BY DEF OpenLogFile, given, lists, logging, done, opened, vars, AtLog
<1>3. /\ \A i \in 1..Len(logFds[kind]) : logFds[kind][i] \in 1..i
      /\ \A i, j \in 1..Len(logFds[kind]) :
           logs[kind][i] = logs[kind][j] <=> logFds[kind][i] = logFds[kind][j]
  BY DEF IInv, FdsFit
<1>4. /\ fd \in 1..m
      /\ \A i \in 1..Len(logFds[kind]) : logs[kind][i] = logs[kind][m] <=> logFds[kind][i] = fd
  <2> DEFINE same == {j \in DOMAIN logFds[kind] : logs[kind][j] = logs[kind][m]}
  <2>1. fd = IF same = {} THEN m ELSE logFds[kind][CHOOSE j \in same : TRUE]
    BY DEF PathAlreadyOpened
  <2>2. DOMAIN logFds[kind] = 1..Len(logFds[kind])
    BY <1>0
  <2>3. CASE same = {}
    <3>1. fd = m
      BY <2>1, <2>3
    <3>2. ASSUME NEW i \in 1..Len(logFds[kind])
          PROVE  logs[kind][i] # logs[kind][m] /\ logFds[kind][i] # m
      <4>1. logs[kind][i] # logs[kind][m]
        BY <2>2, <2>3
      <4>2. logFds[kind][i] \in 1..i
        BY <1>3
      <4>3. logFds[kind][i] < m
        BY <1>0, <4>2
      <4> QED
        BY <1>0, <4>1, <4>3
    <3>3. m \in 1..m
      BY <1>0
    <3> QED
      BY <3>1, <3>2, <3>3
  <2>4. CASE same # {}
    <3>1. PICK j \in same : fd = logFds[kind][j]
      BY <2>1, <2>4
    <3>2. j \in 1..Len(logFds[kind]) /\ logs[kind][j] = logs[kind][m]
      BY <2>2, <3>1
    <3>3. fd \in 1..j
      BY <1>3, <3>1, <3>2
    <3>4. fd \in 1..m
      BY <1>0, <3>2, <3>3
    <3> QED
      BY <1>3, <3>1, <3>2, <3>4
  <2> QED
    BY <2>3, <2>4
<1> HIDE DEF fd
<1>5. /\ fs \in Seq(Nat) /\ Len(fs) = m /\ fs[m] = fd
      /\ \A i \in 1..Len(logFds[kind]) : fs[i] = logFds[kind][i]
  <2>1. fd \in Nat
    BY <1>0, <1>4
  <2> QED
    BY <1>0, <2>1
<1> HIDE DEF fs
<1>6. /\ logFds'[kind] = fs /\ \A k \in LogKinds : k # kind => logFds'[k] = logFds[k]
      /\ logFds' \in [LogKinds -> Seq(Nat)]
  <2>1. logFds' = [logFds EXCEPT ![kind] = fs]
    BY <1>1 DEF fs, fd
  <2> QED
    BY <1>0, <1>5, <2>1
<1>11. Typed'
  BY <1>1, <1>2, <1>6 DEF IInv, Typed
<1>12. ListsSaid'
  BY <1>1, <1>2 DEF IInv, ListsSaid
<1>13. LogsSaid'
  BY <1>1, <1>2 DEF IInv, LogsSaid
<1>14. FdsFit'
  <2>1. \A i \in 1..m : i \in 1..Len(logFds[kind]) \/ i = m
    BY <1>0
  <2>2. m <= Len(logs[kind])
    BY <1>0, <1>1
  <2>3. \A i \in 1..m : fs[i] \in 1..i
    BY <1>3, <1>4, <1>5, <2>1
  <2>4. ASSUME NEW i \in 1..m, NEW j \in 1..m
        PROVE  logs[kind][i] = logs[kind][j] <=> fs[i] = fs[j]
    <3>1. CASE i \in 1..Len(logFds[kind]) /\ j \in 1..Len(logFds[kind])
      BY <1>3, <1>5, <3>1
    <3>2. CASE i \in 1..Len(logFds[kind]) /\ j = m
      BY <1>4, <1>5, <3>2
    <3>3. CASE i = m /\ j \in 1..Len(logFds[kind])
      BY <1>4, <1>5, <3>3
    <3>4. CASE i = m /\ j = m
      BY <3>4
    <3> QED
      BY <2>1, <3>1, <3>2, <3>3, <3>4
  <2> HIDE DEF m
  <2>5. ASSUME NEW k \in LogKinds
        PROVE  /\ Len(logFds'[k]) <= Len(logs[k])
               /\ \A i \in 1..Len(logFds'[k]) : logFds'[k][i] \in 1..i
               /\ \A i, j \in 1..Len(logFds'[k]) :
                    logs[k][i] = logs[k][j] <=> logFds'[k][i] = logFds'[k][j]
               /\ \A i \in danglingLogs[k] : i \in 1..Len(logs[k])
               /\ defaultServer => danglingLogs[k] = {}
    <3>1. CASE k = kind
      <4>1. /\ \A i \in danglingLogs[k] : i \in 1..Len(logs[k])
            /\ defaultServer => danglingLogs[k] = {}
        BY DEF IInv, FdsFit
      <4> QED
        BY <1>5, <1>6, <2>2, <2>3, <2>4, <3>1, <4>1
    <3>2. CASE k # kind
      <4>1. /\ Len(logFds[k]) <= Len(logs[k])
            /\ \A i \in 1..Len(logFds[k]) : logFds[k][i] \in 1..i
            /\ \A i, j \in 1..Len(logFds[k]) :
                 logs[k][i] = logs[k][j] <=> logFds[k][i] = logFds[k][j]
            /\ \A i \in danglingLogs[k] : i \in 1..Len(logs[k])
            /\ defaultServer => danglingLogs[k] = {}
        BY DEF IInv, FdsFit
      <4>2. logFds'[k] = logFds[k]
        BY <1>6, <3>2
      <4> QED
        BY <4>1, <4>2
    <3> QED
      BY <3>1, <3>2
  <2> QED
    BY <1>1, <1>2, <2>5 DEF FdsFit
<1>15. Pended'
  BY <1>1, <1>2 DEF IInv, Pended
<1>16. DefaultKept'
  BY <1>1, <1>2 DEF IInv, DefaultKept
<1>17. Contextual'
  BY <1>1, <1>2 DEF IInv, Contextual
<1>18. MatchesSaid'
  BY <1>1, <1>2 DEF IInv, MatchesSaid, Closed
<1>19. PortsFit'
  BY <1>1, <1>2 DEF IInv, PortsFit
<1>20. ServersFit'
  BY <1>1, <1>2 DEF IInv, ServersFit, ServerFits
<1>21. FatalKnown'
  BY <1>1, <1>2 DEF IInv, FatalKnown, Fatal
<1>22. Checked'
  BY <1>1, <1>2 DEF IInv, Checked, Accepted
<1> QED
  BY <1>11, <1>12, <1>13, <1>14, <1>15, <1>16, <1>17, <1>18, <1>19, <1>20, <1>21, <1>22 DEF IInv

-----------------------------------------------------------------------------
(* Location blocks *)

\* What the file says once a directive has made or changed a location.
SaidMaking(d) ==
  /\ said' \in Blocks
  /\ said'.listens = said.listens /\ said'.names = said.names /\ said'.index = said.index
  /\ said'.logs = said.logs /\ said'.cert = said.cert /\ said'.early = said.early
  /\ said'.wild = said.wild /\ said'.odd = said.odd
  /\ said'.first = IF said.first = "none" THEN d ELSE said.first
  /\ said'.asks = said.asks \cup {d}
  /\ said'.groups = IF d \in Groupers THEN said.groups + 1 ELSE said.groups
  /\ Len(said'.uris) = Len(said.uris)
  /\ \A i \in 1..Len(said.uris) : /\ said'.uris[i].uri = said.uris[i].uri
                                  /\ i # Len(said.uris) => said'.uris[i].own = said.uris[i].own
  /\ ctx = "server" => said'.uris = said.uris

\* b and c say the same but for their location blocks.
SameBut(b, c) ==
  /\ c.listens = b.listens /\ c.names = b.names /\ c.index = b.index /\ c.logs = b.logs
  /\ c.cert = b.cert /\ c.early = b.early /\ c.wild = b.wild /\ c.odd = b.odd
  /\ c.first = b.first /\ c.asks = b.asks /\ c.groups = b.groups

\* Changing a location block.
LEMMA UrisChanged ==
  ASSUME NEW b \in Blocks, NEW n \in 1..Len(b.uris), NEW u \in UriItems, u.uri = b.uris[n].uri
  PROVE  LET c == [b EXCEPT !.uris = [b.uris EXCEPT ![n] = u]]
         IN  /\ c \in Blocks /\ SameBut(b, c) /\ Len(c.uris) = Len(b.uris)
             /\ c.uris[n] = u
             /\ \A i \in 1..Len(b.uris) : /\ c.uris[i].uri = b.uris[i].uri
                                          /\ i # n => c.uris[i] = b.uris[i]
<1> DEFINE q == b.uris
           us == [q EXCEPT ![n] = u]
<1>1. q \in Seq(UriItems) /\ n \in 1..Len(q)
  BY DEF Blocks
<1> HIDE DEF q
<1>2. /\ us \in Seq(UriItems) /\ Len(us) = Len(q) /\ us[n] = u
      /\ \A i \in 1..Len(q) : i # n => us[i] = q[i]
  BY <1>1
<1>3. \A i \in 1..Len(q) : us[i].uri = q[i].uri
  BY <1>1, <1>2 DEF q
<1> HIDE DEF us
<1> DEFINE c == [b EXCEPT !.uris = us]
<1>4. c \in Blocks /\ SameBut(b, c) /\ c.uris = us
  BY <1>2 DEF Blocks, SameBut
<1> HIDE DEF c
<1>5. c = [b EXCEPT !.uris = [b.uris EXCEPT ![n] = u]]
  BY DEF c, us, q
<1>6. /\ c \in Blocks /\ SameBut(b, c) /\ Len(c.uris) = Len(b.uris) /\ c.uris[n] = u
      /\ \A i \in 1..Len(b.uris) : /\ c.uris[i].uri = b.uris[i].uri
                                   /\ i # n => c.uris[i] = b.uris[i]
  BY <1>2, <1>3, <1>4 DEF q
<1> QED
  BY <1>5, <1>6

\* A directive of a location block is counted.
LEMMA UriCounted ==
  ASSUME NEW b \in Blocks, NEW n \in 1..Len(b.uris)
  PROVE  LET c == [b EXCEPT !.uris[n].count = @ + 1]
         IN  /\ c \in Blocks /\ SameBut(b, c) /\ Len(c.uris) = Len(b.uris)
             /\ \A i \in 1..Len(b.uris) : /\ c.uris[i].uri = b.uris[i].uri
                                          /\ c.uris[i].own = b.uris[i].own
<1>1. b.uris[n] \in UriItems
  BY DEF Blocks
<1> DEFINE u == [b.uris[n] EXCEPT !.count = @ + 1]
<1>2. u \in UriItems /\ u.uri = b.uris[n].uri /\ u.own = b.uris[n].own
  BY <1>1 DEF UriItems
<1>3. [b EXCEPT !.uris[n].count = @ + 1] = [b EXCEPT !.uris = [b.uris EXCEPT ![n] = u]]
  OBVIOUS
<1> HIDE DEF u
<1> DEFINE c == [b EXCEPT !.uris = [b.uris EXCEPT ![n] = u]]
<1>4. /\ c \in Blocks /\ SameBut(b, c) /\ Len(c.uris) = Len(b.uris) /\ c.uris[n] = u
      /\ \A i \in 1..Len(b.uris) : /\ c.uris[i].uri = b.uris[i].uri
                                   /\ i # n => c.uris[i] = b.uris[i]
  BY <1>2, UrisChanged
<1> HIDE DEF c
<1>5. \A i \in 1..Len(b.uris) : c.uris[i].own = b.uris[i].own
  BY <1>2, <1>4
<1> QED
  BY <1>3, <1>4, <1>5 DEF c

\* ... and makes a location of its own.
LEMMA UriOwned ==
  ASSUME NEW b \in Blocks, NEW n \in 1..Len(b.uris)
  PROVE  LET c == [b EXCEPT !.uris[n].own = TRUE]
         IN  /\ c \in Blocks /\ SameBut(b, c) /\ Len(c.uris) = Len(b.uris)
             /\ \A i \in 1..Len(b.uris) : /\ c.uris[i].uri = b.uris[i].uri
                                          /\ i # n => c.uris[i].own = b.uris[i].own
<1>1. b.uris[n] \in UriItems
  BY DEF Blocks
<1> DEFINE u == [b.uris[n] EXCEPT !.own = TRUE]
<1>2. u \in UriItems /\ u.uri = b.uris[n].uri
  BY <1>1 DEF UriItems
<1>3. [b EXCEPT !.uris[n].own = TRUE] = [b EXCEPT !.uris = [b.uris EXCEPT ![n] = u]]
  OBVIOUS
<1> HIDE DEF u
<1> DEFINE c == [b EXCEPT !.uris = [b.uris EXCEPT ![n] = u]]
<1>4. /\ c \in Blocks /\ SameBut(b, c) /\ Len(c.uris) = Len(b.uris)
      /\ \A i \in 1..Len(b.uris) : /\ c.uris[i].uri = b.uris[i].uri
                                   /\ i # n => c.uris[i] = b.uris[i]
  BY <1>2, UrisChanged
<1> HIDE DEF c
<1> QED
  BY <1>3, <1>4 DEF c

LEMMA MakingFacts ==
  ASSUME IInv, NEW d \in LocationKinds \ {"expires"},
         InLocation(d) \/ (ctx = "server" /\ said' = Making(d))
  PROVE  SaidMaking(d)
<1> DEFINE first == IF said.first = "none" THEN d ELSE said.first
           asks == said.asks \cup {d}
           groups == IF d \in Groupers THEN said.groups + 1 ELSE said.groups
           made == [said EXCEPT !.first = first, !.asks = asks, !.groups = groups]
<1>1. said \in Blocks
  BY DEF IInv, Typed
<1>2. /\ said.uris \in Seq(UriItems) /\ said.groups \in Nat
      /\ said.first \in (LocationKinds \ {"expires"}) \cup {"none"}
  BY <1>1 DEF Blocks
<1>3. asks \in SUBSET LocationKinds
  BY <1>1 DEF Blocks
<1>4. Making(d) = made
  BY DEF Making, Groupers
<1>5. groups \in Nat /\ first \in (LocationKinds \ {"expires"}) \cup {"none"}
  BY <1>2
<1>6. made \in Blocks /\ made.uris = said.uris
  <2> HIDE DEF first, asks, groups
  <2> QED
    BY <1>1, <1>3, <1>5 DEF Blocks
<1>7. /\ made.listens = said.listens /\ made.names = said.names /\ made.index = said.index
      /\ made.logs = said.logs /\ made.cert = said.cert /\ made.early = said.early
      /\ made.wild = said.wild /\ made.odd = said.odd
      /\ made.first = first /\ made.asks = asks /\ made.groups = groups
  <2> HIDE DEF first, asks, groups
  <2> QED
    BY <1>1 DEF Blocks
<1>8. asks = said.asks \cup {d}
  OBVIOUS
<1>9. CASE ctx = "server" /\ said' = Making(d)
  <2>1. said' = made
    BY <1>4, <1>9
  <2> HIDE DEF made
  <2> QED
    BY <1>6, <1>7, <1>8, <2>1 DEF SaidMaking
<1>10. CASE InLocation(d)
  <2>1. PICK n : n = Len(said.uris)
    OBVIOUS
  <2>2. ctx = "location" /\ said' = [Making(d) EXCEPT !.uris[n].count = @ + 1, !.uris[n].own = TRUE]
    BY <1>10, <2>1 DEF InLocation
  <2>3. n \in Nat /\ n \in 1..Len(said.uris)
    <3>1. said.uris # <<>>
      BY <2>2 DEF IInv, Contextual
    <3> QED
      BY <1>2, <2>1, <3>1
  <2> HIDE DEF made
  <2> DEFINE b1 == [made EXCEPT !.uris[n].count = @ + 1]
             b2 == [b1 EXCEPT !.uris[n].own = TRUE]
  <2>4. said' = b2
    BY <1>4, <2>2
  <2>5. /\ b1 \in Blocks /\ SameBut(made, b1) /\ Len(b1.uris) = Len(made.uris)
        /\ \A i \in 1..Len(made.uris) : /\ b1.uris[i].uri = made.uris[i].uri
                                        /\ b1.uris[i].own = made.uris[i].own
    BY <1>6, <2>3, UriCounted
  <2> HIDE DEF b1
  <2>6. /\ b2 \in Blocks /\ SameBut(b1, b2) /\ Len(b2.uris) = Len(b1.uris)
        /\ \A i \in 1..Len(b1.uris) : /\ b2.uris[i].uri = b1.uris[i].uri
                                      /\ i # n => b2.uris[i].own = b1.uris[i].own
    <3>1. n \in 1..Len(b1.uris)
      BY <1>6, <2>3, <2>5
    <3> QED
      BY <2>5, <3>1, UriOwned
  <2> HIDE DEF b2
  <2>7. SameBut(made, b2)
    BY <2>5, <2>6 DEF SameBut
  <2>8. Len(b2.uris) = Len(said.uris)
    BY <1>6, <2>5, <2>6
  <2>9. \A i \in 1..Len(said.uris) : /\ b2.uris[i].uri = said.uris[i].uri
                                     /\ i # n => b2.uris[i].own = said.uris[i].own
    BY <1>6, <2>5, <2>6
  <2> HIDE DEF first, asks, groups
  <2>10. /\ said' \in Blocks /\ SameBut(made, said') /\ Len(said'.uris) = Len(said.uris)
         /\ \A i \in 1..Len(said.uris) :
              /\ said'.uris[i].uri = said.uris[i].uri
              /\ i # Len(said.uris) => said'.uris[i].own = said.uris[i].own
    BY <2>1, <2>4, <2>6, <2>7, <2>8, <2>9
  <2> QED
    BY <1>7, <1>8, <2>2, <2>10 DEF SaidMaking, SameBut, first, groups
<1> QED
  BY <1>9, <1>10


\* What directive d makes of a location.
Became(d, old, loc) ==
  /\ loc \in Locations /\ loc.match = old.match
  /\ loc.literal <=> old.literal /\ d # "root"
  /\ loc.group <=> old.group \/ d \in Groupers
  /\ GroupSet(old) => GroupSet(loc)
  /\ \A asks : Holds(old, asks) => Holds(loc, asks \cup {d})
  /\ "FASTCGI_PASS" \in loc.type => \/ "FASTCGI_PASS" \in old.type
                                    \/ d \in {"fastcgi_host", "fastcgi_group"}
  /\ "UPSTREAM_GROUP" \in old.type => "UPSTREAM_GROUP" \in loc.type

\* Locations that differ in nothing that a directive asks for.
Alike(old, loc) ==
  /\ loc.type = old.type /\ loc.literal = old.literal /\ loc.passTo = old.passTo
  /\ loc.group = old.group /\ loc.tryTarget = old.tryTarget

LEMMA AlikeFacts ==
  ASSUME NEW old, NEW loc, Alike(old, loc)
  PROVE  /\ \A asks : Holds(old, asks) => Holds(loc, asks)
         /\ \A first, asks : Flagged(old, first, asks) => Flagged(loc, first, asks)
         /\ Plain(old) => Plain(loc)
         /\ GroupSet(old) => GroupSet(loc)
<1>1. \A asks : Holds(old, asks) => Holds(loc, asks)
  BY DEF Alike, Holds
<1>2. \A first, asks : Flagged(old, first, asks) => Flagged(loc, first, asks)
  BY DEF Alike, Flagged
<1> QED
  BY <1>1, <1>2 DEF Alike, Plain, GroupSet

\* Directive d frees what is not its own.
Frees(d) == Pending /\ (\/ d = "root" /\ locations[1].literal
                        \/ d \in Groupers /\ locations[1].group)

\* A directive changes the pending location, or the one it makes from the default.
LEMMA UpdateFacts ==
  ASSUME IInv, NEW d, NEW changed, NEW new, ctx \in {"server", "location"}, Update(changed, new),
         Became(d, locations[1], changed), Became(d, Last(locations), new),
         d \in Groupers => "UPSTREAM_GROUP" \in new.type
  PROVE  /\ locations' \in Seq(Locations) /\ Len(locations') = 2
         /\ Len(locations) = 1 /\ d \in Groupers => "UPSTREAM_GROUP" \in locations'[1].type
         /\ Became(d, locations[1], locations'[1])
         /\ locations'[2] = locations[Len(locations)]
<1>1. locations \in Seq(Locations) /\ Len(locations) \in {1, 2}
  BY DEF IInv, Typed, Pended
<1>2. changed \in Locations /\ new \in Locations
  BY DEF Became
<1>3. CASE Len(locations) = 1
  <2>1. locations' = <<new>> \o locations /\ Last(locations) = locations[1]
    BY <1>3 DEF Update, Pending, Last
  <2>2. /\ <<new>> \o locations \in Seq(Locations) /\ Len(<<new>> \o locations) = Len(locations) + 1
        /\ (<<new>> \o locations)[1] = new
        /\ \A i \in 1..Len(locations) : (<<new>> \o locations)[i + 1] = locations[i]
    BY <1>1, <1>2, ConsFacts
  <2>3. PICK one \in 1..Len(locations) : one = 1 /\ one + 1 = 2
    BY <1>3
  <2>4. locations'[2] = locations[1]
    BY <2>1, <2>2, <2>3
  <2> QED
    BY <1>3, <2>1, <2>2, <2>4
<1>4. CASE Len(locations) = 2
  <2>1. locations' = [locations EXCEPT ![1] = changed]
    BY <1>4 DEF Update, Pending
  <2>2. /\ locations' \in Seq(Locations) /\ Len(locations') = 2
        /\ locations'[1] = changed /\ locations'[2] = locations[2]
    <3>1. locations \in [1..2 -> Locations]
      BY <1>1, <1>4
    <3>2. /\ locations' \in [1..2 -> Locations]
          /\ locations'[1] = changed /\ locations'[2] = locations[2]
      BY <1>2, <2>1, <3>1
    <3>3. PICK n \in Nat : n = 2
      OBVIOUS
    <3>4. locations' \in [1..n -> Locations]
      BY <3>2, <3>3
    <3>5. locations' \in Seq(Locations) /\ Len(locations') = n
      BY <3>4
    <3> QED
      BY <3>2, <3>3, <3>5
  <2> QED
    BY <1>4, <2>2
<1> QED
  BY <1>1, <1>3, <1>4

LEMMA LocationStep ==
  ASSUME IInv, NEW d \in LocationKinds \ {"expires"}, NEW changed, NEW new,
         ctx \in {"server", "location"}, SaidMaking(d), Update(changed, new), Rest,
         Became(d, locations[1], changed), Became(d, Last(locations), new),
         d \in Groupers => "UPSTREAM_GROUP" \in new.type,
         ctx' = IF Frees(d) THEN "undefined" ELSE ctx
  PROVE  IInv'
<1>1. /\ locations' \in Seq(Locations) /\ Len(locations') = 2
      /\ Len(locations) = 1 /\ d \in Groupers => "UPSTREAM_GROUP" \in locations'[1].type
      /\ Became(d, locations[1], locations'[1])
      /\ locations'[2] = locations[Len(locations)]
  BY UpdateFacts
<1>2. /\ defaultServer' = defaultServer /\ vocabulary' = vocabulary /\ ports' = ports
      /\ names' = names /\ indexFiles' = indexFiles /\ logs' = logs
      /\ currentLog' = currentLog /\ certFile' = certFile /\ servers' = servers
      /\ written' = written /\ logFds' = logFds /\ danglingLogs' = danglingLogs
  BY DEF Rest, given, logging, done, opened
<1>3. /\ locations'[1].match = locations[1].match
      /\ locations'[1].literal <=> locations[1].literal /\ d # "root"
      /\ locations'[1].group <=> locations[1].group \/ d \in Groupers
      /\ GroupSet(locations[1]) => GroupSet(locations'[1])
      /\ \A asks : Holds(locations[1], asks) => Holds(locations'[1], asks \cup {d})
      /\ "FASTCGI_PASS" \in locations'[1].type => \/ "FASTCGI_PASS" \in locations[1].type
                                                 \/ d \in {"fastcgi_host", "fastcgi_group"}
      /\ "UPSTREAM_GROUP" \in locations[1].type => "UPSTREAM_GROUP" \in locations'[1].type
  BY <1>1 DEF Became
<1>4. /\ said' \in Blocks
      /\ said'.listens = said.listens /\ said'.names = said.names /\ said'.index = said.index
      /\ said'.logs = said.logs /\ said'.cert = said.cert /\ said'.early = said.early
      /\ said'.wild = said.wild /\ said'.odd = said.odd
  BY DEF SaidMaking
<1>5. /\ said'.first = IF said.first = "none" THEN d ELSE said.first
      /\ said'.asks = said.asks \cup {d}
      /\ said'.groups = IF d \in Groupers THEN said.groups + 1 ELSE said.groups
  BY DEF SaidMaking
<1>6. /\ Len(said'.uris) = Len(said.uris)
      /\ \A i \in 1..Len(said.uris) : /\ said'.uris[i].uri = said.uris[i].uri
                                      /\ i # Len(said.uris) => said'.uris[i].own = said.uris[i].own
      /\ ctx = "server" => said'.uris = said.uris
  BY DEF SaidMaking
<1>7. /\ locations \in Seq(Locations) /\ Len(locations) \in {1, 2}
      /\ said.uris \in Seq(UriItems) /\ Len(said.uris) \in Nat
      /\ ctx = "location" => Len(said.uris) > 0
  <2>1. locations \in Seq(Locations) /\ Len(locations) \in {1, 2} /\ said \in Blocks
    BY DEF IInv, Typed, Pended
  <2>2. said.uris \in Seq(UriItems)
    BY <2>1 DEF Blocks
  <2>3. ctx = "location" => said.uris # <<>>
    BY DEF IInv, Contextual
  <2> QED
    BY <2>1, <2>2, <2>3
<1>8. /\ Len(locations) = 1 => said.first = "none" /\ said.asks = {} /\ said.groups = 0
      /\ Len(locations) = 2 =>
           /\ said.first # "none"
           /\ said.first # "root" => locations[1].literal /\ "root" \notin said.asks
           /\ said.first = "root" => ~locations[1].literal
           /\ said.groups = IF locations[1].group THEN 1 ELSE 0
      /\ ~said.odd /\ said.wild <= 1
      /\ said.wild = 1 => Contains(said.names, DefaultName)
      /\ DefaultName \notin Names /\ Contains(said.names, DefaultName) => said.wild = 1
      /\ Holds(locations[1], said.asks) /\ Flagged(locations[1], said.first, said.asks)
  BY DEF IInv, Pended
<1>9. /\ locations[Len(locations)].literal /\ ~locations[Len(locations)].group
      /\ Plain(locations[Len(locations)])
      /\ Len(locations) = 1 => locations[1].literal /\ ~locations[1].group
      /\ GroupSet(locations[1]) /\ GroupSet(locations[Len(locations)])
  <2>1. /\ locations[Len(locations)].literal /\ ~locations[Len(locations)].group
        /\ Plain(locations[Len(locations)])
    BY DEF IInv, DefaultKept, Last
  <2>2. GroupSet(locations[1]) /\ GroupSet(locations[Len(locations)])
    <3>1. 1 \in 1..Len(locations) /\ Len(locations) \in 1..Len(locations)
      BY <1>7
    <3> QED
      BY <3>1 DEF IInv, DefaultKept
  <2> QED
    BY <2>1, <2>2
<1>10. d # "none" /\ (d = "root" => d \notin Groupers)
  BY DEF LocationKinds, Groupers
<1>11. Typed'
  BY <1>1, <1>2, <1>4 DEF IInv, Typed, Contexts
<1>12. ListsSaid'
  BY <1>2, <1>4 DEF IInv, ListsSaid
<1>13. LogsSaid'
  BY <1>2, <1>4 DEF IInv, LogsSaid
<1>14. FdsFit'
  BY <1>2 DEF IInv, FdsFit
<1>15. Pended'
  <2> SUFFICES ASSUME ctx' # "undefined"
               PROVE  Pended'
    BY DEF Pended
  <2>1. ~Frees(d)
    OBVIOUS
  <2>2. /\ Len(locations) = 2 => (d = "root" => ~locations[1].literal)
        /\ Len(locations) = 2 => (d \in Groupers => ~locations[1].group)
    <3>1. Len(locations) = 2 => Pending
      BY DEF Pending
    <3> QED
      BY ONLY <2>1, <3>1, Zenon DEF Frees
  <2>3. /\ said'.first # "none"
        /\ said'.first # "root" => locations'[1].literal /\ "root" \notin said'.asks
        /\ said'.first = "root" => ~locations'[1].literal
    <3>1. CASE Len(locations) = 1
      BY <1>3, <1>5, <1>8, <1>9, <1>10, <3>1
    <3>2. CASE Len(locations) = 2
      BY <1>3, <1>5, <1>8, <1>10, <2>2, <3>2
    <3> QED
      BY <1>7, <3>1, <3>2
  <2>4. said'.groups = IF locations'[1].group THEN 1 ELSE 0
    <3>1. CASE Len(locations) = 1
      BY <1>3, <1>5, <1>8, <1>9, <3>1
    <3>2. CASE Len(locations) = 2
      BY <1>3, <1>5, <1>8, <2>2, <3>2
    <3> QED
      BY <1>7, <3>1, <3>2
  <2>5. ~said'.odd /\ said'.wild <= 1
    BY <1>4, <1>8
  <2>6. /\ said'.wild = 1 => Contains(said'.names, DefaultName)
        /\ DefaultName \notin Names /\ Contains(said'.names, DefaultName) => said'.wild = 1
    BY <1>4, <1>8
  <2>7. Holds(locations'[1], said'.asks)
    <3>1. PICK a : a = said.asks
      OBVIOUS
    <3>2. Holds(locations'[1], a \cup {d})
      BY <1>3, <1>8, <3>1
    <3> QED
      BY <1>5, <3>1, <3>2
  <2>8. Flagged(locations'[1], said'.first, said'.asks)
    <3>1. /\ "FASTCGI_PASS" \in locations[1].type => said.asks \cap {"fastcgi_host", "fastcgi_group"} # {}
          /\ said.first \in Groupers => "UPSTREAM_GROUP" \in locations[1].type
          /\ said.first \in said.asks \/ (said.first = "none" /\ said.asks = {})
      BY <1>8 DEF Flagged
    <3>2. "FASTCGI_PASS" \in locations'[1].type => said'.asks \cap {"fastcgi_host", "fastcgi_group"} # {}
      BY <1>3, <1>5, <3>1
    <3>3. said'.first \in said'.asks
      BY <1>5, <3>1
    <3>4. said'.first \in Groupers => "UPSTREAM_GROUP" \in locations'[1].type
      <4>1. CASE Len(locations) = 1
        BY <1>1, <1>5, <1>8, <4>1
      <4>2. CASE Len(locations) = 2
        BY <1>3, <1>5, <1>8, <3>1, <4>2
      <4> QED
        BY <1>7, <4>1, <4>2
    <3> QED
      BY <3>2, <3>3, <3>4 DEF Flagged
  <2> QED
    BY <1>1, <2>3, <2>4, <2>5, <2>6, <2>7, <2>8 DEF Pended
<1>16. DefaultKept'
  <2>1. Last(locations') = locations[Len(locations)]
    BY <1>1 DEF Last
  <2>2. \A i \in 1..2 : GroupSet(locations'[i])
    <3>1. \A i \in 1..2 : i = 1 \/ i = 2
      OBVIOUS
    <3> QED
      BY <1>1, <1>3, <1>9, <3>1
  <2>3. Len(locations') >= 1
    BY <1>1
  <2> QED
    BY <1>1, <1>9, <2>1, <2>2, <2>3 DEF DefaultKept
<1>17. Contextual'
  BY <1>6, <1>7 DEF Contextual
<1>18. MatchesSaid'
  <2>1. ASSUME ctx' # "undefined", OwnUpTo(written, Len(written)),
               \A i \in 1..Closed' : said'.uris[i].own
        PROVE  /\ locations'[2].match = DefaultUri
               /\ locations'[1].match = IF Closed' = 0 THEN DefaultUri ELSE said'.uris[Closed'].uri
    <3>1. ctx' = ctx
      BY <2>1
    <3>2. Closed' = Closed
      BY <1>6, <3>1 DEF Closed
    <3>3. /\ Closed \in Nat /\ Closed <= Len(said.uris)
          /\ ctx = "location" => Closed < Len(said.uris)
      BY <1>7 DEF Closed
    <3>4. \A i \in 1..Closed : i \in 1..Len(said.uris) /\ said.uris[i].own
      <4>1. CASE ctx = "server"
        BY <1>6, <1>7, <2>1, <3>2, <3>3, <4>1
      <4>2. CASE ctx = "location"
        <5>1. \A i \in 1..Closed : i \in 1..Len(said.uris) /\ i # Len(said.uris)
          BY <1>7, <3>3, <4>2
        <5> QED
          BY <1>6, <2>1, <3>2, <5>1
      <4> QED
        BY <4>1, <4>2
    <3>5. /\ locations[Len(locations)].match = DefaultUri
          /\ locations[1].match = IF Closed = 0 THEN DefaultUri ELSE said.uris[Closed].uri
      BY <2>1, <3>4 DEF IInv, MatchesSaid
    <3>6. Closed # 0 => said'.uris[Closed].uri = said.uris[Closed].uri
      <4>1. Closed # 0 => Closed \in 1..Len(said.uris)
        BY <1>7, <3>3
      <4> QED
        BY <1>6, <4>1
    <3> QED
      BY <1>1, <1>3, <3>2, <3>5, <3>6
  <2> QED
    BY <1>1, <1>2, <2>1 DEF MatchesSaid
<1>19. PortsFit'
  BY <1>2, <1>4 DEF IInv, PortsFit
<1>20. ServersFit'
  BY <1>2 DEF IInv, ServersFit, ServerFits
<1>21. FatalKnown'
  <2>1. ASSUME ctx' = "undefined"
        PROVE  Fatal(said')
    <3>1. Frees(d)
      BY <2>1
    <3>2. Len(locations) = 2
      <4>1. Pending
        BY <3>1 DEF Frees
      <4>2. ~(1 > 1)
        OBVIOUS
      <4>3. Len(locations) # 1
        BY <4>1, <4>2 DEF Pending
      <4> QED
        BY <1>7, <4>3
    <3>3. CASE d = "root" /\ locations[1].literal
      <4>1. said'.first # "root" /\ "root" \in said'.asks
        BY <1>5, <1>8, <3>2, <3>3
      <4> QED
        BY <4>1 DEF Fatal
    <3>4. CASE d \in Groupers /\ locations[1].group
      <4>1. said'.groups > 1
        BY <1>5, <1>8, <3>2, <3>4
      <4> QED
        BY <4>1 DEF Fatal
    <3> QED
      BY <3>1, <3>3, <3>4 DEF Frees
  <2> QED
    BY <1>2, <2>1 DEF IInv, FatalKnown
<1>22. Checked'
  BY DEF Checked, Accepted
<1> QED
  BY <1>11, <1>12, <1>13, <1>14, <1>15, <1>16, <1>17, <1>18, <1>19, <1>20, <1>21, <1>22 DEF IInv

LEMMA LocationsFound ==
  ASSUME IInv
  PROVE  locations[1] \in Locations /\ Last(locations) \in Locations /\ Head(locations) = locations[1]
<1>1. locations \in Seq(Locations) /\ Len(locations) >= 1
  BY DEF IInv, Typed, DefaultKept
<1> QED
  BY <1>1 DEF Last

LEMMA RootKeeps ==
  ASSUME IInv, Root
  PROVE  IInv'
<1>1. /\ ctx \in {"server", "location"} /\ Rest
      /\ InLocation("root") \/ (ctx = "server" /\ said' = Making("root"))
      /\ Update(SetRoot(Head(locations)), SetRoot(Fresh))
      /\ ctx' = IF Pending /\ locations[1].literal THEN "undefined" ELSE ctx
  BY DEF Root, InLocation
<1>2. PICK d \in LocationKinds \ {"expires"} : d = "root" /\ d \notin Groupers
  BY DEF LocationKinds, Groupers
<1>3. SaidMaking(d)
  BY <1>1, <1>2, MakingFacts
<1>4. ASSUME NEW loc \in Locations
      PROVE  Became(d, loc, SetRoot(loc))
  BY <1>2 DEF Became, SetRoot, Locations, Flags, GroupSet, Holds
<1>5. locations[1] \in Locations /\ Last(locations) \in Locations /\ Head(locations) = locations[1]
  BY LocationsFound
<1>6. /\ Became(d, locations[1], SetRoot(Head(locations)))
      /\ Became(d, Last(locations), SetRoot(Fresh))
  BY <1>4, <1>5 DEF Fresh
<1>7. ctx' = IF Frees(d) THEN "undefined" ELSE ctx
  BY <1>1, <1>2 DEF Frees
<1> QED
  BY <1>1, <1>2, <1>3, <1>6, <1>7, LocationStep

\* The directives of a location block that name a host or a target.
LEMMA PassToHostKeeps ==
  ASSUME IInv, NEW d \in {"proxy_host", "fastcgi_host"}, NEW flag \in {"PROXY_PASS", "FASTCGI_PASS"},
         flag = "FASTCGI_PASS" => d = "fastcgi_host", PassToHost(d, flag)
  PROVE  IInv'
<1> DEFINE changed == [Head(locations) EXCEPT !.type = @ \cup {flag}, !.passTo = TRUE]
           new == [Fresh EXCEPT !.type = @ \cup {"PROXY_PASS"}, !.passTo = TRUE]
<1>1. ctx = "location" /\ Rest /\ InLocation(d) /\ Update(changed, new) /\ ctx' = ctx
  BY DEF PassToHost, InLocation
<1>0. d \in LocationKinds \ {"expires"} /\ d # "root" /\ d \notin Groupers
  BY DEF LocationKinds, Groupers
<1>2. SaidMaking(d)
  BY <1>0, <1>1, MakingFacts
<1>3. ASSUME NEW loc \in Locations, NEW f \in {"PROXY_PASS", "FASTCGI_PASS"},
             f = "FASTCGI_PASS" => d = "fastcgi_host"
      PROVE  Became(d, loc, [loc EXCEPT !.type = @ \cup {f}, !.passTo = TRUE])
  BY <1>0, <1>3 DEF Became, Locations, Flags, GroupSet, Holds
<1>4. locations[1] \in Locations /\ Last(locations) \in Locations /\ Head(locations) = locations[1]
  BY LocationsFound
<1>5. Became(d, locations[1], changed) /\ Became(d, Last(locations), new)
  BY <1>3, <1>4 DEF Fresh
<1>6. ctx' = IF Frees(d) THEN "undefined" ELSE ctx
  BY <1>0, <1>1 DEF Frees
<1> HIDE DEF changed, new
<1> QED
  BY <1>0, <1>1, <1>2, <1>5, <1>6, LocationStep

LEMMA PassToGroupKeeps ==
  ASSUME IInv, NEW d \in Groupers, NEW flag \in {"PROXY_PASS", "FASTCGI_PASS"},
         flag = "FASTCGI_PASS" => d = "fastcgi_group", PassToGroup(d, flag)
  PROVE  IInv'
<1> DEFINE changed == [Head(locations) EXCEPT !.type = @ \cup {flag}, !.group = TRUE]
           new == [Fresh EXCEPT !.type = @ \cup {"UPSTREAM_GROUP"}, !.group = TRUE]
<1>1. /\ ctx = "location" /\ Rest /\ InLocation(d) /\ Update(changed, new)
      /\ ctx' = IF Pending /\ locations[1].group THEN "undefined" ELSE ctx
  BY DEF PassToGroup, InLocation
<1>2. d \in LocationKinds \ {"expires"} /\ d # "root"
  BY DEF LocationKinds, Groupers
<1>3. SaidMaking(d)
  BY <1>1, <1>2, MakingFacts
<1>4. ASSUME NEW loc \in Locations, NEW f \in {"PROXY_PASS", "FASTCGI_PASS", "UPSTREAM_GROUP"},
             f = "FASTCGI_PASS" => d = "fastcgi_group"
      PROVE  Became(d, loc, [loc EXCEPT !.type = @ \cup {f}, !.group = TRUE])
  BY <1>2, <1>4 DEF Became, Locations, Flags, GroupSet, Holds, Groupers
<1>5. locations[1] \in Locations /\ Last(locations) \in Locations /\ Head(locations) = locations[1]
  BY LocationsFound
<1>6. Became(d, locations[1], changed) /\ Became(d, Last(locations), new)
  BY <1>4, <1>5 DEF Fresh
<1>7. ctx' = IF Frees(d) THEN "undefined" ELSE ctx
  BY <1>1, <1>2 DEF Frees
<1>8. "UPSTREAM_GROUP" \in new.type
  BY <1>5 DEF Fresh, Locations
<1> HIDE DEF changed, new
<1> QED
  BY <1>1, <1>2, <1>3, <1>6, <1>7, <1>8, LocationStep

LEMMA TryFilesKeeps ==
  ASSUME IInv, TryFiles
  PROVE  IInv'
<1>1. PICK d \in LocationKinds \ {"expires"} : d = "try_files" /\ d \notin Groupers /\ d # "root"
  BY DEF LocationKinds, Groupers
<1>2. /\ ctx = "location" /\ Rest /\ InLocation(d)
      /\ Update(SetTryFiles(Head(locations)), SetTryFiles(Fresh)) /\ ctx' = ctx
  BY <1>1 DEF TryFiles, InLocation
<1>3. SaidMaking(d)
  BY <1>2, MakingFacts
<1>4. ASSUME NEW loc \in Locations
      PROVE  Became(d, loc, SetTryFiles(loc))
  BY <1>1 DEF Became, SetTryFiles, Locations, Flags, GroupSet, Holds
<1>5. locations[1] \in Locations /\ Last(locations) \in Locations /\ Head(locations) = locations[1]
  BY LocationsFound
<1>6. /\ Became(d, locations[1], SetTryFiles(Head(locations)))
      /\ Became(d, Last(locations), SetTryFiles(Fresh))
  BY <1>4, <1>5 DEF Fresh
<1>7. ctx' = IF Frees(d) THEN "undefined" ELSE ctx
  BY <1>1, <1>2 DEF Frees
<1> QED
  BY <1>1, <1>2, <1>3, <1>6, <1>7, LocationStep

LEMMA PassesKeep ==
  ASSUME IInv, ProxyPass \/ FastcgiPass
  PROVE  IInv'
<1>1. CASE PassToHost("proxy_host", "PROXY_PASS")
  BY <1>1, PassToHostKeeps
<1>2. CASE PassToHost("fastcgi_host", "FASTCGI_PASS")
  BY <1>2, PassToHostKeeps
<1>3. CASE PassToGroup("proxy_group", "PROXY_PASS")
  BY <1>3, PassToGroupKeeps DEF Groupers
<1>4. CASE PassToGroup("fastcgi_group", "FASTCGI_PASS")
  BY <1>4, PassToGroupKeeps DEF Groupers
<1> QED
  BY <1>1, <1>2, <1>3, <1>4 DEF ProxyPass, FastcgiPass

LEMMA OpenLocationKeeps ==
  ASSUME IInv, NEW uri \in Uris, OpenLocation(uri)
  PROVE  IInv'
<1>0. /\ said \in Blocks /\ said.uris \in Seq(UriItems) /\ Len(said.uris) \in Nat
  <2>1. said \in Blocks
    BY DEF IInv, Typed
  <2>2. said.uris \in Seq(UriItems)
    BY <2>1 DEF Blocks
  <2> QED
    BY <2>1, <2>2
<1>1. /\ ctx = "server"
      /\ ctx' = "location"
  BY DEF OpenLocation, given, lists, logging, done, opened, vars
<1>2. /\ defaultServer' = defaultServer /\ vocabulary' = vocabulary /\ ports' = ports
      /\ names' = names /\ indexFiles' = indexFiles /\ locations' = locations /\ logs' = logs
      /\ currentLog' = currentLog /\ certFile' = certFile /\ servers' = servers
      /\ written' = written /\ logFds' = logFds /\ danglingLogs' = danglingLogs
  BY DEF OpenLocation, given, lists, logging, done, opened, vars
<1>3. /\ said' \in Blocks /\ said'.listens = said.listens /\ said'.names = said.names
      /\ said'.index = said.index
      /\ said'.uris = Append(said.uris, [uri |-> uri, count |-> 0, own |-> FALSE])
      /\ said'.first = said.first /\ said'.asks = said.asks /\ said'.groups = said.groups
      /\ said'.logs = said.logs /\ said'.cert = said.cert /\ said'.early = said.early
      /\ said'.wild = said.wild /\ said'.odd = said.odd
  <2> DEFINE item == [uri |-> uri, count |-> 0, own |-> FALSE]
  <2>1. item \in UriItems
    BY DEF UriItems
  <2>2. said' = [said EXCEPT !.uris = Append(said.uris, item)]
    BY DEF OpenLocation
  <2> HIDE DEF item
  <2>3. Append(said.uris, item) \in Seq(UriItems)
    BY <1>0, <2>1
  <2>4. /\ said' \in Blocks /\ said'.uris = Append(said.uris, item)
    BY <1>0, <2>2, <2>3 DEF Blocks
  <2> QED
    BY <1>0, <2>2, <2>4 DEF Blocks, item
<1>4. /\ Len(said'.uris) = Len(said.uris) + 1 /\ ~said'.uris[Len(said.uris) + 1].own
      /\ \A i \in 1..Len(said.uris) : said'.uris[i] = said.uris[i]
  <2> DEFINE item == [uri |-> uri, count |-> 0, own |-> FALSE]
  <2>1. item \in UriItems /\ ~item.own
    BY DEF UriItems
  <2> HIDE DEF item
  <2>2. said'.uris = Append(said.uris, item)
    BY <1>3 DEF item
  <2> QED
    BY <1>0, <2>1, <2>2
<1>5. /\ Closed = Len(said.uris) /\ Closed' = Len(said.uris) /\ Closed \in Nat
      /\ \A i \in 1..(Len(said.uris) + 1) : i \in 1..Len(said.uris) \/ i = Len(said.uris) + 1
  BY <1>0, <1>1, <1>4 DEF Closed
<1>11. Typed'
  BY <1>1, <1>2, <1>3 DEF IInv, Typed, Contexts
<1>12. ListsSaid'
  BY <1>1, <1>2, <1>3, <1>4, <1>5 DEF IInv, ListsSaid
<1>13. LogsSaid'
  BY <1>1, <1>2, <1>3, <1>4, <1>5 DEF IInv, LogsSaid
<1>14. FdsFit'
  BY <1>1, <1>2, <1>3, <1>4, <1>5 DEF IInv, FdsFit
<1>15. Pended'
  BY <1>1, <1>2, <1>3, <1>4, <1>5 DEF IInv, Pended
<1>16. DefaultKept'
  BY <1>1, <1>2, <1>3, <1>4, <1>5 DEF IInv, DefaultKept
<1>17. Contextual'
  <2>1. said'.uris # <<>>
    BY <1>0, <1>4
  <2> QED
    BY <1>1, <1>2, <2>1 DEF Contextual
<1>18. MatchesSaid'
  <2>1. \A i \in 1..Len(said'.uris) : said'.uris[i].own => Len(locations) = 2
    <3>1. \A i \in 1..Len(said.uris) : said.uris[i].own => Len(locations) = 2
      BY <1>1 DEF IInv, MatchesSaid
    <3> QED
      BY <1>4, <1>5, <3>1
  <2>2. ASSUME OwnUpTo(written, Len(written)), \A i \in 1..Closed' : said'.uris[i].own
        PROVE  /\ locations[Len(locations)].match = DefaultUri
               /\ locations[1].match = IF Closed' = 0 THEN DefaultUri ELSE said'.uris[Closed'].uri
    <3>1. \A i \in 1..Closed : said.uris[i].own
      BY <1>4, <1>5, <2>2
    <3>2. /\ locations[Len(locations)].match = DefaultUri
          /\ locations[1].match = IF Closed = 0 THEN DefaultUri ELSE said.uris[Closed].uri
      BY <1>1, <2>2, <3>1 DEF IInv, MatchesSaid
    <3>3. Closed # 0 => said'.uris[Closed] = said.uris[Closed]
      BY <1>0, <1>4, <1>5
    <3> QED
      BY <1>5, <3>2, <3>3
  <2> QED
    BY <1>1, <1>2, <2>1, <2>2 DEF MatchesSaid
<1>19. PortsFit'
  BY <1>1, <1>2, <1>3, <1>4, <1>5 DEF IInv, PortsFit
<1>20. ServersFit'
  BY <1>1, <1>2, <1>3, <1>4, <1>5 DEF IInv, ServersFit, ServerFits
<1>21. FatalKnown'
  BY <1>1, <1>2, <1>3, <1>4, <1>5 DEF IInv, FatalKnown, Fatal
<1>22. Checked'
  BY <1>1, <1>2, <1>3, <1>4, <1>5 DEF IInv, Checked, Accepted
<1> QED
  BY <1>11, <1>12, <1>13, <1>14, <1>15, <1>16, <1>17, <1>18, <1>19, <1>20, <1>21, <1>22 DEF IInv

LEMMA CloseLocationKeeps ==
  ASSUME IInv, CloseLocation
  PROVE  IInv'
<1>0. /\ said \in Blocks /\ said.uris \in Seq(UriItems) /\ Len(said.uris) \in Nat
  <2>1. said \in Blocks
    BY DEF IInv, Typed
  <2>2. said.uris \in Seq(UriItems)
    BY <2>1 DEF Blocks
  <2> QED
    BY <2>1, <2>2
<1>3. locations \in Seq(Locations) /\ Len(locations) \in {1, 2} /\ said.uris # <<>>
  BY DEF IInv, Typed, Contextual, Pended, CloseLocation
<1>4. /\ Last(said.uris) = said.uris[Len(said.uris)] /\ Last(said.uris).uri \in Uris
      /\ Len(said.uris) > 0
  <2>1. Len(said.uris) > 0 /\ said.uris[Len(said.uris)] \in UriItems
    BY <1>0, <1>3
  <2> QED
    BY <2>1 DEF Last, UriItems
<1>5. locations[1] \in Locations /\ 1 \in 1..Len(locations)
  BY <1>3
<1>1. /\ ctx = "location"
      /\ ctx' = "server"
      /\ locations' = [locations EXCEPT ![1].match = Last(said.uris).uri]
  BY DEF CloseLocation, given, lists, logging, done, opened, vars
<1>2. /\ defaultServer' = defaultServer /\ vocabulary' = vocabulary /\ ports' = ports
      /\ names' = names /\ indexFiles' = indexFiles /\ logs' = logs /\ currentLog' = currentLog
      /\ certFile' = certFile /\ said' = said /\ servers' = servers /\ written' = written
      /\ logFds' = logFds /\ danglingLogs' = danglingLogs
  BY DEF CloseLocation, given, lists, logging, done, opened, vars
<1>6. /\ locations' \in Seq(Locations) /\ Len(locations') = Len(locations)
      /\ locations'[1].match = Last(said.uris).uri
      /\ Alike(locations[1], locations'[1])
      /\ \A i \in 1..Len(locations) : i # 1 => locations'[i] = locations[i]
  <2> DEFINE loc == [locations[1] EXCEPT !.match = Last(said.uris).uri]
  <2>1. loc \in Locations /\ loc.match = Last(said.uris).uri /\ Alike(locations[1], loc)
    BY <1>4, <1>5 DEF Locations, Alike
  <2>2. locations' = [locations EXCEPT ![1] = loc]
    BY <1>1
  <2> HIDE DEF loc
  <2>3. /\ locations' \in Seq(Locations) /\ Len(locations') = Len(locations) /\ locations'[1] = loc
        /\ \A i \in 1..Len(locations) : i # 1 => locations'[i] = locations[i]
    BY <1>3, <1>5, <2>1, <2>2
  <2> QED
    BY <2>1, <2>3
<1>7. /\ Len(locations) \in 1..Len(locations)
      /\ \A i \in 1..Len(locations) : Alike(locations[i], locations'[i])
  BY <1>3, <1>6 DEF Alike
<1>11. Typed'
  BY <1>1, <1>2, <1>6 DEF IInv, Typed, Contexts
<1>12. ListsSaid'
  BY <1>1, <1>2, <1>6, <1>7 DEF IInv, ListsSaid
<1>13. LogsSaid'
  BY <1>1, <1>2, <1>6, <1>7 DEF IInv, LogsSaid
<1>14. FdsFit'
  BY <1>1, <1>2, <1>6, <1>7 DEF IInv, FdsFit
<1>15. Pended'
  <2> SUFFICES ASSUME ctx' # "undefined"
               PROVE  Pended'
    BY DEF Pended
  <2>1. Pended /\ Alike(locations[1], locations'[1])
    BY <1>5, <1>7 DEF IInv
  <2>2. PICK a, f : a = said.asks /\ f = said.first
    OBVIOUS
  <2>3. Holds(locations'[1], a) /\ Flagged(locations'[1], f, a)
    BY <1>1, <2>1, <2>2, AlikeFacts DEF Pended
  <2>4. locations'[1].literal = locations[1].literal /\ locations'[1].group = locations[1].group
    BY <2>1 DEF Alike
  <2> QED
    BY <1>1, <1>2, <1>6, <2>1, <2>2, <2>3, <2>4 DEF Pended
<1>16. DefaultKept'
  <2>1. /\ Last(locations).literal /\ ~Last(locations).group /\ Plain(Last(locations))
        /\ \A i \in 1..Len(locations) : GroupSet(locations[i])
    BY <1>1 DEF IInv, DefaultKept
  <2>2. Last(locations') = locations'[Len(locations)] /\ Last(locations) = locations[Len(locations)]
    BY <1>6 DEF Last
  <2>3. Last(locations').literal /\ ~Last(locations').group
    BY <1>7, <2>1, <2>2 DEF Alike
  <2>4. \A i \in 1..Len(locations) : GroupSet(locations'[i])
    BY <1>7, <2>1, AlikeFacts
  <2>5. Plain(Last(locations'))
    BY <1>7, <2>1, <2>2, AlikeFacts
  <2>6. Len(locations) >= 1
    BY DEF IInv, DefaultKept
  <2> QED
    BY <1>6, <2>3, <2>4, <2>5, <2>6 DEF DefaultKept
<1>17. Contextual'
  BY <1>1, <1>2, <1>6, <1>7 DEF IInv, Contextual
<1>18. MatchesSaid'
  <2>1. \A i \in 1..Len(said.uris) : said.uris[i].own => Len(locations) = 2
    BY <1>1 DEF IInv, MatchesSaid
  <2>2. Closed = Len(said.uris) - 1 /\ Closed' = Len(said.uris)
    BY <1>1, <1>2 DEF Closed
  <2>3. ASSUME OwnUpTo(written, Len(written)), \A i \in 1..Len(said.uris) : said.uris[i].own
        PROVE  /\ locations'[Len(locations)].match = DefaultUri
               /\ locations'[1].match = said.uris[Len(said.uris)].uri
    <3>1. Len(locations) = 2
      BY <1>0, <1>4, <2>1, <2>3
    <3>2. \A i \in 1..Closed : said.uris[i].own
      BY <1>0, <2>2, <2>3
    <3>3. locations[Len(locations)].match = DefaultUri
      BY <1>1, <2>3, <3>2 DEF IInv, MatchesSaid
    <3>4. locations'[2] = locations[2]
      BY <1>6, <3>1
    <3> QED
      BY <1>4, <1>6, <3>1, <3>3, <3>4
  <2>4. Len(said.uris) # 0
    BY <1>0, <1>4
  <2> QED
    BY <1>1, <1>2, <1>6, <2>1, <2>2, <2>3, <2>4 DEF MatchesSaid
<1>19. PortsFit'
  BY <1>1, <1>2, <1>6, <1>7 DEF IInv, PortsFit
<1>20. ServersFit'
  BY <1>1, <1>2, <1>6, <1>7 DEF IInv, ServersFit, ServerFits
<1>21. FatalKnown'
  BY <1>1, <1>2, <1>6, <1>7 DEF IInv, FatalKnown, Fatal
<1>22. Checked'
  BY <1>1, <1>2, <1>6, <1>7 DEF IInv, Checked, Accepted
<1> QED
  BY <1>11, <1>12, <1>13, <1>14, <1>15, <1>16, <1>17, <1>18, <1>19, <1>20, <1>21, <1>22 DEF IInv

\* A directive of a location block that makes no location of its own.
LEMMA NotOwnKeeps ==
  ASSUME IInv, NEW d, NEW off \in BOOLEAN, NotOwn(d, off),
         locations' \in Seq(Locations), Len(locations') = Len(locations),
         \A i \in 1..Len(locations) : /\ Alike(locations[i], locations'[i])
                                      /\ locations'[i].match = locations[i].match
  PROVE  IInv'
<1>0. /\ said \in Blocks /\ said.uris \in Seq(UriItems) /\ Len(said.uris) \in Nat
  <2>1. said \in Blocks
    BY DEF IInv, Typed
  <2>2. said.uris \in Seq(UriItems)
    BY <2>1 DEF Blocks
  <2> QED
    BY <2>1, <2>2
<1>4. PICK n \in 1..Len(said.uris) : n = Len(said.uris)
  <2>1. said.uris # <<>>
    BY DEF IInv, Contextual, NotOwn
  <2> QED
    BY <1>0, <2>1
<1> DEFINE b == [said EXCEPT !.uris[n].count = @ + 1]
<1>5. /\ b \in Blocks /\ SameBut(said, b) /\ Len(b.uris) = Len(said.uris)
      /\ \A i \in 1..Len(said.uris) : /\ b.uris[i].uri = said.uris[i].uri
                                      /\ b.uris[i].own = said.uris[i].own
  BY <1>0, UriCounted
<1>6. said' = [b EXCEPT !.odd = said.odd \/ off]
  <2>1. said' = [said EXCEPT !.uris[n].count = @ + 1, !.odd = @ \/ off]
    BY <1>4 DEF NotOwn
  <2> QED
    BY <1>0, <2>1 DEF Blocks
<1> HIDE DEF b
<1>1. /\ ctx = "location"
      /\ ctx' = (IF off THEN "undefined" ELSE ctx)
  BY DEF NotOwn, given, lists, logging, done, opened, vars, Rest
<1>2. /\ defaultServer' = defaultServer /\ vocabulary' = vocabulary /\ ports' = ports
      /\ names' = names /\ indexFiles' = indexFiles /\ logs' = logs
      /\ currentLog' = currentLog /\ certFile' = certFile /\ servers' = servers
      /\ written' = written /\ logFds' = logFds /\ danglingLogs' = danglingLogs
  BY DEF NotOwn, given, lists, logging, done, opened, vars, Rest
<1>3. /\ said' \in Blocks /\ said'.listens = said.listens /\ said'.names = said.names
      /\ said'.index = said.index /\ said'.first = said.first /\ said'.asks = said.asks
      /\ said'.groups = said.groups /\ said'.logs = said.logs /\ said'.cert = said.cert
      /\ said'.early = said.early /\ said'.wild = said.wild /\ said'.odd = (said.odd \/ off)
  <2>1. (said.odd \/ off) \in BOOLEAN
    BY Zenon
  <2> QED
    BY <1>5, <1>6, <2>1 DEF Blocks, SameBut
<1>9. /\ Len(said'.uris) = Len(said.uris)
      /\ \A i \in 1..Len(said.uris) : /\ said'.uris[i].uri = said.uris[i].uri
                                      /\ said'.uris[i].own = said.uris[i].own
  <2>1. said'.uris = b.uris
    BY <1>5, <1>6 DEF Blocks
  <2> QED
    BY <1>5, <2>1
<1>10. Len(locations') = Len(locations) /\ locations \in Seq(Locations) /\ Len(locations) >= 1
  BY DEF IInv, Typed, DefaultKept
<1>7. /\ Len(locations) \in 1..Len(locations) /\ 1 \in 1..Len(locations)
      /\ \A i \in 1..Len(locations) : Alike(locations[i], locations'[i])
      /\ locations'[1].match = locations[1].match
      /\ locations'[Len(locations)].match = locations[Len(locations)].match
  BY <1>10
<1>11. Typed'
  BY <1>1, <1>2, <1>3 DEF IInv, Typed, Contexts
<1>12. ListsSaid'
  BY <1>1, <1>2, <1>3, <1>9 DEF IInv, ListsSaid
<1>13. LogsSaid'
  BY <1>1, <1>2, <1>3, <1>9 DEF IInv, LogsSaid
<1>14. FdsFit'
  BY <1>1, <1>2, <1>3, <1>9 DEF IInv, FdsFit
<1>15. Pended'
  <2> SUFFICES ASSUME ctx' # "undefined"
               PROVE  Pended'
    BY DEF Pended
  <2>1. Pended /\ Alike(locations[1], locations'[1])
    BY <1>7 DEF IInv
  <2>2. PICK a, f : a = said.asks /\ f = said.first
    OBVIOUS
  <2>3. Holds(locations'[1], a) /\ Flagged(locations'[1], f, a)
    BY <1>1, <2>1, <2>2, AlikeFacts DEF Pended
  <2>4. locations'[1].literal = locations[1].literal /\ locations'[1].group = locations[1].group
    BY <2>1 DEF Alike
  <2> QED
    BY <1>1, <1>2, <1>3, <1>10, <2>1, <2>2, <2>3, <2>4 DEF Pended
<1>16. DefaultKept'
  <2>1. /\ Last(locations).literal /\ ~Last(locations).group /\ Plain(Last(locations))
        /\ \A i \in 1..Len(locations) : GroupSet(locations[i])
    BY <1>1 DEF IInv, DefaultKept
  <2>2. Last(locations') = locations'[Len(locations)] /\ Last(locations) = locations[Len(locations)]
    BY <1>10 DEF Last
  <2>3. Last(locations').literal /\ ~Last(locations').group
    BY <1>7, <2>1, <2>2 DEF Alike
  <2>4. \A i \in 1..Len(locations) : GroupSet(locations'[i])
    BY <1>7, <2>1, AlikeFacts
  <2>5. Plain(Last(locations'))
    BY <1>7, <2>1, <2>2, AlikeFacts
  <2>6. Len(locations) >= 1
    BY DEF IInv, DefaultKept
  <2> QED
    BY <1>10, <2>3, <2>4, <2>5, <2>6 DEF DefaultKept
<1>17. Contextual'
  <2>1. said'.uris # <<>>
    BY <1>0, <1>4, <1>9
  <2> QED
    BY <1>1, <2>1 DEF Contextual
<1>18. MatchesSaid'
  <2>1. ctx' # "undefined" => Closed' = Closed
    BY <1>1, <1>9 DEF Closed
  <2>2. Closed \in Nat /\ \A i \in 1..Closed : i \in 1..Len(said.uris)
    BY <1>0, <1>1, <1>4 DEF Closed
  <2>3. Closed # 0 => Closed \in 1..Len(said.uris)
    BY <2>2
  <2>4. \A i \in 1..Len(said.uris) : said.uris[i].own => Len(locations) = 2
    BY <1>1 DEF IInv, MatchesSaid
  <2>5. \A i \in 1..Len(said'.uris) : said'.uris[i].own => Len(locations) = 2
    BY <1>9, <2>4
  <2>6. ASSUME ctx' # "undefined", OwnUpTo(written, Len(written)),
               \A i \in 1..Closed' : said'.uris[i].own
        PROVE  /\ locations[Len(locations)].match = DefaultUri
               /\ locations[1].match = IF Closed' = 0 THEN DefaultUri ELSE said'.uris[Closed'].uri
    <3>1. \A i \in 1..Closed : said.uris[i].own
      BY <1>9, <2>1, <2>2, <2>6
    <3>2. /\ locations[Len(locations)].match = DefaultUri
          /\ locations[1].match = IF Closed = 0 THEN DefaultUri ELSE said.uris[Closed].uri
      BY <1>1, <2>6, <3>1 DEF IInv, MatchesSaid
    <3> QED
      BY <1>9, <2>1, <2>3, <2>6, <3>2
  <2> QED
    BY <1>1, <1>2, <1>7, <1>10, <2>5, <2>6 DEF MatchesSaid
<1>19. PortsFit'
  BY <1>1, <1>2, <1>3, <1>9 DEF IInv, PortsFit
<1>20. ServersFit'
  BY <1>1, <1>2, <1>3, <1>9 DEF IInv, ServersFit, ServerFits
<1>21. FatalKnown'
  BY <1>1, <1>2, <1>3, <1>9 DEF IInv, FatalKnown, Fatal
<1>22. Checked'
  BY <1>1, <1>2, <1>3, <1>9 DEF IInv, Checked, Accepted
<1> QED
  BY <1>11, <1>12, <1>13, <1>14, <1>15, <1>16, <1>17, <1>18, <1>19, <1>20, <1>21, <1>22 DEF IInv

-----------------------------------------------------------------------------
(* The ends of the blocks *)

LEMMA ExpiresKeeps ==
  ASSUME IInv, NEW off \in BOOLEAN, Expires(off)
  PROVE  IInv'
<1>1. NotOwn("expires", off) /\ locations' = [locations EXCEPT ![1].expires = ~off]
  BY DEF Expires
<1>2. locations \in Seq(Locations) /\ Len(locations) >= 1
  BY DEF IInv, Typed, DefaultKept
<1>3. locations[1] \in Locations /\ 1 \in 1..Len(locations)
  BY <1>2
<1> DEFINE loc == [locations[1] EXCEPT !.expires = ~off]
<1>4. (~off) \in BOOLEAN
  OBVIOUS
<1>5. loc \in Locations /\ loc.match = locations[1].match /\ Alike(locations[1], loc)
  BY <1>3, <1>4 DEF Locations, Alike
<1>6. locations' = [locations EXCEPT ![1] = loc]
  BY <1>1
<1> HIDE DEF loc
<1>7. /\ locations' \in Seq(Locations) /\ Len(locations') = Len(locations) /\ locations'[1] = loc
      /\ \A i \in 1..Len(locations) : i # 1 => locations'[i] = locations[i]
  BY <1>2, <1>3, <1>5, <1>6
<1>8. \A i \in 1..Len(locations) : /\ Alike(locations[i], locations'[i])
                                   /\ locations'[i].match = locations[i].match
  BY <1>5, <1>7 DEF Alike
<1> QED
  BY <1>1, <1>7, <1>8, NotOwnKeeps

LEMMA LocationParamKeeps ==
  ASSUME IInv, NEW zero \in BOOLEAN, LocationParam(zero)
  PROVE  IInv'
<1>1. NotOwn("fastcgi_param", zero) /\ locations' = locations
  BY DEF LocationParam
<1>2. locations' \in Seq(Locations) /\ Len(locations') = Len(locations)
  BY <1>1 DEF IInv, Typed
<1>3. \A i \in 1..Len(locations) : /\ Alike(locations[i], locations'[i])
                                   /\ locations'[i].match = locations[i].match
  BY <1>1 DEF Alike
<1> QED
  BY <1>1, <1>2, <1>3, NotOwnKeeps

\* Only the default is left.
LEMMA MirrorsReset ==
  ASSUME NEW S, NEW list \in Seq(S), NEW T, NEW seq \in Seq(T), NEW default,
         Mirrors(list, default, seq)
  PROVE  <<Last(list)>> \in Seq(S) /\ Mirrors(<<Last(list)>>, default, <<>>) /\ Len(list) >= 1
<1>1. Len(seq) \in Nat /\ Len(list) = Len(seq) + 1 /\ list[Len(list)] = default
  BY DEF Mirrors
<1>2. Len(list) >= 1 /\ Last(list) = default /\ default \in S
  BY <1>1 DEF Last
<1>3. <<default>> \in Seq(S) /\ Len(<<default>>) = 1 /\ <<default>>[1] = default
  BY <1>2
<1>4. Len(<<>>) = 0 /\ 1..0 = {} /\ 0 + 1 = 1
  OBVIOUS
<1>5. Mirrors(<<default>>, default, <<>>)
  BY <1>3, <1>4 DEF Mirrors
<1> QED
  BY <1>2, <1>3, <1>5

LEMMA PortsReset ==
  ASSUME NEW ps \in Seq(Ports), NEW seq \in Seq(PortNums), Mirrors(Nums(ps), DefaultPort, seq)
  PROVE  /\ <<Last(ps)>> \in Seq(Ports) /\ Mirrors(Nums(<<Last(ps)>>), DefaultPort, <<>>)
         /\ Len(<<Last(ps)>>) = 1 /\ <<Last(ps)>>[1] = ps[Len(ps)]
<1>1. /\ Nums(ps) \in Seq(NumSet) /\ Len(Nums(ps)) = Len(ps) /\ Len(ps) \in Nat
      /\ \A i \in 1..Len(ps) : Nums(ps)[i] = ps[i].portNum
  BY NumsFacts
<1>2. <<Last(Nums(ps))>> \in Seq(NumSet) /\ Mirrors(<<Last(Nums(ps))>>, DefaultPort, <<>>) /\ Len(Nums(ps)) >= 1
  BY <1>1, MirrorsReset
<1>3. Len(ps) \in 1..Len(ps) /\ Last(ps) = ps[Len(ps)] /\ ps[Len(ps)] \in Ports
  BY <1>1, <1>2 DEF Last
<1>4. Last(Nums(ps)) = Last(ps).portNum
  BY <1>1, <1>3 DEF Last
<1>5. PICK p \in Ports : p = Last(ps)
  BY <1>3
<1>6. Nums(<<p>>) = <<p.portNum>>
  BY DEF Nums
<1> QED
  BY <1>2, <1>3, <1>4, <1>5, <1>6

\* The ports that a server gets.
LEMMA PortsMoved ==
  ASSUME NEW ps \in Seq(Ports), NEW seq \in Seq(PortNums), Mirrors(Nums(ps), DefaultPort, seq)
  PROVE  /\ Reverse(Moved(ps)) \in Seq(Ports) /\ Reverse(Moved(ps)) # <<>>
         /\ [i \in DOMAIN Reverse(Moved(ps)) |-> Reverse(Moved(ps))[i].portNum]
              = OrDefault(seq, DefaultPort)
<1> DEFINE m == Moved(ps)
           r == Reverse(m)
           nm == Moved(Nums(ps))
<1>1. /\ Nums(ps) \in Seq(NumSet) /\ Len(Nums(ps)) = Len(ps) /\ Len(ps) \in Nat
      /\ \A i \in 1..Len(ps) : Nums(ps)[i] = ps[i].portNum
  BY NumsFacts
<1>2. Len(ps) >= 1
  <2>1. Len(Nums(ps)) >= 1
    BY <1>1, MirrorsReset
  <2> QED
    BY <1>1, <2>1
<1>3. /\ m \in Seq(Ports) /\ Len(m) >= 1 /\ Len(m) = IF Len(ps) = 1 THEN 1 ELSE Len(ps) - 1
      /\ \A i \in 1..Len(m) : m[i] = ps[i]
  BY <1>2, MovedFacts
<1>4. /\ nm \in Seq(NumSet) /\ Len(nm) = IF Len(ps) = 1 THEN 1 ELSE Len(ps) - 1
      /\ \A i \in 1..Len(nm) : nm[i] = Nums(ps)[i]
  <2>1. Len(Nums(ps)) >= 1
    BY <1>1, <1>2
  <2>2. /\ nm \in Seq(NumSet) /\ Len(nm) = IF Len(Nums(ps)) = 1 THEN 1 ELSE Len(Nums(ps)) - 1
        /\ \A i \in 1..Len(nm) : nm[i] = Nums(ps)[i]
    BY <1>1, <2>1, MovedFacts
  <2> QED
    BY <1>1, <2>2
<1>5. Reverse(nm) = OrDefault(seq, DefaultPort)
  BY <1>1, MirrorsMoved
<1> HIDE DEF m, nm
<1>6. /\ r \in Seq(Ports) /\ Len(r) = Len(m) /\ \A i \in 1..Len(m) : r[i] = m[Len(m) - i + 1]
  BY <1>3, ReverseFacts
<1>7. /\ Reverse(nm) \in Seq(NumSet) /\ Len(Reverse(nm)) = Len(nm)
      /\ \A i \in 1..Len(nm) : Reverse(nm)[i] = nm[Len(nm) - i + 1]
  BY <1>4, ReverseFacts
<1> HIDE DEF r
<1>8. Len(nm) = Len(m) /\ Len(m) \in Nat /\ Len(m) <= Len(ps)
  <2>1. PICK k \in Nat : k = Len(ps) /\ k >= 1
    BY <1>1, <1>2
  <2> QED
    BY <1>3, <1>4, <2>1
<1>9. ASSUME NEW i \in 1..Len(m)
      PROVE  Reverse(nm)[i] = r[i].portNum
  <2>1. PICK e \in Nat : e = Len(m) /\ e = Len(nm)
    BY <1>8
  <2>2. i \in 1..e
    BY <2>1
  <2>3. PICK j \in 1..e : j = e - i + 1
    BY <2>1, <2>2
  <2>4. r[i] = m[j] /\ Reverse(nm)[i] = nm[j]
    BY <1>6, <1>7, <2>1, <2>2, <2>3
  <2>5. j \in 1..Len(ps)
    BY <1>1, <1>8, <2>1
  <2>6. m[j] = ps[j] /\ nm[j] = Nums(ps)[j]
    BY <1>3, <1>4, <2>1
  <2> QED
    BY <1>1, <2>4, <2>5, <2>6
<1>10. DOMAIN r = 1..Len(m) /\ r # <<>>
  <2>1. DOMAIN r = 1..Len(r)
    BY <1>6
  <2>2. Len(r) # 0
    BY <1>3, <1>6, <1>8
  <2>3. r # <<>>
    BY <2>2
  <2> QED
    BY <1>6, <2>1, <2>3
<1>11. Reverse(nm) = [i \in 1..Len(m) |-> r[i].portNum]
  BY <1>7, <1>8, <1>9
<1> QED
  BY <1>5, <1>6, <1>10, <1>11 DEF m, r

LEMMA NewBlockTyped ==
  /\ NewBlock \in Blocks
  /\ NewBlock.listens = <<>> /\ NewBlock.names = <<>> /\ NewBlock.index = <<>> /\ NewBlock.uris = <<>>
  /\ NewBlock.first = "none" /\ NewBlock.asks = {} /\ NewBlock.groups = 0
  /\ \A kind \in LogKinds : NewBlock.logs[kind] = DefaultPath
  /\ ~NewBlock.cert /\ NewBlock.cert = FALSE /\ ~NewBlock.early /\ NewBlock.wild = 0 /\ ~NewBlock.odd
<1>1. [kind \in LogKinds |-> DefaultPath] \in [LogKinds -> PathSet]
  BY DEF PathSet
<1>2. /\ <<>> \in Seq(PortNums) /\ <<>> \in Seq(NameSet) /\ <<>> \in Seq(Names)
      /\ <<>> \in Seq(UriItems)
  OBVIOUS
<1>3. \A kind \in LogKinds : [k \in LogKinds |-> DefaultPath][kind] = DefaultPath
  OBVIOUS
<1> DEFINE l == [kind \in LogKinds |-> DefaultPath]
<1> HIDE DEF l
<1>4. NewBlock = [listens |-> <<>>, names |-> <<>>, index |-> <<>>, uris |-> <<>>,
             first |-> "none", asks |-> {}, groups |-> 0,
             logs |-> l, cert |-> FALSE, early |-> FALSE,
             wild |-> 0, odd |-> FALSE]
  BY DEF NewBlock, l
<1> QED
  BY <1>1, <1>2, <1>3, <1>4 DEF Blocks, l

\* A block that has been read to its end was not fatal.
LEMMA SaidNotFatal ==
  ASSUME IInv, ctx # "undefined"
  PROVE  ~Fatal(said)
<1>1. /\ Len(locations) \in {1, 2}
      /\ Len(locations) = 1 => said.first = "none" /\ said.asks = {} /\ said.groups = 0
      /\ Len(locations) = 2 =>
           /\ said.first # "root" => "root" \notin said.asks
           /\ said.groups = IF locations[1].group THEN 1 ELSE 0
      /\ ~said.odd /\ said.wild <= 1
  BY DEF IInv, Pended
<1>2. said.wild \in Nat
  <2>1. said \in Blocks
    BY DEF IInv, Typed
  <2> QED
    BY <2>1 DEF Blocks
<1>3. ~(said.wild > 1)
  BY <1>1, <1>2
<1>4. ~(said.groups > 1)
  BY <1>1
<1>5. said.first # "root" => "root" \notin said.asks
  BY <1>1
<1> QED
  BY <1>1, <1>3, <1>4, <1>5 DEF Fatal

\* The server that the end of a block makes has what the block says.
LEMMA NewServerFacts ==
  ASSUME IInv, ctx = "server"
  PROVE  /\ NewServer \in Servers /\ NewServer.block = Len(written) + 1
         /\ NewServer.locations # <<>> /\ Len(NewServer.locations) = 1
         /\ NewServer.locations[1] = locations[1]
         /\ \A kind \in LogKinds : /\ NewServer.log[kind] \in 1..Len(logs[kind])
                                   /\ logs[kind][NewServer.log[kind]] = said.logs[kind]
         /\ ListsKept(NewServer, said)
<1> DEFINE ps == Reverse(Moved(ports))
           ns == Reverse(Moved(names))
           xs == Reverse(Moved(indexFiles))
           ls == Moved(locations)
           lg == [kind \in LogKinds |-> IF currentLog[kind] = 0 THEN 1 ELSE currentLog[kind]]
           n  == Len(written) + 1
<1>0. /\ said \in Blocks /\ ports \in Seq(Ports) /\ names \in Seq(NameSet)
      /\ indexFiles \in Seq(IndexSet) /\ locations \in Seq(Locations)
      /\ currentLog \in [LogKinds -> Nat] /\ logs \in [LogKinds -> Seq(PathSet)]
      /\ certFile \in BOOLEAN /\ written \in Seq(Blocks) /\ Len(locations) \in {1, 2}
      /\ said.listens \in Seq(PortNums) /\ said.names \in Seq(NameSet) /\ said.index \in Seq(Names)
  <2>1. /\ said \in Blocks /\ ports \in Seq(Ports) /\ names \in Seq(NameSet)
        /\ indexFiles \in Seq(IndexSet) /\ locations \in Seq(Locations)
        /\ currentLog \in [LogKinds -> Nat] /\ logs \in [LogKinds -> Seq(PathSet)]
        /\ certFile \in BOOLEAN /\ written \in Seq(Blocks) /\ Len(locations) \in {1, 2}
    BY DEF IInv, Typed, Pended
  <2> QED
    BY <2>1 DEF Blocks
<1>1. /\ Mirrors(Nums(ports), DefaultPort, said.listens)
      /\ Mirrors(names, DefaultName, said.names)
      /\ Mirrors(indexFiles, DefaultIndex, said.index)
      /\ certFile = said.cert
  BY DEF IInv, ListsSaid
<1>2. /\ ps \in Seq(Ports) /\ ps # <<>>
      /\ [i \in DOMAIN ps |-> ps[i].portNum] = OrDefault(said.listens, DefaultPort)
  BY <1>0, <1>1, PortsMoved
<1>3. ns = OrDefault(said.names, DefaultName) /\ xs = OrDefault(said.index, DefaultIndex)
  BY <1>0, <1>1, MirrorsMoved
<1>4. ns \in Seq(NameSet) /\ xs \in Seq(IndexSet)
  <2>1. <<DefaultName>> \in Seq(NameSet) /\ <<DefaultIndex>> \in Seq(IndexSet)
    BY DEF NameSet, IndexSet
  <2>2. said.index \in Seq(IndexSet)
    BY <1>0 DEF IndexSet
  <2> QED
    BY <1>0, <1>3, <2>1, <2>2 DEF OrDefault
<1>5. ls \in Seq(Locations) /\ Len(ls) = 1 /\ ls[1] = locations[1] /\ ls # <<>>
  <2>1. /\ ls \in Seq(Locations) /\ Len(ls) >= 1
        /\ Len(ls) = IF Len(locations) = 1 THEN 1 ELSE Len(locations) - 1
        /\ \A i \in 1..Len(ls) : ls[i] = locations[i]
    <3>1. Len(locations) >= 1
      BY DEF IInv, DefaultKept
    <3> QED
      BY <1>0, <3>1, MovedFacts
  <2> HIDE DEF ls
  <2>2. PICK e : e = Len(locations) /\ e \in {1, 2}
    BY <1>0
  <2>3. Len(ls) = 1
    BY <2>1, <2>2
  <2>4. PICK one : one = 1 /\ one \in 1..1
    OBVIOUS
  <2>5. ls[1] = locations[1]
    BY <2>1, <2>3, <2>4
  <2>6. ls # <<>>
    BY <2>1, <2>3
  <2> QED
    BY <2>1, <2>3, <2>5, <2>6
<1>6. ASSUME NEW kind \in LogKinds
      PROVE  lg[kind] \in 1..Len(logs[kind]) /\ logs[kind][lg[kind]] = said.logs[kind]
  <2>1. /\ Len(logs[kind]) >= 1 /\ currentLog[kind] <= Len(logs[kind])
        /\ said.logs[kind] = logs[kind][IF currentLog[kind] = 0 THEN 1 ELSE currentLog[kind]]
    BY DEF IInv, LogsSaid
  <2>2. lg[kind] = IF currentLog[kind] = 0 THEN 1 ELSE currentLog[kind]
    OBVIOUS
  <2>3. currentLog[kind] \in Nat /\ logs[kind] \in Seq(PathSet)
    BY <1>0
  <2>4. Len(logs[kind]) \in Nat
    BY <2>3
  <2> QED
    BY <2>1, <2>2, <2>3, <2>4
<1>7. lg \in [LogKinds -> Nat] /\ n \in Nat /\ n # 0
  <2>1. \A kind \in LogKinds : currentLog[kind] \in Nat
    BY <1>0
  <2>2. Len(written) \in Nat
    BY <1>0
  <2> QED
    BY <2>1, <2>2
<1> HIDE DEF ps, ns, xs, ls, lg, n
<1>8. NewServer = [ports |-> ps, names |-> ns, index |-> xs, locations |-> ls, log |-> lg,
                   cert |-> certFile, block |-> n]
  BY DEF NewServer, ps, ns, xs, ls, lg, n
<1>9. NewServer \in Servers
  BY <1>0, <1>2, <1>4, <1>5, <1>7, <1>8 DEF Servers
<1>10. /\ NewServer.ports = ps /\ NewServer.names = ns /\ NewServer.index = xs
       /\ NewServer.locations = ls /\ NewServer.log = lg /\ NewServer.cert = certFile
       /\ NewServer.block = n
  BY <1>8
<1>11. ListsKept(NewServer, said)
  BY <1>1, <1>2, <1>3, <1>10 DEF ListsKept
<1> QED
  BY <1>5, <1>6, <1>9, <1>10, <1>11 DEF n

\* An element behind a list.
LEMMA AppendFacts ==
  ASSUME NEW S, NEW list \in Seq(S), NEW x \in S
  PROVE  /\ Append(list, x) \in Seq(S) /\ Len(Append(list, x)) = Len(list) + 1
         /\ Append(list, x)[Len(list) + 1] = x /\ Len(list) \in Nat
         /\ \A i \in 1..Len(list) : Append(list, x)[i] = list[i] /\ i \in 1..(Len(list) + 1)
         /\ \A i \in 1..(Len(list) + 1) : i \in 1..Len(list) \/ i = Len(list) + 1
  OBVIOUS

\* Servers that have been made stay as they are when another block ends.
LEMMA OldServersFit ==
  ASSUME IInv, NEW s, ServerFits(s), logs' = logs, Len(written') = Len(written) + 1,
         \A b \in 1..Len(written) : written'[b] = written[b]
  PROVE  ServerFits(s)'
<1>1. Len(written) \in Nat
  BY DEF IInv, Typed
<1>2. NoneEarly(written') => NoneEarly(written)
  <2>1. \A b \in 1..Len(written) : b \in 1..Len(written')
    BY <1>1
  <2> QED
    BY <2>1 DEF NoneEarly
<1>3. CASE s.block = 0
  BY <1>2, <1>3 DEF ServerFits
<1>4. CASE s.block # 0
  <2>1. s.block \in 1..Len(written)
    BY <1>4 DEF ServerFits
  <2>2. s.block \in 1..Len(written') /\ written'[s.block] = written[s.block]
    BY <1>1, <2>1
  <2>3. \A b \in 1..s.block : b \in 1..Len(written)
    BY <1>1, <2>1
  <2>4. OwnUpTo(written', s.block) => OwnUpTo(written, s.block)
    BY <2>3 DEF OwnUpTo
  <2> QED
    BY <1>4, <2>2, <2>4 DEF ServerFits
<1> QED
  BY <1>3, <1>4

LEMMA CloseServerKeeps ==
  ASSUME IInv, CloseServer
  PROVE  IInv'
<1>1. /\ ctx = "server" /\ ctx' = "http" /\ servers' = Append(servers, NewServer)
      /\ ports' = <<Last(ports)>> /\ names' = <<Last(names)>>
      /\ indexFiles' = <<Last(indexFiles)>> /\ locations' = <<Last(locations)>>
      /\ currentLog' = [kind \in LogKinds |-> 0] /\ certFile' = FALSE
      /\ written' = Append(written, said) /\ said' = NewBlock
  BY DEF CloseServer, Emptied
<1>2. /\ defaultServer' = defaultServer /\ vocabulary' = vocabulary /\ logs' = logs
      /\ logFds' = logFds /\ danglingLogs' = danglingLogs
  BY DEF CloseServer, given, opened
<1>3. /\ said \in Blocks /\ ports \in Seq(Ports) /\ names \in Seq(NameSet)
      /\ indexFiles \in Seq(IndexSet) /\ locations \in Seq(Locations)
      /\ servers \in Seq(Servers) /\ written \in Seq(Blocks)
      /\ said.listens \in Seq(PortNums) /\ said.names \in Seq(NameSet) /\ said.index \in Seq(Names)
  <2>1. /\ said \in Blocks /\ ports \in Seq(Ports) /\ names \in Seq(NameSet)
        /\ indexFiles \in Seq(IndexSet) /\ locations \in Seq(Locations)
        /\ servers \in Seq(Servers) /\ written \in Seq(Blocks)
    BY DEF IInv, Typed
  <2> QED
    BY <2>1 DEF Blocks
<1>4. /\ ports' \in Seq(Ports) /\ Mirrors(Nums(ports'), DefaultPort, <<>>)
      /\ Len(ports') = 1 /\ ports'[1] = ports[Len(ports)]
      /\ names' \in Seq(NameSet) /\ Mirrors(names', DefaultName, <<>>)
      /\ indexFiles' \in Seq(IndexSet) /\ Mirrors(indexFiles', DefaultIndex, <<>>)
  <2>1. /\ Mirrors(Nums(ports), DefaultPort, said.listens)
        /\ Mirrors(names, DefaultName, said.names)
        /\ Mirrors(indexFiles, DefaultIndex, said.index)
    BY DEF IInv, ListsSaid
  <2>2. /\ <<Last(ports)>> \in Seq(Ports) /\ Mirrors(Nums(<<Last(ports)>>), DefaultPort, <<>>)
        /\ Len(<<Last(ports)>>) = 1 /\ <<Last(ports)>>[1] = ports[Len(ports)]
    BY <1>3, <2>1, PortsReset
  <2>3. /\ <<Last(names)>> \in Seq(NameSet) /\ Mirrors(<<Last(names)>>, DefaultName, <<>>)
        /\ <<Last(indexFiles)>> \in Seq(IndexSet)
        /\ Mirrors(<<Last(indexFiles)>>, DefaultIndex, <<>>)
    BY <1>3, <2>1, MirrorsReset
  <2> QED
    BY <1>1, <2>2, <2>3
<1>5. /\ Len(locations) \in {1, 2} /\ Len(locations) >= 1 /\ Len(locations) \in 1..Len(locations)
      /\ locations[Len(locations)].literal /\ ~locations[Len(locations)].group
      /\ GroupSet(locations[Len(locations)]) /\ Plain(locations[Len(locations)])
  <2>1. Len(locations) \in {1, 2} /\ Len(locations) >= 1
    BY <1>1 DEF IInv, Pended, DefaultKept
  <2>2. Len(locations) \in 1..Len(locations)
    BY <2>1
  <2> QED
    BY <1>1, <2>1, <2>2 DEF IInv, DefaultKept, Last
<1>6. /\ locations' \in Seq(Locations) /\ Len(locations') = 1
      /\ locations'[1] = locations[Len(locations)] /\ Last(locations') = locations'[1]
  <2>1. /\ <<Last(locations)>> \in Seq(Locations) /\ Len(<<Last(locations)>>) = 1
        /\ <<Last(locations)>>[1] = locations[Len(locations)]
    BY <1>3, <1>5, MovedFacts
  <2> QED
    BY <1>1, <2>1 DEF Last
<1>7. /\ said' \in Blocks
      /\ said'.listens = <<>> /\ said'.names = <<>> /\ said'.index = <<>> /\ said'.uris = <<>>
      /\ said'.first = "none" /\ said'.asks = {} /\ said'.groups = 0
      /\ \A kind \in LogKinds : said'.logs[kind] = DefaultPath
      /\ said'.cert = FALSE /\ ~said'.early /\ said'.wild = 0 /\ ~said'.odd
  BY <1>1, NewBlockTyped
<1>8. /\ NewServer \in Servers /\ NewServer.block = Len(written) + 1
      /\ NewServer.locations # <<>> /\ Len(NewServer.locations) = 1
      /\ NewServer.locations[1] = locations[1]
      /\ \A kind \in LogKinds : /\ NewServer.log[kind] \in 1..Len(logs[kind])
                                /\ logs[kind][NewServer.log[kind]] = said.logs[kind]
      /\ ListsKept(NewServer, said)
  BY <1>1, NewServerFacts
<1>9. /\ written' \in Seq(Blocks) /\ Len(written') = Len(written) + 1
      /\ written'[Len(written) + 1] = said /\ Len(written) \in Nat
      /\ \A i \in 1..Len(written) : written'[i] = written[i] /\ i \in 1..(Len(written) + 1)
      /\ \A i \in 1..(Len(written) + 1) : i \in 1..Len(written) \/ i = Len(written) + 1
  <2> DEFINE w == Append(written, said)
  <2>1. /\ w \in Seq(Blocks) /\ Len(w) = Len(written) + 1
        /\ w[Len(written) + 1] = said /\ Len(written) \in Nat
        /\ \A i \in 1..Len(written) : w[i] = written[i] /\ i \in 1..(Len(written) + 1)
        /\ \A i \in 1..(Len(written) + 1) : i \in 1..Len(written) \/ i = Len(written) + 1
    BY <1>3, AppendFacts
  <2> QED
    BY <1>1, <2>1
<1>10. /\ servers' \in Seq(Servers) /\ Len(servers') = Len(servers) + 1
       /\ servers'[Len(servers) + 1] = NewServer /\ Len(servers) \in Nat
       /\ \A i \in 1..Len(servers) : servers'[i] = servers[i]
       /\ \A i \in 1..(Len(servers) + 1) : i \in 1..Len(servers) \/ i = Len(servers) + 1
  <2> DEFINE w == Append(servers, NewServer)
  <2>1. /\ w \in Seq(Servers) /\ Len(w) = Len(servers) + 1
        /\ w[Len(servers) + 1] = NewServer /\ Len(servers) \in Nat
        /\ \A i \in 1..Len(servers) : w[i] = servers[i] /\ i \in 1..(Len(servers) + 1)
        /\ \A i \in 1..(Len(servers) + 1) : i \in 1..Len(servers) \/ i = Len(servers) + 1
    BY <1>3, <1>8, AppendFacts
  <2> QED
    BY <1>1, <2>1
<1>11. Typed'
  <2>1. currentLog' \in [LogKinds -> Nat]
    BY <1>1
  <2> QED
    BY <1>1, <1>2, <1>4, <1>6, <1>7, <1>9, <1>10, <2>1 DEF IInv, Typed, Contexts
<1>12. ListsSaid'
  BY <1>1, <1>4, <1>7 DEF ListsSaid
<1>13. LogsSaid'
  <2>1. \A kind \in LogKinds : /\ Len(logs[kind]) >= 1 /\ logs[kind][1] = DefaultPath
                               /\ 0 <= Len(logs[kind])
    <3>1. \A kind \in LogKinds : Len(logs[kind]) >= 1 /\ logs[kind][1] = DefaultPath
      BY DEF IInv, LogsSaid
    <3>2. \A kind \in LogKinds : logs[kind] \in Seq(PathSet)
      BY DEF IInv, Typed
    <3> QED
      BY <3>1, <3>2
  <2>2. \A kind \in LogKinds : currentLog'[kind] = 0
    BY <1>1
  <2> QED
    BY <1>2, <1>7, <2>1, <2>2 DEF LogsSaid
<1>14. FdsFit'
  BY <1>1, <1>2 DEF IInv, FdsFit
<1>15. Pended'
  <2>1. ~Contains(<<>>, DefaultName)
    BY DEF Contains
  <2>2. Holds(locations'[1], {}) /\ Flagged(locations'[1], "none", {})
    BY <1>5, <1>6 DEF Plain, Flagged, Groupers
  <2> QED
    BY <1>6, <1>7, <2>1, <2>2 DEF Pended
<1>16. DefaultKept'
  <2>1. \A i \in 1..1 : i = 1
    OBVIOUS
  <2>2. \A i \in 1..Len(locations') : GroupSet(locations'[i])
    BY <1>5, <1>6, <2>1
  <2>3. Len(locations') >= 1
    BY <1>6
  <2> QED
    BY <1>5, <1>6, <2>2, <2>3 DEF DefaultKept
<1>17. Contextual'
  BY <1>1, <1>4, <1>6, <1>7 DEF Contextual
<1>18. OwnUpTo(written', Len(written')) =>
         /\ locations[Len(locations)].match = DefaultUri
         /\ locations[1].match = IF Len(said.uris) = 0 THEN DefaultUri ELSE said.uris[Len(said.uris)].uri
  <2> SUFFICES ASSUME OwnUpTo(written', Len(written'))
               PROVE  /\ locations[Len(locations)].match = DefaultUri
                      /\ locations[1].match = IF Len(said.uris) = 0 THEN DefaultUri
                                              ELSE said.uris[Len(said.uris)].uri
    OBVIOUS
  <2>1. OwnUpTo(written, Len(written))
    BY <1>9 DEF OwnUpTo
  <2>2. PICK b \in 1..Len(written') : b = Len(written) + 1
    BY <1>9
  <2>3. \A i \in 1..Len(said.uris) : said.uris[i].own
    BY <1>9, <2>2 DEF OwnUpTo
  <2>4. Closed = Len(said.uris)
    BY <1>1 DEF Closed
  <2> QED
    BY <1>1, <2>1, <2>3, <2>4 DEF IInv, MatchesSaid
<1>19. MatchesSaid'
  <2>1. Len(<<>>) = 0 /\ 1..0 = {}
    OBVIOUS
  <2>2. Closed' = 0
    BY <1>1, <1>7, <2>1 DEF Closed
  <2>3. \A i \in 1..Len(said'.uris) : said'.uris[i].own => Len(locations') = 2
    BY <1>7, <2>1
  <2> QED
    BY <1>6, <1>18, <2>2, <2>3 DEF MatchesSaid
<1>20. PortsFit'
  <2>1. ASSUME NoneEarly(written')
        PROVE  NoneEarly(written) /\ ~said.early
    <3>1. PICK b \in 1..Len(written') : b = Len(written) + 1
      BY <1>9
    <3> QED
      BY <1>9, <2>1, <3>1 DEF NoneEarly
  <2> QED
    BY <1>4, <2>1 DEF IInv, PortsFit
<1>21. ServersFit'
  <2>1. ASSUME NEW k \in 1..Len(servers)
        PROVE  ServerFits(servers[k])'
    <3>1. ServerFits(servers[k])
      BY DEF IInv, ServersFit
    <3>2. PICK s : s = servers[k]
      OBVIOUS
    <3>3. ServerFits(s)'
      BY <1>2, <1>9, <3>1, <3>2, OldServersFit
    <3>4. servers'[k] = s
      BY <1>10, <3>2
    <3> QED
      BY <3>3, <3>4 DEF ServerFits
  <2>2. ASSUME NEW k, k = Len(servers) + 1
        PROVE  ServerFits(servers[k])'
    <3>1. PICK s : s = NewServer
      OBVIOUS
    <3>2. servers'[k] = s
      BY <1>10, <2>2, <3>1
    <3>3. PICK n \in 1..Len(written') : n = Len(written) + 1 /\ n = Len(written') /\ n # 0
      BY <1>9
    <3>4. s.block = n /\ written'[n] = said
      BY <1>8, <1>9, <3>1, <3>3
    <3>5. s.ports # <<>> /\ s.locations # <<>>
      BY <1>8, <3>1 DEF ListsKept
    <3>6. /\ \A kind \in LogKinds : s.log[kind] \in 1..Len(logs'[kind])
          /\ \A kind \in LogKinds : logs'[kind][s.log[kind]] = written'[n].logs[kind]
      BY <1>2, <1>8, <3>1, <3>4
    <3>7. \A i \in 1..Len(s.locations) : i = 1 /\ s.locations[i] = locations[1]
      <4>1. \A i \in 1..1 : i = 1
        OBVIOUS
      <4> QED
        BY <1>8, <3>1, <4>1
    <3>8. GroupSet(locations[1])
      <4>1. 1 \in 1..Len(locations)
        BY <1>5
      <4> QED
        BY <4>1 DEF IInv, DefaultKept
    <3>9. ListsKept(s, written'[n])
      BY <1>8, <3>1, <3>4
    <3>10. OwnUpTo(written', n) => MatchesKept(s, written'[n])
      <4> SUFFICES ASSUME OwnUpTo(written', n)
                   PROVE  MatchesKept(s, said)
        BY <3>4
      <4>1. locations[1].match = IF Len(said.uris) = 0 THEN DefaultUri ELSE said.uris[Len(said.uris)].uri
        BY <1>18, <3>3
      <4>2. said.uris \in Seq(UriItems)
        BY <1>3 DEF Blocks
      <4>3. CASE said.uris = <<>>
        BY <1>8, <3>1, <4>1, <4>3 DEF MatchesKept
      <4>4. CASE said.uris # <<>>
        <5>1. Len(said.uris) # 0 /\ Len(said.uris) \in 1..Len(said.uris)
          BY <4>2, <4>4
        <5> QED
          BY <1>8, <3>1, <4>1, <4>4, <5>1 DEF MatchesKept
      <4> QED
        BY <4>3, <4>4
    <3>11. \A i \in 1..Len(s.locations) : GroupSet(s.locations[i])
      BY <3>7, <3>8
    <3>12. /\ Len(s.locations) = 1 /\ Holds(s.locations[1], written'[n].asks)
           /\ Flagged(s.locations[1], written'[n].first, written'[n].asks)
      <4>1. Holds(locations[1], said.asks) /\ Flagged(locations[1], said.first, said.asks)
        BY <1>1 DEF IInv, Pended
      <4> QED
        BY <1>8, <3>1, <3>4, <4>1
    <3>13. ServerFits(s)'
      BY <3>3, <3>4, <3>5, <3>6, <3>9, <3>10, <3>11, <3>12 DEF ServerFits
    <3> QED
      BY <3>2, <3>13 DEF ServerFits
  <2>3. ASSUME NEW k \in 1..Len(servers')
        PROVE  ServerFits(servers[k])'
    <3>1. k \in 1..Len(servers) \/ k = Len(servers) + 1
      BY <1>10
    <3> QED
      BY <2>1, <2>2, <3>1
  <2> QED
    BY <2>3 DEF ServersFit
<1>22. FatalKnown'
  <2>1. ~Fatal(said)
    BY <1>1, SaidNotFatal
  <2>2. \A b \in 1..Len(written) : ~Fatal(written[b])
    BY DEF IInv, FatalKnown
  <2>3. \A b \in 1..Len(written') : ~Fatal(written'[b])
    BY <1>9, <2>1, <2>2
  <2> QED
    BY <1>1, <2>3 DEF FatalKnown
<1>23. Checked'
  BY <1>1 DEF Checked, Accepted
<1> QED
  BY <1>11, <1>12, <1>13, <1>14, <1>15, <1>16, <1>17, <1>19, <1>20, <1>21, <1>22, <1>23 DEF IInv

LEMMA CloseHttpKeeps ==
  ASSUME IInv, CloseHttp
  PROVE  IInv'
<1> DEFINE s == [ports |-> ports, names |-> names, index |-> indexFiles, locations |-> locations,
                 log |-> [kind \in LogKinds |-> 1], cert |-> certFile, block |-> 0]
<1>3. /\ s \in Servers /\ s.block = 0 /\ s.ports = ports /\ s.locations = locations
      /\ \A kind \in LogKinds : s.log[kind] = 1
  <2>1. /\ ports \in Seq(Ports) /\ names \in Seq(NameSet) /\ indexFiles \in Seq(IndexSet)
        /\ locations \in Seq(Locations) /\ certFile \in BOOLEAN
    BY DEF IInv, Typed
  <2>2. [kind \in LogKinds |-> 1] \in [LogKinds -> Nat]
    OBVIOUS
  <2> QED
    BY <2>1, <2>2 DEF Servers
<1>4. servers' = Append(servers, s)
  BY DEF CloseHttp
<1> HIDE DEF s
<1>5. /\ servers' \in Seq(Servers) /\ Len(servers') = Len(servers) + 1
      /\ servers'[Len(servers) + 1] = s /\ Len(servers) \in Nat
      /\ \A i \in 1..Len(servers) : servers'[i] = servers[i] /\ i \in 1..(Len(servers) + 1)
      /\ \A i \in 1..(Len(servers) + 1) : i \in 1..Len(servers) \/ i = Len(servers) + 1
  <2>1. servers \in Seq(Servers)
    BY DEF IInv, Typed
  <2> QED
    BY <1>3, <1>4, <2>1, AppendFacts
<1>6. ServerFits(s)
  <2>1. Len(ports) = 1 /\ ~said.early /\ Len(locations) = 1
    BY DEF CloseHttp, IInv, Contextual
  <2>2. s.ports # <<>> /\ s.locations # <<>>
    BY <1>3, <2>1
  <2>3. \A kind \in LogKinds : s.log[kind] \in 1..Len(logs[kind])
    <3>1. \A kind \in LogKinds : Len(logs[kind]) >= 1 /\ logs[kind] \in Seq(PathSet)
      BY DEF IInv, LogsSaid, Typed
    <3> QED
      BY <1>3, <3>1
  <2>4. \A i \in 1..Len(s.locations) : GroupSet(s.locations[i])
    BY <1>3 DEF IInv, DefaultKept
  <2>5. NoneEarly(written) => \A i \in 1..Len(s.ports) : ~s.ports[i].tls
    <3>1. \A i \in 1..1 : i = 1
      OBVIOUS
    <3> QED
      BY <1>3, <2>1, <3>1 DEF IInv, PortsFit
  <2>6. \A i \in 1..Len(s.locations) : "FASTCGI_PASS" \notin s.locations[i].type
    <3>1. Plain(locations[1])
      BY <2>1 DEF CloseHttp, IInv, DefaultKept, Last
    <3>2. \A i \in 1..1 : i = 1
      OBVIOUS
    <3> QED
      BY <1>3, <2>1, <3>1, <3>2 DEF Plain
  <2> QED
    BY <1>3, <2>2, <2>3, <2>4, <2>5, <2>6 DEF ServerFits
<1>1. /\ ctx = "http"
      /\ ctx' = "parsed"
  BY DEF CloseHttp, given, lists, logging, done, opened, vars
<1>2. /\ defaultServer' = defaultServer /\ vocabulary' = vocabulary /\ ports' = ports
      /\ names' = names /\ indexFiles' = indexFiles /\ locations' = locations /\ logs' = logs
      /\ currentLog' = currentLog /\ certFile' = certFile /\ said' = said /\ written' = written
      /\ logFds' = logFds /\ danglingLogs' = danglingLogs
  BY DEF CloseHttp, given, lists, logging, done, opened, vars
<1>11. Typed'
  BY <1>1, <1>2, <1>5 DEF IInv, Typed, Contexts
<1>12. ListsSaid'
  BY <1>1, <1>2 DEF IInv, ListsSaid
<1>13. LogsSaid'
  BY <1>1, <1>2 DEF IInv, LogsSaid
<1>14. FdsFit'
  BY <1>1, <1>2 DEF IInv, FdsFit
<1>15. Pended'
  BY <1>1, <1>2 DEF IInv, Pended
<1>16. DefaultKept'
  BY <1>1, <1>2 DEF IInv, DefaultKept
<1>17. Contextual'
  <2>1. servers' # <<>>
    BY <1>5
  <2> QED
    BY <1>1, <2>1 DEF Contextual
<1>18. MatchesSaid'
  BY <1>1, <1>2 DEF IInv, MatchesSaid, Closed
<1>19. PortsFit'
  BY <1>1, <1>2 DEF IInv, PortsFit
<1>20. ServersFit'
  <2>1. ASSUME NEW t, ServerFits(t)
        PROVE  ServerFits(t)'
    BY <1>2, <2>1 DEF ServerFits
  <2>2. ASSUME NEW k \in 1..Len(servers')
        PROVE  ServerFits(servers[k])'
    <3>1. PICK t : t = servers'[k]
      OBVIOUS
    <3>2. ServerFits(t)
      <4>1. CASE k \in 1..Len(servers)
        BY <1>5, <3>1, <4>1 DEF IInv, ServersFit
      <4>2. CASE k = Len(servers) + 1
        BY <1>5, <1>6, <3>1, <4>2
      <4> QED
        BY <1>5, <4>1, <4>2
    <3>3. ServerFits(t)'
      BY <2>1, <3>2
    <3> QED
      BY <3>1, <3>3 DEF ServerFits
  <2> QED
    BY <2>2 DEF ServersFit
<1>21. FatalKnown'
  BY <1>1, <1>2 DEF IInv, FatalKnown, Fatal
<1>22. Checked'
  BY <1>1, <1>2 DEF IInv, Checked, Accepted
<1> QED
  BY <1>11, <1>12, <1>13, <1>14, <1>15, <1>16, <1>17, <1>18, <1>19, <1>20, <1>21, <1>22 DEF IInv

LEMMA CheckServersKeeps ==
  ASSUME IInv, CheckServers
  PROVE  IInv'
<1>3. servers \in Seq(Servers) /\ servers # <<>> /\ Len(servers) \in Nat /\ Len(servers) > 0
  <2>1. servers \in Seq(Servers) /\ servers # <<>>
    BY DEF CheckServers, IInv, Typed, Contextual
  <2> QED
    BY <2>1
<1>4. /\ servers' \in Seq(Servers)
      /\ \A k \in 1..Len(servers') : \E m \in 1..Len(servers) : servers'[k] = servers[m]
  <2>1. servers' = Remaining
    BY DEF CheckServers
  <2>2. CASE defaultServer
    BY <1>3, <2>1, <2>2 DEF Remaining
  <2>3. CASE ~defaultServer
    <3>1. servers' = Tail(servers)
      BY <2>1, <2>3 DEF Remaining
    <3>2. /\ Tail(servers) \in Seq(Servers) /\ Len(Tail(servers)) = Len(servers) - 1
          /\ \A k \in 1..Len(Tail(servers)) : Tail(servers)[k] = servers[k + 1]
      BY <1>3
    <3>3. \A k \in 1..Len(Tail(servers)) : k + 1 \in 1..Len(servers)
      BY <1>3, <3>2
    <3> QED
      BY <3>1, <3>2, <3>3
  <2> QED
    BY <2>2, <2>3
<1>5. \A kind \in LogKinds : Head(servers).log[kind] \in Nat /\ Head(servers).log[kind] \in 1..Len(logs[kind])
  <2>1. Head(servers) = servers[1] /\ 1 \in 1..Len(servers)
    BY <1>3
  <2>2. ServerFits(servers[1])
    BY <2>1 DEF IInv, ServersFit
  <2>3. \A kind \in LogKinds : servers[1].log[kind] \in 1..Len(logs[kind])
    BY <2>2 DEF ServerFits
  <2> QED
    BY <2>1, <2>3
<1>1. /\ ctx = "parsed"
      /\ ctx' = (IF \A k \in DOMAIN Remaining : ServerOk(Remaining[k]) THEN "checked" ELSE "refused")
      /\ servers' = Remaining
      /\ danglingLogs' = [kind \in LogKinds |-> IF defaultServer THEN {} ELSE {Head(servers).log[kind]}]
  BY DEF CheckServers, given, lists, logging, done, opened, vars
<1>2. /\ defaultServer' = defaultServer /\ vocabulary' = vocabulary /\ ports' = ports
      /\ names' = names /\ indexFiles' = indexFiles /\ locations' = locations /\ logs' = logs
      /\ currentLog' = currentLog /\ certFile' = certFile /\ said' = said /\ written' = written
      /\ logFds' = logFds
  BY DEF CheckServers, given, lists, logging, done, opened, vars
<1>11. Typed'
  <2>1. danglingLogs' \in [LogKinds -> SUBSET Nat]
    BY <1>1, <1>5
  <2>2. ctx' \in Contexts
    BY <1>1 DEF Contexts
  <2> QED
    BY <1>2, <1>4, <2>1, <2>2 DEF IInv, Typed
<1>12. ListsSaid'
  BY <1>1, <1>2 DEF IInv, ListsSaid
<1>13. LogsSaid'
  BY <1>1, <1>2 DEF IInv, LogsSaid
<1>14. FdsFit'
  <2>1. ctx' \notin {"http", "server", "location", "parsed", "ready"}
    BY <1>1
  <2>2. \A kind \in LogKinds : logFds[kind] = <<>>
    BY <1>1 DEF IInv, FdsFit
  <2>3. \A kind \in LogKinds : /\ \A i \in danglingLogs'[kind] : i \in 1..Len(logs[kind])
                               /\ defaultServer => danglingLogs'[kind] = {}
    BY <1>1, <1>5
  <2> QED
    BY <1>2, <2>1, <2>2, <2>3 DEF IInv, FdsFit
<1>15. Pended'
  <2>1. ctx # "undefined"
    BY <1>1
  <2> QED
    BY <1>2, <2>1 DEF IInv, Pended
<1>16. DefaultKept'
  <2>1. ctx # "undefined"
    BY <1>1
  <2> QED
    BY <1>2, <2>1 DEF IInv, DefaultKept
<1>17. Contextual'
  BY <1>1 DEF Contextual
<1>18. MatchesSaid'
  <2>1. ctx # "undefined" /\ ctx' \notin {"http", "server", "location"}
    BY <1>1
  <2> QED
    BY <1>2, <2>1 DEF IInv, MatchesSaid
<1>19. PortsFit'
  BY <1>1, <1>2 DEF IInv, PortsFit
<1>20. ServersFit'
  <2>1. ASSUME NEW t, ServerFits(t)
        PROVE  ServerFits(t)'
    BY <1>2, <2>1 DEF ServerFits
  <2>2. ASSUME NEW k \in 1..Len(servers')
        PROVE  ServerFits(servers[k])'
    <3>1. PICK t : t = servers'[k]
      OBVIOUS
    <3>2. ServerFits(t)
      BY <1>4, <3>1 DEF IInv, ServersFit
    <3>3. ServerFits(t)'
      BY <2>1, <3>2
    <3> QED
      BY <3>1, <3>3 DEF ServerFits
  <2> QED
    BY <2>2 DEF ServersFit
<1>21. FatalKnown'
  <2>1. ctx' # "undefined"
    BY <1>1
  <2> QED
    BY <1>2, <2>1 DEF IInv, FatalKnown
<1>22. Checked'
  <2> SUFFICES ASSUME ctx' = "checked"
               PROVE  /\ \A k \in 1..Len(servers') : \A i \in 1..Len(servers'[k].locations) :
                           DocRootOk(servers'[k].locations[i])
                      /\ \A k, m \in 1..Len(servers') :
                           \A i \in 1..Len(servers'[k].ports), j \in 1..Len(servers'[m].ports) :
                             servers'[k].ports[i].portNum = servers'[m].ports[j].portNum =>
                               servers'[k].ports[i].tls = servers'[m].ports[j].tls
    BY <1>1 DEF Checked, Accepted
  <2>1. servers' = Remaining /\ \A k \in DOMAIN Remaining : ServerOk(Remaining[k])
    BY <1>1
  <2>2. DOMAIN servers' = 1..Len(servers')
    BY <1>4
  <2>3. ASSUME NEW k \in 1..Len(servers')
        PROVE  /\ DOMAIN servers'[k].locations = 1..Len(servers'[k].locations)
               /\ DOMAIN servers'[k].ports = 1..Len(servers'[k].ports)
    <3>1. servers'[k] \in Servers
      BY <1>4
    <3>2. servers'[k].locations \in Seq(Locations) /\ servers'[k].ports \in Seq(Ports)
      BY <3>1 DEF Servers
    <3> QED
      BY <3>2
  <2>4. \A k \in 1..Len(servers') : PortOk(servers'[k]) /\ \A i \in DOMAIN servers'[k].locations :
                                                           DocRootOk(servers'[k].locations[i])
    BY <2>1, <2>2 DEF ServerOk
  <2>5. ASSUME NEW k \in 1..Len(servers'), NEW m \in 1..Len(servers'),
               NEW i \in 1..Len(servers'[k].ports), NEW j \in 1..Len(servers'[m].ports),
               servers'[k].ports[i].portNum = servers'[m].ports[j].portNum
        PROVE  servers'[k].ports[i].tls = servers'[m].ports[j].tls
    <3>1. PortOk(servers'[k])
      BY <2>4
    <3>2. i \in DOMAIN servers'[k].ports /\ j \in DOMAIN servers'[m].ports /\ m \in DOMAIN servers'
      BY <2>2, <2>3
    <3> QED
      BY <2>1, <2>5, <3>1, <3>2 DEF PortOk
  <2> QED
    BY <2>3, <2>4, <2>5
<1> QED
  BY <1>11, <1>12, <1>13, <1>14, <1>15, <1>16, <1>17, <1>18, <1>19, <1>20, <1>21, <1>22 DEF IInv

-----------------------------------------------------------------------------
(* The invariant holds *)

LEMMA InitKeeps ==
  ASSUME Init
  PROVE  IInv
<1>1. /\ ctx = "http" /\ defaultServer \in BOOLEAN /\ vocabulary \in Vocabularies
      /\ ports = <<DefPort>> /\ names = <<DefaultName>> /\ indexFiles = <<DefaultIndex>>
      /\ locations = <<DefLocation>> /\ logs = [kind \in LogKinds |-> <<DefaultPath>>]
      /\ currentLog = [kind \in LogKinds |-> 0] /\ certFile = FALSE
      /\ said = NewBlock /\ servers = <<>> /\ written = <<>>
      /\ logFds = [kind \in LogKinds |-> <<>>] /\ danglingLogs = [kind \in LogKinds |-> {}]
  BY DEF Init
<1>2. /\ said \in Blocks
      /\ said.listens = <<>> /\ said.names = <<>> /\ said.index = <<>> /\ said.uris = <<>>
      /\ said.first = "none" /\ said.asks = {} /\ said.groups = 0
      /\ \A kind \in LogKinds : said.logs[kind] = DefaultPath
      /\ said.cert = FALSE /\ ~said.early /\ said.wild = 0 /\ ~said.odd
  BY <1>1, NewBlockTyped
<1>3. /\ DefPort \in Ports /\ DefPort.portNum = DefaultPort /\ ~DefPort.tls
      /\ DefaultName \in NameSet /\ DefaultIndex \in IndexSet /\ DefaultPath \in PathSet
  BY DEF DefPort, Ports, NameSet, IndexSet, PathSet
<1>4. /\ DefLocation \in Locations /\ DefLocation.literal /\ ~DefLocation.group
      /\ DefLocation.match = DefaultUri /\ GroupSet(DefLocation) /\ Plain(DefLocation)
  BY DEF DefLocation, Locations, Flags, GroupSet, Plain, Holds
<1>5. /\ ports \in Seq(Ports) /\ names \in Seq(NameSet) /\ indexFiles \in Seq(IndexSet)
      /\ locations \in Seq(Locations) /\ Len(ports) = 1 /\ Len(locations) = 1
      /\ Len(names) = 1 /\ Len(indexFiles) = 1
      /\ names[1] = DefaultName /\ indexFiles[1] = DefaultIndex
      /\ ports[1] = DefPort /\ locations[1] = DefLocation
  BY <1>1, <1>3, <1>4
<1>6. \A kind \in LogKinds : /\ logs[kind] = <<DefaultPath>> /\ currentLog[kind] = 0
                             /\ logFds[kind] = <<>> /\ danglingLogs[kind] = {}
  BY <1>1
<1>7. Len(<<>>) = 0 /\ 1..0 = {} /\ (\A i \in 1..1 : i = 1) /\ 0 + 1 = 1
  OBVIOUS
<1>11. Typed
  <2>1. logs \in [LogKinds -> Seq(PathSet)]
    BY <1>1, <1>3
  <2>2. currentLog \in [LogKinds -> Nat] /\ logFds \in [LogKinds -> Seq(Nat)]
    BY <1>1
  <2>3. danglingLogs \in [LogKinds -> SUBSET Nat]
    BY <1>1
  <2>4. servers \in Seq(Servers) /\ written \in Seq(Blocks)
    BY <1>1
  <2> QED
    BY <1>1, <1>2, <1>5, <2>1, <2>2, <2>3, <2>4 DEF Typed, Contexts
<1>12. ListsSaid
  <2>1. Len(Nums(ports)) = 1 /\ Nums(ports)[1] = DefaultPort
    <3>1. PICK one \in 1..Len(ports) : one = 1
      BY <1>5
    <3> QED
      BY <1>3, <1>5, <3>1, NumsFacts
  <2> QED
    BY <1>1, <1>2, <1>5, <1>7, <2>1 DEF ListsSaid, Mirrors
<1>13. LogsSaid
  BY <1>2, <1>6 DEF LogsSaid
<1>14. FdsFit
  BY <1>1, <1>6, <1>7 DEF FdsFit
<1>15. Pended
  <2>1. ~Contains(<<>>, DefaultName)
    BY DEF Contains
  <2>2. Holds(locations[1], {}) /\ Flagged(locations[1], "none", {})
    BY <1>4, <1>5 DEF Plain, Flagged, Groupers
  <2> QED
    BY <1>2, <1>5, <2>1, <2>2 DEF Pended
<1>16. DefaultKept
  BY <1>4, <1>5, <1>7 DEF DefaultKept, Last
<1>17. Contextual
  BY <1>1, <1>2, <1>5 DEF Contextual
<1>18. MatchesSaid
  BY <1>1, <1>2, <1>4, <1>5, <1>7 DEF MatchesSaid, Closed
<1>19. PortsFit
  BY <1>3, <1>5 DEF PortsFit
<1>20. ServersFit
  BY <1>1, <1>7 DEF ServersFit
<1>21. FatalKnown
  BY <1>1, <1>7 DEF FatalKnown
<1>22. Checked
  BY <1>1 DEF Checked, Accepted
<1> QED
  BY <1>11, <1>12, <1>13, <1>14, <1>15, <1>16, <1>17, <1>18, <1>19, <1>20, <1>21, <1>22 DEF IInv

LEMMA DirectiveKeeps ==
  ASSUME IInv, Directive
  PROVE  IInv'
<1>1. CASE \E n \in PortNums, opt \in {"plain", "ssl", "sslFirst"} : Listen(n, opt)
  BY <1>1, ListenKeeps
<1>2. CASE \E name \in Names : ServerName(name) \/ IndexFile(name)
  BY <1>2, ServerNameKeeps, IndexFileKeeps
<1>3. CASE ListenAny \/ Certificate
  BY <1>3, ListenAnyKeeps, CertificateKeeps
<1>4. CASE \E kind \in LogKinds : LogFileTwice(kind) \/ \E path \in Paths : LogFile(kind, path)
  BY <1>4, LogFileTwiceKeeps, LogFileKeeps
<1>5. CASE \E zero \in BOOLEAN : FastcgiParam(zero) \/ LocationParam(zero)
  BY <1>5, FastcgiParamKeeps, LocationParamKeeps
<1>6. CASE Root \/ ProxyPass \/ FastcgiPass \/ TryFiles
  BY <1>6, RootKeeps, PassesKeep, TryFilesKeeps
<1>7. CASE \E off \in BOOLEAN : Expires(off)
  BY <1>7, ExpiresKeeps
<1> QED
  BY <1>1, <1>2, <1>3, <1>4, <1>5, <1>6, <1>7 DEF Directive

LEMMA StepKeeps == IInv /\ [Next]_vars => IInv'
<1> SUFFICES ASSUME IInv, [Next]_vars
             PROVE  IInv'
  OBVIOUS
<1>1. CASE OpenServer \/ CloseServer \/ CloseHttp \/ CheckServers
  BY <1>1, OpenServerKeeps, CloseServerKeeps, CloseHttpKeeps, CheckServersKeeps
<1>2. CASE \E uri \in Uris : OpenLocation(uri)
  BY <1>2, OpenLocationKeeps
<1>3. CASE CloseLocation \/ Directive
  BY <1>3, CloseLocationKeeps, DirectiveKeeps
<1>4. CASE \E kind \in LogKinds : OpenLogFile(kind) \/ FollowDanglingLog(kind)
  BY <1>4, OpenLogFileKeeps, FollowDanglingLogKeeps
<1>5. CASE Ready \/ EnvironmentFails
  BY <1>5, ReadyKeeps, EnvironmentFailsKeeps
<1>6. CASE UNCHANGED vars
  BY <1>6, IdleKeeps
<1> QED
  BY <1>1, <1>2, <1>3, <1>4, <1>5, <1>6 DEF Next, Ended

\* The invariant holds in every reachable state of the parser.
THEOREM Invariance == Spec => []IInv
  BY InitKeeps, StepKeeps, PTL DEF Spec

-----------------------------------------------------------------------------
(* What follows from it *)

LEMMA TypeFollows ==
  ASSUME IInv
  PROVE  TypeOK
<1>1. /\ ctx \in Contexts /\ defaultServer \in BOOLEAN /\ vocabulary \in Vocabularies
      /\ certFile \in BOOLEAN /\ ports \in Seq(Ports) /\ names \in Seq(NameSet)
      /\ indexFiles \in Seq(IndexSet) /\ locations \in Seq(Locations)
      /\ logs \in [LogKinds -> Seq(PathSet)] /\ currentLog \in [LogKinds -> Nat]
      /\ logFds \in [LogKinds -> Seq(Nat)] /\ servers \in Seq(Servers) /\ written \in Seq(Blocks)
  BY DEF IInv, Typed
<1>2. ports # <<>> /\ locations # <<>>
  <2>1. Len(Nums(ports)) = Len(ports) /\ Len(ports) \in Nat
    BY <1>1, NumsFacts
  <2>2. said.listens \in Seq(PortNums)
    BY DEF IInv, Typed, Blocks
  <2>3. Len(ports) = Len(said.listens) + 1
    BY <2>1 DEF IInv, ListsSaid, Mirrors
  <2>4. Len(ports) # 0
    BY <2>1, <2>2, <2>3
  <2>5. Len(locations) >= 1
    BY DEF IInv, DefaultKept
  <2>6. ports # <<>>
    BY <2>4
  <2>7. locations # <<>>
    BY <1>1, <2>5
  <2> QED
    BY <2>6, <2>7
<1>3. /\ names # <<>> /\ Last(names) = DefaultName
      /\ indexFiles # <<>> /\ Last(indexFiles) = DefaultIndex
  <2>1. said.names \in Seq(NameSet) /\ said.index \in Seq(Names)
    BY DEF IInv, Typed, Blocks
  <2>2. /\ Len(names) = Len(said.names) + 1 /\ names[Len(names)] = DefaultName
        /\ Len(indexFiles) = Len(said.index) + 1 /\ indexFiles[Len(indexFiles)] = DefaultIndex
    BY DEF IInv, ListsSaid, Mirrors
  <2>3. Len(names) # 0 /\ Len(indexFiles) # 0
    BY <2>1, <2>2
  <2> QED
    BY <2>2, <2>3 DEF Last
<1>4. ASSUME NEW kind \in LogKinds
      PROVE  /\ logs[kind] \in Seq(Paths \cup {DefaultPath}) /\ logs[kind] # <<>>
             /\ currentLog[kind] \in 0..Len(logs[kind])
             /\ logFds[kind] \in Seq(Nat)
             /\ danglingLogs[kind] \subseteq 1..Len(logs[kind])
  <2>1. logs[kind] \in Seq(PathSet) /\ currentLog[kind] \in Nat /\ logFds[kind] \in Seq(Nat)
    BY <1>1
  <2>2. Len(logs[kind]) >= 1 /\ currentLog[kind] <= Len(logs[kind])
    BY DEF IInv, LogsSaid
  <2>3. logs[kind] # <<>>
    BY <2>1, <2>2
  <2>4. \A i \in danglingLogs[kind] : i \in 1..Len(logs[kind])
    BY DEF IInv, FdsFit
  <2> QED
    BY <2>1, <2>2, <2>3, <2>4 DEF PathSet
<1>5. ASSUME NEW k \in DOMAIN servers
      PROVE  /\ servers[k].ports \in Seq(Ports) /\ servers[k].ports # <<>>
             /\ servers[k].locations \in Seq(Locations) /\ servers[k].locations # <<>>
             /\ \A kind \in LogKinds : servers[k].log[kind] \in 1..Len(logs[kind])
             /\ servers[k].block \in 0..Len(written)
  <2>1. k \in 1..Len(servers) /\ servers[k] \in Servers
    BY <1>1
  <2>2. ServerFits(servers[k])
    BY <2>1 DEF IInv, ServersFit
  <2>3. servers[k].block \in 0..Len(written)
    <3>1. servers[k].block = 0 \/ servers[k].block \in 1..Len(written)
      BY <2>2 DEF ServerFits
    <3>2. Len(written) \in Nat
      BY <1>1
    <3> QED
      BY <3>1, <3>2
  <2> QED
    BY <2>1, <2>2, <2>3 DEF ServerFits, Servers
<1> QED
  BY <1>1, <1>2, <1>3, <1>4, <1>5 DEF TypeOK

\* The global lists, logs and servers have their types, every list ends in its
\* default, and positions of logs and blocks are in range.
THEOREM TypeCorrect == Spec => []TypeOK
  BY Invariance, TypeFollows, PTL

\* Of a set of natural numbers the least is found.
LEMMA Least ==
  ASSUME NEW T, T \subseteq Nat, T # {}
  PROVE  \E m \in T : \A k \in T : m <= k
<1> DEFINE R == OpToRel(<, Nat)
<1>1. IsWellFoundedOn(R, Nat)
  BY NatLessThanWellFounded
<1>2. \A x, y \in Nat : <<x, y>> \in R <=> x < y
  BY DEF OpToRel
<1> HIDE DEF R
<1>3. PICK m \in T : \A y \in T : ~ (<<y, m>> \in R)
  BY <1>1, WFMin
<1>4. \A y \in T : ~ (y < m)
  BY <1>2, <1>3
<1> QED
  BY <1>4

\* The domains that the properties range over.
LEMMA ServerDomains ==
  ASSUME IInv
  PROVE  /\ DOMAIN servers = 1..Len(servers) /\ Len(servers) \in Nat
         /\ DOMAIN written = 1..Len(written) /\ Len(written) \in Nat
         /\ \A k \in 1..Len(servers) :
              /\ DOMAIN servers[k].ports = 1..Len(servers[k].ports)
              /\ DOMAIN servers[k].locations = 1..Len(servers[k].locations)
              /\ ServerFits(servers[k])
<1>1. servers \in Seq(Servers) /\ written \in Seq(Blocks)
  BY DEF IInv, Typed
<1>2. ASSUME NEW k \in 1..Len(servers)
      PROVE  /\ DOMAIN servers[k].ports = 1..Len(servers[k].ports)
             /\ DOMAIN servers[k].locations = 1..Len(servers[k].locations)
             /\ ServerFits(servers[k])
  <2>1. servers[k] \in Servers
    BY <1>1
  <2>2. servers[k].ports \in Seq(Ports) /\ servers[k].locations \in Seq(Locations)
    BY <2>1 DEF Servers
  <2>3. ServerFits(servers[k])
    BY DEF IInv, ServersFit
  <2> QED
    BY <2>2, <2>3
<1> QED
  BY <1>1, <1>2

LEMMA PortsFollow ==
  ASSUME IInv
  PROVE  PortsConsistent
<1> SUFFICES ASSUME Accepted, NEW k \in DOMAIN servers, NEW i \in DOMAIN servers[k].ports
             PROVE  /\ \A m \in DOMAIN servers : \A j \in DOMAIN servers[m].ports :
                         servers[k].ports[i].portNum = servers[m].ports[j].portNum
                           => servers[k].ports[i].tls = servers[m].ports[j].tls
                    /\ Certified /\ servers[k].ports[i].tls
                         => CertificateFor(servers[k].ports[i].portNum)
  BY DEF PortsConsistent
<1>1. /\ DOMAIN servers = 1..Len(servers) /\ Len(servers) \in Nat
      /\ DOMAIN written = 1..Len(written) /\ Len(written) \in Nat
      /\ \A m \in 1..Len(servers) : /\ DOMAIN servers[m].ports = 1..Len(servers[m].ports)
                                    /\ ServerFits(servers[m])
  BY ServerDomains
<1>2. ASSUME NEW m \in DOMAIN servers, NEW j \in DOMAIN servers[m].ports,
             servers[k].ports[i].portNum = servers[m].ports[j].portNum
      PROVE  servers[k].ports[i].tls = servers[m].ports[j].tls
  <2>1. \A x, y \in 1..Len(servers) :
          \A p \in 1..Len(servers[x].ports), q \in 1..Len(servers[y].ports) :
            servers[x].ports[p].portNum = servers[y].ports[q].portNum =>
              servers[x].ports[p].tls = servers[y].ports[q].tls
    BY DEF IInv, Checked
  <2>2. /\ k \in 1..Len(servers) /\ m \in 1..Len(servers)
        /\ i \in 1..Len(servers[k].ports) /\ j \in 1..Len(servers[m].ports)
    BY <1>1
  <2> QED
    BY <1>2, <2>1, <2>2
<1>3. ASSUME Certified, servers[k].ports[i].tls
      PROVE  CertificateFor(servers[k].ports[i].portNum)
  <2> DEFINE n == servers[k].ports[i].portNum
             has == {m \in DOMAIN servers : \E j \in DOMAIN servers[m].ports :
                                              servers[m].ports[j].portNum = n}
             first == CHOOSE m \in has : \A l \in has : m <= l
  <2>1. k \in has /\ has \subseteq Nat
    BY <1>1
  <2>2. first \in has
    <3> HIDE DEF has
    <3>1. \E m \in has : \A l \in has : m <= l
      BY <2>1, Least
    <3> QED
      BY <3>1
  <2>3. CertificateFor(n) = servers[first].cert
    BY DEF CertificateFor
  <2> HIDE DEF first
  <2>4. PICK j \in DOMAIN servers[first].ports : servers[first].ports[j].portNum = n
    BY <2>2
  <2>5. first \in DOMAIN servers
    BY <2>2
  <2>6. servers[first].ports[j].tls
    BY <1>2, <1>3, <2>4, <2>5
  <2>7. ServerFits(servers[first])
    BY <1>1, <2>5
  <2>8. servers[first].block # 0
    <3> SUFFICES ASSUME servers[first].block = 0
                 PROVE  FALSE
      OBVIOUS
    <3>1. NoneEarly(written)
      BY <1>1, <1>3 DEF Certified, NoneEarly
    <3>2. j \in 1..Len(servers[first].ports)
      BY <1>1, <2>4, <2>5
    <3> QED
      BY <2>6, <2>7, <3>1, <3>2 DEF ServerFits
  <2>9. servers[first].cert = written[servers[first].block].cert
    BY <2>7, <2>8 DEF ServerFits, ListsKept
  <2>10. written[servers[first].block].cert
    BY <1>3, <2>4, <2>5, <2>6, <2>8 DEF Certified
  <2> QED
    BY <2>3, <2>9, <2>10
<1> QED
  BY <1>2, <1>3

\* In an accepted configuration a port is TLS for all servers or for none, and
\* configureContext finds a certificate for it when the servers name one.
THEOREM ConsistentPorts == Spec => []PortsConsistent
  BY Invariance, PortsFollow, PTL

LEMMA DirectivesFollow ==
  ASSUME IInv
  PROVE  OwnDirectives
<1> SUFFICES ASSUME NEW k \in DOMAIN servers, servers[k].block # 0
             PROVE  LET s == servers[k]
                        b == written[s.block]
                    IN  /\ [i \in DOMAIN s.ports |-> s.ports[i].portNum] = OrDefault(b.listens, DefaultPort)
                        /\ s.names = OrDefault(b.names, DefaultName)
                        /\ s.index = OrDefault(b.index, DefaultIndex)
                        /\ \A kind \in LogKinds : logs[kind][s.log[kind]] = b.logs[kind]
                        /\ Len(s.locations) = 1 /\ Holds(s.locations[1], b.asks)
                        /\ OwnUris => s.locations[1].match = IF b.uris = <<>> THEN DefaultUri
                                                             ELSE b.uris[Len(b.uris)].uri
  BY DEF OwnDirectives
<1> DEFINE s == servers[k]
           b == written[s.block]
<1>1. /\ DOMAIN servers = 1..Len(servers) /\ DOMAIN written = 1..Len(written) /\ Len(written) \in Nat
      /\ \A m \in 1..Len(servers) : /\ DOMAIN servers[m].locations = 1..Len(servers[m].locations)
                                    /\ ServerFits(servers[m])
  BY ServerDomains
<1>2. ServerFits(s) /\ DOMAIN s.locations = 1..Len(s.locations)
  BY <1>1
<1>3. /\ s.block \in 1..Len(written) /\ ListsKept(s, b)
      /\ \A kind \in LogKinds : logs[kind][s.log[kind]] = b.logs[kind]
      /\ OwnUpTo(written, s.block) => MatchesKept(s, b)
  BY <1>2 DEF ServerFits
<1>4. b.uris \in Seq(UriItems)
  <2>1. written \in Seq(Blocks)
    BY DEF IInv, Typed
  <2>2. b \in Blocks
    BY <1>3, <2>1
  <2> QED
    BY <2>2 DEF Blocks
<1>5. ASSUME OwnUris
      PROVE  MatchesKept(s, b)
  <2>1. OwnUpTo(written, s.block)
    <3>1. ASSUME NEW c \in 1..s.block, NEW u \in 1..Len(written[c].uris)
          PROVE  written[c].uris[u].own
      <4>1. c \in 1..Len(written)
        BY <1>1, <1>3
      <4>2. written[c].uris \in Seq(UriItems)
        <5>1. written[c] \in Blocks
          BY <4>1 DEF IInv, Typed
        <5> QED
          BY <5>1 DEF Blocks
      <4>3. u \in DOMAIN written[c].uris
        BY <4>2
      <4> QED
        BY <1>1, <1>5, <4>1, <4>3 DEF OwnUris
    <3> QED
      BY <3>1 DEF OwnUpTo
  <2> QED
    BY <1>3, <2>1
<1>6. Len(s.locations) = 1 /\ Holds(s.locations[1], b.asks)
  BY <1>2 DEF ServerFits
<1> QED
  BY <1>3, <1>5, <1>6 DEF ListsKept, MatchesKept

\* A server has the ports, names, index files and logs of its own block, and
\* one location with what the location directives of its own block ask for.
THEOREM DirectivesAreOwn == Spec => []OwnDirectives
  BY Invariance, DirectivesFollow, PTL

LEMMA TargetFollows ==
  ASSUME IInv
  PROVE  TargetKnown
<1> SUFFICES ASSUME Accepted, NEW k \in DOMAIN servers, NEW i \in DOMAIN servers[k].locations,
                    Handler(servers[k].locations[i]) \in {"proxy", "fastcgi"},
                    ~HasTarget(servers[k].locations[i])
             PROVE  /\ Handler(servers[k].locations[i]) = "fastcgi" /\ servers[k].block # 0
                    /\ written[servers[k].block].first = "root"
                    /\ "fastcgi_group" \in written[servers[k].block].asks
  BY DEF TargetKnown
<1>1. k \in 1..Len(servers) /\ i \in 1..Len(servers[k].locations) /\ ServerFits(servers[k])
  BY ServerDomains
<1> DEFINE s == servers[k]
           loc == s.locations[i]
<1>2. DocRootOk(loc)
  BY <1>1 DEF IInv, Checked
<1>3. GroupSet(loc)
  BY <1>1 DEF ServerFits
<1>4. /\ s.block = 0 => "FASTCGI_PASS" \notin loc.type
      /\ s.block # 0 => /\ Len(s.locations) = 1 /\ s.block \in 1..Len(written)
                        /\ Holds(s.locations[1], written[s.block].asks)
                        /\ Flagged(s.locations[1], written[s.block].first, written[s.block].asks)
  BY <1>1 DEF ServerFits
<1>5. s.block # 0 => /\ Holds(loc, written[s.block].asks)
                     /\ Flagged(loc, written[s.block].first, written[s.block].asks)
  <2>1. \A m \in 1..1 : m = 1
    OBVIOUS
  <2> QED
    BY <1>1, <1>4, <2>1
<1>6. s.block # 0 => /\ written[s.block].asks \subseteq LocationKinds
                     /\ written[s.block].first \in (LocationKinds \ {"expires"}) \cup {"none"}
  <2>1. written \in Seq(Blocks)
    BY DEF IInv, Typed
  <2>2. s.block # 0 => written[s.block] \in Blocks
    BY <1>4, <2>1
  <2> QED
    BY <2>2 DEF Blocks
<1> HIDE DEF loc
<1>7. Handler(loc) \in {"proxy", "fastcgi"} /\ ~HasTarget(loc)
  BY DEF loc
<1>8. "UPSTREAM_GROUP" \notin loc.type /\ ~loc.passTo
  BY <1>3, <1>7 DEF GroupSet, HasTarget
<1>9. "PROXY_PASS" \notin loc.type
  BY <1>2, <1>8 DEF DocRootOk
<1>10. "TRY_FILES" \notin loc.type /\ "FASTCGI_PASS" \in loc.type
  BY <1>7, <1>9 DEF Handler
<1>11. Handler(loc) = "fastcgi" /\ s.block # 0
  BY <1>4, <1>7, <1>9, <1>10 DEF Handler
<1>12. PICK a, f : a = written[s.block].asks /\ f = written[s.block].first
  OBVIOUS
<1>13. /\ Holds(loc, a) /\ Flagged(loc, f, a) /\ a \subseteq LocationKinds
       /\ f \in (LocationKinds \ {"expires"}) \cup {"none"}
  BY <1>5, <1>6, <1>11, <1>12
<1>14. a \cap {"proxy_host", "fastcgi_host"} = {} /\ "try_files" \notin a
  BY <1>8, <1>10, <1>13 DEF Holds
<1>15. "fastcgi_group" \in a
  BY <1>10, <1>13, <1>14 DEF Flagged
<1>16. f \in a /\ f \notin Groupers
  BY <1>8, <1>13, <1>15 DEF Flagged
<1>17. f = "root"
  BY <1>13, <1>14, <1>16 DEF LocationKinds, Groupers
<1> QED
  BY <1>11, <1>12, <1>15, <1>17 DEF loc

\* Of all the locations of an accepted configuration that go to an upstream, only
\* those of one shape lack it.
THEOREM TargetsAreKnown == Spec => []TargetKnown
  BY Invariance, TargetFollows, PTL

LEMMA SharingFollows ==
  ASSUME IInv
  PROVE  LogsShared
<1> SUFFICES ASSUME ctx = "ready", NEW kind \in LogKinds, NEW i \in DOMAIN logs[kind], NEW j \in DOMAIN logs[kind]
             PROVE  logs[kind][i] = logs[kind][j] <=> logFds[kind][i] = logFds[kind][j]
  BY DEF LogsShared
<1>1. DOMAIN logs[kind] = 1..Len(logs[kind])
  <2>1. logs \in [LogKinds -> Seq(PathSet)]
    BY DEF IInv, Typed
  <2>2. logs[kind] \in Seq(PathSet)
    BY <2>1
  <2> QED
    BY <2>2
<1> QED
  BY <1>1 DEF IInv, FdsFit

\* Once openLogFiles is done, logs share a descriptor exactly if they have the
\* same path.
THEOREM DescriptorsAreShared == Spec => []LogsShared
  BY Invariance, SharingFollows, PTL

LEMMA UndefinedFollows ==
  ASSUME IInv, DefaultName \notin Names
  PROVE  UndefinedExplained
<1>1. Fatal(said) => ctx = "undefined"
  BY SaidNotFatal
<1>2. DOMAIN written = 1..Len(written)
  BY ServerDomains
<1> QED
  BY <1>1, <1>2 DEF IInv, FatalKnown, UndefinedExplained

\* The parser frees what is not its own exactly after the directives that
\* UndefinedExplained lists, if no server is named `*`: after such a name one
\* `listen *` is enough, because dupName finds the name it has.
THEOREM UndefinedIsExplained ==
  ASSUME DefaultName \notin Names
  PROVE  Spec => []UndefinedExplained
<1>1. IInv => UndefinedExplained
  BY UndefinedFollows
<1> QED
  BY <1>1, Invariance, PTL
=============================================================================
