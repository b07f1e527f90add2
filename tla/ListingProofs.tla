--------------------------- MODULE ListingProofs ----------------------------
(***************************************************************************)
(* Proofs about Listing, as a part of Requests: the list of fragments is   *)
(* never a cycle, whatever threads do to it, and a listing that is alone   *)
(* has the list to itself.                                                 *)
(***************************************************************************)
EXTENDS RequestsProofs, SequenceTheorems

-----------------------------------------------------------------------------
(* The invariant *)

\* The workers that have made a node and not linked it yet.
Making == {w \in Workers : at[w] \in {"first", "walk", "link"}}

\* The nodes that the list, or a thread that is about to change it, points to.
Pointed ==
  {fragments} \cup {next[m] : m \in Nodes}
  \cup {page[v].prev : v \in {u \in Workers : at[u] = "link"}}
  \cup {page[v].nx : v \in {u \in Workers : at[u] = "advance"}}

\* A node that is not used, or not linked yet, is nowhere in the list.
HeapFits ==
  /\ \A n \in Nodes : mem[n] = "unused" => next[n] = NULL /\ n \notin Pointed
  /\ \A w \in Making : /\ mem[page[w].f] # "unused" /\ next[page[w].f] = NULL
                       /\ page[w].f \notin Pointed
  /\ \A v, w \in Making : page[v].f = page[w].f => v = w

\* What a thread has in hand at a stage of a listing.
InHand ==
  \A w \in Workers :
    /\ at[w] = "look" => page[w].left > 0
    /\ at[w] \in {"first", "walk", "link", "fill", "advance", "send"} => page[w].f \in Nodes
    /\ at[w] = "link" => page[w].prev \in Nodes

\* Ranks that grow along the list, up to b.
Ranked(nx, r, b) ==
  r \in [Nodes -> 0..b] /\ \A n \in Nodes : nx[n] # NULL => r[n] < r[nx[n]]

\* No node of the list comes after itself.
Acyclic == \E b \in Nat : \E r \in [Nodes -> 0..b] : Ranked(next, r, b)

\* The i-th of the first k nodes, NULL beyond.
Node(mine, k, i) == IF i \in 1..k THEN mine[i] ELSE NULL

\* How many nodes of its own a listing has linked.
LinkedBy(s, p) == IF s \in {"first", "walk", "link"} THEN Len(p.mine) - 1 ELSE Len(p.mine)

\* The list holds what a listing has made and not sent yet.
OnPath(s, p, fr, nx, mm) ==
  LET mine == p.mine
      k    == LinkedBy(s, p)
      b    == Len(p.body)
      new  == s \in {"first", "walk", "link", "fill"}
  IN  /\ \A i, j \in 1..Len(mine) : mine[i] = mine[j] => i = j
      /\ b <= k /\ \A i \in 1..b : p.body[i] = mine[i]
      /\ \A i \in 1..k : nx[mine[i]] = Node(mine, k, i + 1)
      /\ fr = Node(mine, k, IF s = "send" THEN b + 2 ELSE b + 1)
      /\ \A i \in b + 1 .. Len(mine) : mm[mine[i]] = IF new /\ i = Len(mine) THEN "raw" ELSE "filled"
      /\ new \/ s \in {"look", "count"} => b = 0
      /\ new => Len(mine) > 0 /\ p.f = mine[Len(mine)]
      /\ s = "first" => k = 0
      /\ s \in {"walk", "link"} => k > 0
      /\ s = "link" => p.prev = mine[k]
      /\ s \in {"test", "take", "advance", "send"} => p.counted = mine
      /\ s \in {"take", "advance", "send"} => b < k
      /\ s \in {"advance", "send"} => p.f = mine[b + 1]
      /\ s = "advance" => p.nx = Node(mine, k, b + 2)

\* A listing that is alone has the list to itself.
AloneFits ==
  \A w \in Listings : page[w].alone =>
    Listings = {w} /\ OnPath(at[w], page[w], fragments, next, mem)

HasListing(j) == \E i \in DOMAIN j.replies : j.replies[i].body = "listing"

\* A listing is the last response of its request, and exact if it was alone.
PagesSent == \A w \in Workers : HasListing(job[w]) => at[w] = "done" /\ Exact(w)

\* A listing that is alone ends the process only by SIGPIPE.
DeathsApart ==
  died.how \in {"null", "undefined"} /\ died.by \in Listings => ~page[died.by].alone

\* The location of a request is one of its server's.
OwnLocation(j) ==
  \/ j.loc = NoLocation
  \/ \E i \in DOMAIN servers[j.server].locations : servers[j.server].locations[i] = j.loc

OwnLocations == \A w \in Workers : OwnLocation(job[w])

\* Every file that is served is open.
FilesHeld == filesOpen \in Nat /\ filesOpen >= Cardinality(Serving(at))

ListFits == ListingTypeOK /\ HeapFits /\ InHand /\ Acyclic /\ AloneFits

RequestsFit == PagesSent /\ DeathsApart /\ OwnLocations /\ FilesHeld /\ requests \in 0..MaxRequests

LInv == IInv /\ ListFits /\ RequestsFit

-----------------------------------------------------------------------------
(* Walking along the list *)

\* f gives the nodes from each node on.
IsTail(f, nx) == f = [m \in 0..MaxNodes |-> IF m = NULL THEN <<>> ELSE <<m>> \o f[nx[m]]]

\* The nodes whose rank is one of the last k, and the end of the list.
LastRanks(r, b, k) == {m \in 0..MaxNodes : m = NULL \/ r[m] > b - k}

\* f gives the nodes from each node of D on.
TailOn(D, f, nx) ==
  f \in [D -> Seq(Nodes)] /\ \A m \in D : f[m] = IF m = NULL THEN <<>> ELSE <<m>> \o f[nx[m]]

\* Nodes are the numbers up to MaxNodes but NULL.
LEMMA NodesAre ==
  /\ MaxNodes \in Nat /\ Nodes \subseteq Nat /\ NULL \notin Nodes /\ NULL \in 0..MaxNodes
  /\ 0..MaxNodes = Nodes \cup {NULL}
<1>1. MaxNodes \in Nat
  BY ListingBounds
<1> QED
  BY <1>1 DEF Nodes, NULL

\* One rank more can be added to what is known of the tails.
LEMMA OneRankMore ==
  ASSUME NEW nx \in [Nodes -> Nodes \cup {NULL}], NEW b \in Nat, NEW r, Ranked(nx, r, b),
         NEW k \in Nat, NEW f, TailOn(LastRanks(r, b, k), f, nx)
  PROVE  \E g : TailOn(LastRanks(r, b, k + 1), g, nx)
<1> DEFINE D == LastRanks(r, b, k)
           E == LastRanks(r, b, k + 1)
           g == [m \in E |-> IF m = NULL THEN <<>> ELSE <<m>> \o f[nx[m]]]
<1>1. D \subseteq E /\ \A m \in E : m # NULL => m \in Nodes /\ nx[m] \in D
  <2>1. r \in [Nodes -> 0..b] /\ \A n \in Nodes : nx[n] # NULL => r[n] < r[nx[n]]
    BY DEF Ranked
  <2>2. D \subseteq E
    <3> SUFFICES ASSUME NEW m \in D, m # NULL
                 PROVE  r[m] > b - (k + 1)
      BY DEF LastRanks
    <3>1. m \in Nodes /\ r[m] > b - k
      BY NodesAre DEF LastRanks
    <3>2. r[m] \in Int
      BY <2>1, <3>1
    <3> QED
      BY <3>1, <3>2
  <2>3. ASSUME NEW m \in E, m # NULL
        PROVE  m \in Nodes /\ nx[m] \in D
    <3>1. m \in Nodes /\ r[m] > b - (k + 1)
      BY <2>3, NodesAre DEF LastRanks
    <3>2. CASE nx[m] = NULL
      BY <3>1, <3>2, NodesAre DEF LastRanks
    <3>3. CASE nx[m] # NULL
      <4>1. nx[m] \in Nodes /\ r[m] < r[nx[m]] /\ r[m] \in Int /\ r[nx[m]] \in Int
        BY <2>1, <3>1, <3>3
      <4>2. r[nx[m]] > b - k
        BY <3>1, <4>1
      <4> QED
        BY <3>1, <4>1, <4>2, NodesAre DEF LastRanks
    <3> QED
      BY <3>2, <3>3
  <2> QED
    BY <2>2, <2>3
<1> HIDE DEF D, E
<1>2. f \in [D -> Seq(Nodes)] /\ \A m \in D : f[m] = IF m = NULL THEN <<>> ELSE <<m>> \o f[nx[m]]
  BY DEF TailOn, D
<1>3. \A m \in D : g[m] = f[m]
  BY <1>1, <1>2
<1>4. ASSUME NEW m \in E
      PROVE  g[m] \in Seq(Nodes) /\ g[m] = IF m = NULL THEN <<>> ELSE <<m>> \o g[nx[m]]
  <2>1. CASE m = NULL
    BY <2>1
  <2>2. CASE m # NULL
    <3>1. m \in Nodes /\ nx[m] \in D
      BY <1>1, <2>2
    <3>2. g[nx[m]] = f[nx[m]] /\ f[nx[m]] \in Seq(Nodes)
      BY <1>2, <1>3, <3>1
    <3>3. <<m>> \in Seq(Nodes)
      BY <3>1
    <3>4. g[m] = <<m>> \o f[nx[m]]
      BY <2>2
    <3>5. <<m>> \o f[nx[m]] \in Seq(Nodes)
      BY <3>2, <3>3
    <3> QED
      BY <2>2, <3>2, <3>4, <3>5
  <2> QED
    BY <2>1, <2>2
<1>5. g = [m \in E |-> g[m]]
  OBVIOUS
<1> HIDE DEF g
<1>6. g \in [E -> Seq(Nodes)]
  BY <1>4, <1>5
<1>7. TailOn(E, g, nx)
  BY <1>4, <1>6 DEF TailOn
<1> QED
  BY <1>7 DEF E

\* If the list is acyclic, walking along it is well defined.
LEMMA TailExists ==
  ASSUME NEW nx \in [Nodes -> Nodes \cup {NULL}], NEW b \in Nat, NEW r, Ranked(nx, r, b)
  PROVE  \E f : IsTail(f, nx)
<1> DEFINE T == {k \in Nat : ~ \E f : TailOn(LastRanks(r, b, k), f, nx)}
<1>1. 0 \notin T
  <2> DEFINE f == [m \in {NULL} |-> <<>>]
  <2>1. LastRanks(r, b, 0) = {NULL}
    <3>1. \A m \in Nodes : r[m] \in 0..b
      BY DEF Ranked
    <3>2. \A m \in Nodes : ~ (r[m] > b - 0)
      BY <3>1
    <3> QED
      BY <3>2, NodesAre DEF LastRanks
  <2>2. f \in [{NULL} -> Seq(Nodes)]
    OBVIOUS
  <2>3. TailOn({NULL}, f, nx)
    BY <2>2 DEF TailOn
  <2> QED
    BY <2>1, <2>3
<1>2. T = {}
  <2> SUFFICES ASSUME T # {}
               PROVE  FALSE
    OBVIOUS
  <2>1. PICK k \in T : \A j \in T : k <= j
    <3>1. T \subseteq Nat
      OBVIOUS
    <3> HIDE DEF T
    <3> QED
      BY <3>1, Least
  <2>2. k \in Nat /\ k # 0
    BY <1>1, <2>1
  <2>3. PICK i \in Nat : k = i + 1
    <3>1. k - 1 \in Nat /\ k = (k - 1) + 1
      BY <2>2
    <3> QED
      BY <3>1
  <2>4. i \notin T
    <3>1. ~ (k <= i)
      BY <2>3
    <3> QED
      BY <2>1, <3>1
  <2>5. \E f : TailOn(LastRanks(r, b, i), f, nx)
    BY <2>3, <2>4
  <2>6. \E f : TailOn(LastRanks(r, b, i + 1), f, nx)
    BY <2>3, <2>5, OneRankMore
  <2> QED
    BY <2>1, <2>3, <2>6
<1>3. b + 1 \in Nat /\ b + 1 \notin T
  BY <1>2
<1>4. PICK f : TailOn(LastRanks(r, b, b + 1), f, nx)
  BY <1>3
<1>5. LastRanks(r, b, b + 1) = 0..MaxNodes
  <2>1. \A m \in Nodes : r[m] \in 0..b
    BY DEF Ranked
  <2>2. \A m \in Nodes : r[m] > b - (b + 1)
    BY <2>1
  <2> QED
    BY <2>2, NodesAre DEF LastRanks
<1>6. f = [m \in 0..MaxNodes |-> IF m = NULL THEN <<>> ELSE <<m>> \o f[nx[m]]]
  BY <1>4, <1>5 DEF TailOn
<1> QED
  BY <1>6 DEF IsTail

\* Among some nodes there is one that none of them comes right after.
LEMMA LastOne ==
  ASSUME NEW nx \in [Nodes -> Nodes \cup {NULL}], NEW b \in Nat, NEW r, Ranked(nx, r, b),
         NEW S, S \subseteq Nodes, S # {}
  PROVE  \E n \in S : nx[n] \notin S
<1> DEFINE T == {b - r[n] : n \in S}
<1>1. \A n \in S : r[n] \in 0..b
  BY DEF Ranked
<1>2. T \subseteq Nat /\ T # {}
  BY <1>1
<1>3. PICK t \in T : \A u \in T : t <= u
  <2> HIDE DEF T
  <2> QED
    BY <1>2, Least
<1>4. PICK n \in S : t = b - r[n]
  BY <1>3
<1>5. ASSUME nx[n] \in S
      PROVE  FALSE
  <2>1. nx[n] # NULL
    BY <1>5, NodesAre
  <2>2. r[n] < r[nx[n]]
    BY <1>4, <2>1 DEF Ranked
  <2>3. b - r[n] <= b - r[nx[n]]
    BY <1>3, <1>4, <1>5
  <2> QED
    BY <1>1, <1>4, <1>5, <2>2, <2>3
<1> QED
  BY <1>5

\* What a walk from node n finds.
Walked(s, n) == /\ s \in Seq(Nodes) /\ (n # NULL => s # <<>>)
                /\ \A i \in DOMAIN s : s[i] = n \/ \E m \in Nodes : next[m] = s[i]

\* A walk finds nodes, the first of which it starts from, while the list
\* points to the others.
LEMMA WalkFinds ==
  ASSUME NEW nx \in [Nodes -> Nodes \cup {NULL}], NEW b \in Nat, NEW r, Ranked(nx, r, b),
         NEW f, IsTail(f, nx), NEW n \in 0..MaxNodes
  PROVE  /\ f[n] \in Seq(Nodes) /\ (n # NULL => f[n] # <<>>)
         /\ \A i \in DOMAIN f[n] : f[n][i] = n \/ \E m \in Nodes : nx[m] = f[n][i]
<1> DEFINE Fine(m) == /\ f[m] \in Seq(Nodes) /\ (m # NULL => f[m] # <<>>)
                      /\ \A i \in DOMAIN f[m] : f[m][i] = m \/ \E q \in Nodes : nx[q] = f[m][i]
           S == {m \in Nodes : ~Fine(m)}
<1>1. f[NULL] = <<>> /\ \A m \in Nodes : f[m] = <<m>> \o f[nx[m]]
  BY NodesAre DEF IsTail
<1>2. Fine(NULL)
  BY <1>1
<1>3. ASSUME NEW m \in Nodes, Fine(nx[m])
      PROVE  Fine(m)
  <2> DEFINE s == f[nx[m]]
             t == <<m>> \o s
  <2>1. s \in Seq(Nodes) /\ f[m] = t /\ <<m>> \in Seq(Nodes)
    BY <1>1, <1>3
  <2>2. \A i \in DOMAIN s : s[i] = nx[m] \/ \E q \in Nodes : nx[q] = s[i]
    BY <1>3
  <2> HIDE DEF s
  <2>3. /\ t \in Seq(Nodes) /\ Len(t) = Len(s) + 1 /\ DOMAIN t = 1..Len(s) + 1 /\ Len(s) \in Nat
        /\ DOMAIN s = 1..Len(s)
    BY <2>1
  <2>4. \A i \in 1..Len(s) + 1 : t[i] = IF i = 1 THEN m ELSE s[i - 1]
    BY <2>1
  <2>5. \A i \in DOMAIN t : t[i] = m \/ \E q \in Nodes : nx[q] = t[i]
    <3> SUFFICES ASSUME NEW i \in 1..Len(s) + 1, i # 1
                 PROVE  \E q \in Nodes : nx[q] = t[i]
      BY <2>3, <2>4
    <3>1. i - 1 \in DOMAIN s /\ t[i] = s[i - 1]
      BY <2>3, <2>4
    <3>2. s[i - 1] = nx[m] \/ \E q \in Nodes : nx[q] = s[i - 1]
      BY <2>2, <3>1
    <3> QED
      BY <3>1, <3>2
  <2>6. t # <<>>
    BY <2>3
  <2> HIDE DEF t
  <2> QED
    BY <2>1, <2>3, <2>5, <2>6
<1> HIDE DEF Fine
<1>4. S = {}
  <2> SUFFICES ASSUME S # {}
               PROVE  FALSE
    OBVIOUS
  <2>1. PICK m \in S : nx[m] \notin S
    <3>1. S \subseteq Nodes
      OBVIOUS
    <3> HIDE DEF S
    <3> QED
      BY <3>1, LastOne
  <2>2. Fine(nx[m])
    BY <1>2, <2>1
  <2> QED
    BY <1>3, <2>1, <2>2
<1>5. Fine(n)
  BY <1>2, <1>4, NodesAre
<1> QED
  BY <1>5 DEF Fine

LEMMA ChainFinds ==
  ASSUME next \in [Nodes -> Nodes \cup {NULL}], Acyclic, NEW n \in Nodes \cup {NULL}
  PROVE  Walked(Chain(n), n)
<1>1. PICK b \in Nat : \E r \in [Nodes -> 0..b] : Ranked(next, r, b)
  BY DEF Acyclic
<1>2. PICK r : Ranked(next, r, b)
  BY <1>1
<1>3. PICK g : IsTail(g, next)
  BY <1>2, TailExists
<1>4. PICK f : IsTail(f, next) /\ Chain(n) = f[n]
  BY <1>3 DEF Chain, IsTail
<1>5. n \in 0..MaxNodes
  BY NodesAre
<1> QED
  BY <1>2, <1>4, <1>5, WalkFinds DEF Walked

\* A walk from the first of some nodes that follow each other finds these.
LEMMA WalkAlong ==
  ASSUME NEW nx \in [Nodes -> Nodes \cup {NULL}], NEW f, IsTail(f, nx),
         NEW mine \in Seq(Nodes), NEW k \in 0..Len(mine),
         \A i \in 1..k : nx[mine[i]] = Node(mine, k, i + 1)
  PROVE  f[Node(mine, k, 1)] = SubSeq(mine, 1, k)
<1> DEFINE Q(i) == f[Node(mine, k, i)] = SubSeq(mine, i, k)
           T    == {j \in 0..k : \E i \in 1..k + 1 : i + j = k + 1 /\ ~Q(i)}
<1>1. f[NULL] = <<>> /\ \A m \in Nodes : f[m] = <<m>> \o f[nx[m]]
  BY NodesAre DEF IsTail
<1>2. Len(mine) \in Nat /\ k \in Nat /\ \A i \in 1..k : mine[i] \in Nodes
  OBVIOUS
<1>3. Q(k + 1)
  <2>1. Node(mine, k, k + 1) = NULL
    BY <1>2 DEF Node
  <2>2. SubSeq(mine, k + 1, k) = <<>>
    BY <1>2
  <2> QED
    BY <1>1, <2>1, <2>2
<1>4. ASSUME NEW i \in 1..k, Q(i + 1)
      PROVE  Q(i)
  <2>1. Node(mine, k, i) = mine[i] /\ mine[i] \in Nodes
    BY <1>2 DEF Node
  <2>2. f[mine[i]] = <<mine[i]>> \o SubSeq(mine, i + 1, k)
    BY <1>1, <1>4, <2>1
  <2>3. <<mine[i]>> \o SubSeq(mine, i + 1, k) = SubSeq(mine, i, k)
    <3> DEFINE s == SubSeq(mine, i + 1, k)
               t == SubSeq(mine, i, k)
    <3>1. /\ s \in Seq(Nodes) /\ Len(s) = k - i /\ \A j \in 1..k - i : s[j] = mine[i + j]
          /\ t \in Seq(Nodes) /\ Len(t) = k - i + 1 /\ \A j \in 1..k - i + 1 : t[j] = mine[i + j - 1]
      BY <1>2
    <3> HIDE DEF s, t
    <3>2. <<mine[i]>> \o s \in Seq(Nodes) /\ Len(<<mine[i]>> \o s) = k - i + 1
      BY <2>1, <3>1
    <3>3. ASSUME NEW j \in 1..k - i + 1
          PROVE  (<<mine[i]>> \o s)[j] = t[j]
      <4>1. CASE j = 1
        BY <2>1, <3>1, <4>1
      <4>2. CASE j # 1
        <5>1. j - 1 \in 1..k - i /\ i + (j - 1) = i + j - 1
          BY <4>2
        <5>2. (<<mine[i]>> \o s)[j] = s[j - 1]
          BY <3>1, <5>1
        <5>3. s[j - 1] = mine[i + (j - 1)]
          BY <3>1, <5>1
        <5> QED
          BY <3>1, <5>1, <5>2, <5>3
      <4> QED
        BY <4>1, <4>2
    <3>4. <<mine[i]>> \o s = t
      BY <3>1, <3>2, <3>3, SeqEqual
    <3> QED
      BY <3>4 DEF s, t
  <2> QED
    BY <2>1, <2>2, <2>3
<1> HIDE DEF Q
<1>5. T = {}
  <2> SUFFICES ASSUME T # {}
               PROVE  FALSE
    OBVIOUS
  <2>1. PICK j \in T : \A i \in T : j <= i
    <3>1. T \subseteq Nat
      BY <1>2
    <3> HIDE DEF T
    <3> QED
      BY <3>1, Least
  <2>2. PICK i \in 1..k + 1 : i + j = k + 1 /\ ~Q(i)
    BY <2>1
  <2>3. j \in 0..k /\ i # k + 1
    BY <1>3, <2>1, <2>2
  <2>4. i \in 1..k /\ j - 1 \in 0..k /\ (i + 1) + (j - 1) = k + 1 /\ i + 1 \in 1..k + 1
    BY <1>2, <2>2, <2>3
  <2>5. j - 1 \notin T
    <3>1. ~ (j <= j - 1)
      BY <1>2, <2>3
    <3> HIDE DEF T
    <3> QED
      BY <2>1, <3>1
  <2>6. Q(i + 1)
    BY <2>4, <2>5
  <2> QED
    BY <1>4, <2>2, <2>4, <2>6
<1>6. Q(1)
  <2>1. k \in 0..k /\ 1 \in 1..k + 1 /\ 1 + k = k + 1
    BY <1>2
  <2> QED
    BY <1>5, <2>1
<1> QED
  BY <1>6 DEF Q

LEMMA ChainAlong ==
  ASSUME next \in [Nodes -> Nodes \cup {NULL}], Acyclic,
         NEW mine \in Seq(Nodes), NEW k \in 0..Len(mine),
         \A i \in 1..k : next[mine[i]] = Node(mine, k, i + 1)
  PROVE  Chain(Node(mine, k, 1)) = SubSeq(mine, 1, k)
<1>1. PICK b \in Nat : \E r \in [Nodes -> 0..b] : Ranked(next, r, b)
  BY DEF Acyclic
<1>2. PICK r : Ranked(next, r, b)
  BY <1>1
<1>3. PICK g : IsTail(g, next)
  BY <1>2, TailExists
<1>4. PICK f : IsTail(f, next) /\ Chain(Node(mine, k, 1)) = f[Node(mine, k, 1)]
  BY <1>3 DEF Chain, IsTail
<1> QED
  BY <1>4, WalkAlong

-----------------------------------------------------------------------------
(* Nodes that are not linked yet *)

\* What the types and the invariant say of one worker's page.
LEMMA PageFacts ==
  ASSUME ListFits, NEW w \in Workers
  PROVE  /\ page[w] \in Pages /\ page \in [Workers -> Pages]
         /\ page[w].left \in 0..MaxEntries /\ page[w].f \in Nodes \cup {NULL}
         /\ page[w].prev \in Nodes \cup {NULL} /\ page[w].nx \in Nodes \cup {NULL}
         /\ page[w].mine \in Seq(Nodes) /\ page[w].counted \in Seq(Nodes \cup {NULL})
         /\ page[w].body \in Seq(Nodes)
         /\ next \in [Nodes -> Nodes \cup {NULL}] /\ fragments \in Nodes \cup {NULL}
         /\ mem \in [Nodes -> {"unused", "raw", "filled", "freed"}]
<1>1. page \in [Workers -> Pages]
  BY DEF ListFits, ListingTypeOK
<1>2. page[w] \in Pages
  BY <1>1
<1>3. /\ next \in [Nodes -> Nodes \cup {NULL}] /\ fragments \in Nodes \cup {NULL}
      /\ mem \in [Nodes -> {"unused", "raw", "filled", "freed"}]
  BY DEF ListFits, ListingTypeOK
<1> QED
  BY <1>1, <1>2, <1>3 DEF Pages

\* A step that links only nodes of N, which no other thread is about to link,
\* and changes only the next fields of nodes that are linked.
LEMMA HeapMoves ==
  ASSUME HeapFits, NEW N, Pointed' \subseteq Pointed \cup N,
         \A n \in N \cap Nodes : mem[n] # "unused",
         Making' \subseteq Making,
         \A v \in Making' : page'[v].f = page[v].f /\ page[v].f \notin N /\ page[v].f \in Nodes,
         \A n \in Nodes : mem'[n] = "unused" => mem[n] = "unused",
         \A n \in Nodes : next'[n] = next[n] \/ n \in Pointed
  PROVE  HeapFits'
<1>1. ASSUME NEW n \in Nodes, mem'[n] = "unused"
      PROVE  next'[n] = NULL /\ n \notin Pointed'
  <2>1. mem[n] = "unused" /\ next[n] = NULL /\ n \notin Pointed /\ n \notin N
    BY <1>1 DEF HeapFits
  <2> QED
    BY <2>1
<1>2. ASSUME NEW v \in Making'
      PROVE  mem'[page'[v].f] # "unused" /\ next'[page'[v].f] = NULL /\ page'[v].f \notin Pointed'
  <2>1. v \in Making /\ page'[v].f = page[v].f /\ page[v].f \notin N /\ page[v].f \in Nodes
    BY <1>2
  <2>2. mem[page[v].f] # "unused" /\ next[page[v].f] = NULL /\ page[v].f \notin Pointed
    BY <2>1 DEF HeapFits
  <2> QED
    BY <2>1, <2>2
<1>3. ASSUME NEW v \in Making', NEW w \in Making', page'[v].f = page'[w].f
      PROVE  v = w
  <2>1. page[v].f = page[w].f /\ v \in Making /\ w \in Making
    BY <1>3
  <2> QED
    BY <2>1 DEF HeapFits
<1> QED
  BY <1>1, <1>2, <1>3 DEF HeapFits

\* Nobody else is about to link the node of a thread.
LEMMA OwnNode ==
  ASSUME ListFits, NEW w \in Making
  PROVE  /\ w \in Workers /\ page[w].f \in Nodes
         /\ mem[page[w].f] # "unused" /\ next[page[w].f] = NULL /\ page[w].f \notin Pointed
         /\ \A v \in Making : v # w => page[v].f # page[w].f
<1>1. w \in Workers /\ at[w] \in {"first", "walk", "link"}
  BY DEF Making
<1>2. HeapFits /\ InHand
  BY DEF ListFits
<1>3. page[w].f \in Nodes
  BY <1>1, <1>2 DEF InHand
<1> QED
  BY <1>1, <1>2, <1>3 DEF HeapFits

\* The list stays acyclic if only a node is linked that is the last one itself
\* and comes after no other.
LEMMA LinkKeepsAcyclic ==
  ASSUME NEW nx \in [Nodes -> Nodes \cup {NULL}], NEW b \in Nat, NEW r, Ranked(nx, r, b),
         NEW m \in Nodes, NEW n \in Nodes, n # m, nx[n] = NULL, \A q \in Nodes : nx[q] # n
  PROVE  \E c \in Nat : \E s \in [Nodes -> 0..c] : Ranked([nx EXCEPT ![m] = n], s, c)
<1> DEFINE c == b + 1
           s == [r EXCEPT ![n] = r[m] + 1]
           ny == [nx EXCEPT ![m] = n]
<1>1. r \in [Nodes -> 0..b] /\ \A q \in Nodes : nx[q] # NULL => r[q] < r[nx[q]]
  BY DEF Ranked
<1>2. c \in Nat /\ r[m] + 1 \in 0..c /\ \A q \in Nodes : r[q] \in 0..c /\ r[q] \in Int
  BY <1>1
<1>3. s \in [Nodes -> 0..c]
  BY <1>1, <1>2
<1>4. ASSUME NEW q \in Nodes, ny[q] # NULL
      PROVE  s[q] < s[ny[q]]
  <2>1. CASE q = m
    BY <1>1, <1>2, <2>1
  <2>2. CASE q # m
    <3>1. ny[q] = nx[q] /\ q # n /\ nx[q] # n /\ nx[q] \in Nodes
      BY <1>4, <2>2
    <3>2. s[q] = r[q] /\ s[nx[q]] = r[nx[q]]
      BY <1>1, <3>1
    <3> QED
      BY <1>1, <1>4, <3>1, <3>2
  <2> QED
    BY <2>1, <2>2
<1>5. Ranked(ny, s, c)
  BY <1>3, <1>4 DEF Ranked
<1> QED
  BY <1>2, <1>3, <1>5

\* A step of a listing that is alone is the only thing that happens to the list.
LEMMA AloneMoves ==
  ASSUME AloneFits, at \in [Workers -> Stages], NEW w \in Listings, NEW s \in ListingStages,
         Goto(w, s), \A v \in Workers : page'[v].alone = page[v].alone,
         page[w].alone /\ OnPath(at[w], page[w], fragments, next, mem)
           => OnPath(s, page'[w], fragments', next', mem')
  PROVE  AloneFits'
<1>1. w \in Workers /\ at[w] \in ListingStages
  BY DEF Listings
<1>2. \A v \in Workers : at'[v] = IF v = w THEN s ELSE at[v]
  BY <1>1 DEF Goto
<1>3. Listings' = Listings
  BY <1>1, <1>2 DEF Listings
<1>4. ASSUME NEW v \in Listings, page[v].alone
      PROVE  /\ Listings' = {v}
             /\ OnPath(at'[v], page'[v], fragments', next', mem')
  <2>1. Listings = {v} /\ OnPath(at[v], page[v], fragments, next, mem)
    BY <1>4 DEF AloneFits
  <2>2. v = w
    BY <2>1
  <2>3. OnPath(s, page'[w], fragments', next', mem')
    BY <1>4, <2>1, <2>2
  <2> QED
    BY <1>1, <1>2, <1>3, <2>1, <2>2, <2>3
<1>5. \A v \in Listings' : v \in Listings /\ (page'[v].alone => page[v].alone)
  BY <1>3 DEF Listings
<1> QED
  BY <1>4, <1>5 DEF AloneFits

-----------------------------------------------------------------------------
(* What the steps of a listing that is alone do to its list *)

Heaps == [Nodes -> {"unused", "raw", "filled", "freed"}]

LEMMA PathLook ==
  ASSUME NEW p \in Pages, NEW fr, NEW nx, NEW mm \in Heaps, OnPath("look", p, fr, nx, mm),
         NEW n \in Nodes, mm[n] = "unused"
  PROVE  OnPath(IF fr = NULL THEN "first" ELSE "walk",
                [p EXCEPT !.left = @ - 1, !.f = n, !.mine = Append(@, n)], fr, nx,
                [mm EXCEPT ![n] = "raw"])
<1> DEFINE mine == p.mine
           L    == Len(mine)
           own  == Append(mine, n)
           q    == [p EXCEPT !.left = @ - 1, !.f = n, !.mine = Append(@, n)]
           s    == IF fr = NULL THEN "first" ELSE "walk"
           mn   == [mm EXCEPT ![n] = "raw"]
<1>1. mine \in Seq(Nodes) /\ L \in Nat /\ \A i \in 1..L : mine[i] \in Nodes
  BY DEF Pages
<1>2. /\ \A i, j \in 1..L : mine[i] = mine[j] => i = j
      /\ \A i \in 1..L : nx[mine[i]] = Node(mine, L, i + 1)
      /\ Len(p.body) = 0 /\ fr = Node(mine, L, 1)
      /\ \A i \in 1..L : mm[mine[i]] = "filled"
  <2>1. LinkedBy("look", p) = L /\ Len(p.body) = 0
    BY DEF LinkedBy, OnPath
  <2> QED
    BY <1>1, <2>1 DEF OnPath
<1>3. q.mine = own /\ q.body = p.body /\ q.f = n
  BY DEF Pages
<1>4. /\ Len(own) = L + 1 /\ own \in Seq(Nodes) /\ own[L + 1] = n
      /\ \A i \in 1..L : own[i] = mine[i] /\ own[i] # n
  BY <1>1, <1>2
<1>5. LinkedBy(s, q) = L /\ s \in {"first", "walk"}
  BY <1>1, <1>3, <1>4 DEF LinkedBy
<1> HIDE DEF q, own
<1>6. \A i, j \in 1..L + 1 : own[i] = own[j] => i = j
  BY <1>1, <1>2, <1>4
<1>7. \A i \in 1..L : nx[own[i]] = Node(own, L, i + 1)
  BY <1>1, <1>2, <1>4 DEF Node
<1>8. fr = Node(own, L, 1) /\ (fr = NULL <=> L = 0)
  BY <1>1, <1>2, <1>4, NodesAre DEF Node
<1>9. \A i \in 1..L + 1 : mn[own[i]] = IF i = L + 1 THEN "raw" ELSE "filled"
  <2>1. mn[n] = "raw" /\ \A m \in Nodes : m # n => mn[m] = mm[m]
    BY DEF Heaps
  <2> HIDE DEF mn
  <2> QED
    BY <1>1, <1>2, <1>4, <2>1
<1> HIDE DEF mn, L
<1>10. (s = "first" => L = 0) /\ (s = "walk" => L > 0)
  BY <1>1, <1>8
<1> HIDE DEF s
<1>11. s \notin {"link", "look", "count", "test", "take", "advance", "send"}
  BY <1>5
<1>12. OnPath(s, q, fr, nx, mn)
  BY <1>1, <1>2, <1>3, <1>4, <1>5, <1>6, <1>7, <1>8, <1>9, <1>10, <1>11 DEF OnPath
<1> QED
  BY <1>12 DEF s, q, mn

LEMMA PathLinkFirst ==
  ASSUME NEW p \in Pages, NEW fr, NEW nx, NEW mm \in Heaps, OnPath("first", p, fr, nx, mm),
         nx[p.f] = NULL
  PROVE  OnPath("fill", p, p.f, nx, mm)
<1> DEFINE mine == p.mine
<1>1. /\ mine \in Seq(Nodes) /\ Len(mine) = 1 /\ Len(p.body) = 0 /\ p.f = mine[1]
  <2>1. Len(mine) \in Nat /\ mine \in Seq(Nodes)
    BY DEF Pages
  <2>2. LinkedBy("first", p) = Len(mine) - 1
    BY DEF LinkedBy
  <2>3. Len(mine) - 1 = 0 /\ Len(p.body) = 0 /\ p.f = mine[Len(mine)]
    BY <2>2 DEF OnPath
  <2> QED
    BY <2>1, <2>3
<1>2. LinkedBy("fill", p) = 1
  BY <1>1 DEF LinkedBy
<1>3. mm[mine[1]] = "raw"
  BY <1>1 DEF OnPath
<1>4. p.f = Node(mine, 1, 1) /\ nx[mine[1]] = Node(mine, 1, 2)
  BY <1>1 DEF Node
<1>5. /\ \A i \in 1..Len(mine) : i = 1
      /\ \A i \in 1..1 : nx[mine[i]] = Node(mine, 1, i + 1)
      /\ \A i \in 1..Len(mine) : mm[mine[i]] = IF i = Len(mine) THEN "raw" ELSE "filled"
  <2>1. \A i \in 1..1 : i = 1 /\ i + 1 = 2
    OBVIOUS
  <2>2. 1..Len(mine) = 1..1
    BY <1>1
  <2>3. ASSUME NEW i \in 1..1
        PROVE  nx[mine[i]] = Node(mine, 1, i + 1) /\ mm[mine[i]] = "raw"
    <3>1. i = 1 /\ i + 1 = 2
      BY <2>1
    <3> QED
      BY <1>3, <1>4, <3>1
  <2> QED
    BY <1>1, <2>1, <2>2, <2>3
<1>6. \A i, j \in 1..Len(mine) : mine[i] = mine[j] => i = j
  BY <1>5
<1> QED
  BY <1>1, <1>2, <1>4, <1>5, <1>6 DEF OnPath

\* A listing that is alone walks to the node it has linked last.
LEMMA PathWalk ==
  ASSUME ListFits, NEW w \in Workers, OnPath("walk", page[w], fragments, next, mem)
  PROVE  LET p == page[w]
             c == Chain(fragments)
         IN  /\ fragments # NULL /\ ~Touches(c)
             /\ OnPath("link", [p EXCEPT !.prev = Last(c)], fragments, next, mem)
<1> DEFINE p == page[w]
           mine == p.mine
           L == Len(mine)
           c == Chain(fragments)
           q == [p EXCEPT !.prev = Last(c)]
<1>1. mine \in Seq(Nodes) /\ L \in Nat /\ \A i \in 1..L : mine[i] \in Nodes
  BY PageFacts
<1>2. LinkedBy("walk", p) = L - 1 /\ L - 1 > 0 /\ Len(p.body) = 0
  <2>1. LinkedBy("walk", p) = L - 1
    BY DEF LinkedBy
  <2> QED
    BY <2>1 DEF OnPath
<1> DEFINE k == L - 1
<1>3. k \in 0..L /\ k > 0 /\ k + 1 = L
  BY <1>1, <1>2
<1>4. /\ \A i \in 1..k : next[mine[i]] = Node(mine, k, i + 1)
      /\ fragments = Node(mine, k, 1)
      /\ \A i \in 1..L : mem[mine[i]] = IF i = L THEN "raw" ELSE "filled"
      /\ p.f = mine[L] /\ \A i, j \in 1..L : mine[i] = mine[j] => i = j
  BY <1>1, <1>2 DEF OnPath
<1>5. c = SubSeq(mine, 1, k)
  <2>1. next \in [Nodes -> Nodes \cup {NULL}] /\ Acyclic
    BY DEF ListFits, ListingTypeOK
  <2> HIDE DEF k, mine
  <2> QED
    BY <1>1, <1>3, <1>4, <2>1, ChainAlong
<1>6. c \in Seq(Nodes) /\ Len(c) = k /\ \A i \in 1..k : c[i] = mine[i]
  BY <1>1, <1>3, <1>5
<1> HIDE DEF c
<1>7. Last(c) = mine[k]
  BY <1>3, <1>6 DEF Last
<1>8. fragments # NULL
  <2>1. 1 \in 1..k /\ 1 \in 1..L
    BY <1>1, <1>3
  <2>2. Node(mine, k, 1) = mine[1] /\ mine[1] \in Nodes
    BY <1>1, <2>1 DEF Node
  <2>3. fragments = mine[1]
    BY <1>4, <2>2
  <2> QED
    BY <2>2, <2>3, NodesAre
<1>9. ~Touches(c)
  <2>1. ASSUME NEW i \in 1..k
        PROVE  mem[c[i]] = "filled"
    <3>1. i \in 1..L /\ i # L
      BY <1>1, <1>3
    <3>2. c[i] = mine[i]
      BY <1>6
    <3> QED
      BY <1>4, <3>1, <3>2
  <2>2. DOMAIN c = 1..k
    BY <1>6
  <2> QED
    BY <2>1, <2>2 DEF Touches
<1>10. q.mine = mine /\ q.body = p.body /\ q.f = p.f /\ q.prev = Last(c)
  <2>1. p \in Pages
    BY PageFacts
  <2> QED
    BY <2>1 DEF Pages
<1> HIDE DEF q
<1>11. LinkedBy("link", q) = k
  BY <1>10 DEF LinkedBy
<1>12. OnPath("link", q, fragments, next, mem)
  BY <1>1, <1>2, <1>3, <1>4, <1>7, <1>10, <1>11 DEF OnPath
<1> QED
  BY <1>8, <1>9, <1>12 DEF c, q

LEMMA PathLink ==
  ASSUME NEW p \in Pages, NEW fr, NEW nx \in [Nodes -> Nodes \cup {NULL}], NEW mm \in Heaps,
         OnPath("link", p, fr, nx, mm), nx[p.f] = NULL
  PROVE  /\ p.prev \in Nodes /\ mm[p.prev] # "freed"
         /\ OnPath("fill", p, fr, [nx EXCEPT ![p.prev] = p.f], mm)
<1> DEFINE mine == p.mine
           L == Len(mine)
           k == L - 1
           ny == [nx EXCEPT ![p.prev] = p.f]
<1>1. mine \in Seq(Nodes) /\ L \in Nat /\ \A i \in 1..L : mine[i] \in Nodes
  BY DEF Pages
<1>2. LinkedBy("link", p) = k /\ k > 0 /\ Len(p.body) = 0
  <2>1. LinkedBy("link", p) = k
    BY DEF LinkedBy
  <2> QED
    BY <2>1 DEF OnPath
<1>3. k \in Nat /\ k + 1 = L /\ k \in 1..L /\ L \in 1..L
  BY <1>1, <1>2
<1>4. /\ \A i \in 1..k : nx[mine[i]] = Node(mine, k, i + 1)
      /\ fr = Node(mine, k, 1)
      /\ \A i \in 1..L : mm[mine[i]] = IF i = L THEN "raw" ELSE "filled"
      /\ p.f = mine[L] /\ \A i, j \in 1..L : mine[i] = mine[j] => i = j
      /\ p.prev = mine[k]
  BY <1>1, <1>2 DEF OnPath
<1>5. LinkedBy("fill", p) = L
  BY DEF LinkedBy
<1> HIDE DEF k
<1>6. p.prev \in Nodes /\ mm[p.prev] # "freed"
  BY <1>1, <1>3, <1>4
<1>7. fr = Node(mine, L, 1)
  BY <1>2, <1>3, <1>4 DEF Node
<1>8. ASSUME NEW i \in 1..L
      PROVE  ny[mine[i]] = Node(mine, L, i + 1)
  <2>1. CASE i = k
    BY <1>1, <1>3, <1>4, <2>1 DEF Node
  <2>2. CASE i = L
    BY <1>1, <1>3, <1>4, <2>2 DEF Node
  <2>3. CASE i # k /\ i # L
    <3>1. i \in 1..k /\ mine[i] # mine[k] /\ i + 1 \in 1..k /\ i + 1 \in 1..L
      BY <1>3, <1>4, <2>3
    <3>2. ny[mine[i]] = nx[mine[i]]
      BY <1>1, <1>4, <3>1
    <3> QED
      BY <1>4, <3>1, <3>2 DEF Node
  <2> QED
    BY <2>1, <2>2, <2>3
<1> HIDE DEF ny
<1>9. OnPath("fill", p, fr, ny, mm)
  BY <1>1, <1>2, <1>3, <1>4, <1>5, <1>7, <1>8 DEF OnPath
<1> QED
  BY <1>6, <1>9 DEF ny

LEMMA PathFill ==
  ASSUME NEW p \in Pages, NEW fr, NEW nx, NEW mm \in Heaps, OnPath("fill", p, fr, nx, mm)
  PROVE  /\ mm[p.f] # "freed"
         /\ OnPath(IF p.left > 0 THEN "look" ELSE "count", p, fr, nx, [mm EXCEPT ![p.f] = "filled"])
<1> DEFINE mine == p.mine
           L    == Len(mine)
           s    == IF p.left > 0 THEN "look" ELSE "count"
           mn   == [mm EXCEPT ![p.f] = "filled"]
<1>1. mine \in Seq(Nodes) /\ L \in Nat /\ \A i \in 1..L : mine[i] \in Nodes
  BY DEF Pages
<1>2. LinkedBy("fill", p) = L /\ LinkedBy(s, p) = L /\ s \in {"look", "count"}
  BY DEF LinkedBy
<1>3. /\ \A i, j \in 1..L : mine[i] = mine[j] => i = j
      /\ \A i \in 1..L : nx[mine[i]] = Node(mine, L, i + 1)
      /\ Len(p.body) = 0 /\ fr = Node(mine, L, 1)
      /\ \A i \in 1..L : mm[mine[i]] = IF i = L THEN "raw" ELSE "filled"
      /\ L > 0 /\ p.f = mine[L]
  <2>1. Len(p.body) = 0
    BY DEF OnPath
  <2> QED
    BY <1>1, <1>2, <2>1 DEF OnPath
<1>4. L \in 1..L
  BY <1>1, <1>3
<1>5. mm[p.f] = "raw" /\ p.f \in Nodes
  BY <1>1, <1>3, <1>4
<1>6. \A i \in 1..L : mn[mine[i]] = "filled"
  BY <1>1, <1>3, <1>4, <1>5 DEF Heaps
<1> HIDE DEF s, mn
<1>7. OnPath(s, p, fr, nx, mn)
  BY <1>1, <1>2, <1>3, <1>6 DEF OnPath
<1> QED
  BY <1>5, <1>7 DEF s, mn

\* A listing that is alone counts the nodes it has made.
LEMMA PathCount ==
  ASSUME ListFits, NEW w \in Workers, OnPath("count", page[w], fragments, next, mem)
  PROVE  LET p == page[w]
             c == Chain(fragments)
         IN  /\ ~Touches(c) /\ ~ \E i \in DOMAIN c : mem[c[i]] = "raw"
             /\ OnPath("test", [p EXCEPT !.counted = c], fragments, next, mem)
<1> DEFINE p == page[w]
           mine == p.mine
           L == Len(mine)
           c == Chain(fragments)
           q == [p EXCEPT !.counted = c]
<1>1. mine \in Seq(Nodes) /\ L \in Nat /\ \A i \in 1..L : mine[i] \in Nodes
  BY PageFacts
<1>2. LinkedBy("count", p) = L /\ Len(p.body) = 0
  BY DEF LinkedBy, OnPath
<1>3. /\ \A i \in 1..L : next[mine[i]] = Node(mine, L, i + 1)
      /\ fragments = Node(mine, L, 1)
      /\ \A i \in 1..L : mem[mine[i]] = "filled"
      /\ \A i, j \in 1..L : mine[i] = mine[j] => i = j
  BY <1>1, <1>2 DEF OnPath
<1>4. c = SubSeq(mine, 1, L)
  <2>1. next \in [Nodes -> Nodes \cup {NULL}] /\ Acyclic
    BY DEF ListFits, ListingTypeOK
  <2>2. L \in 0..Len(mine)
    BY <1>1
  <2> HIDE DEF L, mine
  <2> QED
    BY <1>1, <1>3, <2>1, <2>2, ChainAlong
<1>5. c = mine
  <2>1. /\ SubSeq(mine, 1, L) \in Seq(Nodes) /\ Len(SubSeq(mine, 1, L)) = L
        /\ \A i \in 1..L : SubSeq(mine, 1, L)[i] = mine[i]
    BY <1>1
  <2> QED
    BY <1>1, <1>4, <2>1, SeqEqual
<1> HIDE DEF c
<1>6. ~Touches(c) /\ ~ \E i \in DOMAIN c : mem[c[i]] = "raw"
  <2>1. DOMAIN c = 1..L /\ \A i \in 1..L : c[i] = mine[i]
    BY <1>1, <1>5
  <2> QED
    BY <1>3, <2>1 DEF Touches
<1>7. q.mine = mine /\ q.body = p.body /\ q.f = p.f /\ q.counted = mine
  <2>1. p \in Pages
    BY PageFacts
  <2> QED
    BY <1>5, <2>1 DEF Pages
<1> HIDE DEF q
<1>8. LinkedBy("test", q) = L
  BY <1>7 DEF LinkedBy
<1>9. OnPath("test", q, fragments, next, mem)
  BY <1>1, <1>2, <1>3, <1>7, <1>8 DEF OnPath
<1> QED
  BY <1>6, <1>9 DEF c, q

\* What a listing that is alone and sends its page knows of the list.
LEMMA Sending ==
  ASSUME NEW p \in Pages, NEW fr, NEW nx, NEW mm, NEW s \in {"test", "take", "advance", "send"}
  PROVE  LET mine == p.mine
             L    == Len(mine)
             b    == Len(p.body)
         IN  /\ mine \in Seq(Nodes) /\ p.body \in Seq(Nodes) /\ L \in Nat /\ b \in Nat
             /\ \A i \in 1..L : mine[i] \in Nodes
             /\ OnPath(s, p, fr, nx, mm) <=>
                  /\ \A i, j \in 1..L : mine[i] = mine[j] => i = j
                  /\ b <= L /\ \A i \in 1..b : p.body[i] = mine[i]
                  /\ \A i \in 1..L : nx[mine[i]] = Node(mine, L, i + 1)
                  /\ fr = Node(mine, L, IF s = "send" THEN b + 2 ELSE b + 1)
                  /\ \A i \in b + 1 .. L : mm[mine[i]] = "filled"
                  /\ p.counted = mine
                  /\ s # "test" => b < L
                  /\ s \in {"advance", "send"} => p.f = mine[b + 1]
                  /\ s = "advance" => p.nx = Node(mine, L, b + 2)
<1>1. p.mine \in Seq(Nodes) /\ p.body \in Seq(Nodes)
  BY DEF Pages
<1>2. LinkedBy(s, p) = Len(p.mine)
  BY DEF LinkedBy
<1> QED
  BY <1>1, <1>2 DEF OnPath

LEMMA PathTest ==
  ASSUME NEW p \in Pages, NEW fr, NEW nx, NEW mm, OnPath("test", p, fr, nx, mm)
  PROVE  /\ fr # NULL => OnPath("take", p, fr, nx, mm)
         /\ fr = NULL => p.body = p.mine /\ p.counted = p.mine
<1> DEFINE mine == p.mine
           L    == Len(mine)
           b    == Len(p.body)
<1>1. /\ mine \in Seq(Nodes) /\ p.body \in Seq(Nodes) /\ L \in Nat /\ b \in Nat
      /\ \A i \in 1..L : mine[i] \in Nodes
      /\ b <= L /\ \A i \in 1..b : p.body[i] = mine[i]
      /\ fr = Node(mine, L, b + 1) /\ p.counted = mine
  BY Sending
<1>2. CASE fr # NULL
  <2>1. b < L
    BY <1>1, <1>2 DEF Node
  <2> QED
    BY <1>2, <2>1, Sending
<1>3. CASE fr = NULL
  <2>1. b = L
    <3>1. b + 1 \in 1..L => fr \in Nodes
      BY <1>1 DEF Node
    <3>2. b + 1 \notin 1..L
      BY <1>3, <3>1, NodesAre
    <3> QED
      BY <1>1, <3>2
  <2>2. p.body = mine
    BY <1>1, <2>1, SeqEqual
  <2> QED
    BY <1>1, <1>3, <2>2
<1> QED
  BY <1>2, <1>3

LEMMA PathTake ==
  ASSUME NEW p \in Pages, NEW fr, NEW nx, NEW mm, OnPath("take", p, fr, nx, mm)
  PROVE  /\ fr # NULL /\ mm[fr] # "freed"
         /\ OnPath("advance", [p EXCEPT !.f = fr, !.nx = nx[fr]], fr, nx, mm)
<1> DEFINE mine == p.mine
           L    == Len(mine)
           b    == Len(p.body)
           q    == [p EXCEPT !.f = fr, !.nx = nx[fr]]
<1>1. /\ mine \in Seq(Nodes) /\ p.body \in Seq(Nodes) /\ L \in Nat /\ b \in Nat
      /\ \A i \in 1..L : mine[i] \in Nodes
      /\ \A i, j \in 1..L : mine[i] = mine[j] => i = j
      /\ b < L /\ \A i \in 1..b : p.body[i] = mine[i]
      /\ \A i \in 1..L : nx[mine[i]] = Node(mine, L, i + 1)
      /\ fr = Node(mine, L, b + 1)
      /\ \A i \in b + 1 .. L : mm[mine[i]] = "filled"
      /\ p.counted = mine
  BY Sending
<1>2. b + 1 \in 1..L /\ b + 1 \in b + 1 .. L /\ (b + 1) + 1 = b + 2
  BY <1>1
<1>3. fr = mine[b + 1] /\ fr \in Nodes /\ mm[fr] = "filled" /\ nx[fr] = Node(mine, L, b + 2)
  <2>1. nx[mine[b + 1]] = Node(mine, L, (b + 1) + 1)
    BY <1>1, <1>2
  <2> QED
    BY <1>1, <1>2, <2>1 DEF Node
<1>4. q.mine = mine /\ q.body = p.body /\ q.counted = mine /\ q.f = fr /\ q.nx = nx[fr]
  BY <1>1 DEF Pages
<1>5. OnPath("advance", q, fr, nx, mm)
  <2>1. LinkedBy("advance", q) = L
    BY <1>4 DEF LinkedBy
  <2> HIDE DEF q
  <2> QED
    BY <1>1, <1>3, <1>4, <2>1 DEF OnPath
<1> QED
  BY <1>3, <1>5, NodesAre

LEMMA PathAdvance ==
  ASSUME NEW p \in Pages, NEW fr, NEW nx, NEW mm, OnPath("advance", p, fr, nx, mm)
  PROVE  OnPath("send", p, p.nx, nx, mm)
BY Sending

LEMMA PathSend ==
  ASSUME NEW p \in Pages, NEW fr, NEW nx, NEW mm \in Heaps, OnPath("send", p, fr, nx, mm)
  PROVE  /\ mm[p.f] = "filled"
         /\ OnPath("test", [p EXCEPT !.body = Append(@, p.f)], fr, nx, [mm EXCEPT ![p.f] = "freed"])
<1> DEFINE mine == p.mine
           L    == Len(mine)
           b    == Len(p.body)
           q    == [p EXCEPT !.body = Append(@, p.f)]
           mn   == [mm EXCEPT ![p.f] = "freed"]
<1>1. /\ mine \in Seq(Nodes) /\ p.body \in Seq(Nodes) /\ L \in Nat /\ b \in Nat
      /\ \A i \in 1..L : mine[i] \in Nodes
      /\ \A i, j \in 1..L : mine[i] = mine[j] => i = j
      /\ b < L /\ \A i \in 1..b : p.body[i] = mine[i]
      /\ \A i \in 1..L : nx[mine[i]] = Node(mine, L, i + 1)
      /\ fr = Node(mine, L, b + 2)
      /\ \A i \in b + 1 .. L : mm[mine[i]] = "filled"
      /\ p.counted = mine /\ p.f = mine[b + 1]
  BY Sending
<1>2. b + 1 \in 1..L /\ b + 1 \in b + 1 .. L /\ (b + 1) + 1 = b + 2
  BY <1>1
<1>3. mm[p.f] = "filled" /\ p.f \in Nodes
  BY <1>1, <1>2
<1>4. q.mine = mine /\ q.counted = mine /\ q.body = Append(p.body, p.f)
  BY <1>1 DEF Pages
<1>5. Len(q.body) = b + 1 /\ \A i \in 1..b + 1 : q.body[i] = mine[i]
  BY <1>1, <1>3, <1>4
<1>6. ASSUME NEW i \in (b + 1) + 1 .. L
      PROVE  mn[mine[i]] = "filled"
  <2>1. i \in 1..L /\ i \in b + 1 .. L /\ i # b + 1
    BY <1>1
  <2>2. mine[i] # p.f
    BY <1>1, <1>2, <2>1
  <2> QED
    BY <1>1, <2>1, <2>2 DEF Heaps
<1>7. LinkedBy("test", q) = L
  BY <1>4 DEF LinkedBy
<1> HIDE DEF q, mn
<1>8. b + 1 <= L
  BY <1>1
<1>9. OnPath("test", q, fr, nx, mn)
  BY <1>1, <1>2, <1>4, <1>5, <1>6, <1>7, <1>8 DEF OnPath
<1> QED
  BY <1>3, <1>9 DEF q, mn

-----------------------------------------------------------------------------
(* The steps of a listing *)

\* A step of a thread that has made its node before: the list points to linked
\* nodes and, if it links its node, to that one.
LEMMA HeapStep ==
  ASSUME ListFits, at \in [Workers -> Stages], NEW w \in Workers, NEW s \in ListingStages,
         Goto(w, s), \A v \in Workers : v # w => page'[v] = page[v],
         NEW N, N = {} \/ (N = {page[w].f} /\ w \in Making /\ s \notin {"first", "walk", "link"}),
         fragments' \in Pointed \cup N, \A m \in Nodes : next'[m] \in Pointed \cup N,
         s = "link" => page'[w].prev \in Pointed, s = "advance" => page'[w].nx \in Pointed,
         s \in {"first", "walk", "link"} => w \in Making /\ page'[w].f = page[w].f,
         \A n \in Nodes : mem'[n] = "unused" => mem[n] = "unused",
         \A n \in Nodes : next'[n] = next[n] \/ n \in Pointed
  PROVE  HeapFits'
<1>1. \A v \in Workers : at'[v] = IF v = w THEN s ELSE at[v]
  BY DEF Goto
<1>2. Pointed' \subseteq Pointed \cup N
  <2>1. ASSUME NEW v \in Workers, at'[v] = "link"
        PROVE  page'[v].prev \in Pointed
    <3>1. CASE v = w
      BY <1>1, <2>1, <3>1
    <3>2. CASE v # w
      BY <1>1, <2>1, <3>2 DEF Pointed
    <3> QED
      BY <3>1, <3>2
  <2>2. ASSUME NEW v \in Workers, at'[v] = "advance"
        PROVE  page'[v].nx \in Pointed
    <3>1. CASE v = w
      BY <1>1, <2>2, <3>1
    <3>2. CASE v # w
      BY <1>1, <2>2, <3>2 DEF Pointed
    <3> QED
      BY <3>1, <3>2
  <2>3. SUFFICES ASSUME NEW n \in Pointed'
                 PROVE  n \in Pointed \cup N
    OBVIOUS
  <2>4. \/ n = fragments' \/ \E m \in Nodes : n = next'[m]
        \/ \E v \in Workers : at'[v] = "link" /\ n = page'[v].prev
        \/ \E v \in Workers : at'[v] = "advance" /\ n = page'[v].nx
    BY DEF Pointed
  <2> QED
    BY <2>1, <2>2, <2>4
<1>3. Making' \subseteq Making
  <2> SUFFICES ASSUME NEW v \in Workers, at'[v] \in {"first", "walk", "link"}
               PROVE  v \in Making
    BY DEF Making
  <2>1. CASE v = w
    BY <1>1, <2>1
  <2>2. CASE v # w
    BY <1>1, <2>2 DEF Making
  <2> QED
    BY <2>1, <2>2
<1>4. ASSUME NEW v \in Making'
      PROVE  page'[v].f = page[v].f /\ page[v].f \notin N /\ page[v].f \in Nodes
  <2>1. v \in Making /\ v \in Workers /\ at'[v] \in {"first", "walk", "link"}
    BY <1>3 DEF Making
  <2>2. page[v].f \in Nodes
    BY <2>1, OwnNode
  <2>3. CASE v = w
    <3>1. s \in {"first", "walk", "link"}
      BY <1>1, <2>1, <2>3
    <3>2. N = {} /\ page'[w].f = page[w].f
      BY <3>1
    <3> QED
      BY <2>2, <2>3, <3>2
  <2>4. CASE v # w
    <3>1. page'[v] = page[v]
      BY <2>1, <2>4
    <3>2. page[v].f \notin N
      BY <2>1, <2>4, OwnNode
    <3> QED
      BY <2>2, <3>1, <3>2
  <2> QED
    BY <2>3, <2>4
<1>5. \A n \in N \cap Nodes : mem[n] # "unused"
  BY OwnNode
<1>6. HeapFits
  BY DEF ListFits
<1> QED
  BY <1>2, <1>3, <1>4, <1>5, <1>6, HeapMoves

\* A step of one thread from stage to stage of a listing.
LEMMA ListStep ==
  ASSUME ListFits, at \in [Workers -> Stages], NEW w \in Workers, NEW s \in ListingStages,
         at[w] \in ListingStages, Goto(w, s),
         NEW p \in Pages, Local(w, p), p.alone = page[w].alone,
         fragments' \in Nodes \cup {NULL}, next' \in [Nodes -> Nodes \cup {NULL}], mem' \in Heaps,
         HeapFits', Acyclic',
         s = "look" => p.left > 0, s = "link" => p.prev \in Nodes,
         s \in {"first", "walk", "link", "fill", "advance", "send"} => p.f \in Nodes,
         page[w].alone /\ OnPath(at[w], page[w], fragments, next, mem)
           => OnPath(s, p, fragments', next', mem')
  PROVE  ListFits'
<1>1. \A v \in Workers : at'[v] = IF v = w THEN s ELSE at[v]
  BY DEF Goto
<1>2. page \in [Workers -> Pages] /\ page' = [page EXCEPT ![w] = p]
  BY PageFacts DEF Local
<1>3. page' \in [Workers -> Pages] /\ \A v \in Workers : page'[v] = IF v = w THEN p ELSE page[v]
  BY <1>2
<1>4. ListingTypeOK'
  BY <1>3 DEF ListingTypeOK, Heaps
<1>5. InHand'
  <2>1. ASSUME NEW v \in Workers
        PROVE  /\ at'[v] = "look" => page'[v].left > 0
               /\ at'[v] \in {"first", "walk", "link", "fill", "advance", "send"} => page'[v].f \in Nodes
               /\ at'[v] = "link" => page'[v].prev \in Nodes
    <3>1. CASE v = w
      BY <1>1, <1>3, <3>1
    <3>2. CASE v # w
      <4>1. at'[v] = at[v] /\ page'[v] = page[v]
        BY <1>1, <1>3, <3>2
      <4> QED
        BY <4>1 DEF ListFits, InHand
    <3> QED
      BY <3>1, <3>2
  <2> QED
    BY <2>1 DEF InHand
<1>6. AloneFits'
  <2>1. w \in Listings /\ AloneFits
    BY DEF Listings, ListFits
  <2>2. page'[w] = p /\ \A v \in Workers : page'[v].alone = page[v].alone
    BY <1>3
  <2>3. page[w].alone /\ OnPath(at[w], page[w], fragments, next, mem)
           => OnPath(s, page'[w], fragments', next', mem')
    BY <2>2
  <2> QED
    BY <2>1, <2>2, <2>3, AloneMoves
<1> QED
  BY <1>4, <1>5, <1>6 DEF ListFits

\* The page does not change.
LEMMA SamePage ==
  ASSUME ListFits, NEW w \in Workers, page' = page
  PROVE  Local(w, page[w])
BY PageFacts DEF Local

LEMMA SameAcyclic ==
  ASSUME Acyclic, next' = next
  PROVE  Acyclic'
BY DEF Acyclic

\* What the list points to is linked.
LEMMA ListIsPointed ==
  /\ fragments \in Pointed
  /\ \A m \in Nodes : next[m] \in Pointed
  /\ \A v \in Workers : /\ at[v] = "link" => page[v].prev \in Pointed
                        /\ at[v] = "advance" => page[v].nx \in Pointed
BY DEF Pointed

LEMMA LookFits ==
  ASSUME ListFits, at \in [Workers -> Stages], NEW w \in Workers, Look(w)
  PROVE  ListFits'
<1>1. PICK n \in Nodes :
        /\ mem[n] = "unused" /\ mem' = [mem EXCEPT ![n] = "raw"]
        /\ Local(w, [page[w] EXCEPT !.left = @ - 1, !.f = n, !.mine = Append(@, n)])
  BY DEF Look
<1> DEFINE p == [page[w] EXCEPT !.left = @ - 1, !.f = n, !.mine = Append(@, n)]
           s == IF fragments = NULL THEN "first" ELSE "walk"
<1>2. /\ at[w] = "look" /\ Goto(w, s) /\ fragments' = fragments /\ next' = next
  BY DEF Look
<1>3. /\ page[w] \in Pages /\ page \in [Workers -> Pages] /\ page[w].left \in 0..MaxEntries
      /\ page[w].mine \in Seq(Nodes) /\ mem \in Heaps
      /\ fragments \in Nodes \cup {NULL} /\ next \in [Nodes -> Nodes \cup {NULL}]
  BY PageFacts DEF Heaps
<1>4. page[w].left > 0
  BY <1>2 DEF ListFits, InHand
<1>5. p \in Pages /\ p.alone = page[w].alone /\ p.f = n
  <2>1. page[w].left - 1 \in 0..MaxEntries
    BY <1>3, <1>4, ListingBounds
  <2>2. Append(page[w].mine, n) \in Seq(Nodes)
    BY <1>3
  <2> QED
    BY <1>3, <2>1, <2>2 DEF Pages
<1>6. page[w].alone /\ OnPath(at[w], page[w], fragments, next, mem)
        => OnPath(s, p, fragments', next', mem')
  BY <1>1, <1>2, <1>3, PathLook
<1>7. s \in {"first", "walk"} /\ s \in ListingStages
  BY DEF ListingStages
<1> HIDE DEF p, s
<1>8. /\ mem' \in Heaps /\ mem'[n] = "raw" /\ \A m \in Nodes : m # n => mem'[m] = mem[m]
  BY <1>1, <1>3 DEF Heaps
<1>9. HeapFits'
  <2>1. /\ \A v \in Workers : at'[v] = IF v = w THEN s ELSE at[v]
        /\ \A v \in Workers : page'[v] = IF v = w THEN p ELSE page[v]
    BY <1>1, <1>2, <1>3 DEF Goto, Local, p
  <2>2. Pointed' = Pointed
    <3>1. \A v \in Workers : /\ at'[v] = "link" <=> at[v] = "link"
                             /\ at'[v] = "advance" <=> at[v] = "advance"
      BY <1>2, <1>7, <2>1
    <3>2. \A v \in Workers : at[v] \in {"link", "advance"} => page'[v] = page[v]
      BY <1>2, <2>1
    <3>3. \A m : m \in Pointed' <=> m \in Pointed
      BY <1>2, <3>1, <3>2 DEF Pointed
    <3> QED
      BY <3>3
  <2>3. n \notin Pointed /\ next[n] = NULL
    BY <1>1 DEF ListFits, HeapFits
  <2>4. \A v \in Making' : v \in Workers /\ (v = w \/ (v # w /\ v \in Making))
    BY <2>1 DEF Making
  <2>5. ASSUME NEW v \in Making, v # w
        PROVE  /\ page'[v].f = page[v].f /\ page[v].f # n /\ page[v].f \in Nodes
               /\ mem'[page[v].f] # "unused" /\ next[page[v].f] = NULL /\ page[v].f \notin Pointed
               /\ \A u \in Making : v # u => page[u].f # page[v].f
    <3>1. /\ v \in Workers /\ page[v].f \in Nodes
          /\ mem[page[v].f] # "unused" /\ next[page[v].f] = NULL /\ page[v].f \notin Pointed
          /\ \A u \in Making : v # u => page[u].f # page[v].f
      BY OwnNode
    <3> QED
      BY <1>1, <1>8, <2>1, <2>5, <3>1
  <2>6. page'[w].f = n
    BY <1>5, <2>1
  <2>7. \A m \in Nodes : mem'[m] = "unused" => next'[m] = NULL /\ m \notin Pointed'
    BY <1>2, <1>8, <2>2 DEF ListFits, HeapFits
  <2>8. \A v \in Making' : /\ mem'[page'[v].f] # "unused" /\ next'[page'[v].f] = NULL
                           /\ page'[v].f \notin Pointed'
    BY <1>2, <1>8, <2>2, <2>3, <2>4, <2>5, <2>6
  <2>9. \A v, u \in Making' : page'[v].f = page'[u].f => v = u
    BY <2>4, <2>5, <2>6
  <2> QED
    BY <2>7, <2>8, <2>9 DEF HeapFits
<1>10. Acyclic' /\ Local(w, p)
  BY <1>1, <1>2, SameAcyclic DEF ListFits, p
<1>11. at[w] \in ListingStages /\ s # "look" /\ s # "link"
  BY <1>2, <1>7 DEF ListingStages
<1> QED
  BY <1>2, <1>3, <1>5, <1>6, <1>7, <1>8, <1>9, <1>10, <1>11, ListStep

\* A listing that is alone is where its page says it is.
LEMMA AloneOnPath ==
  ASSUME ListFits, NEW w \in Workers, at[w] \in ListingStages, page[w].alone
  PROVE  OnPath(at[w], page[w], fragments, next, mem)
BY DEF ListFits, AloneFits, Listings

LEMMA SameList ==
  ASSUME ListFits, UNCHANGED <<at, page, heap>>
  PROVE  ListFits'
<1>1. at' = at /\ page' = page /\ fragments' = fragments /\ next' = next /\ mem' = mem
  BY DEF heap
<1>2. ListingTypeOK' /\ InHand' /\ Acyclic'
  BY <1>1, SameAcyclic DEF ListFits, ListingTypeOK, InHand
<1>3. Pointed' = Pointed /\ Making' = Making /\ Listings' = Listings
  BY <1>1 DEF Pointed, Making, Listings
<1>4. HeapFits' /\ AloneFits'
  BY <1>1, <1>3 DEF ListFits, HeapFits, AloneFits
<1> QED
  BY <1>2, <1>4 DEF ListFits

LEMMA DiesFits ==
  ASSUME ListFits, NEW w, NEW how, Dies(w, how)
  PROVE  ListFits'
BY SameList DEF Dies

LEMMA LinkFirstFits ==
  ASSUME ListFits, at \in [Workers -> Stages], NEW w \in Workers, LinkFirst(w)
  PROVE  ListFits'
<1>1. /\ at[w] = "first" /\ Goto(w, "fill") /\ fragments' = page[w].f
      /\ next' = next /\ mem' = mem /\ page' = page
  BY DEF LinkFirst
<1>2. w \in Making /\ "fill" \in ListingStages /\ "first" \in ListingStages
  BY <1>1 DEF Making, ListingStages
<1>3. page[w].f \in Nodes /\ next[page[w].f] = NULL
  BY <1>2, OwnNode
<1>4. /\ page[w] \in Pages /\ next \in [Nodes -> Nodes \cup {NULL}] /\ mem \in Heaps
  BY PageFacts DEF Heaps
<1>5. page[w].alone /\ OnPath(at[w], page[w], fragments, next, mem)
        => OnPath("fill", page[w], fragments', next', mem')
  BY <1>1, <1>3, <1>4, PathLinkFirst
<1>6. HeapFits'
  <2> DEFINE N == {page[w].f}
  <2>1. fragments' \in Pointed \cup N /\ \A m \in Nodes : next'[m] \in Pointed \cup N
    BY <1>1, ListIsPointed
  <2>2. N = {page[w].f}
    OBVIOUS
  <2> HIDE DEF N
  <2> QED
    BY <1>1, <1>2, <2>1, <2>2, HeapStep
<1>7. Acyclic' /\ Local(w, page[w])
  BY <1>1, SameAcyclic, SamePage DEF ListFits
<1> QED
  BY <1>1, <1>2, <1>3, <1>4, <1>5, <1>6, <1>7, ListStep

LEMMA WalkFits ==
  ASSUME ListFits, at \in [Workers -> Stages], NEW w \in Workers, Walk(w)
  PROVE  ListFits' /\ (UNCHANGED died \/ ~page[w].alone)
<1>1. at[w] = "walk" /\ w \in Making /\ at[w] \in ListingStages /\ "link" \in ListingStages
  BY DEF Walk, Making, ListingStages
<1>2. CASE fragments = NULL \/ Touches(Chain(fragments))
  <2>1. Dies(w, "undefined")
    BY <1>2 DEF Walk
  <2>2. ~page[w].alone
    BY <1>1, <1>2, AloneOnPath, PathWalk
  <2> QED
    BY <2>1, <2>2, DiesFits
<1>3. CASE ~ (fragments = NULL \/ Touches(Chain(fragments)))
  <2> DEFINE c == Chain(fragments)
             p == [page[w] EXCEPT !.prev = Last(c)]
  <2>1. /\ Local(w, p) /\ Goto(w, "link") /\ died' = died
        /\ fragments' = fragments /\ next' = next /\ mem' = mem /\ fragments # NULL
    BY <1>3 DEF Walk, heap
  <2>2. /\ page[w] \in Pages /\ next \in [Nodes -> Nodes \cup {NULL}] /\ mem \in Heaps
        /\ fragments \in Nodes \cup {NULL} /\ page \in [Workers -> Pages] /\ Acyclic
    BY PageFacts DEF Heaps, ListFits
  <2>3. Walked(c, fragments)
    BY <2>2, ChainFinds
  <2> HIDE DEF c
  <2>4. Last(c) \in Nodes /\ Last(c) \in Pointed
    <3>1. c \in Seq(Nodes) /\ c # <<>>
      BY <2>1, <2>3 DEF Walked
    <3>2. Len(c) \in DOMAIN c /\ Last(c) = c[Len(c)]
      BY <3>1 DEF Last
    <3>3. c[Len(c)] = fragments \/ \E m \in Nodes : next[m] = c[Len(c)]
      BY <2>3, <3>2 DEF Walked
    <3>4. c[Len(c)] \in Nodes
      BY <3>1, <3>2
    <3> QED
      BY <3>2, <3>3, <3>4, ListIsPointed
  <2>5. p \in Pages /\ p.alone = page[w].alone /\ p.f = page[w].f /\ p.prev = Last(c)
    BY <2>2, <2>4 DEF Pages
  <2>6. page[w].alone /\ OnPath(at[w], page[w], fragments, next, mem)
          => OnPath("link", p, fragments', next', mem')
    BY <1>1, <2>1, PathWalk DEF c
  <2> HIDE DEF p
  <2>7. page'[w] = p /\ \A v \in Workers : v # w => page'[v] = page[v]
    BY <2>1, <2>2 DEF Local
  <2>8. HeapFits'
    <3> DEFINE N == {}
    <3>1. fragments' \in Pointed \cup N /\ \A m \in Nodes : next'[m] \in Pointed \cup N
      BY <2>1, ListIsPointed
    <3>2. N = {}
      OBVIOUS
    <3> HIDE DEF N
    <3> QED
      BY <1>1, <2>1, <2>4, <2>5, <2>7, <3>1, <3>2, HeapStep
  <2>9. Acyclic' /\ page[w].f \in Nodes
    BY <1>1, <2>1, SameAcyclic, OwnNode DEF ListFits
  <2>10. ListFits'
    BY <1>1, <2>1, <2>2, <2>4, <2>5, <2>6, <2>8, <2>9, ListStep
  <2> QED
    BY <2>1, <2>10
<1> QED
  BY <1>2, <1>3

LEMMA LinkFits ==
  ASSUME ListFits, at \in [Workers -> Stages], NEW w \in Workers, Link(w)
  PROVE  ListFits' /\ (UNCHANGED died \/ ~page[w].alone)
<1>1. at[w] = "link" /\ w \in Making /\ at[w] \in ListingStages /\ "fill" \in ListingStages
  BY DEF Link, Making, ListingStages
<1>2. /\ page[w].f \in Nodes /\ next[page[w].f] = NULL /\ page[w].f \notin Pointed
      /\ page[w].prev \in Nodes /\ page[w].prev \in Pointed
  BY <1>1, OwnNode, ListIsPointed DEF ListFits, InHand
<1>3. /\ page[w] \in Pages /\ next \in [Nodes -> Nodes \cup {NULL}] /\ mem \in Heaps
      /\ fragments \in Nodes \cup {NULL} /\ Acyclic
  BY PageFacts DEF Heaps, ListFits
<1>4. CASE mem[page[w].prev] = "freed"
  <2>1. Dies(w, "undefined")
    BY <1>4 DEF Link
  <2>2. ASSUME page[w].alone
        PROVE  FALSE
    <3>1. OnPath("link", page[w], fragments, next, mem)
      BY <1>1, <2>2, AloneOnPath
    <3>2. mem[page[w].prev] # "freed"
      BY <1>2, <1>3, <3>1, PathLink
    <3> QED
      BY <1>4, <3>2
  <2> QED
    BY <2>1, <2>2, DiesFits
<1>5. CASE mem[page[w].prev] # "freed"
  <2> DEFINE ny == [next EXCEPT ![page[w].prev] = page[w].f]
  <2>1. /\ next' = ny /\ Goto(w, "fill") /\ died' = died
        /\ fragments' = fragments /\ mem' = mem /\ page' = page
    BY <1>5 DEF Link
  <2>2. page[w].alone /\ OnPath(at[w], page[w], fragments, next, mem)
          => OnPath("fill", page[w], fragments', next', mem')
    BY <1>1, <1>2, <1>3, <2>1, PathLink
  <2>3. /\ ny \in [Nodes -> Nodes \cup {NULL}] /\ ny[page[w].prev] = page[w].f
        /\ \A m \in Nodes : m # page[w].prev => ny[m] = next[m]
    BY <1>2, <1>3
  <2>4. \E c \in Nat : \E s \in [Nodes -> 0..c] : Ranked(ny, s, c)
    <3>1. PICK b \in Nat : \E r \in [Nodes -> 0..b] : Ranked(next, r, b)
      BY <1>3 DEF Acyclic
    <3>2. PICK r : Ranked(next, r, b)
      BY <3>1
    <3>3. page[w].f # page[w].prev /\ \A q \in Nodes : next[q] # page[w].f
      BY <1>2, ListIsPointed
    <3> QED
      BY <1>2, <1>3, <3>2, <3>3, LinkKeepsAcyclic
  <2> HIDE DEF ny
  <2>5. Acyclic'
    BY <2>1, <2>4 DEF Acyclic
  <2>6. HeapFits'
    <3> DEFINE N == {page[w].f}
    <3>1. fragments' \in Pointed \cup N /\ \A m \in Nodes : next'[m] \in Pointed \cup N
      BY <2>1, <2>3, ListIsPointed
    <3>2. N = {page[w].f}
      OBVIOUS
    <3>3. \A n \in Nodes : next'[n] = next[n] \/ n \in Pointed
      BY <1>2, <2>1, <2>3
    <3> HIDE DEF N
    <3> QED
      BY <1>1, <2>1, <3>1, <3>2, <3>3, HeapStep
  <2>7. Local(w, page[w])
    BY <2>1, SamePage
  <2>8. ListFits'
    BY <1>1, <1>2, <1>3, <2>1, <2>2, <2>3, <2>5, <2>6, <2>7, ListStep
  <2> QED
    BY <2>1, <2>8
<1> QED
  BY <1>4, <1>5

\* A step that changes only the stage, the page and the memory of a thread.
LEMMA UnlinkedStep ==
  ASSUME ListFits, at \in [Workers -> Stages], NEW w \in Workers,
         NEW s \in ListingStages \ {"first", "walk", "link"}, at[w] \in ListingStages, Goto(w, s),
         NEW p \in Pages, Local(w, p), p.alone = page[w].alone,
         fragments' \in Pointed, fragments' \in Nodes \cup {NULL}, next' = next, mem' \in Heaps,
         \A n \in Nodes : mem'[n] = "unused" => mem[n] = "unused",
         s = "look" => p.left > 0, s = "advance" => p.nx \in Pointed,
         s \in {"fill", "advance", "send"} => p.f \in Nodes,
         page[w].alone /\ OnPath(at[w], page[w], fragments, next, mem)
           => OnPath(s, p, fragments', next', mem')
  PROVE  ListFits'
<1>1. page \in [Workers -> Pages] /\ next \in [Nodes -> Nodes \cup {NULL}]
  BY PageFacts
<1>2. page'[w] = p /\ \A v \in Workers : v # w => page'[v] = page[v]
  BY <1>1 DEF Local
<1>3. HeapFits'
  <2> DEFINE N == {}
  <2>1. fragments' \in Pointed \cup N /\ \A m \in Nodes : next'[m] \in Pointed \cup N
    BY ListIsPointed
  <2>2. N = {}
    OBVIOUS
  <2>3. s \in ListingStages /\ s # "link" /\ s \notin {"first", "walk", "link"}
    OBVIOUS
  <2>4. s = "advance" => page'[w].nx \in Pointed
    BY <1>2
  <2> HIDE DEF N
  <2> QED
    BY <1>2, <2>1, <2>2, <2>3, <2>4, HeapStep
<1>4. Acyclic'
  BY SameAcyclic DEF ListFits
<1>5. next' \in [Nodes -> Nodes \cup {NULL}]
  BY <1>1
<1>6. /\ s \in ListingStages /\ s # "link"
      /\ s \in {"first", "walk", "link", "fill", "advance", "send"} => p.f \in Nodes
  OBVIOUS
<1> QED
  BY <1>3, <1>4, <1>5, <1>6, ListStep

LEMMA FillFits ==
  ASSUME ListFits, at \in [Workers -> Stages], NEW w \in Workers, Fill(w)
  PROVE  ListFits' /\ (UNCHANGED died \/ ~page[w].alone)
<1> DEFINE s == IF page[w].left > 0 THEN "look" ELSE "count"
<1>1. at[w] = "fill" /\ at[w] \in ListingStages /\ s \in ListingStages /\ s \in {"look", "count"}
  BY DEF Fill, ListingStages
<1>2. /\ page[w] \in Pages /\ mem \in Heaps /\ page[w].f \in Nodes /\ fragments \in Nodes \cup {NULL}
  BY <1>1, PageFacts DEF Heaps, ListFits, InHand
<1>3. CASE mem[page[w].f] = "freed"
  <2>1. Dies(w, "undefined")
    BY <1>3 DEF Fill
  <2>2. ASSUME page[w].alone
        PROVE  FALSE
    <3>1. OnPath("fill", page[w], fragments, next, mem)
      BY <1>1, <2>2, AloneOnPath
    <3>2. mem[page[w].f] # "freed"
      BY <1>2, <3>1, PathFill
    <3> QED
      BY <1>3, <3>2
  <2> QED
    BY <2>1, <2>2, DiesFits
<1>4. CASE mem[page[w].f] # "freed"
  <2>1. /\ mem' = [mem EXCEPT ![page[w].f] = "filled"] /\ Goto(w, s) /\ died' = died
        /\ fragments' = fragments /\ next' = next /\ page' = page
    BY <1>4 DEF Fill
  <2>2. page[w].alone /\ OnPath(at[w], page[w], fragments, next, mem)
          => OnPath(s, page[w], fragments', next', mem')
    BY <1>1, <1>2, <2>1, PathFill
  <2>3. mem' \in Heaps /\ \A n \in Nodes : mem'[n] = "unused" => mem[n] = "unused"
    BY <1>2, <2>1 DEF Heaps
  <2>4. s = "look" => page[w].left > 0
    OBVIOUS
  <2> HIDE DEF s
  <2>5. Local(w, page[w]) /\ fragments \in Pointed
    BY <2>1, SamePage, ListIsPointed
  <2>6. s \in ListingStages \ {"first", "walk", "link"} /\ s \notin {"advance", "fill", "send"}
    BY <1>1
  <2>7. ListFits'
    BY <1>1, <1>2, <2>1, <2>2, <2>3, <2>4, <2>5, <2>6, UnlinkedStep
  <2> QED
    BY <2>1, <2>7
<1> QED
  BY <1>3, <1>4

LEMMA CountFits ==
  ASSUME ListFits, at \in [Workers -> Stages], NEW w \in Workers, Count(w)
  PROVE  ListFits' /\ (UNCHANGED died \/ Dies(w, "signal") \/ ~page[w].alone)
<1> DEFINE c == Chain(fragments)
           garbage == \E i \in DOMAIN c : mem[c[i]] = "raw"
           p == [page[w] EXCEPT !.counted = IF garbage THEN <<NULL>> ELSE c]
<1>1. at[w] = "count" /\ at[w] \in ListingStages
  BY DEF Count, ListingStages
<1>2. /\ page[w] \in Pages /\ mem \in Heaps /\ fragments \in Nodes \cup {NULL}
      /\ next \in [Nodes -> Nodes \cup {NULL}] /\ Acyclic
  BY PageFacts DEF Heaps, ListFits
<1>3. page[w].alone => ~Touches(c) /\ ~garbage
  BY <1>1, AloneOnPath, PathCount
<1>4. CASE Touches(c)
  <2>1. Dies(w, "undefined")
    BY <1>4 DEF Count
  <2> QED
    BY <1>3, <1>4, <2>1, DiesFits
<1>5. CASE Dies(w, "signal")
  BY <1>5, DiesFits
<1>6. CASE ~Touches(c) /\ ~Dies(w, "signal")
  <2>1. /\ Local(w, p) /\ Goto(w, "test") /\ died' = died
        /\ fragments' = fragments /\ next' = next /\ mem' = mem
    BY <1>6 DEF Count, heap
  <2>2. page[w].alone /\ OnPath(at[w], page[w], fragments, next, mem)
          => OnPath("test", p, fragments', next', mem')
    <3> SUFFICES ASSUME page[w].alone, OnPath("count", page[w], fragments, next, mem)
                 PROVE  OnPath("test", p, fragments, next, mem)
      BY <1>1, <2>1
    <3>1. OnPath("test", [page[w] EXCEPT !.counted = c], fragments, next, mem)
      BY PathCount
    <3>2. ~garbage
      BY <1>3
    <3> HIDE DEF garbage
    <3> QED
      BY <3>1, <3>2
  <2>3. p \in Pages /\ p.alone = page[w].alone
    <3>1. c \in Seq(Nodes)
      BY <1>2, ChainFinds DEF Walked
    <3> HIDE DEF c
    <3>2. c \in Seq(Nodes \cup {NULL}) /\ <<NULL>> \in Seq(Nodes \cup {NULL})
      BY <3>1
    <3> HIDE DEF garbage
    <3>3. (IF garbage THEN <<NULL>> ELSE c) \in Seq(Nodes \cup {NULL})
      BY <3>2
    <3> QED
      BY <1>2, <3>3 DEF Pages
  <2> HIDE DEF p
  <2>4. "test" \in ListingStages \ {"first", "walk", "link"} /\ fragments \in Pointed
    BY ListIsPointed DEF ListingStages
  <2>5. ListFits'
    BY <1>1, <1>2, <2>1, <2>2, <2>3, <2>4, UnlinkedStep
  <2> QED
    BY <2>1, <2>5
<1> QED
  BY <1>4, <1>5, <1>6

LEMMA TestFits ==
  ASSUME ListFits, at \in [Workers -> Stages], NEW w \in Workers, Test(w)
  PROVE  ListFits'
<1>1. /\ at[w] = "test" /\ at[w] \in ListingStages /\ "take" \in ListingStages \ {"first", "walk", "link"}
      /\ fragments # NULL /\ Goto(w, "take")
      /\ fragments' = fragments /\ next' = next /\ mem' = mem /\ page' = page
  BY DEF Test, ListingStages, heap
<1>2. page[w] \in Pages /\ mem \in Heaps /\ fragments \in Nodes \cup {NULL}
  BY PageFacts DEF Heaps
<1>3. page[w].alone /\ OnPath(at[w], page[w], fragments, next, mem)
        => OnPath("take", page[w], fragments', next', mem')
  BY <1>1, <1>2, PathTest
<1>4. Local(w, page[w]) /\ fragments \in Pointed
  BY <1>1, SamePage, ListIsPointed
<1> QED
  BY <1>1, <1>2, <1>3, <1>4, UnlinkedStep

LEMMA TakeFits ==
  ASSUME ListFits, at \in [Workers -> Stages], NEW w \in Workers, Take(w)
  PROVE  ListFits' /\ (UNCHANGED died \/ ~page[w].alone)
<1> DEFINE p == [page[w] EXCEPT !.f = fragments, !.nx = next[fragments]]
<1>1. /\ at[w] = "take" /\ at[w] \in ListingStages
      /\ "advance" \in ListingStages \ {"first", "walk", "link"}
  BY DEF Take, ListingStages
<1>2. /\ page[w] \in Pages /\ mem \in Heaps /\ fragments \in Nodes \cup {NULL}
      /\ next \in [Nodes -> Nodes \cup {NULL}]
  BY PageFacts DEF Heaps
<1>3. CASE fragments = NULL \/ mem[fragments] = "freed"
  <2>1. Dies(w, "null") \/ Dies(w, "undefined")
    BY <1>3 DEF Take
  <2>2. ASSUME page[w].alone
        PROVE  FALSE
    <3>1. OnPath("take", page[w], fragments, next, mem)
      BY <1>1, <2>2, AloneOnPath
    <3>2. fragments # NULL /\ mem[fragments] # "freed"
      BY <1>2, <3>1, PathTake
    <3> QED
      BY <1>3, <3>2
  <2> QED
    BY <2>1, <2>2, DiesFits
<1>4. CASE ~ (fragments = NULL \/ mem[fragments] = "freed")
  <2>1. /\ Local(w, p) /\ Goto(w, "advance") /\ died' = died
        /\ fragments' = fragments /\ next' = next /\ mem' = mem /\ fragments \in Nodes
    BY <1>2, <1>4 DEF Take, heap
  <2>2. page[w].alone /\ OnPath(at[w], page[w], fragments, next, mem)
          => OnPath("advance", p, fragments', next', mem')
    BY <1>1, <1>2, <2>1, PathTake
  <2>3. p \in Pages /\ p.alone = page[w].alone /\ p.f = fragments /\ p.nx = next[fragments]
    BY <1>2, <2>1 DEF Pages
  <2> HIDE DEF p
  <2>4. fragments \in Pointed /\ next[fragments] \in Pointed
    BY <2>1, ListIsPointed
  <2>5. p.nx \in Pointed /\ p.f \in Nodes
    BY <2>1, <2>3, <2>4
  <2>6. ListFits'
    BY <1>1, <1>2, <2>1, <2>2, <2>3, <2>4, <2>5, UnlinkedStep
  <2> QED
    BY <2>1, <2>6
<1> QED
  BY <1>3, <1>4

LEMMA AdvanceFits ==
  ASSUME ListFits, at \in [Workers -> Stages], NEW w \in Workers, Advance(w)
  PROVE  ListFits'
<1>1. /\ at[w] = "advance" /\ at[w] \in ListingStages
      /\ "send" \in ListingStages \ {"first", "walk", "link"}
      /\ Goto(w, "send") /\ fragments' = page[w].nx /\ next' = next /\ mem' = mem /\ page' = page
  BY DEF Advance, ListingStages
<1>2. /\ page[w] \in Pages /\ mem \in Heaps /\ page[w].nx \in Nodes \cup {NULL}
      /\ page[w].f \in Nodes /\ page[w].nx \in Pointed
  BY <1>1, PageFacts, ListIsPointed DEF Heaps, ListFits, InHand
<1>3. page[w].alone /\ OnPath(at[w], page[w], fragments, next, mem)
        => OnPath("send", page[w], fragments', next', mem')
  BY <1>1, <1>2, PathAdvance
<1>4. Local(w, page[w])
  BY <1>1, SamePage
<1> QED
  BY <1>1, <1>2, <1>3, <1>4, UnlinkedStep

LEMMA SendFits ==
  ASSUME ListFits, at \in [Workers -> Stages], NEW w \in Workers, SendFragment(w)
  PROVE  ListFits' /\ (UNCHANGED died \/ Dies(w, "signal") \/ ~page[w].alone)
<1> DEFINE p == [page[w] EXCEPT !.body = Append(@, page[w].f)]
<1>1. /\ at[w] = "send" /\ at[w] \in ListingStages
      /\ "test" \in ListingStages \ {"first", "walk", "link"}
  BY DEF SendFragment, ListingStages
<1>2. /\ page[w] \in Pages /\ mem \in Heaps /\ page[w].f \in Nodes /\ page[w].body \in Seq(Nodes)
      /\ fragments \in Nodes \cup {NULL}
  BY <1>1, PageFacts DEF Heaps, ListFits, InHand
<1>3. CASE mem[page[w].f] # "filled"
  <2>1. Dies(w, "undefined")
    BY <1>3 DEF SendFragment
  <2>2. ASSUME page[w].alone
        PROVE  FALSE
    <3>1. OnPath("send", page[w], fragments, next, mem)
      BY <1>1, <2>2, AloneOnPath
    <3>2. mem[page[w].f] = "filled"
      BY <1>2, <3>1, PathSend
    <3> QED
      BY <1>3, <3>2
  <2> QED
    BY <2>1, <2>2, DiesFits
<1>4. CASE Dies(w, "signal")
  BY <1>4, DiesFits
<1>5. CASE mem[page[w].f] = "filled" /\ ~Dies(w, "signal")
  <2>1. /\ mem' = [mem EXCEPT ![page[w].f] = "freed"] /\ Local(w, p) /\ Goto(w, "test")
        /\ died' = died /\ fragments' = fragments /\ next' = next
    BY <1>5 DEF SendFragment
  <2>2. page[w].alone /\ OnPath(at[w], page[w], fragments, next, mem)
          => OnPath("test", p, fragments', next', mem')
    BY <1>1, <1>2, <2>1, PathSend
  <2>3. p \in Pages /\ p.alone = page[w].alone
    <3>1. Append(page[w].body, page[w].f) \in Seq(Nodes)
      BY <1>2
    <3> QED
      BY <1>2, <3>1 DEF Pages
  <2> HIDE DEF p
  <2>4. mem' \in Heaps /\ \A n \in Nodes : mem'[n] = "unused" => mem[n] = "unused"
    BY <1>2, <2>1 DEF Heaps
  <2>5. fragments \in Pointed
    BY ListIsPointed
  <2>6. ListFits'
    BY <1>1, <1>2, <2>1, <2>2, <2>3, <2>4, <2>5, UnlinkedStep
  <2> QED
    BY <2>1, <2>6
<1> QED
  BY <1>3, <1>4, <1>5

\* A step of a listing keeps the list in order, and a listing that is alone ends
\* the process only if its client hangs up.
LEMMA ListingStepFits ==
  ASSUME ListFits, at \in [Workers -> Stages], NEW w \in Workers, ListingStep(w)
  PROVE  ListFits' /\ (UNCHANGED died \/ Dies(w, "signal") \/ ~page[w].alone)
<1>1. CASE Look(w)
  BY <1>1, LookFits DEF Look
<1>2. CASE LinkFirst(w)
  BY <1>2, LinkFirstFits DEF LinkFirst
<1>3. CASE Walk(w)
  BY <1>3, WalkFits
<1>4. CASE Link(w)
  BY <1>4, LinkFits
<1>5. CASE Fill(w)
  BY <1>5, FillFits
<1>6. CASE Count(w)
  BY <1>6, CountFits
<1>7. CASE Test(w)
  BY <1>7, TestFits DEF Test
<1>8. CASE Take(w)
  BY <1>8, TakeFits
<1>9. CASE Advance(w)
  BY <1>9, AdvanceFits DEF Advance
<1>10. CASE SendFragment(w)
  BY <1>10, SendFits
<1> QED
  BY <1>1, <1>2, <1>3, <1>4, <1>5, <1>6, <1>7, <1>8, <1>9, <1>10 DEF ListingStep

-----------------------------------------------------------------------------
(* The steps outside the listings *)

\* A worker that is in no listing, or at the end of one, leaves the list alone.
LEMMA OutsideFits ==
  ASSUME ListFits, at \in [Workers -> Stages], NEW w \in Workers, NEW s \in Stages \ ListingStages,
         Goto(w, s), UNCHANGED <<heap, page>>, at[w] \notin ListingStages \/ at[w] = "test"
  PROVE  ListFits'
<1>1. page' = page /\ fragments' = fragments /\ next' = next /\ mem' = mem
  BY DEF heap
<1>2. \A v \in Workers : at'[v] = IF v = w THEN s ELSE at[v]
  BY DEF Goto
<1>3. /\ \A x \in {"look", "first", "walk", "link", "fill", "advance", "send"} : at[w] # x /\ s # x
  BY DEF ListingStages
<1>4. ListingTypeOK' /\ Acyclic'
  BY <1>1, SameAcyclic DEF ListFits, ListingTypeOK
<1>5. InHand'
  BY <1>1, <1>2, <1>3 DEF ListFits, InHand
<1>6. HeapFits'
  <2>1. Making' = Making
    BY <1>2, <1>3 DEF Making
  <2>2. {u \in Workers : at'[u] = "link"} = {u \in Workers : at[u] = "link"}
    BY <1>2, <1>3
  <2>3. {u \in Workers : at'[u] = "advance"} = {u \in Workers : at[u] = "advance"}
    BY <1>2, <1>3
  <2>4. Pointed' = Pointed
    BY <1>1, <2>2, <2>3 DEF Pointed
  <2> QED
    BY <1>1, <2>1, <2>4 DEF ListFits, HeapFits
<1>7. AloneFits'
  <2>1. Listings' = Listings \ {w}
    BY <1>2 DEF Listings
  <2>2. ASSUME NEW v \in Listings', page'[v].alone
        PROVE  Listings' = {v} /\ OnPath(at'[v], page'[v], fragments', next', mem')
    <3>1. v \in Listings /\ v # w /\ page[v].alone /\ v \in Workers
      BY <1>1, <2>1, <2>2 DEF Listings
    <3>2. Listings = {v} /\ OnPath(at[v], page[v], fragments, next, mem)
      BY <3>1 DEF ListFits, AloneFits
    <3> QED
      BY <1>1, <1>2, <2>1, <3>1, <3>2
  <2> QED
    BY <2>2 DEF AloneFits
<1> QED
  BY <1>4, <1>5, <1>6, <1>7 DEF ListFits

\* A listing that begins alone finds the list empty, and one that does not is
\* the end of the others' being alone.
LEMMA BeginFits ==
  ASSUME ListFits, FragmentsTaken, at \in [Workers -> Stages], NEW w \in Workers,
         NEW n \in 1..MaxEntries, BeginListing(w, n), UNCHANGED heap, at[w] \notin ListingStages
  PROVE  ListFits'
<1> DEFINE p == [NewPage EXCEPT !.left = n, !.alone = Listings = {}]
<1>1. /\ fragments' = fragments /\ next' = next /\ mem' = mem
      /\ \A v \in Workers : at'[v] = IF v = w THEN "look" ELSE at[v]
  BY DEF heap, BeginListing, Goto
<1>2. p \in Pages /\ p.left = n /\ (p.alone <=> Listings = {}) /\ p.mine = <<>> /\ p.body = <<>>
  <2>1. (Listings = {}) \in BOOLEAN
    OBVIOUS
  <2>2. <<>> \in Seq(Nodes) /\ <<>> \in Seq(Nodes \cup {NULL}) /\ n \in 0..MaxEntries
    BY ListingBounds
  <2> QED
    BY <2>1, <2>2 DEF Pages, NewPage
<1>3. page' = [v \in Workers |-> IF v = w THEN p
                                 ELSE IF v \in Listings THEN [page[v] EXCEPT !.alone = FALSE]
                                 ELSE page[v]]
  BY DEF BeginListing
<1> HIDE DEF p
<1>4. ASSUME NEW v \in Workers, v # w
      PROVE  /\ page'[v] \in Pages /\ page'[v].left = page[v].left /\ page'[v].f = page[v].f
             /\ page'[v].prev = page[v].prev /\ page'[v].nx = page[v].nx
             /\ v \in Listings => ~page'[v].alone
  <2>1. page[v] \in Pages
    BY PageFacts
  <2> QED
    BY <1>3, <1>4, <2>1 DEF Pages
<1>5. page'[w] = p
  BY <1>3
<1>6. ListingTypeOK'
  <2>1. page' \in [Workers -> Pages]
    BY <1>2, <1>3, <1>4, <1>5
  <2> QED
    BY <1>1, <2>1 DEF ListFits, ListingTypeOK
<1>7. Acyclic'
  BY <1>1, SameAcyclic DEF ListFits
<1>8. InHand'
  <2>1. ASSUME NEW v \in Workers
        PROVE  /\ at'[v] = "look" => page'[v].left > 0
               /\ at'[v] \in {"first", "walk", "link", "fill", "advance", "send"} => page'[v].f \in Nodes
               /\ at'[v] = "link" => page'[v].prev \in Nodes
    <3>1. CASE v = w
      BY <1>1, <1>2, <1>5, <3>1
    <3>2. CASE v # w
      BY <1>1, <1>4, <3>2 DEF ListFits, InHand
    <3> QED
      BY <3>1, <3>2
  <2> QED
    BY <2>1 DEF InHand
<1>9. HeapFits'
  <2>1. \A x \in {"first", "walk", "link", "advance"} : at[w] # x /\ "look" # x
    BY DEF ListingStages
  <2>2. Making' = Making /\ w \notin Making /\ \A v \in Making : v \in Workers
    BY <1>1, <2>1 DEF Making
  <2>3. Pointed' = Pointed
    <3>1. \A v \in Workers : /\ at'[v] = "link" <=> at[v] = "link"
                             /\ at'[v] = "advance" <=> at[v] = "advance"
      BY <1>1, <2>1
    <3>2. \A v \in Workers : at[v] \in {"link", "advance"} =>
            page'[v].prev = page[v].prev /\ page'[v].nx = page[v].nx
      BY <1>4, <2>1
    <3>3. \A m : m \in Pointed' <=> m \in Pointed
      BY <1>1, <3>1, <3>2 DEF Pointed
    <3> QED
      BY <3>3
  <2>4. \A v \in Making : page'[v].f = page[v].f
    BY <1>4, <2>2
  <2> QED
    BY <1>1, <2>2, <2>3, <2>4 DEF ListFits, HeapFits
<1>10. AloneFits'
  <2>1. Listings' = Listings \cup {w} /\ w \notin Listings /\ Listings \subseteq Workers
    BY <1>1 DEF Listings, ListingStages
  <2>2. ASSUME NEW v \in Listings', page'[v].alone
        PROVE  Listings' = {v} /\ OnPath(at'[v], page'[v], fragments', next', mem')
    <3>1. v = w
      BY <1>4, <2>1, <2>2
    <3>2. Listings = {} /\ fragments = NULL
      BY <1>2, <1>5, <2>2, <3>1 DEF FragmentsTaken
    <3>3. OnPath("look", p, NULL, next, mem)
      <4>1. LinkedBy("look", p) = 0 /\ Len(p.mine) = 0 /\ Len(p.body) = 0
        BY <1>2 DEF LinkedBy
      <4>2. Node(p.mine, 0, 1) = NULL
        BY DEF Node
      <4> QED
        BY <4>1, <4>2 DEF OnPath
    <3> QED
      BY <1>1, <1>5, <2>1, <3>1, <3>2, <3>3
  <2> QED
    BY <2>2 DEF AloneFits
<1> QED
  BY <1>6, <1>7, <1>8, <1>9, <1>10 DEF ListFits

\* What a step of one worker has to do with the requests and the files.
LEMMA JobsMove ==
  ASSUME IInv, RequestsFit, UNCHANGED fixed, NEW w \in Workers, NEW s \in Stages, Goto(w, s),
         \A v \in Workers : v # w => /\ job'[v].replies = job[v].replies
                                     /\ job'[v].loc = job[v].loc /\ job'[v].server = job[v].server,
         \A v \in Workers : v # w /\ at[v] = "done" => page'[v] = page[v],
         OwnLocation(job'[w]), HasListing(job'[w]) => s = "done" /\ Exact(w)',
         DeathsApart', requests' \in 0..MaxRequests, filesOpen' \in Int,
         filesOpen' >= filesOpen + (IF s = "serve" THEN 1 ELSE 0) - (IF at[w] = "serve" THEN 1 ELSE 0)
  PROVE  RequestsFit'
<1>1. at \in [Workers -> Stages] /\ \A v \in Workers : at'[v] = IF v = w THEN s ELSE at[v]
  BY DEF Goto, IInv, Typed
<1>2. PagesSent'
  <2> SUFFICES ASSUME NEW v \in Workers, HasListing(job'[v])
               PROVE  at'[v] = "done" /\ Exact(v)'
    BY DEF PagesSent, HasListing
  <2>1. CASE v = w
    BY <1>1, <2>1
  <2>2. CASE v # w
    <3>1. HasListing(job[v])
      BY <2>2 DEF HasListing
    <3>2. at[v] = "done" /\ Exact(v)
      BY <3>1 DEF RequestsFit, PagesSent
    <3>3. page'[v] = page[v]
      BY <2>2, <3>2
    <3> QED
      BY <1>1, <2>2, <3>2, <3>3 DEF Exact
  <2> QED
    BY <2>1, <2>2
<1>3. OwnLocations'
  <2>1. servers' = servers
    BY DEF fixed
  <2> SUFFICES ASSUME NEW v \in Workers
               PROVE  OwnLocation(job'[v])
    BY <2>1 DEF OwnLocations, OwnLocation
  <2>2. CASE v = w
    BY <2>2
  <2>3. CASE v # w
    <3>1. OwnLocation(job[v])
      BY DEF RequestsFit, OwnLocations
    <3> QED
      BY <2>3, <3>1 DEF OwnLocation
  <2> QED
    BY <2>2, <2>3
<1>4. FilesHeld'
  <2>1. /\ Cardinality(Serving(at)) \in Nat
        /\ Cardinality(Serving(at')) = Cardinality(Serving(at)) + (IF s = "serve" THEN 1 ELSE 0)
                                         - (IF at[w] = "serve" THEN 1 ELSE 0)
    BY <1>1, ServingMoves DEF Goto
  <2>2. Cardinality(Serving(at')) \in Nat
    <3>1. IsFiniteSet(Serving(at'))
      BY WorkersFinite, FS_Subset DEF Serving
    <3> QED
      BY <3>1, FS_CardinalityType
  <2>3. filesOpen \in Nat /\ filesOpen >= Cardinality(Serving(at))
    BY DEF RequestsFit, FilesHeld
  <2>4. filesOpen' >= Cardinality(Serving(at')) /\ filesOpen' \in Nat
    <3> DEFINE c == Cardinality(Serving(at))
               d == Cardinality(Serving(at'))
               up == IF s = "serve" THEN 1 ELSE 0
               down == IF at[w] = "serve" THEN 1 ELSE 0
    <3>1. c \in Nat /\ d \in Nat /\ d = c + up - down /\ filesOpen \in Nat /\ filesOpen >= c
          /\ filesOpen' \in Int /\ filesOpen' >= filesOpen + up - down /\ up \in Nat /\ down \in Nat
      BY <2>1, <2>2, <2>3
    <3> HIDE DEF c, d, up, down
    <3>2. filesOpen' >= d /\ filesOpen' \in Nat
      BY <3>1
    <3> QED
      BY <3>2 DEF d
  <2> QED
    BY <2>4 DEF FilesHeld, Serving
<1> QED
  BY <1>2, <1>3, <1>4 DEF RequestsFit

\* A worker goes on with a request outside the listings.
LEMMA SetFits ==
  ASSUME LInv, died.how = "no", NEW w \in Workers, NEW s \in Stages \ ListingStages, NEW j, Set(w, s, j),
         UNCHANGED <<heap, page, fixed>>, at[w] \notin ListingStages \/ at[w] = "test",
         OwnLocation(j), HasListing(j) => s = "done" /\ Exact(w),
         requests' \in 0..MaxRequests, filesOpen' \in Int,
         filesOpen' >= filesOpen + (IF s = "serve" THEN 1 ELSE 0) - (IF at[w] = "serve" THEN 1 ELSE 0)
  PROVE  ListFits' /\ RequestsFit'
<1>1. /\ IInv /\ ListFits /\ RequestsFit /\ at \in [Workers -> Stages] /\ job \in [Workers -> Jobs]
  BY DEF LInv, IInv, Typed
<1>2. /\ Goto(w, s) /\ died' = died /\ page' = page /\ UNCHANGED fixed
      /\ job'[w] = j /\ \A v \in Workers : v # w => job'[v] = job[v]
  BY <1>1 DEF Set
<1>3. ListFits'
  BY <1>1, <1>2, OutsideFits
<1>4. DeathsApart'
  BY <1>2 DEF DeathsApart
<1>5. HasListing(job'[w]) => s = "done" /\ Exact(w)'
  BY <1>2 DEF Exact
<1>6. OwnLocation(job'[w])
  BY <1>2
<1>7. RequestsFit'
  BY <1>1, <1>2, <1>4, <1>5, <1>6, JobsMove
<1> QED
  BY <1>3, <1>7

LEMMA QuietFits ==
  ASSUME LInv, died.how = "no", NEW w \in Workers, NEW s \in Stages \ ListingStages, NEW j, Set(w, s, j),
         UNCHANGED shared, at[w] \notin ListingStages \cup {"serve"}, s # "serve",
         OwnLocation(j), ~HasListing(j)
  PROVE  ListFits' /\ RequestsFit'
<1>1. UNCHANGED <<heap, page, fixed>> /\ requests' = requests /\ filesOpen' = filesOpen
  BY DEF shared
<1>2. requests \in 0..MaxRequests /\ filesOpen \in Nat
  BY DEF LInv, RequestsFit, FilesHeld
<1>3. filesOpen' >= filesOpen + (IF s = "serve" THEN 1 ELSE 0) - (IF at[w] = "serve" THEN 1 ELSE 0)
  BY <1>1, <1>2
<1>4. requests' \in 0..MaxRequests /\ filesOpen' \in Int
  BY <1>1, <1>2
<1> QED
  BY <1>1, <1>3, <1>4, SetFits

\* What is known of a request that has not ended.
LEMMA OpenRequest ==
  ASSUME LInv, NEW w \in Workers
  PROVE  /\ job[w] \in Jobs /\ OwnLocation(job[w]) /\ (at[w] # "done" => ~HasListing(job[w]))
         /\ at[w] \in Stages /\ at \in [Workers -> Stages]
BY DEF LInv, IInv, Typed, RequestsFit, OwnLocations, PagesSent

\* A response that is no listing.
LEMMA ReplyFits ==
  ASSUME NEW j \in Jobs, OwnLocation(j), ~HasListing(j), NEW code \in Nat,
         NEW body \in Bodies \ {"listing"}
  PROVE  OwnLocation(Reply(j, code, body)) /\ ~HasListing(Reply(j, code, body))
<1> DEFINE c == [code |-> code, body |-> body]
           r == Reply(j, code, body)
<1>1. r.loc = j.loc /\ r.server = j.server /\ r.replies = Append(j.replies, c)
  <2>1. r.loc = j.loc /\ r.server = j.server
    BY ReplyEffect
  <2>2. r.replies = Append(j.replies, c)
    BY DEF Reply, Jobs
  <2> QED
    BY <2>1, <2>2
<1>2. j.replies \in Seq([code : Nat, body : Bodies]) /\ c \in [code : Nat, body : Bodies] /\ c.body = body
  BY DEF Jobs
<1> HIDE DEF c, r
<1>3. ASSUME NEW i \in DOMAIN r.replies
      PROVE  r.replies[i].body # "listing"
  <2>1. /\ DOMAIN j.replies = 1..Len(j.replies) /\ DOMAIN r.replies = 1..Len(j.replies) + 1
        /\ Len(j.replies) \in Nat
    BY <1>1, <1>2
  <2>2. CASE i \in 1..Len(j.replies)
    <3>1. r.replies[i] = j.replies[i]
      BY <1>1, <1>2, <2>2
    <3> QED
      BY <2>1, <2>2, <3>1 DEF HasListing
  <2>3. CASE i \notin 1..Len(j.replies)
    <3>1. i = Len(j.replies) + 1
      BY <2>1, <2>3
    <3>2. r.replies[i] = c
      BY <1>1, <1>2, <3>1
    <3> QED
      BY <1>2, <3>2
  <2> QED
    BY <2>2, <2>3
<1>4. ~HasListing(r)
  BY <1>3 DEF HasListing
<1>5. OwnLocation(r)
  BY <1>1 DEF OwnLocation
<1> QED
  BY <1>4, <1>5 DEF r

\* A handler ends with a response that is no listing.
LEMMA EndFitsList ==
  ASSUME LInv, died.how = "no", NEW w \in Workers, UNCHANGED shared,
         at[w] \notin ListingStages \cup {"serve", "done"}, NEW code \in Nat,
         NEW body \in Bodies \ {"listing"}, Set(w, "done", Reply(job[w], code, body))
  PROVE  ListFits' /\ RequestsFit'
<1>1. job[w] \in Jobs /\ OwnLocation(job[w]) /\ ~HasListing(job[w])
  BY OpenRequest
<1>2. OwnLocation(Reply(job[w], code, body)) /\ ~HasListing(Reply(job[w], code, body))
  BY <1>1, ReplyFits
<1>3. "done" \in Stages \ ListingStages /\ "done" # "serve"
  BY DEF Stages, ListingStages
<1>4. at[w] \notin ListingStages \cup {"serve"}
  OBVIOUS
<1> QED
  BY <1>2, <1>3, <1>4, QuietFits

\* The process dies of a request, outside the listings.
LEMMA DeathFits ==
  ASSUME LInv, NEW w \in Workers, at[w] \notin ListingStages \cup {"done"},
         at' = at, UNCHANGED <<heap, page, fixed>>, requests' = requests, filesOpen' = filesOpen,
         died'.by = w, \A v \in Workers : v # w => job'[v] = job[v],
         OwnLocation(job'[w]), ~HasListing(job'[w])
  PROVE  ListFits' /\ RequestsFit'
<1>1. IInv /\ ListFits /\ RequestsFit /\ at \in [Workers -> Stages] /\ page' = page
  BY DEF LInv, IInv, Typed
<1>2. ListFits'
  BY <1>1, SameList
<1>3. Goto(w, at[w]) /\ at[w] \in Stages
  BY <1>1 DEF Goto
<1>4. DeathsApart'
  BY DEF DeathsApart, Listings
<1>5. /\ requests' \in 0..MaxRequests /\ filesOpen' \in Int /\ filesOpen \in Nat /\ filesOpen' = filesOpen
      /\ at[w] \in Stages
  BY <1>1, <1>3 DEF RequestsFit, FilesHeld
<1>6. filesOpen' >= filesOpen + (IF at[w] = "serve" THEN 1 ELSE 0) - (IF at[w] = "serve" THEN 1 ELSE 0)
  BY <1>5
<1>7. RequestsFit'
  BY <1>1, <1>3, <1>4, <1>5, <1>6, JobsMove
<1> QED
  BY <1>2, <1>7

LEMMA CrashFits ==
  ASSUME LInv, NEW w \in Workers, NEW how, Crash(w, how), at[w] \notin ListingStages \cup {"done"}
  PROVE  ListFits' /\ RequestsFit'
<1>1. /\ at' = at /\ UNCHANGED <<heap, page, fixed>> /\ requests' = requests /\ filesOpen' = filesOpen
      /\ died' = [how |-> how, by |-> w] /\ job' = job
  BY DEF Crash, Dies
<1>2. OwnLocation(job[w]) /\ ~HasListing(job[w])
  BY OpenRequest
<1>3. died'.by = w
  BY <1>1
<1> QED
  BY <1>1, <1>2, <1>3, DeathFits

LEMMA FailFits ==
  ASSUME LInv, died.how = "no", NEW w \in Workers, UNCHANGED shared,
         at[w] \in {"input", "routed", "stat", "statTarget"}, NEW code \in Nat, Fail(w, code)
  PROVE  ListFits' /\ RequestsFit'
<1>1. "error" \in Bodies \ {"listing"} /\ at[w] \notin ListingStages \cup {"serve", "done"}
  BY DEF Bodies, ListingStages
<1>2. CASE Set(w, "done", Reply(job[w], code, "error"))
  BY <1>1, <1>2, EndFitsList
<1>3. CASE Crash(w, "signal")
  BY <1>1, <1>3, CrashFits
<1> QED
  BY <1>2, <1>3 DEF Fail, Error

-----------------------------------------------------------------------------
(* The actions of Requests *)

LEMMA RequestFits ==
  ASSUME LInv, died.how = "no", NEW w \in Workers, NEW input \in Inputs, Request(w, input)
  PROVE  ListFits' /\ RequestsFit'
<1>1. /\ at[w] \in {"idle", "done"} /\ Set(w, "input", NewJob(input)) /\ UNCHANGED <<heap, page, fixed>>
      /\ requests < MaxRequests /\ requests' = requests + 1 /\ filesOpen' = filesOpen
  BY DEF Request
<1>2. requests \in 0..MaxRequests /\ filesOpen \in Nat
  BY DEF LInv, RequestsFit, FilesHeld
<1>3. requests' \in 0..MaxRequests /\ filesOpen' \in Int
  BY <1>1, <1>2, RequestBounds
<1>4. OwnLocation(NewJob(input)) /\ ~HasListing(NewJob(input))
  BY DEF OwnLocation, HasListing, NewJob
<1>5. "input" \in Stages \ ListingStages /\ at[w] \notin ListingStages /\ at[w] # "serve"
  BY <1>1 DEF Stages, ListingStages
<1>6. filesOpen' >= filesOpen + (IF "input" = "serve" THEN 1 ELSE 0) - (IF at[w] = "serve" THEN 1 ELSE 0)
  BY <1>1, <1>2, <1>5
<1> QED
  BY <1>1, <1>3, <1>4, <1>5, <1>6, SetFits

LEMMA RefuseFits ==
  ASSUME LInv, died.how = "no", NEW w \in Workers,
         \/ Refuse(w) \/ NoDocRoot(w) \/ UriTooLong(w) \/ NotAllowed(w) \/ NoDirectory(w)
  PROVE  ListFits' /\ RequestsFit'
<1>1. /\ at[w] \in {"input", "routed", "stat", "statTarget"} /\ UNCHANGED shared
      /\ \/ Fail(w, 413) \/ Fail(w, 400) \/ Fail(w, 500) \/ Fail(w, 414) \/ Fail(w, 404)
         \/ Fail(w, 405)
  BY DEF Refuse, NoDocRoot, UriTooLong, NotAllowed, NoDirectory
<1>2. {413, 400, 500, 414, 404, 405} \subseteq Nat
  OBVIOUS
<1>3. PICK code \in {413, 400, 500, 414, 404, 405} : Fail(w, code)
  BY <1>1
<1> QED
  BY <1>1, <1>2, <1>3, FailFits

LEMMA CutFits ==
  ASSUME LInv, NEW w \in Workers, Cut(w)
  PROVE  ListFits' /\ RequestsFit'
<1>1. at[w] \notin ListingStages \cup {"done"} /\ Crash(w, "null")
  BY DEF Cut, ListingStages
<1> QED
  BY <1>1, CrashFits

LEMMA FindServerFits ==
  ASSUME LInv, died.how = "no", NEW w \in Workers, FindServer(w)
  PROVE  ListFits' /\ RequestsFit'
<1> DEFINE j == [job[w] EXCEPT !.server = GetServerForHost(job[w].input)]
<1>1. at[w] = "input" /\ Set(w, "routed", j) /\ UNCHANGED shared
  BY DEF FindServer
<1>2. job[w] \in Jobs /\ ~HasListing(job[w]) /\ job[w].loc = NoLocation
  <2>1. Fits(tryTarget, "input", job[w])
    BY <1>1, JobFacts DEF LInv
  <2> QED
    BY <1>1, <2>1, OpenRequest DEF Fits, Answered
<1>3. j.loc = job[w].loc /\ j.replies = job[w].replies
  BY <1>2 DEF Jobs
<1> HIDE DEF j
<1>4. OwnLocation(j) /\ ~HasListing(j)
  BY <1>2, <1>3 DEF OwnLocation, HasListing
<1>5. "routed" \in Stages \ ListingStages /\ at[w] \notin ListingStages \cup {"serve"}
  BY <1>1 DEF Stages, ListingStages
<1> QED
  BY <1>1, <1>4, <1>5, QuietFits

LEMMA NoServerFits ==
  ASSUME LInv, NEW w \in Workers, NoServer(w), ~Crash(w, "signal")
  PROVE  ListFits' /\ RequestsFit'
<1> DEFINE rs == Append(job[w].replies, [code |-> 404, body |-> "error"])
           j  == [job[w] EXCEPT !.replies = rs]
<1>1. /\ died' = [how |-> "null", by |-> w] /\ at' = at /\ UNCHANGED <<heap, page, fixed>>
      /\ requests' = requests /\ filesOpen' = filesOpen /\ at[w] = "routed"
      /\ job' = [job EXCEPT ![w] = j]
  BY DEF NoServer, shared
<1>2. /\ job \in [Workers -> Jobs] /\ job[w] \in Jobs /\ OwnLocation(job[w]) /\ ~HasListing(job[w])
      /\ at[w] \notin ListingStages \cup {"done"}
  BY <1>1, OpenRequest DEF LInv, IInv, Typed, ListingStages
<1>3. job'[w] = j /\ \A v \in Workers : v # w => job'[v] = job[v]
  BY <1>1, <1>2
<1>4. j.loc = job[w].loc /\ j.server = job[w].server /\ j.replies = rs
  BY <1>2 DEF Jobs
<1>5. /\ Reply(job[w], 404, "error").replies = rs
      /\ ~HasListing(Reply(job[w], 404, "error"))
  <2>1. 404 \in Nat /\ "error" \in Bodies \ {"listing"}
    BY DEF Bodies
  <2>2. Reply(job[w], 404, "error").replies = rs
    BY <1>2 DEF Reply, Jobs
  <2> QED
    BY <1>2, <2>1, <2>2, ReplyFits
<1> HIDE DEF j, rs
<1>6. OwnLocation(j) /\ ~HasListing(j)
  BY <1>2, <1>4, <1>5 DEF OwnLocation, HasListing
<1>7. died'.by = w
  BY <1>1
<1> QED
  BY <1>1, <1>2, <1>3, <1>6, <1>7, DeathFits

LEMMA NoServerFitsAll ==
  ASSUME LInv, NEW w \in Workers, NoServer(w)
  PROVE  ListFits' /\ RequestsFit'
<1>1. at[w] \notin ListingStages \cup {"done"}
  BY DEF NoServer, ListingStages
<1>2. CASE Crash(w, "signal")
  BY <1>1, <1>2, CrashFits
<1>3. CASE ~Crash(w, "signal")
  BY <1>3, NoServerFits
<1> QED
  BY <1>2, <1>3

\* getDocRoot returns a location of the server it looks in, or NULL.
LEMMA LocationOfServer ==
  ASSUME servers \in Sites, NEW k \in DOMAIN servers, NEW path
  PROVE  \/ GetDocRoot(servers[k], path) = NoLocation
         \/ \E i \in DOMAIN servers[k].locations :
              servers[k].locations[i] = GetDocRoot(servers[k], path)
<1> DEFINE found == {i \in DOMAIN servers[k].locations : Matches(servers[k].locations[i], path)}
<1>1. CASE found = {}
  BY <1>1 DEF GetDocRoot
<1>2. CASE found # {}
  <2>1. found \subseteq Nat
    BY SitesAreServers DEF IsList
  <2>2. \E i \in found : \A m \in found : i <= m
    BY <1>2, <2>1, Least
  <2> DEFINE first == CHOOSE i \in found : \A m \in found : i <= m
  <2>3. GetDocRoot(servers[k], path) = servers[k].locations[first]
    BY <1>2 DEF GetDocRoot
  <2> HIDE DEF found
  <2>4. first \in found
    BY <2>2
  <2> HIDE DEF first
  <2>5. first \in DOMAIN servers[k].locations
    BY <2>4 DEF found
  <2> QED
    BY <2>3, <2>5
<1> QED
  BY <1>1, <1>2

LEMMA DispatchFits ==
  ASSUME LInv, died.how = "no", NEW w \in Workers, Dispatch(w)
  PROVE  ListFits' /\ RequestsFit'
<1> DEFINE loc  == GetDocRoot(servers[job[w].server], job[w].path)
           j    == [job[w] EXCEPT !.loc = loc]
           goal == Handler(loc, job[w].input.verb)
<1>1. at[w] = "routed" /\ UNCHANGED shared /\ Set(w, goal, j) /\ goal # "done"
  BY DEF Dispatch
<1>2. job[w] \in Jobs /\ ~HasListing(job[w]) /\ servers \in Sites /\ job[w].server \in DOMAIN servers
  <2>1. job[w] \in Jobs /\ servers \in Sites /\ job[w].server \in 0..Len(servers)
    BY JobFacts DEF LInv
  <2> QED
    BY <1>1, <2>1, OpenRequest, SitesAreServers DEF Dispatch, IsList
<1>3. loc = NoLocation \/ \E i \in DOMAIN servers[job[w].server].locations :
                            servers[job[w].server].locations[i] = loc
  BY <1>2, LocationOfServer
<1>4. goal \in {"tryFiles", "upstream", "stat"}
  BY <1>1 DEF Handler
<1> HIDE DEF loc, goal
<1>5. j.loc = loc /\ j.server = job[w].server /\ j.replies = job[w].replies
  BY <1>2 DEF Jobs
<1> HIDE DEF j
<1>6. OwnLocation(j) /\ ~HasListing(j)
  BY <1>2, <1>3, <1>5 DEF OwnLocation, HasListing
<1>7. /\ goal \in Stages \ ListingStages /\ goal # "serve"
      /\ at[w] \notin ListingStages \cup {"serve"}
  BY <1>1, <1>4 DEF Stages, ListingStages
<1> QED
  BY <1>1, <1>6, <1>7, QuietFits

LEMMA UpstreamFits ==
  ASSUME LInv, died.how = "no", NEW w \in Workers,
         UpstreamFails(w) \/ NoAnswer(w) \/ \E code \in UpstreamCodes : Forward(w, code)
  PROVE  ListFits' /\ RequestsFit'
<1> DEFINE logged == Append(job[w].logged, [code |-> 200, server |-> job[w].server])
           j      == [job[w] EXCEPT !.logged = logged]
<1>1. at[w] = "upstream" /\ UNCHANGED shared
  BY DEF Forward, UpstreamFails, NoAnswer
<1>2. /\ at[w] \notin ListingStages \cup {"serve", "done"} /\ at[w] \notin ListingStages \cup {"serve"}
      /\ "done" \in Stages \ ListingStages /\ "done" # "serve"
      /\ UpstreamCodes \subseteq Nat /\ "forwarded" \in Bodies \ {"listing"}
  BY <1>1 DEF Stages, ListingStages, Bodies, UpstreamCodes
<1>3. job[w] \in Jobs /\ OwnLocation(job[w]) /\ ~HasListing(job[w])
  BY <1>1, OpenRequest
<1>4. CASE \E code \in UpstreamCodes : Forward(w, code)
  <2>1. PICK code \in UpstreamCodes : Forward(w, code)
    BY <1>4
  <2> QED
    BY <1>1, <1>2, <2>1, EndFitsList DEF Forward
<1>5. CASE UpstreamFails(w)
  BY <1>1, <1>2, <1>3, <1>5, QuietFits DEF UpstreamFails
<1>6. CASE NoAnswer(w)
  <2>1. Set(w, "done", j)
    BY <1>6 DEF NoAnswer
  <2> HIDE DEF logged
  <2>2. j.loc = job[w].loc /\ j.server = job[w].server /\ j.replies = job[w].replies
    BY <1>3 DEF Jobs
  <2> HIDE DEF j
  <2>3. OwnLocation(j) /\ ~HasListing(j)
    BY <1>3, <2>2 DEF OwnLocation, HasListing
  <2> QED
    BY <1>1, <1>2, <2>1, <2>3, QuietFits
<1> QED
  BY <1>4, <1>5, <1>6

LEMMA UpstreamDeathFits ==
  ASSUME LInv, NEW w \in Workers, NoUpstream(w) \/ ForwardDies(w)
  PROVE  ListFits' /\ RequestsFit'
<1>1. at[w] \notin ListingStages \cup {"done"}
  BY DEF NoUpstream, ForwardDies, ListingStages
<1>2. \E how \in {"exit", "signal", "null"} : Crash(w, how)
  BY DEF NoUpstream, ForwardDies
<1> QED
  BY <1>1, <1>2, CrashFits

LEMMA TryFilesFits ==
  ASSUME LInv, died.how = "no", NEW w \in Workers, TryFiles(w)
  PROVE  ListFits' /\ RequestsFit'
<1>1. /\ at[w] = "tryFiles" /\ Goto(w, "check") /\ died' = died
      /\ UNCHANGED <<heap, page, fixed>> /\ requests' = requests /\ filesOpen' = filesOpen
  BY DEF TryFiles
<1>2. /\ IInv /\ ListFits /\ RequestsFit /\ at \in [Workers -> Stages] /\ job \in [Workers -> Jobs]
      /\ requests \in 0..MaxRequests /\ filesOpen \in Nat /\ page' = page
  BY <1>1 DEF LInv, IInv, Typed, RequestsFit, FilesHeld
<1>3. OwnLocation(job[w]) /\ ~HasListing(job[w])
  BY <1>1, OpenRequest
<1>4. "check" \in Stages \ ListingStages /\ at[w] \notin ListingStages /\ at[w] # "serve"
  BY <1>1 DEF Stages, ListingStages
<1>5. ASSUME NEW v \in Workers
      PROVE  /\ job'[v].replies = job[v].replies
             /\ job'[v].loc = job[v].loc /\ job'[v].server = job[v].server
  <2>1. PICK m : job'[v] = [job[v] EXCEPT !.met = m]
    BY DEF TryFiles
  <2>2. job[v] \in Jobs
    BY <1>2
  <2> QED
    BY <2>1, <2>2 DEF Jobs
<1>6. OwnLocation(job'[w]) /\ ~HasListing(job'[w])
  BY <1>3, <1>5 DEF OwnLocation, HasListing
<1>7. ListFits'
  BY <1>1, <1>2, <1>4, OutsideFits
<1>8. DeathsApart'
  BY <1>1 DEF DeathsApart
<1>9. filesOpen' >= filesOpen + (IF "check" = "serve" THEN 1 ELSE 0) - (IF at[w] = "serve" THEN 1 ELSE 0)
  BY <1>1, <1>2, <1>4
<1>10. requests' \in 0..MaxRequests /\ filesOpen' \in Int /\ "check" \in Stages
  BY <1>1, <1>2, <1>4
<1>11. RequestsFit'
  BY <1>1, <1>2, <1>5, <1>6, <1>8, <1>9, <1>10, JobsMove
<1> QED
  BY <1>7, <1>11

LEMMA CheckTargetFits ==
  ASSUME LInv, died.how = "no", NEW w \in Workers, CheckTarget(w)
  PROVE  ListFits' /\ RequestsFit'
<1>1. at[w] = "check" /\ UNCHANGED shared
  BY DEF CheckTarget
<1>2. /\ at[w] \notin ListingStages \cup {"done"} /\ at[w] \notin ListingStages \cup {"serve"}
      /\ "stat" \in Stages \ ListingStages /\ "stat" # "serve"
      /\ 404 \in Nat /\ "error" \in Bodies \ {"listing"}
  BY <1>1 DEF Stages, ListingStages, Bodies
<1>3. job[w] \in Jobs /\ OwnLocation(job[w]) /\ ~HasListing(job[w])
  BY <1>1, OpenRequest
<1>4. OwnLocation(Reply(job[w], 404, "error")) /\ ~HasListing(Reply(job[w], 404, "error"))
  BY <1>2, <1>3, ReplyFits
<1>5. CASE Crash(w, "signal")
  BY <1>2, <1>5, CrashFits
<1>6. CASE Set(w, "stat", Reply(job[w], 404, "error"))
  BY <1>1, <1>2, <1>4, <1>6, QuietFits
<1>7. CASE Set(w, "stat", job[w])
  BY <1>1, <1>2, <1>3, <1>7, QuietFits
<1> QED
  BY <1>5, <1>6, <1>7 DEF CheckTarget, Error

LEMMA MissingFits ==
  ASSUME LInv, died.how = "no", NEW w \in Workers, NotFound(w) \/ NoIndex(w)
  PROVE  ListFits' /\ RequestsFit'
<1>1. at[w] = "stat" /\ UNCHANGED shared /\ Missing(w)
  BY DEF NotFound, NoIndex
<1>2. OwnLocation(job[w]) /\ ~HasListing(job[w])
  BY <1>1, OpenRequest
<1>3. /\ at[w] \notin ListingStages \cup {"serve"} /\ 404 \in Nat
      /\ \A s \in {"upstream", "alloc"} : s \in Stages \ ListingStages /\ s # "serve"
  BY <1>1 DEF Stages, ListingStages
<1>4. Fail(w, 404) \/ \E s \in {"upstream", "alloc"} : Set(w, s, job[w])
  BY <1>1 DEF Missing
<1>5. CASE Fail(w, 404)
  BY <1>1, <1>3, <1>5, FailFits
<1>6. CASE \E s \in {"upstream", "alloc"} : Set(w, s, job[w])
  BY <1>1, <1>2, <1>3, <1>6, QuietFits
<1> QED
  BY <1>4, <1>5, <1>6

\* open() gives a request a descriptor.
LEMMA OpenFits ==
  ASSUME LInv, died.how = "no", NEW w \in Workers, NEW s \in {"serve", "upstream"}, NEW j,
         Open(w, s, j), at[w] \in {"stat", "statTarget"},
         j.loc = job[w].loc, j.server = job[w].server, j.replies = job[w].replies
  PROVE  ListFits' /\ RequestsFit'
<1>1. /\ Set(w, s, j) /\ filesOpen' = filesOpen + 1 /\ UNCHANGED <<heap, page, fixed>>
      /\ requests' = requests
  BY DEF Open
<1>2. requests \in 0..MaxRequests /\ filesOpen \in Nat
  BY DEF LInv, RequestsFit, FilesHeld
<1>3. s \in Stages \ ListingStages /\ at[w] \notin ListingStages /\ at[w] # "serve"
  BY DEF Stages, ListingStages
<1>4. OwnLocation(j) /\ ~HasListing(j)
  <2>1. OwnLocation(job[w]) /\ ~HasListing(job[w])
    BY OpenRequest
  <2> QED
    BY <2>1 DEF OwnLocation, HasListing
<1>5. /\ requests' \in 0..MaxRequests /\ filesOpen' \in Int
      /\ filesOpen' >= filesOpen + (IF s = "serve" THEN 1 ELSE 0) - (IF at[w] = "serve" THEN 1 ELSE 0)
  BY <1>1, <1>2, <1>3
<1> QED
  BY <1>1, <1>3, <1>4, <1>5, SetFits

LEMMA OpenFileFits ==
  ASSUME LInv, died.how = "no", NEW w \in Workers, OpenPath(w) \/ OpenIndex(w)
  PROVE  ListFits' /\ RequestsFit'
<1> DEFINE file == job[w].loc.root \o job[w].path
           j    == [job[w] EXCEPT !.file = file]
<1>1. at[w] = "stat" /\ \E s \in {"serve", "upstream"} : Open(w, s, j)
  BY DEF OpenPath, OpenIndex
<1>2. job[w] \in Jobs
  BY OpenRequest
<1> HIDE DEF file
<1>3. j.loc = job[w].loc /\ j.server = job[w].server /\ j.replies = job[w].replies
  BY <1>2 DEF Jobs
<1> HIDE DEF j
<1> QED
  BY <1>1, <1>3, OpenFits

LEMMA ListDirectoryFits ==
  ASSUME LInv, died.how = "no", NEW w \in Workers, NEW n \in 1..MaxEntries, ListDirectory(w, n)
  PROVE  ListFits' /\ RequestsFit'
<1>1. /\ at[w] = "stat" /\ BeginListing(w, n) /\ Goto(w, "look") /\ died' = died /\ UNCHANGED heap
      /\ UNCHANGED fixed /\ job' = job /\ requests' = requests /\ filesOpen' = filesOpen
  BY DEF ListDirectory, BeginListing
<1>2. /\ IInv /\ ListFits /\ RequestsFit /\ FragmentsTaken /\ at \in [Workers -> Stages]
      /\ requests \in 0..MaxRequests /\ filesOpen \in Nat
  BY DEF LInv, IInv, Typed, RequestsFit, FilesHeld
<1>3. at[w] \notin ListingStages /\ at[w] # "serve" /\ "look" \in Stages /\ "done" \notin ListingStages
  BY <1>1 DEF ListingStages, Stages
<1>4. ListFits'
  BY <1>1, <1>2, <1>3, BeginFits
<1>5. \A v \in Workers : v # w /\ at[v] = "done" => page'[v] = page[v]
  BY <1>1, <1>3 DEF BeginListing, Listings
<1>6. OwnLocation(job'[w]) /\ ~HasListing(job'[w])
  BY <1>1, OpenRequest
<1>7. DeathsApart'
  BY <1>1 DEF DeathsApart
<1>8. /\ requests' \in 0..MaxRequests /\ filesOpen' \in Int
      /\ filesOpen' >= filesOpen + (IF "look" = "serve" THEN 1 ELSE 0) - (IF at[w] = "serve" THEN 1 ELSE 0)
  BY <1>1, <1>2, <1>3
<1>9. RequestsFit'
  BY <1>1, <1>2, <1>3, <1>5, <1>6, <1>7, <1>8, JobsMove
<1> QED
  BY <1>4, <1>9

LEMMA ListingFitsAll ==
  ASSUME LInv, died.how = "no", NEW w \in Workers, ListingStep(w),
         UNCHANGED <<fixed, tryTarget, job, requests, filesOpen>>
  PROVE  ListFits' /\ RequestsFit'
<1>1. /\ IInv /\ ListFits /\ RequestsFit /\ at \in [Workers -> Stages] /\ at[w] \in Stages
      /\ requests \in 0..MaxRequests /\ filesOpen \in Nat
  BY DEF LInv, IInv, Typed, RequestsFit, FilesHeld
<1>2. ListFits' /\ (UNCHANGED died \/ Dies(w, "signal") \/ ~page[w].alone)
  BY <1>1, ListingStepFits
<1>3. /\ at[w] \in ListingStages
      /\ \/ \E s \in ListingStages : Goto(w, s) /\ UNCHANGED died
         \/ \E how \in {"null", "undefined", "signal"} : Dies(w, how)
  BY ListingMoves
<1>4. at[w] \notin {"serve", "done"} /\ ListingStages \subseteq Stages /\ "serve" \notin ListingStages
  BY <1>3 DEF ListingStages, Stages
<1>5. OwnLocation(job'[w]) /\ ~HasListing(job'[w])
  BY <1>4, OpenRequest
<1>6. \A v \in Workers : v # w => page'[v] = page[v]
  <2>1. page \in [Workers -> Pages]
    BY <1>1, PageFacts
  <2>2. page' = page \/ \E p : Local(w, p)
    BY DEF ListingStep, Look, LinkFirst, Walk, Link, Fill, Count, Test, Take, Advance, SendFragment, Dies
  <2> QED
    BY <2>1, <2>2 DEF Local
<1>7. requests' \in 0..MaxRequests /\ filesOpen' \in Int /\ filesOpen' = filesOpen
  BY <1>1
<1>8. CASE \E s \in ListingStages : Goto(w, s) /\ UNCHANGED died
  <2>1. PICK s \in ListingStages : Goto(w, s) /\ UNCHANGED died
    BY <1>8
  <2>2. s \in Stages /\ s # "serve"
    BY <1>4
  <2>3. DeathsApart'
    BY <2>1 DEF DeathsApart
  <2>4. filesOpen' >= filesOpen + (IF s = "serve" THEN 1 ELSE 0) - (IF at[w] = "serve" THEN 1 ELSE 0)
    BY <1>1, <1>4, <1>7, <2>2
  <2>5. RequestsFit'
    BY <1>1, <1>5, <1>6, <1>7, <2>1, <2>2, <2>3, <2>4, JobsMove
  <2> QED
    BY <1>2, <2>5
<1>9. CASE \E how \in {"null", "undefined", "signal"} : Dies(w, how)
  <2>1. PICK how \in {"null", "undefined", "signal"} : Dies(w, how)
    BY <1>9
  <2>2. died' = [how |-> how, by |-> w] /\ at' = at /\ page' = page
    BY <2>1 DEF Dies
  <2>3. how # "no" /\ died'.how = how /\ died'.by = w
    BY <2>2
  <2>4. how # "signal" => ~page[w].alone
    BY <1>2, <2>2, <2>3 DEF Dies
  <2>5. DeathsApart'
    BY <2>2, <2>3, <2>4 DEF DeathsApart
  <2>6. Goto(w, at[w])
    BY <1>1, <2>2 DEF Goto
  <2>7. filesOpen' >= filesOpen + (IF at[w] = "serve" THEN 1 ELSE 0) - (IF at[w] = "serve" THEN 1 ELSE 0)
    BY <1>1, <1>4, <1>7
  <2>8. RequestsFit'
    BY <1>1, <1>5, <1>6, <1>7, <2>5, <2>6, <2>7, JobsMove
  <2> QED
    BY <1>2, <2>8
<1> QED
  BY <1>3, <1>8, <1>9

\* A listing that was alone has sent what it made and announced.
LEMMA EndListingFits ==
  ASSUME LInv, died.how = "no", NEW w \in Workers, EndListing(w)
  PROVE  ListFits' /\ RequestsFit'
<1> DEFINE j == Reply(job[w], 200, "listing")
<1>1. /\ at[w] = "test" /\ fragments = NULL /\ Set(w, "done", j) /\ UNCHANGED <<heap, page, fixed>>
      /\ requests' = requests /\ filesOpen' = filesOpen
  BY DEF EndListing, Emptied, shared
<1>2. requests \in 0..MaxRequests /\ filesOpen \in Nat /\ ListFits
  BY DEF LInv, RequestsFit, FilesHeld
<1>3. "test" \in ListingStages /\ "done" \in Stages \ ListingStages /\ 200 \in Nat /\ "listing" \in Bodies
  BY DEF ListingStages, Stages, Bodies
<1>4. Exact(w)
  <2> SUFFICES ASSUME page[w].alone
               PROVE  page[w].body = page[w].mine /\ page[w].counted = page[w].mine
    BY DEF Exact
  <2>1. OnPath("test", page[w], fragments, next, mem)
    BY <1>1, <1>2, <1>3, AloneOnPath
  <2>2. page[w] \in Pages
    BY <1>2, PageFacts
  <2> QED
    BY <1>1, <2>1, <2>2, PathTest
<1>5. OwnLocation(j)
  <2>1. job[w] \in Jobs /\ OwnLocation(job[w])
    BY OpenRequest
  <2>2. j.loc = job[w].loc /\ j.server = job[w].server
    BY <1>3, <2>1, ReplyEffect
  <2> HIDE DEF j
  <2> QED
    BY <2>1, <2>2 DEF OwnLocation
<1> HIDE DEF j
<1>6. /\ requests' \in 0..MaxRequests /\ filesOpen' \in Int
      /\ filesOpen' >= filesOpen + (IF "done" = "serve" THEN 1 ELSE 0) - (IF at[w] = "serve" THEN 1 ELSE 0)
  BY <1>1, <1>2
<1> QED
  BY <1>1, <1>3, <1>4, <1>5, <1>6, SetFits

LEMMA FallbackFits ==
  ASSUME LInv, died.how = "no", NEW w \in Workers, Allocate(w) \/ Copy(w)
  PROVE  ListFits' /\ RequestsFit'
<1> DEFINE Room == [job[w] EXCEPT !.room = Len(tryTarget)]
           Path == [job[w] EXCEPT !.path = tryTarget]
<1>1. at[w] \in {"alloc", "copy"}
  BY DEF Allocate, Copy
<1>2. \/ \E how \in {"null", "undefined"} : Crash(w, how)
      \/ (Set(w, "copy", Room) \/ Set(w, "statTarget", Path)) /\ UNCHANGED shared
  BY DEF Allocate, Copy
<1>3. job[w] \in Jobs /\ OwnLocation(job[w]) /\ ~HasListing(job[w])
  BY <1>1, OpenRequest
<1>4. /\ Room.loc = job[w].loc /\ Room.server = job[w].server /\ Room.replies = job[w].replies
      /\ Path.loc = job[w].loc /\ Path.server = job[w].server /\ Path.replies = job[w].replies
  BY <1>3 DEF Jobs
<1> HIDE DEF Room, Path
<1>5. OwnLocation(Room) /\ ~HasListing(Room) /\ OwnLocation(Path) /\ ~HasListing(Path)
  BY <1>3, <1>4 DEF OwnLocation, HasListing
<1>6. /\ at[w] \notin ListingStages \cup {"done"} /\ at[w] \notin ListingStages \cup {"serve"}
      /\ \A s \in {"copy", "statTarget"} : s \in Stages \ ListingStages /\ s # "serve"
  BY <1>1 DEF ListingStages, Stages
<1>7. CASE \E how \in {"null", "undefined"} : Crash(w, how)
  BY <1>6, <1>7, CrashFits
<1>8. CASE UNCHANGED shared /\ Set(w, "copy", Room)
  BY <1>5, <1>6, <1>8, QuietFits
<1>9. CASE UNCHANGED shared /\ Set(w, "statTarget", Path)
  BY <1>5, <1>6, <1>9, QuietFits
<1> QED
  BY <1>2, <1>7, <1>8, <1>9

LEMMA TargetFits ==
  ASSUME LInv, died.how = "no", NEW w \in Workers, OpenTarget(w) \/ NoTargetFile(w)
  PROVE  ListFits' /\ RequestsFit'
<1>1. at[w] = "statTarget"
  BY DEF OpenTarget, NoTargetFile
<1>2. job[w] \in Jobs /\ 404 \in Nat /\ at[w] \notin ListingStages \cup {"done"}
  BY <1>1, OpenRequest DEF ListingStages
<1>3. CASE tryTarget = NoTarget
  <2>1. Crash(w, "null")
    BY <1>3 DEF OpenTarget, NoTargetFile
  <2> QED
    BY <1>2, <2>1, CrashFits
<1>4. CASE tryTarget # NoTarget /\ NoTargetFile(w)
  <2>1. Fail(w, 404) /\ UNCHANGED shared
    BY <1>4 DEF NoTargetFile
  <2> QED
    BY <1>1, <1>2, <2>1, FailFits
<1>5. CASE tryTarget # NoTarget /\ OpenTarget(w)
  <2> DEFINE file == job[w].loc.root \o tryTarget
             j    == [job[w] EXCEPT !.file = file, !.fallback = TRUE]
  <2>1. Open(w, "serve", j)
    BY <1>5 DEF OpenTarget
  <2> HIDE DEF file
  <2>2. j.loc = job[w].loc /\ j.server = job[w].server /\ j.replies = job[w].replies
    BY <1>2 DEF Jobs
  <2> HIDE DEF j
  <2> QED
    BY <1>1, <2>1, <2>2, OpenFits
<1> QED
  BY <1>3, <1>4, <1>5

LEMMA ServeFits ==
  ASSUME LInv, died.how = "no", NEW w \in Workers, Serve(w), ~Crash(w, "signal")
  PROVE  ListFits' /\ RequestsFit'
<1> DEFINE j == Reply(job[w], 200, "file")
<1>1. /\ at[w] = "serve" /\ Set(w, "done", j) /\ UNCHANGED <<heap, page, fixed>>
      /\ requests' = requests /\ filesOpen' = filesOpen - 1
  BY DEF Serve
<1>2. requests \in 0..MaxRequests /\ filesOpen \in Nat
  BY DEF LInv, RequestsFit, FilesHeld
<1>3. "done" \in Stages \ ListingStages /\ at[w] \notin ListingStages
  BY <1>1 DEF ListingStages, Stages
<1>4. OwnLocation(j) /\ ~HasListing(j)
  <2>1. job[w] \in Jobs /\ OwnLocation(job[w]) /\ ~HasListing(job[w])
    BY <1>1, OpenRequest
  <2>2. 200 \in Nat /\ "file" \in Bodies \ {"listing"}
    BY DEF Bodies
  <2> QED
    BY <2>1, <2>2, ReplyFits
<1> HIDE DEF j
<1>5. /\ requests' \in 0..MaxRequests /\ filesOpen' \in Int
      /\ filesOpen' >= filesOpen + (IF "done" = "serve" THEN 1 ELSE 0) - (IF at[w] = "serve" THEN 1 ELSE 0)
  BY <1>1, <1>2
<1> QED
  BY <1>1, <1>3, <1>4, <1>5, SetFits

LEMMA ServeFitsAll ==
  ASSUME LInv, died.how = "no", NEW w \in Workers, Serve(w)
  PROVE  ListFits' /\ RequestsFit'
<1>1. at[w] \notin ListingStages \cup {"done"}
  BY DEF Serve, ListingStages
<1>2. CASE Crash(w, "signal")
  BY <1>1, <1>2, CrashFits
<1>3. CASE ~Crash(w, "signal")
  BY <1>3, ServeFits
<1> QED
  BY <1>2, <1>3

-----------------------------------------------------------------------------
(* The theorems *)

LEMMA StepFits ==
  ASSUME LInv, died.how = "no", NEW w \in Workers, Step(w)
  PROVE  LInv'
<1>1. IInv'
  BY StepKeeps DEF LInv
<1>2. ListFits' /\ RequestsFit'
  <2>1. CASE \E input \in Inputs : Request(w, input)
    BY <2>1, RequestFits
  <2>2. CASE Refuse(w) \/ NoDocRoot(w) \/ UriTooLong(w) \/ NotAllowed(w) \/ NoDirectory(w)
    BY <2>2, RefuseFits
  <2>3. CASE Cut(w)
    BY <2>3, CutFits
  <2>4. CASE FindServer(w)
    BY <2>4, FindServerFits
  <2>5. CASE NoServer(w)
    BY <2>5, NoServerFitsAll
  <2>6. CASE Dispatch(w)
    BY <2>6, DispatchFits
  <2>7. CASE UpstreamFails(w) \/ NoAnswer(w) \/ \E code \in UpstreamCodes : Forward(w, code)
    BY <2>7, UpstreamFits
  <2>8. CASE TryFiles(w)
    BY <2>8, TryFilesFits
  <2>9. CASE NotFound(w) \/ NoIndex(w)
    BY <2>9, MissingFits
  <2>10. CASE OpenPath(w) \/ OpenIndex(w)
    BY <2>10, OpenFileFits
  <2>11. CASE \E n \in 1..MaxEntries : ListDirectory(w, n)
    BY <2>11, ListDirectoryFits
  <2>12. CASE ListingStep(w) /\ UNCHANGED <<fixed, tryTarget, job, requests, filesOpen>>
    BY <2>12, ListingFitsAll
  <2>13. CASE EndListing(w)
    BY <2>13, EndListingFits
  <2>14. CASE Allocate(w) \/ Copy(w)
    BY <2>14, FallbackFits
  <2>15. CASE OpenTarget(w) \/ NoTargetFile(w)
    BY <2>15, TargetFits
  <2>16. CASE Serve(w)
    BY <2>16, ServeFitsAll
  <2>17. CASE NoUpstream(w) \/ ForwardDies(w)
    BY <2>17, UpstreamDeathFits
  <2>18. CASE CheckTarget(w)
    BY <2>18, CheckTargetFits
  <2> QED
    BY <2>1, <2>2, <2>3, <2>4, <2>5, <2>6, <2>7, <2>8, <2>9, <2>10, <2>11, <2>12, <2>13, <2>14,
       <2>15, <2>16, <2>17, <2>18 DEF Step
<1> QED
  BY <1>1, <1>2 DEF LInv

LEMMA StillFits ==
  ASSUME LInv, UNCHANGED vars
  PROVE  LInv'
<1>1. /\ at' = at /\ died' = died /\ job' = job /\ page' = page /\ UNCHANGED heap /\ servers' = servers
      /\ requests' = requests /\ filesOpen' = filesOpen
  BY DEF vars, shared, fixed
<1>2. IInv'
  BY IdleKeeps DEF LInv
<1>3. ListFits'
  BY <1>1, SameList DEF LInv
<1>4. PagesSent' /\ DeathsApart' /\ FilesHeld'
  BY <1>1 DEF LInv, RequestsFit, PagesSent, Exact, DeathsApart, Listings, FilesHeld, Serving
<1>5. OwnLocations'
  BY <1>1 DEF LInv, RequestsFit, OwnLocations, OwnLocation
<1> QED
  BY <1>1, <1>2, <1>3, <1>4, <1>5 DEF LInv, RequestsFit

LEMMA InitFits ==
  ASSUME Init
  PROVE  LInv
<1>1. /\ fragments = NULL /\ next = [n \in Nodes |-> NULL] /\ mem = [n \in Nodes |-> "unused"]
      /\ page = [w \in Workers |-> NewPage] /\ at = [w \in Workers |-> "idle"]
      /\ died.how = "no" /\ requests = 0 /\ filesOpen = 0
      /\ \A w \in Workers : job[w].loc = NoLocation /\ job[w].replies = <<>>
  BY DEF Init, ListingInit, NewJob
<1>2. NewPage \in Pages
  <2>1. <<>> \in Seq(Nodes) /\ <<>> \in Seq(Nodes \cup {NULL}) /\ 0 \in 0..MaxEntries
    BY ListingBounds
  <2> QED
    BY <2>1 DEF Pages, NewPage
<1>3. ListingTypeOK
  BY <1>1, <1>2 DEF ListingTypeOK
<1>4. \A w \in Workers : at[w] = "idle" /\ at[w] \notin ListingStages
  BY <1>1 DEF ListingStages
<1>5. Listings = {} /\ Making = {}
  BY <1>4 DEF Listings, Making
<1>6. Pointed \subseteq {NULL}
  <2>1. {u \in Workers : at[u] = "link"} = {} /\ {u \in Workers : at[u] = "advance"} = {}
    BY <1>4
  <2> QED
    BY <1>1, <2>1 DEF Pointed
<1>7. HeapFits
  BY <1>1, <1>5, <1>6, NodesAre DEF HeapFits
<1>8. Acyclic
  <2>1. [n \in Nodes |-> 0] \in [Nodes -> 0..0] /\ 0 \in Nat
    OBVIOUS
  <2>2. Ranked(next, [n \in Nodes |-> 0], 0)
    BY <1>1, <2>1 DEF Ranked
  <2> QED
    BY <2>1, <2>2 DEF Acyclic
<1>9. InHand /\ AloneFits
  BY <1>4, <1>5 DEF InHand, AloneFits
<1>10. PagesSent /\ DeathsApart /\ OwnLocations
  BY <1>1 DEF PagesSent, HasListing, DeathsApart, OwnLocations, OwnLocation
<1>11. FilesHeld
  <2>1. Serving(at) = {}
    BY <1>4 DEF Serving
  <2>2. Cardinality(Serving(at)) = 0
    BY <2>1, FS_EmptySet
  <2> QED
    BY <1>1, <2>2 DEF FilesHeld
<1>12. requests \in 0..MaxRequests
  BY <1>1, RequestBounds
<1> QED
  BY <1>3, <1>7, <1>8, <1>9, <1>10, <1>11, <1>12, InitKeeps DEF LInv, ListFits, RequestsFit

\* The invariant holds throughout: in particular, next fields never form a cycle,
\* so that every walk along the list of fragments ends.
THEOREM ListInvariance == Spec => []LInv
<1>1. Init => LInv
  BY InitFits
<1>2. LInv /\ [Next]_vars => LInv'
  BY StepFits, StillFits DEF Next, Rest
<1> QED
  BY <1>1, <1>2, PTL DEF Spec

\* Who the process has died of, and how.
DeathTyped ==
  /\ died.how \in {"no", "null", "undefined", "signal", "exit"}
  /\ died.by \in Workers \cup {NoWorker} /\ defaultServer \in BOOLEAN

\* A step leaves `died` alone, or the worker that makes it ends the process.
LEMMA DeathMoves ==
  ASSUME NEW w \in Workers, Step(w)
  PROVE  /\ defaultServer' = defaultServer
         /\ \/ died' = died
            \/ \E how \in {"null", "undefined", "signal", "exit"} : died' = [how |-> how, by |-> w]
<1>1. CASE \E input \in Inputs : Request(w, input)
  BY <1>1 DEF Request, Set, fixed
<1>2. CASE Refuse(w) \/ NoDocRoot(w) \/ UriTooLong(w) \/ NotAllowed(w) \/ NoDirectory(w)
  <2>1. UNCHANGED shared /\ \E code : Fail(w, code)
    BY <1>2 DEF Refuse, NoDocRoot, UriTooLong, NotAllowed, NoDirectory
  <2> QED
    BY <2>1 DEF Fail, Error, Crash, Dies, Set, shared, fixed
<1>3. CASE Cut(w) \/ NoServer(w)
  BY <1>3 DEF Cut, NoServer, Crash, Dies, shared, fixed
<1>4. CASE FindServer(w) \/ Dispatch(w) \/ UpstreamFails(w) \/ NoAnswer(w) \/ EndListing(w)
  BY <1>4 DEF FindServer, Dispatch, UpstreamFails, NoAnswer, EndListing, Set, shared, fixed
<1>5. CASE \E code \in UpstreamCodes : Forward(w, code)
  BY <1>5 DEF Forward, Set, shared, fixed
<1>6. CASE NoUpstream(w) \/ ForwardDies(w)
  BY <1>6 DEF NoUpstream, ForwardDies, Crash, Dies, fixed
<1>7. CASE TryFiles(w)
  BY <1>7 DEF TryFiles, fixed
<1>8. CASE CheckTarget(w)
  BY <1>8 DEF CheckTarget, Error, Crash, Dies, Set, shared, fixed
<1>9. CASE NotFound(w) \/ NoIndex(w)
  BY <1>9 DEF NotFound, NoIndex, Missing, Fail, Error, Crash, Dies, Set, shared, fixed
<1>10. CASE OpenPath(w) \/ OpenIndex(w)
  BY <1>10 DEF OpenPath, OpenIndex, Open, Set, fixed
<1>11. CASE Serve(w)
  BY <1>11 DEF Serve, Crash, Dies, Set, fixed
<1>12. CASE \E n \in 1..MaxEntries : ListDirectory(w, n)
  BY <1>12 DEF ListDirectory, fixed
<1>13. CASE ListingStep(w) /\ UNCHANGED <<fixed, tryTarget, job, requests, filesOpen>>
  BY <1>13, ListingMoves DEF Dies, fixed
<1>14. CASE Allocate(w)
  BY <1>14 DEF Allocate, Crash, Dies, Set, shared, fixed
<1>15. CASE Copy(w)
  BY <1>15 DEF Copy, Crash, Dies, Set, shared, fixed
<1>16. CASE OpenTarget(w)
  BY <1>16 DEF OpenTarget, Crash, Dies, Open, Set, shared, fixed
<1>17. CASE NoTargetFile(w)
  BY <1>17 DEF NoTargetFile, Crash, Dies, Fail, Error, Set, shared, fixed
<1> QED
  BY <1>1, <1>2, <1>3, <1>4, <1>5, <1>6, <1>7, <1>8, <1>9, <1>10, <1>11, <1>12, <1>13, <1>14,
     <1>15, <1>16, <1>17 DEF Step

LEMMA DeathTypesKept ==
  ASSUME DeathTyped, [Next]_vars
  PROVE  DeathTyped'
<1>1. CASE UNCHANGED vars
  BY <1>1 DEF DeathTyped, vars, shared, fixed
<1>2. CASE \E w \in Workers : Step(w)
  <2>1. PICK w \in Workers : Step(w)
    BY <1>2
  <2>2. defaultServer' = defaultServer
    BY <2>1, DeathMoves
  <2>3. CASE died' = died
    BY <2>2, <2>3 DEF DeathTyped
  <2>4. CASE \E how \in {"null", "undefined", "signal", "exit"} : died' = [how |-> how, by |-> w]
    BY <2>2, <2>4 DEF DeathTyped
  <2> QED
    BY <2>1, <2>3, <2>4, DeathMoves
<1> QED
  BY <1>1, <1>2 DEF Next, Rest

\* Everything has its type: in particular a request's server is in the list, its
\* location is one of that server's, and no more files are closed than opened.
THEOREM TypesKept == Spec => []TypeOK
<1>1. Init => DeathTyped
  BY DEF Init, DeathTyped
<1>2. LInv /\ DeathTyped => TypeOK
  <2> SUFFICES ASSUME LInv, DeathTyped
               PROVE  TypeOK
    OBVIOUS
  <2>1. /\ ListingTypeOK /\ at \in [Workers -> Stages] /\ requests \in 0..MaxRequests
        /\ filesOpen \in Nat /\ servers \in Sites /\ tryTarget \in Seq(STRING)
        /\ job \in [Workers -> Jobs] /\ OwnLocations
    BY DEF LInv, IInv, Typed, ListFits, RequestsFit, FilesHeld
  <2>2. \A w \in Workers : job[w].input \in Inputs /\ job[w].server \in 0..Len(servers)
    BY <2>1 DEF Jobs
  <2> QED
    BY <2>1, <2>2 DEF TypeOK, DeathTyped, OwnLocations, OwnLocation
<1> QED
  BY <1>1, <1>2, DeathTypesKept, ListInvariance, PTL DEF Spec

\* A listing that no other one overlaps shows its own directory, and announces
\* the length of what it shows.
THEOREM ListingsAreExact == Spec => []ListingExact
<1>1. LInv => ListingExact
  BY DEF LInv, RequestsFit, PagesSent, ListingExact, Finished, HasListing
<1> QED
  BY <1>1, ListInvariance, PTL

\* The process follows a NULL pointer only for a request whose Host line is cut
\* off, that names an unknown host under -n, that is passed on, that falls back
\* with a malformed try_files, or that met another thread at tryTarget or at the
\* list of fragments; and it touches memory that is not its own only after such a
\* meeting.
THEOREM DeathsAreExplained == Spec => []DeathExplained
<1>1. LInv => DeathExplained
  BY DEF LInv, IInv, DeathsFit, Explained, RequestsFit, DeathsApart, DeathExplained
<1> QED
  BY <1>1, ListInvariance, PTL
=============================================================================
