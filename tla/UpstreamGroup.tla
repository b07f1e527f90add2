--------------------------- MODULE UpstreamGroup ---------------------------
(***************************************************************************)
(* Upstream groups: how parseConfig.c builds them (f_upstream, f_upstreams *)
(* and the proxy_pass that names one) and how getUpstreamServer.c takes    *)
(* the next server of a group for a request.                               *)
(*                                                                         *)
(* A group is a linked list of nodes, one per unit of weight, and a        *)
(* pointer currentServer into it.  The lists do not change once built, so  *)
(* a list is the sequence of its nodes' servers and a pointer a position;  *)
(* 0 is NULL.  The process has one worker if it is a plain server, and the *)
(* threads of its requests if it is a TLS server.  Nothing locks the       *)
(* pointer: a worker reads and writes it one access at a time, as the      *)
(* unoptimised build does.                                                 *)
(***************************************************************************)
EXTENDS Integers, SequencesExt

CONSTANTS Workers,       \* who may call getUpstreamServer
          Servers,       \* servers an upstream block may name
          Weights,       \* values of `weight`, -1 for a backup server
          MaxGroups,     \* bound on the number of upstream blocks
          MaxDirectives  \* bound on the servers in all blocks together

ASSUME SomeWorker == Workers # {}
ASSUME WeightsAreInts == Weights \subseteq Int
ASSUME BoundsAreNat == MaxGroups \in Nat /\ MaxDirectives \in Nat

NULL == 0

VARIABLES
  workers,   \* the workers of this process
  serving,   \* the configuration is read and requests arrive
  crashed,   \* a NULL pointer was followed
  servers,   \* parseConfig.c `servers`: the list under construction
  block,     \* server directives of the upstream block being read
  groups,    \* the finished groups
  named,     \* groups that a proxy_pass names
  sent,      \* sent[g]: servers the latest requests of group g went to
  pc,        \* where worker w is in getUpstreamServer
  grp,       \* grp[w]: up, the group of w's request
  port,      \* port[w]: server whose port w has copied
  addr,      \* addr[w]: server whose address w has copied
  tmp        \* tmp[w]: the pointer w has loaded and not yet stored

config == <<workers, serving, servers, block, named>>
vars == <<config, crashed, groups, sent, pc, grp, port, addr, tmp>>

Stages == {"idle", "port", "addr", "load", "store", "check", "wrap", "connect"}

Unset == "unset"

Groups == 1..Len(groups)

TypeOK ==
  /\ workers \subseteq Workers /\ workers # {}
  /\ serving \in BOOLEAN /\ crashed \in BOOLEAN
  /\ servers \in Seq(Servers)
  /\ block \in Seq(Servers \X Weights)
  /\ \A g \in Groups :
       /\ groups[g].list \in Seq(Servers)
       /\ groups[g].current \in 0..Len(groups[g].list)
       /\ groups[g].block \in Seq(Servers \X Weights)
       /\ sent[g] \in Seq(Servers)
  /\ named \subseteq Groups
  /\ \A w \in workers :
       /\ pc[w] \in Stages
       /\ grp[w] \in {0} \cup Groups
       /\ port[w] \in Servers \cup {Unset} /\ addr[w] \in Servers \cup {Unset}
       /\ pc[w] # "idle" => tmp[w] \in 0..Len(groups[grp[w]].list)

Init ==
  /\ workers \in {{w} : w \in Workers} \cup {Workers}
  /\ serving = FALSE /\ crashed = FALSE
  /\ servers = <<>> /\ block = <<>> /\ groups = <<>> /\ named = {}
  /\ sent = <<>>
  /\ pc = [w \in Workers |-> "idle"]
  /\ grp = [w \in Workers |-> 0]
  /\ port = [w \in Workers |-> Unset]
  /\ addr = [w \in Workers |-> Unset]
  /\ tmp = [w \in Workers |-> NULL]

-----------------------------------------------------------------------------
(* Reading the configuration *)

\* mutant of Prepended: the weight is recorded but not used
PrependedOnce(s, wt) == <<s>> \o servers

\* f_upstream: one new node in front per unit of weight; none for a backup
Prepended(s, wt) == [i \in 1..wt |-> s] \o servers

\* server directives read so far
Declared == FoldSeq(LAMBDA g, sum : sum + Len(g.block), Len(block), groups)

DeclareServer(s, wt) ==
  /\ ~serving
  /\ Len(groups) < MaxGroups /\ Declared < MaxDirectives
  /\ servers' = Prepended(s, wt)
  /\ block' = Append(block, <<s, wt>>)
  /\ UNCHANGED <<workers, serving, named, crashed, groups, sent, pc, grp, port, addr, tmp>>

\* f_upstreams, at the end of a block; `servers` keeps what it holds
EndGroup ==
  /\ ~serving /\ block # <<>>
  /\ groups' = Append(groups, [list |-> servers, block |-> block,
                               current |-> IF servers = <<>> THEN NULL ELSE 1])
  /\ sent' = Append(sent, <<>>)
  /\ block' = <<>>
  /\ UNCHANGED <<workers, serving, servers, named, crashed, pc, grp, port, addr, tmp>>

\* proxyPassToUpstreamGroup resolves the names of every server in the list
NameGroup(g) ==
  /\ ~serving /\ block = <<>>
  /\ named' = named \cup {g}
  /\ UNCHANGED <<workers, serving, servers, block, crashed, groups, sent, pc, grp, port, addr, tmp>>

StartServing ==
  /\ ~serving /\ block = <<>> /\ named # {}
  /\ serving' = TRUE
  /\ UNCHANGED <<workers, servers, block, named, crashed, groups, sent, pc, grp, port, addr, tmp>>

-----------------------------------------------------------------------------
(* getUpstreamServer *)

Current(w) == groups[grp[w]].current
List(w) == groups[grp[w]].list

Goto(w, from, to) == pc[w] = from /\ pc' = [pc EXCEPT ![w] = to]

SetCurrent(w, p) == groups' = [groups EXCEPT ![grp[w]].current = p]

Request(w, g) ==
  /\ serving /\ g \in named
  /\ Goto(w, "idle", "port")
  /\ grp' = [grp EXCEPT ![w] = g]
  /\ UNCHANGED <<config, crashed, groups, sent, port, addr, tmp>>

\* sin_family, the same for all, and sin_port of the current server
CopyPort(w) ==
  /\ Goto(w, "port", "addr")
  /\ Current(w) # NULL
  /\ port' = [port EXCEPT ![w] = List(w)[Current(w)]]
  /\ UNCHANGED <<config, crashed, groups, sent, grp, addr, tmp>>

\* sin_addr, through the pointer read again
CopyAddr(w) ==
  /\ Goto(w, "addr", "load")
  /\ Current(w) # NULL
  /\ addr' = [addr EXCEPT ![w] = List(w)[Current(w)]]
  /\ UNCHANGED <<config, crashed, groups, sent, grp, port, tmp>>

\* currentServer->next
LoadNext(w) ==
  /\ Goto(w, "load", "store")
  /\ Current(w) # NULL
  /\ tmp' = [tmp EXCEPT ![w] = IF Current(w) = Len(List(w)) THEN NULL ELSE Current(w) + 1]
  /\ UNCHANGED <<config, crashed, groups, sent, grp, port, addr>>

\* NULL at the end of the list
StoreNext(w) ==
  /\ Goto(w, "store", "check")
  /\ SetCurrent(w, tmp[w])
  /\ UNCHANGED <<config, crashed, sent, grp, port, addr, tmp>>

\* mutant of Check: the end of the list is not looked for
CheckNever(w) ==
  /\ Goto(w, "check", "connect")
  /\ UNCHANGED <<config, crashed, groups, sent, grp, port, addr, tmp>>

Check(w) ==
  /\ \/ Goto(w, "check", "wrap") /\ Current(w) = NULL
     \/ Goto(w, "check", "connect") /\ Current(w) # NULL
  /\ UNCHANGED <<config, crashed, groups, sent, grp, port, addr, tmp>>

\* mutant of Wrap: the rotation starts over at the second node
WrapSecond(w) ==
  /\ Goto(w, "wrap", "connect")
  /\ SetCurrent(w, IF Len(List(w)) > 1 THEN 2 ELSE 1)
  /\ UNCHANGED <<config, crashed, sent, grp, port, addr, tmp>>

Wrap(w) ==
  /\ Goto(w, "wrap", "connect")
  /\ SetCurrent(w, 1)
  /\ UNCHANGED <<config, crashed, sent, grp, port, addr, tmp>>

\* socket() and connect() to the copied address; the copies are locals
Connect(w) ==
  /\ Goto(w, "connect", "idle")
  /\ sent' = [sent EXCEPT ![grp[w]] =
                LET s == Append(@, addr[w])
                IN  IF Len(s) > Len(List(w)) THEN Tail(s) ELSE s]
  /\ grp' = [grp EXCEPT ![w] = 0]
  /\ port' = [port EXCEPT ![w] = Unset]
  /\ addr' = [addr EXCEPT ![w] = Unset]
  /\ tmp' = [tmp EXCEPT ![w] = NULL]
  /\ UNCHANGED <<config, crashed, groups>>

\* currentServer is NULL when it is followed
Segfault(w) ==
  /\ pc[w] \in {"port", "addr", "load"} /\ Current(w) = NULL
  /\ crashed' = TRUE
  /\ UNCHANGED <<config, groups, sent, pc, grp, port, addr, tmp>>

-----------------------------------------------------------------------------
Configure == \/ \E s \in Servers, wt \in Weights : DeclareServer(s, wt)
             \/ EndGroup
             \/ \E g \in Groups : NameGroup(g)
             \/ StartServing

Serve(w) == \/ \E g \in Groups : Request(w, g)
            \/ CopyPort(w) \/ CopyAddr(w) \/ LoadNext(w) \/ StoreNext(w)
            \/ Check(w) \/ Wrap(w) \/ Connect(w) \/ Segfault(w)

Crashed == crashed /\ UNCHANGED vars

Next == \/ ~crashed /\ (Configure \/ \E w \in workers : Serve(w))
        \/ Crashed

Spec == Init /\ [][Next]_vars

-----------------------------------------------------------------------------
(* Properties *)

\* The weight that the directives of a block give a server
WeightIn(b, s) ==
  FoldSeq(LAMBDA d, sum : sum + (IF d[1] = s /\ d[2] > 0 THEN d[2] ELSE 0), 0, b)

OneAtATime == \E w \in workers : workers = {w}

Share(s, q) == Cardinality({i \in DOMAIN q : q[i] = s})

\* A group's traffic over one round, once a round is complete
FullRound(g) == Len(sent[g]) > 0 /\ Len(sent[g]) = Len(groups[g].list)

\* With one request at a time, as in the plain server, every round of requests
\* to a group gives each server as many of them as the group's list has nodes of
\* it: whatever the starting point, no node is skipped or repeated at the wrap,
\* and a later group that shares the nodes disturbs no round.  For the first
\* group of the configuration the nodes are the weights of its own block.
FullRounds ==
  \A g \in Groups : OneAtATime /\ FullRound(g) =>
    \A s \in Servers :
      /\ Share(s, sent[g]) = Share(s, groups[g].list)
      /\ g = 1 => Share(s, sent[g]) = WeightIn(groups[g].block, s)

\* "The servers in an upstream group can have a weight applied to send more
\* traffic, otherwise the traffic is distributed equal round-robin to the
\* upstream servers." (README.md:55-56)  The code gives a group the servers of
\* the earlier blocks as well: f_upstreams does not empty the list.
WeightedRoundRobin ==
  \A g \in Groups : OneAtATime /\ FullRound(g) =>
    \A s \in Servers : Share(s, sent[g]) = WeightIn(groups[g].block, s)

\* currentServer of a group with servers is NULL only while some worker is
\* between storing the end of the list and wrapping: however the workers
\* interleave, a group is never left without a current server.  So the one
\* worker of a plain server follows no NULL, and the address it connects to is
\* that of one server: not the port of a node and the host of the next one.
CurrentServer ==
  /\ \A g \in Groups :
       groups[g].list # <<>> /\ groups[g].current = NULL =>
         \E w \in Workers : grp[w] = g /\ pc[w] \in {"check", "wrap"}
  /\ \A w \in workers : OneAtATime =>
       /\ pc[w] = "connect" => port[w] = addr[w]
       /\ pc[w] \in {"addr", "load"} => Current(w) # NULL

\* "The threads do not modify any of the server data structures so
\* locking/synchronization is not required" (ogws.c:76-77)
NoNullDereference == ~crashed
=============================================================================
