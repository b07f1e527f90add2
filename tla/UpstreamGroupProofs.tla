------------------------ MODULE UpstreamGroupProofs ------------------------
(***************************************************************************)
(* Proofs about UpstreamGroup, for every set of workers, servers and       *)
(* weights, and every number of groups and directives.                     *)
(***************************************************************************)
EXTENDS UpstreamGroup, SequenceTheorems, FunctionTheorems, FiniteSetTheorems,
        WellFoundedInduction, TLAPS

GroupRecords == [list : Seq(Servers), block : Seq(Servers \X Weights), current : Nat]

\* The types, with the domains that TypeOK leaves open.
Typed ==
  /\ workers \subseteq Workers /\ workers # {}
  /\ serving \in BOOLEAN /\ crashed \in BOOLEAN
  /\ servers \in Seq(Servers) /\ block \in Seq(Servers \X Weights)
  /\ groups \in Seq(GroupRecords)
  /\ \A g \in Groups : groups[g].current <= Len(groups[g].list)
  /\ sent \in Seq(Seq(Servers)) /\ Len(sent) = Len(groups)
  /\ named \subseteq Groups
  /\ pc \in [Workers -> Stages]
  /\ grp \in [Workers -> Nat]
  /\ port \in [Workers -> Servers \cup {Unset}]
  /\ addr \in [Workers -> Servers \cup {Unset}]
  /\ tmp \in [Workers -> Nat]

\* What a worker has in hand at each stage of getUpstreamServer: nobody is in
\* it before the configuration is read, the group is one that a proxy_pass
\* names, and whoever has got past the first access through currentServer is
\* in a group that has servers.
Placed(w) ==
  /\ pc[w] = "idle" => grp[w] = 0 /\ tmp[w] = 0
  /\ pc[w] # "idle" => /\ serving /\ w \in workers /\ grp[w] \in named
                       /\ tmp[w] <= Len(List(w))
  /\ pc[w] \notin {"idle", "port"} => Len(List(w)) > 0
  /\ pc[w] \in {"load", "store", "check", "wrap", "connect"} => addr[w] \in Servers

WorkersPlaced == \A w \in Workers : Placed(w)

\* The first half of CurrentServer.
CurrentKept ==
  \A g \in Groups : groups[g].list # <<>> /\ groups[g].current = NULL =>
    \E w \in Workers : grp[w] = g /\ pc[w] \in {"check", "wrap"}

\* A worker that is alone finds the pointer where it left it.
Undisturbed(w) ==
  /\ pc[w] = "addr" => Current(w) # NULL /\ port[w] = List(w)[Current(w)]
  /\ pc[w] = "load" => Current(w) # NULL
  /\ pc[w] \in {"load", "store", "check", "wrap", "connect"} => port[w] = addr[w]

AloneUndisturbed == \A w \in workers : OneAtATime => Undisturbed(w)

IInv == Typed /\ WorkersPlaced /\ CurrentKept /\ AloneUndisturbed

-----------------------------------------------------------------------------
(* Lemmas about the lists *)

\* What a group is made of.
LEMMA GroupFields ==
  ASSUME Typed, NEW g \in Groups
  PROVE  /\ groups[g] \in GroupRecords
         /\ groups[g].list \in Seq(Servers) /\ Len(groups[g].list) \in Nat
         /\ groups[g].block \in Seq(Servers \X Weights)
         /\ groups[g].current \in Nat /\ groups[g].current <= Len(groups[g].list)
         /\ groups[g].list # <<>> <=> Len(groups[g].list) > 0
         /\ groups[g].current # NULL => groups[g].list[groups[g].current] \in Servers
<1>1. groups[g] \in GroupRecords /\ groups[g].current <= Len(groups[g].list)
  BY DEF Typed, Groups
<1>2. /\ groups[g].list \in Seq(Servers) /\ groups[g].block \in Seq(Servers \X Weights)
      /\ groups[g].current \in Nat
  BY <1>1 DEF GroupRecords
<1> QED
  BY <1>1, <1>2 DEF NULL

\* A server directive makes a list of servers, whatever its weight.
LEMMA PrependedType ==
  ASSUME servers \in Seq(Servers), NEW s \in Servers, NEW wt \in Weights
  PROVE  Prepended(s, wt) \in Seq(Servers)
<1>1. wt \in Int
  BY WeightsAreInts
<1>2. [i \in 1..wt |-> s] \in Seq(Servers)
  <2>1. CASE wt >= 0
    BY <1>1, <2>1
  <2>2. CASE wt < 0
    <3>1. 1..wt = 1..0
      BY <1>1, <2>2
    <3>2. [i \in 1..0 |-> s] \in Seq(Servers)
      OBVIOUS
    <3> QED
      BY <3>1, <3>2
  <2> QED
    BY <1>1, <2>1, <2>2
<1> QED
  BY <1>2 DEF Prepended

\* What storing a pointer does to the groups.
LEMMA SetCurrentEffect ==
  ASSUME Typed, NEW w \in Workers, grp[w] \in Groups,
         NEW p \in Nat, p <= Len(List(w)), SetCurrent(w, p)
  PROVE  /\ groups' \in Seq(GroupRecords) /\ Len(groups') = Len(groups)
         /\ \A g \in Groups :
              /\ groups'[g].list = groups[g].list /\ groups'[g].block = groups[g].block
              /\ groups'[g].current = IF g = grp[w] THEN p ELSE groups[g].current
         /\ \A g \in Groups : groups'[g].current <= Len(groups'[g].list)
<1> DEFINE g0 == grp[w]
           new == [groups[g0] EXCEPT !.current = p]
<1>1. groups' = [groups EXCEPT ![g0] = new]
  BY DEF SetCurrent
<1>2. groups \in Seq(GroupRecords) /\ g0 \in 1..Len(groups)
  BY DEF Typed, Groups
<1>3. groups[g0] \in GroupRecords
  BY <1>2
<1>4. /\ new \in GroupRecords /\ new.list = groups[g0].list /\ new.current = p
      /\ new.block = groups[g0].block
  BY <1>3 DEF GroupRecords
<1> HIDE DEF new, g0
<1>5. /\ groups' \in Seq(GroupRecords) /\ Len(groups') = Len(groups)
      /\ \A g \in 1..Len(groups) : groups'[g] = IF g = g0 THEN new ELSE groups[g]
  BY <1>1, <1>2, <1>4
<1>6. \A g \in Groups :
        /\ groups'[g].list = groups[g].list /\ groups'[g].block = groups[g].block
        /\ groups'[g].current = IF g = g0 THEN p ELSE groups[g].current
  BY <1>4, <1>5 DEF Groups
<1>7. p <= Len(groups[g0].list) /\ \A g \in Groups : groups[g].current <= Len(groups[g].list)
  BY DEF Typed, List, g0
<1>8. \A g \in Groups : groups'[g].current <= Len(groups'[g].list)
  BY <1>6, <1>7
<1> QED
  BY <1>5, <1>6, <1>8 DEF g0

-----------------------------------------------------------------------------
(* Reading the configuration *)

\* Nobody is in getUpstreamServer before the configuration is read, so that a
\* step of the parser that keeps the groups there are keeps the invariant.
LEMMA ConfigStep ==
  ASSUME IInv, ~serving, Typed',
         UNCHANGED <<workers, pc, grp, port, addr, tmp>>,
         Len(groups') >= Len(groups),
         \A g \in Groups : groups'[g] = groups[g],
         \A g \in Groups' \ Groups : groups'[g].list # <<>> => groups'[g].current # NULL
  PROVE  IInv'
<1>1. \A w \in Workers : pc[w] = "idle"
  BY DEF IInv, WorkersPlaced, Placed
<1>2. WorkersPlaced'
  BY <1>1 DEF IInv, WorkersPlaced, Placed
<1>3. CurrentKept'
  BY DEF IInv, CurrentKept, Groups
<1>4. AloneUndisturbed'
  <2>1. workers \subseteq Workers
    BY DEF IInv, Typed
  <2> QED
    BY <1>1, <2>1 DEF AloneUndisturbed, Undisturbed
<1> QED
  BY <1>2, <1>3, <1>4 DEF IInv

LEMMA ConfigureStep == ASSUME IInv, Configure PROVE IInv'
<1> USE DEF config
<1>0. /\ Typed /\ groups \in Seq(GroupRecords) /\ Len(groups) \in Nat
      /\ sent \in Seq(Seq(Servers)) /\ Len(sent) = Len(groups)
  BY DEF IInv, Typed
<1>1. ASSUME NEW s \in Servers, NEW wt \in Weights, DeclareServer(s, wt) PROVE IInv'
  <2>1. servers' \in Seq(Servers)
    BY <1>0, <1>1, PrependedType DEF DeclareServer, Typed
  <2>2. block' \in Seq(Servers \X Weights)
    BY <1>0, <1>1 DEF DeclareServer, Typed
  <2>3. Typed'
    BY <1>0, <1>1, <2>1, <2>2 DEF DeclareServer, Typed, Groups
  <2> QED
    BY <1>0, <1>1, <2>3, ConfigStep DEF DeclareServer, Groups
<1>2. CASE EndGroup
  <2> DEFINE r == [list |-> servers, block |-> block,
                   current |-> IF servers = <<>> THEN NULL ELSE 1]
  <2>1. servers \in Seq(Servers) /\ block \in Seq(Servers \X Weights)
    BY <1>0 DEF Typed
  <2>2. /\ r \in GroupRecords /\ r.list = servers
        /\ r.current = IF servers = <<>> THEN NULL ELSE 1
    BY <2>1 DEF GroupRecords, NULL
  <2>3. r.current <= Len(r.list) /\ (r.list # <<>> => r.current # NULL)
    BY <2>1, <2>2 DEF NULL
  <2>4. groups' = Append(groups, r)
    BY <1>2 DEF EndGroup
  <2> HIDE DEF r
  <2>5. /\ groups' \in Seq(GroupRecords) /\ Len(groups') = Len(groups) + 1
        /\ \A g \in 1..Len(groups) : groups'[g] = groups[g]
        /\ groups'[Len(groups) + 1] = r
    BY <1>0, <2>2, <2>4
  <2>6. \A g \in Groups' : g \in Groups \/ g = Len(groups) + 1
    BY <1>0, <2>5 DEF Groups
  <2>7. \A g \in Groups' : groups'[g].current <= Len(groups'[g].list)
    BY <1>0, <2>3, <2>5, <2>6 DEF Typed, Groups
  <2>8. sent' \in Seq(Seq(Servers)) /\ Len(sent') = Len(groups')
    BY <1>0, <1>2, <2>5 DEF EndGroup
  <2>9. named' \subseteq Groups'
    BY <1>0, <1>2, <2>5 DEF EndGroup, Typed, Groups
  <2>10. Typed'
    <3>1. block' \in Seq(Servers \X Weights)
      BY <1>2 DEF EndGroup
    <3> QED
      BY <1>0, <1>2, <2>5, <2>7, <2>8, <2>9, <3>1 DEF EndGroup, Typed
  <2>11. \A g \in Groups' \ Groups : groups'[g].list # <<>> => groups'[g].current # NULL
    BY <2>3, <2>5, <2>6
  <2> QED
    BY <1>0, <1>2, <2>5, <2>10, <2>11, ConfigStep DEF EndGroup, Groups
<1>3. ASSUME NEW g \in Groups, NameGroup(g) PROVE IInv'
  <2>1. Typed'
    BY <1>0, <1>3 DEF NameGroup, Typed, Groups
  <2> QED
    BY <1>0, <1>3, <2>1, ConfigStep DEF NameGroup, Groups
<1>4. CASE StartServing
  <2>1. Typed'
    BY <1>0, <1>4 DEF StartServing, Typed, Groups
  <2> QED
    BY <1>0, <1>4, <2>1, ConfigStep DEF StartServing, Groups
<1> QED
  BY <1>1, <1>2, <1>3, <1>4 DEF Configure

-----------------------------------------------------------------------------
(* getUpstreamServer *)

\* A step of one worker that keeps the lists and its own part of the invariant
\* keeps the part of every other worker.
LEMMA ServeFrame ==
  ASSUME IInv, NEW w \in workers, Typed', UNCHANGED config,
         Len(groups') = Len(groups),
         \A g \in Groups : groups'[g].list = groups[g].list,
         \A v \in Workers \ {w} : /\ pc'[v] = pc[v] /\ grp'[v] = grp[v]
                                  /\ tmp'[v] = tmp[v] /\ addr'[v] = addr[v],
         Placed(w)', workers = {w} => Undisturbed(w)', CurrentKept'
  PROVE  IInv'
<1>1. WorkersPlaced'
  <2> SUFFICES ASSUME NEW v \in Workers, v # w PROVE Placed(v)'
    BY DEF WorkersPlaced
  <2>1. /\ Placed(v) /\ pc'[v] = pc[v] /\ grp'[v] = grp[v] /\ tmp'[v] = tmp[v]
        /\ addr'[v] = addr[v] /\ named \subseteq Groups
    BY DEF IInv, WorkersPlaced, Typed
  <2>2. pc[v] # "idle" => groups'[grp[v]].list = groups[grp[v]].list
    BY <2>1 DEF Placed
  <2> QED
    BY <2>1, <2>2 DEF Placed, List, config
<1>2. AloneUndisturbed'
  BY DEF AloneUndisturbed, OneAtATime, config
<1> QED
  BY <1>1, <1>2 DEF IInv

\* Where a worker in getUpstreamServer is.
LEMMA InGroup ==
  ASSUME IInv, NEW w \in workers, pc[w] # "idle"
  PROVE  /\ w \in Workers /\ grp[w] \in Groups /\ grp[w] \in named /\ serving
         /\ List(w) \in Seq(Servers) /\ Len(List(w)) \in Nat
         /\ Current(w) \in Nat /\ Current(w) <= Len(List(w))
         /\ Current(w) # NULL => List(w)[Current(w)] \in Servers /\ Len(List(w)) > 0
         /\ tmp[w] \in Nat /\ tmp[w] <= Len(List(w))
<1>1. w \in Workers /\ Placed(w) /\ named \subseteq Groups /\ tmp \in [Workers -> Nat]
  BY DEF IInv, Typed, WorkersPlaced
<1>2. grp[w] \in Groups /\ grp[w] \in named /\ serving /\ tmp[w] <= Len(List(w))
  BY <1>1 DEF Placed
<1>3. /\ List(w) \in Seq(Servers) /\ Len(List(w)) \in Nat
      /\ Current(w) \in Nat /\ Current(w) <= Len(List(w))
      /\ Current(w) # NULL => List(w)[Current(w)] \in Servers
  BY <1>2, GroupFields DEF IInv, List, Current
<1>4. Current(w) # NULL => Len(List(w)) > 0
  BY <1>3 DEF NULL
<1> QED
  BY <1>1, <1>2, <1>3, <1>4

\* A worker that does not store the pointer, and does not give up its turn to
\* wrap it, leaves no group without a current server.
LEMMA KeptByReaders ==
  ASSUME IInv, NEW w \in workers, groups' = groups,
         \A v \in Workers \ {w} : pc'[v] = pc[v] /\ grp'[v] = grp[v],
         pc[w] \in {"check", "wrap"} =>
           \/ grp'[w] = grp[w] /\ pc'[w] \in {"check", "wrap"}
           \/ Current(w) # NULL
  PROVE  CurrentKept'
<1> SUFFICES ASSUME NEW g \in Groups, groups[g].list # <<>>, groups[g].current = NULL
             PROVE  \E v \in Workers : grp'[v] = g /\ pc'[v] \in {"check", "wrap"}
  BY DEF CurrentKept, Groups
<1>1. PICK v \in Workers : grp[v] = g /\ pc[v] \in {"check", "wrap"}
  BY DEF IInv, CurrentKept
<1>2. grp'[v] = g /\ pc'[v] \in {"check", "wrap"}
  BY <1>1 DEF Current
<1> QED
  BY <1>2

LEMMA RequestStep ==
  ASSUME IInv, NEW w \in workers, NEW g \in Groups, Request(w, g) PROVE IInv'
<1>1. /\ w \in Workers /\ pc[w] = "idle" /\ serving /\ g \in named
      /\ pc \in [Workers -> Stages] /\ grp \in [Workers -> Nat]
      /\ pc' = [pc EXCEPT ![w] = "port"] /\ grp' = [grp EXCEPT ![w] = g]
      /\ UNCHANGED <<config, crashed, groups, sent, port, addr, tmp>>
  BY DEF IInv, Typed, Request, Goto
<1>2. g \in Nat
  BY DEF Groups
<1>3. Typed'
  BY <1>1, <1>2 DEF IInv, Typed, Stages, config, Groups
<1>4. Placed(w)'
  <2>1. tmp[w] = 0 /\ Len(groups[g].list) \in Nat
    BY <1>1, GroupFields DEF IInv, WorkersPlaced, Placed
  <2> QED
    BY <1>1, <2>1 DEF Placed, List, config
<1>5. CurrentKept'
  BY <1>1, KeptByReaders
<1> QED
  BY <1>1, <1>3, <1>4, <1>5, ServeFrame DEF Undisturbed

LEMMA CopyPortStep ==
  ASSUME IInv, NEW w \in workers, CopyPort(w) PROVE IInv'
<1>1. /\ pc[w] = "port" /\ Current(w) # NULL
      /\ pc \in [Workers -> Stages] /\ port \in [Workers -> Servers \cup {Unset}]
      /\ pc' = [pc EXCEPT ![w] = "addr"]
      /\ port' = [port EXCEPT ![w] = List(w)[Current(w)]]
      /\ UNCHANGED <<config, crashed, groups, sent, grp, addr, tmp>>
  BY DEF IInv, Typed, CopyPort, Goto
<1>2. /\ w \in Workers /\ grp[w] \in named /\ serving /\ List(w)[Current(w)] \in Servers
      /\ Len(List(w)) > 0 /\ tmp[w] <= Len(List(w))
  BY <1>1, InGroup
<1>3. Typed'
  BY <1>1, <1>2 DEF IInv, Typed, Stages, config, Groups
<1>4. Placed(w)'
  BY <1>1, <1>2 DEF Placed, List, config
<1>5. CurrentKept'
  BY <1>1, <1>2, KeptByReaders
<1>6. Undisturbed(w)'
  BY <1>1, <1>2 DEF Undisturbed, Current, List
<1> QED
  BY <1>1, <1>3, <1>4, <1>5, <1>6, ServeFrame

LEMMA CopyAddrStep ==
  ASSUME IInv, NEW w \in workers, CopyAddr(w) PROVE IInv'
<1>1. /\ pc[w] = "addr" /\ Current(w) # NULL
      /\ pc \in [Workers -> Stages] /\ addr \in [Workers -> Servers \cup {Unset}]
      /\ pc' = [pc EXCEPT ![w] = "load"]
      /\ addr' = [addr EXCEPT ![w] = List(w)[Current(w)]]
      /\ UNCHANGED <<config, crashed, groups, sent, grp, port, tmp>>
  BY DEF IInv, Typed, CopyAddr, Goto
<1>2. /\ w \in Workers /\ grp[w] \in named /\ serving /\ List(w)[Current(w)] \in Servers
      /\ Len(List(w)) > 0 /\ tmp[w] <= Len(List(w))
  BY <1>1, InGroup
<1>3. Typed'
  BY <1>1, <1>2 DEF IInv, Typed, Stages, config, Groups
<1>4. Placed(w)'
  BY <1>1, <1>2 DEF Placed, List, config
<1>5. CurrentKept'
  BY <1>1, <1>2, KeptByReaders
<1>6. workers = {w} => Undisturbed(w)'
  <2>1. workers = {w} => port[w] = List(w)[Current(w)]
    BY <1>1 DEF IInv, AloneUndisturbed, OneAtATime, Undisturbed
  <2> QED
    BY <1>1, <1>2, <2>1 DEF Undisturbed, Current, List
<1> QED
  BY <1>1, <1>3, <1>4, <1>5, <1>6, ServeFrame

LEMMA LoadNextStep ==
  ASSUME IInv, NEW w \in workers, LoadNext(w) PROVE IInv'
<1> DEFINE next == IF Current(w) = Len(List(w)) THEN NULL ELSE Current(w) + 1
<1>1. /\ pc[w] = "load" /\ Current(w) # NULL
      /\ pc \in [Workers -> Stages] /\ tmp \in [Workers -> Nat]
      /\ pc' = [pc EXCEPT ![w] = "store"] /\ tmp' = [tmp EXCEPT ![w] = next]
      /\ UNCHANGED <<config, crashed, groups, sent, grp, port, addr>>
  BY DEF IInv, Typed, LoadNext, Goto
<1>2. /\ w \in Workers /\ grp[w] \in named /\ serving
      /\ Len(List(w)) > 0 /\ Len(List(w)) \in Nat
      /\ Current(w) \in Nat /\ Current(w) <= Len(List(w))
  BY <1>1, InGroup
<1>3. next \in Nat /\ next <= Len(List(w))
  BY <1>2 DEF NULL
<1> HIDE DEF next
<1>4. Typed'
  BY <1>1, <1>2, <1>3 DEF IInv, Typed, Stages, config, Groups
<1>5. addr[w] \in Servers
  BY <1>1, <1>2 DEF IInv, WorkersPlaced, Placed
<1>6. Placed(w)'
  BY <1>1, <1>2, <1>3, <1>5 DEF Placed, List, config
<1>7. CurrentKept'
  BY <1>1, <1>2, KeptByReaders
<1>8. workers = {w} => Undisturbed(w)'
  <2>1. workers = {w} => port[w] = addr[w]
    BY <1>1 DEF IInv, AloneUndisturbed, OneAtATime, Undisturbed
  <2> QED
    BY <1>1, <1>2, <2>1 DEF Undisturbed
<1> QED
  BY <1>1, <1>4, <1>6, <1>7, <1>8, ServeFrame

LEMMA CheckStep ==
  ASSUME IInv, NEW w \in workers, Check(w) PROVE IInv'
<1>1. /\ pc[w] = "check" /\ pc \in [Workers -> Stages]
      /\ \/ pc' = [pc EXCEPT ![w] = "wrap"]
         \/ pc' = [pc EXCEPT ![w] = "connect"] /\ Current(w) # NULL
      /\ UNCHANGED <<config, crashed, groups, sent, grp, port, addr, tmp>>
  BY DEF IInv, Typed, Check, Goto
<1>2. w \in Workers /\ Placed(w)
  BY DEF IInv, Typed, WorkersPlaced
<1>3. Typed'
  BY <1>1, <1>2 DEF IInv, Typed, Stages, config, Groups
<1>4. Placed(w)'
  BY <1>1, <1>2 DEF Placed, List, config
<1>5. CurrentKept'
  BY <1>1, <1>2, KeptByReaders
<1>6. workers = {w} => Undisturbed(w)'
  <2>1. workers = {w} => port[w] = addr[w]
    BY <1>1 DEF IInv, AloneUndisturbed, OneAtATime, Undisturbed
  <2> QED
    BY <1>1, <1>2, <2>1 DEF Undisturbed
<1> QED
  BY <1>1, <1>3, <1>4, <1>5, <1>6, ServeFrame

LEMMA ConnectStep ==
  ASSUME IInv, NEW w \in workers, Connect(w) PROVE IInv'
<1>1. /\ pc[w] = "connect" /\ pc \in [Workers -> Stages]
      /\ pc' = [pc EXCEPT ![w] = "idle"]
      /\ grp \in [Workers -> Nat] /\ grp' = [grp EXCEPT ![w] = 0]
      /\ port \in [Workers -> Servers \cup {Unset}] /\ port' = [port EXCEPT ![w] = Unset]
      /\ addr \in [Workers -> Servers \cup {Unset}] /\ addr' = [addr EXCEPT ![w] = Unset]
      /\ tmp \in [Workers -> Nat] /\ tmp' = [tmp EXCEPT ![w] = NULL]
      /\ UNCHANGED <<config, crashed, groups>>
  BY DEF IInv, Typed, Connect, Goto
<1>2. w \in Workers /\ grp[w] \in Groups /\ Len(List(w)) \in Nat
  BY <1>1, InGroup
<1>3. addr[w] \in Servers
  BY <1>1, <1>2 DEF IInv, WorkersPlaced, Placed
<1> DEFINE longer == Append(sent[grp[w]], addr[w])
           kept   == IF Len(longer) > Len(List(w)) THEN Tail(longer) ELSE longer
<1>4. sent \in Seq(Seq(Servers)) /\ grp[w] \in 1..Len(sent) /\ Len(sent) = Len(groups)
  BY <1>2 DEF IInv, Typed, Groups
<1>5. sent[grp[w]] \in Seq(Servers)
  BY <1>4
<1>6. longer \in Seq(Servers) /\ longer # <<>>
  BY <1>3, <1>5
<1>7. kept \in Seq(Servers)
  BY <1>6
<1>8. sent' = [sent EXCEPT ![grp[w]] = kept]
  BY DEF Connect
<1> HIDE DEF longer, kept
<1>9. sent' \in Seq(Seq(Servers)) /\ Len(sent') = Len(groups)
  BY <1>4, <1>7, <1>8
<1>10. Typed'
  BY <1>1, <1>2, <1>9 DEF IInv, Typed, Stages, config, Groups, NULL
<1>11. Placed(w)'
  BY <1>1, <1>2 DEF Placed, NULL
<1>12. CurrentKept'
  BY <1>1, <1>2, KeptByReaders
<1>13. Undisturbed(w)'
  BY <1>1, <1>2 DEF Undisturbed
<1> QED
  BY <1>1, <1>10, <1>11, <1>12, <1>13, ServeFrame

\* A store through currentServer: the worker stays in its group, and either
\* stores a server or is about to check what it has stored.
LEMMA StoreStep ==
  ASSUME IInv, NEW w \in workers, pc[w] \in {"store", "wrap"},
         NEW p \in Nat, p <= Len(List(w)), SetCurrent(w, p),
         NEW to \in {"check", "connect"}, pc' = [pc EXCEPT ![w] = to],
         to = "check" \/ p # NULL,
         UNCHANGED <<config, crashed, sent, grp, port, addr, tmp>>
  PROVE  IInv'
<1>1. /\ w \in Workers /\ grp[w] \in Groups /\ pc \in [Workers -> Stages]
      /\ Placed(w) /\ Typed /\ named \subseteq Groups
  BY InGroup DEF IInv, Typed, WorkersPlaced
<1>2. /\ groups' \in Seq(GroupRecords) /\ Len(groups') = Len(groups)
      /\ \A g \in Groups :
           /\ groups'[g].list = groups[g].list
           /\ groups'[g].current = IF g = grp[w] THEN p ELSE groups[g].current
      /\ \A g \in Groups : groups'[g].current <= Len(groups'[g].list)
  BY <1>1, SetCurrentEffect
<1>3. Groups' = Groups
  BY <1>2 DEF Groups
<1>4. Typed'
  BY <1>1, <1>2, <1>3 DEF Typed, Stages, config
<1>5. Placed(w)'
  BY <1>1, <1>2 DEF Placed, List, config
<1>6. CurrentKept'
  <2> SUFFICES ASSUME NEW g \in Groups, groups'[g].list # <<>>, groups'[g].current = NULL
               PROVE  \E v \in Workers : grp'[v] = g /\ pc'[v] \in {"check", "wrap"}
    BY <1>3 DEF CurrentKept
  <2>1. CASE g = grp[w]
    <3>1. grp'[w] = g /\ pc'[w] \in {"check", "wrap"}
      BY <1>1, <1>2, <2>1
    <3> QED
      BY <1>1, <3>1
  <2>2. CASE g # grp[w]
    <3>1. groups[g].list # <<>> /\ groups[g].current = NULL
      BY <1>2, <2>2
    <3>2. PICK v \in Workers : grp[v] = g /\ pc[v] \in {"check", "wrap"}
      BY <3>1 DEF IInv, CurrentKept
    <3>3. grp'[v] = g /\ pc'[v] \in {"check", "wrap"}
      BY <1>1, <2>2, <3>2
    <3> QED
      BY <3>3
  <2> QED
    BY <2>1, <2>2
<1>7. workers = {w} => Undisturbed(w)'
  <2>1. workers = {w} => port[w] = addr[w]
    BY DEF IInv, AloneUndisturbed, OneAtATime, Undisturbed
  <2> QED
    BY <1>1, <2>1 DEF Undisturbed
<1> QED
  BY <1>1, <1>2, <1>4, <1>5, <1>6, <1>7, ServeFrame

LEMMA NextStep == IInv /\ [Next]_vars => IInv'
<1> SUFFICES ASSUME IInv, [Next]_vars PROVE IInv'
  OBVIOUS
<1>1. ASSUME NEW w \in workers, StoreNext(w) PROVE IInv'
  <2>1. pc[w] = "store" /\ pc' = [pc EXCEPT ![w] = "check"] /\ SetCurrent(w, tmp[w])
    BY <1>1 DEF StoreNext, Goto
  <2>2. tmp[w] \in Nat /\ tmp[w] <= Len(List(w))
    BY <2>1, InGroup
  <2> QED
    BY <1>1, <2>1, <2>2, StoreStep DEF StoreNext
<1>2. ASSUME NEW w \in workers, Wrap(w) PROVE IInv'
  <2>1. pc[w] = "wrap" /\ pc' = [pc EXCEPT ![w] = "connect"] /\ SetCurrent(w, 1)
    BY <1>2 DEF Wrap, Goto
  <2>2. 1 <= Len(List(w))
    <3>1. w \in Workers /\ Len(List(w)) \in Nat
      BY <2>1, InGroup
    <3>2. Len(List(w)) > 0
      BY <2>1, <3>1 DEF IInv, WorkersPlaced, Placed
    <3> QED
      BY <3>1, <3>2
  <2>3. 1 \in Nat /\ 1 # NULL /\ UNCHANGED <<config, crashed, sent, grp, port, addr, tmp>>
    BY <1>2 DEF Wrap, NULL
  <2> QED
    BY <2>1, <2>2, <2>3, StoreStep
<1>3. ASSUME UNCHANGED <<config, groups, sent, pc, grp, port, addr, tmp>>,
             crashed' \in BOOLEAN
      PROVE  IInv'
  <2>1. Typed'
    BY <1>3 DEF IInv, Typed, Groups, config
  <2>2. WorkersPlaced'
    BY <1>3 DEF IInv, WorkersPlaced, Placed, List, config
  <2>3. CurrentKept'
    BY <1>3 DEF IInv, CurrentKept, Groups
  <2>4. AloneUndisturbed'
    BY <1>3 DEF IInv, AloneUndisturbed, Undisturbed, Current, List, OneAtATime, config
  <2> QED
    BY <2>1, <2>2, <2>3, <2>4 DEF IInv
<1>4. ASSUME NEW w \in workers, Segfault(w) PROVE IInv'
  BY <1>3, <1>4 DEF Segfault
<1>5. CASE UNCHANGED vars
  <2>1. crashed' \in BOOLEAN
    BY <1>5 DEF vars, IInv, Typed
  <2> QED
    BY <1>3, <1>5, <2>1 DEF vars
<1> QED
  BY <1>1, <1>2, <1>4, <1>5, ConfigureStep, RequestStep, CopyPortStep, CopyAddrStep,
     LoadNextStep, CheckStep, ConnectStep DEF Next, Serve, Crashed

LEMMA InitStep == Init => IInv
<1> SUFFICES ASSUME Init PROVE IInv
  OBVIOUS
<1>1. Typed
  <2>1. workers \subseteq Workers /\ workers # {}
    BY SomeWorker DEF Init
  <2>2. /\ servers \in Seq(Servers) /\ block \in Seq(Servers \X Weights)
        /\ groups \in Seq(GroupRecords) /\ sent \in Seq(Seq(Servers))
        /\ Len(sent) = Len(groups)
    BY DEF Init
  <2>3. Groups = {}
    BY DEF Init, Groups
  <2>4. /\ serving \in BOOLEAN /\ crashed \in BOOLEAN /\ named \subseteq Groups
        /\ pc \in [Workers -> Stages] /\ grp \in [Workers -> Nat]
        /\ port \in [Workers -> Servers \cup {Unset}]
        /\ addr \in [Workers -> Servers \cup {Unset}]
        /\ tmp \in [Workers -> Nat]
    BY DEF Init, Stages, NULL
  <2> QED
    BY <2>1, <2>2, <2>3, <2>4 DEF Typed
<1>2. WorkersPlaced
  BY DEF Init, WorkersPlaced, Placed, NULL
<1>3. CurrentKept
  BY DEF Init, CurrentKept, Groups
<1>4. AloneUndisturbed
  BY <1>1 DEF Init, AloneUndisturbed, Undisturbed, Typed
<1> QED
  BY <1>1, <1>2, <1>3, <1>4 DEF IInv

\* The strengthened invariant holds in every state of the parser and of the
\* workers.
LEMMA IInvHolds == Spec => []IInv
  BY InitStep, NextStep, PTL DEF Spec

\* Types: a pointer into a group's list is NULL or a position of that list, for
\* currentServer as for the copy that a worker has loaded, however the workers
\* of getUpstreamServer interleave.
THEOREM TypeCorrect == Spec => []TypeOK
<1>1. IInv => TypeOK
  <2> SUFFICES ASSUME IInv PROVE TypeOK
    OBVIOUS
  <2>1. \A g \in Groups :
          /\ groups[g].list \in Seq(Servers)
          /\ groups[g].current \in 0..Len(groups[g].list)
          /\ groups[g].block \in Seq(Servers \X Weights)
          /\ sent[g] \in Seq(Servers)
    <3> SUFFICES ASSUME NEW g \in Groups
                 PROVE  /\ groups[g].list \in Seq(Servers)
                        /\ groups[g].current \in 0..Len(groups[g].list)
                        /\ groups[g].block \in Seq(Servers \X Weights)
                        /\ sent[g] \in Seq(Servers)
      OBVIOUS
    <3>1. /\ groups[g].list \in Seq(Servers) /\ Len(groups[g].list) \in Nat
          /\ groups[g].block \in Seq(Servers \X Weights)
          /\ groups[g].current \in Nat /\ groups[g].current <= Len(groups[g].list)
      BY GroupFields DEF IInv
    <3>2. sent[g] \in Seq(Servers)
      BY DEF IInv, Typed, Groups
    <3> QED
      BY <3>1, <3>2
  <2>2. \A w \in workers :
          /\ pc[w] \in Stages
          /\ grp[w] \in {0} \cup Groups
          /\ port[w] \in Servers \cup {Unset} /\ addr[w] \in Servers \cup {Unset}
          /\ pc[w] # "idle" => tmp[w] \in 0..Len(groups[grp[w]].list)
    <3> SUFFICES ASSUME NEW w \in workers
                 PROVE  /\ pc[w] \in Stages
                        /\ grp[w] \in {0} \cup Groups
                        /\ port[w] \in Servers \cup {Unset}
                        /\ addr[w] \in Servers \cup {Unset}
                        /\ pc[w] # "idle" => tmp[w] \in 0..Len(groups[grp[w]].list)
      OBVIOUS
    <3>1. /\ w \in Workers /\ pc[w] \in Stages /\ Placed(w)
          /\ port[w] \in Servers \cup {Unset} /\ addr[w] \in Servers \cup {Unset}
      BY DEF IInv, Typed, WorkersPlaced
    <3>2. pc[w] = "idle" => grp[w] = 0
      BY <3>1 DEF Placed
    <3>3. pc[w] # "idle" => grp[w] \in Groups /\ tmp[w] \in 0..Len(groups[grp[w]].list)
      BY InGroup DEF List
    <3> QED
      BY <3>1, <3>2, <3>3
  <2> QED
    BY <2>1, <2>2 DEF IInv, Typed, TypeOK
<1> QED
  BY <1>1, IInvHolds, PTL

\* However many workers share a group, its currentServer is NULL only while one
\* of them is between storing the end of the list and wrapping, and the one
\* worker of a plain server connects to the host and the port of one server.
THEOREM CurrentServerKept == Spec => []CurrentServer
<1>1. IInv => CurrentServer
  BY DEF IInv, CurrentKept, AloneUndisturbed, Undisturbed, CurrentServer
<1> QED
  BY <1>1, IInvHolds, PTL

-----------------------------------------------------------------------------
(* Sums: what a fold adds up, in whatever order it takes the positions *)

\* A set of positions has a first one.
LEMMA Least ==
  ASSUME NEW T, T \subseteq Nat, T # {}
  PROVE  \E m \in T : \A k \in T : m <= k
<1> DEFINE R == OpToRel(<, Nat)
<1>1. IsWellFoundedOn(R, Nat)
  BY NatLessThanWellFounded
<1>2. \A x, y \in Nat : <<x, y>> \in R <=> x < y
  BY DEF OpToRel
<1> HIDE DEF R
<1>3. PICK m \in T : \A y \in T : ~ (<<y, m>> \in R)
  BY <1>1, WFMin
<1>4. \A y \in T : ~ (y < m)
  BY <1>2, <1>3
<1> QED
  BY <1>4

\* A fold adds up what a sequence of integers has at the positions of a set, in
\* an order of its own.
First(T) == CHOOSE x \in T : TRUE

AddsUp(v, D, f) ==
  f = [T \in D |-> IF T = {} THEN 0 ELSE f[T \ {First(T)}] + v[First(T)]]

IsSum(v, f) == AddsUp(v, SUBSET DOMAIN v, f)

IsTotal(v, t) == \E f : IsSum(v, f) /\ t = f[DOMAIN v]

\* The sets of at most c of the first k positions.
Sets(k, c) == {T \in SUBSET (1..k) : Cardinality(T) <= c}

\* Facts about those sets.
LEMMA SetsAre ==
  ASSUME NEW k \in Nat
  PROVE  /\ \A T \in SUBSET (1..k) : IsFiniteSet(T) /\ Cardinality(T) \in Nat /\ Cardinality(T) <= k
         /\ Sets(k, k) = SUBSET (1..k)
         /\ \A T \in SUBSET (1..k) : \A x \in T :
              /\ T \ {x} \in SUBSET (1..k) /\ Cardinality(T \ {x}) = Cardinality(T) - 1
              /\ Cardinality(T) - 1 \in Nat
<1>1. IsFiniteSet(1..k) /\ Cardinality(1..k) = k
  BY FS_Interval
<1>2. \A T \in SUBSET (1..k) : IsFiniteSet(T) /\ Cardinality(T) \in Nat /\ Cardinality(T) <= k
  BY <1>1, FS_Subset, FS_CardinalityType
<1>3. Sets(k, k) = SUBSET (1..k)
  BY <1>2 DEF Sets
<1>4. \A T \in SUBSET (1..k) : \A x \in T :
        T \ {x} \in SUBSET (1..k) /\ Cardinality(T \ {x}) = Cardinality(T) - 1
  BY <1>2, FS_RemoveElement
<1>5. \A T \in SUBSET (1..k) : \A x \in T : Cardinality(T) - 1 \in Nat
  BY <1>2, <1>4
<1> QED
  BY <1>2, <1>3, <1>4, <1>5

\* If a fold adds up all sets of at most c positions, another adds up those of
\* at most c + 1.
LEMMA LargerSets ==
  ASSUME NEW v, NEW k \in Nat, NEW c \in Nat, NEW f, AddsUp(v, Sets(k, c), f)
  PROVE  \E g : AddsUp(v, Sets(k, c + 1), g)
<1> DEFINE g == [T \in Sets(k, c + 1) |->
                   IF T = {} THEN 0 ELSE f[T \ {First(T)}] + v[First(T)]]
<1>1. ASSUME NEW T \in Sets(k, c)
      PROVE  T \in Sets(k, c + 1) /\ g[T] = f[T]
  <2>1. T \in SUBSET (1..k) /\ Cardinality(T) <= c
    BY DEF Sets
  <2>2. Cardinality(T) \in Nat
    BY <2>1, SetsAre
  <2>3. T \in Sets(k, c + 1)
    BY <2>1, <2>2 DEF Sets
  <2> QED
    BY <2>3 DEF AddsUp
<1>2. ASSUME NEW T \in Sets(k, c + 1), T # {}
      PROVE  T \ {First(T)} \in Sets(k, c)
  <2>1. First(T) \in T
    BY <1>2 DEF First
  <2>2. T \in SUBSET (1..k) /\ Cardinality(T) <= c + 1
    BY DEF Sets
  <2>3. /\ Cardinality(T) \in Nat /\ T \ {First(T)} \in SUBSET (1..k)
        /\ Cardinality(T \ {First(T)}) = Cardinality(T) - 1
    BY <2>1, <2>2, SetsAre
  <2>4. Cardinality(T \ {First(T)}) <= c
    BY <2>2, <2>3
  <2> QED
    BY <2>3, <2>4 DEF Sets
<1>3. ASSUME NEW T \in Sets(k, c + 1)
      PROVE  g[T] = IF T = {} THEN 0 ELSE g[T \ {First(T)}] + v[First(T)]
  <2>1. g[T] = IF T = {} THEN 0 ELSE f[T \ {First(T)}] + v[First(T)]
    OBVIOUS
  <2>2. T # {} => g[T \ {First(T)}] = f[T \ {First(T)}]
    BY <1>1, <1>2
  <2> HIDE DEF g
  <2> QED
    BY <2>1, <2>2
<1>4. g = [T \in Sets(k, c + 1) |-> g[T]]
  OBVIOUS
<1> HIDE DEF g
<1>5. AddsUp(v, Sets(k, c + 1), g)
  BY <1>3, <1>4 DEF AddsUp
<1> QED
  BY <1>5

\* The function that a fold over k positions computes exists.
LEMMA SumExists ==
  ASSUME NEW v, NEW k \in Nat, DOMAIN v = 1..k
  PROVE  \E f : IsSum(v, f)
<1> DEFINE T == {c \in Nat : ~ \E f : AddsUp(v, Sets(k, c), f)}
<1>1. T = {}
  <2> SUFFICES ASSUME T # {}
               PROVE  FALSE
    OBVIOUS
  <2>1. PICK c \in T : \A i \in T : c <= i
    BY Least
  <2>2. c \in Nat /\ ~ \E f : AddsUp(v, Sets(k, c), f)
    OBVIOUS
  <2>3. c # 0
    <3>1. \A S \in Sets(k, 0) : S = {}
      <4> TAKE S \in Sets(k, 0)
      <4>1. S \in SUBSET (1..k) /\ Cardinality(S) <= 0
        BY DEF Sets
      <4>2. IsFiniteSet(S) /\ Cardinality(S) \in Nat
        BY <4>1, SetsAre
      <4>3. Cardinality(S) = 0
        BY <4>1, <4>2
      <4> QED
        BY <4>2, <4>3, FS_EmptySet
    <3> DEFINE f == [S \in Sets(k, 0) |-> 0]
    <3>2. AddsUp(v, Sets(k, 0), f)
      BY <3>1 DEF AddsUp
    <3> QED
      BY <2>2, <3>2
  <2>4. PICK d \in Nat : c = d + 1
    BY <2>2, <2>3
  <2>5. ~ (c <= d)
    BY <2>4
  <2>6. d \notin T
    BY <2>1, <2>5
  <2>7. PICK f : AddsUp(v, Sets(k, d), f)
    BY <2>6
  <2> QED
    BY <2>2, <2>4, <2>7, LargerSets
<1>2. \E f : AddsUp(v, Sets(k, k), f)
  BY <1>1
<1> QED
  BY <1>2, SetsAre DEF IsSum

\* The order does not matter.
LEMMA AnyOrder ==
  ASSUME NEW k \in Nat, NEW v \in [1..k -> Int], NEW f, IsSum(v, f)
  PROVE  \A T \in SUBSET (1..k) : /\ f[T] \in Int
                                  /\ \A x \in T : f[T] = f[T \ {x}] + v[x]
<1> DEFINE Fine(T) == f[T] \in Int /\ \A x \in T : f[T] = f[T \ {x}] + v[x]
           Bad == {c \in Nat : \E T \in SUBSET (1..k) : Cardinality(T) = c /\ ~Fine(T)}
<1>1. Bad = {}
  <2> SUFFICES ASSUME Bad # {}
               PROVE  FALSE
    OBVIOUS
  <2>1. PICK c \in Bad : \A i \in Bad : c <= i
    BY Least
  <2>2. PICK T \in SUBSET (1..k) : Cardinality(T) = c /\ ~Fine(T)
    OBVIOUS
  <2>3. c \in Nat
    OBVIOUS
  <2>4. ASSUME NEW x \in T
        PROVE  Fine(T \ {x})
    <3>1. T \ {x} \in SUBSET (1..k) /\ Cardinality(T \ {x}) = c - 1 /\ c - 1 \in Nat
      BY <2>2, SetsAre
    <3>2. ~ (c <= c - 1)
      BY <2>3
    <3>3. c - 1 \notin Bad
      BY <2>1, <3>2
    <3> QED
      BY <3>1, <3>3
  <2> HIDE DEF Bad
  <2>5. CASE T = {}
    <3>1. f[T] = 0
      BY <2>5 DEF IsSum, AddsUp
    <3> QED
      BY <2>2, <2>5, <3>1
  <2>6. CASE T # {}
    <3>1. PICK y : y = First(T)
      OBVIOUS
    <3>2. y \in T
      BY <2>6, <3>1 DEF First
    <3>3. f[T] = f[T \ {y}] + v[y]
      BY <2>6, <3>1 DEF IsSum, AddsUp
    <3>4. f[T \ {y}] \in Int /\ v[y] \in Int
      BY <2>4, <3>2
    <3>5. ASSUME NEW x \in T, x # y
          PROVE  f[T] = f[T \ {x}] + v[x]
      <4>1. x \in T \ {y} /\ y \in T \ {x} /\ (T \ {x}) \ {y} = (T \ {y}) \ {x}
        BY <3>2, <3>5
      <4>2. f[T \ {y}] = f[(T \ {y}) \ {x}] + v[x]
        BY <2>4, <3>2, <4>1
      <4>3. f[T \ {x}] = f[(T \ {x}) \ {y}] + v[y]
        BY <2>4, <4>1
      <4>4. f[(T \ {y}) \ {x}] \in Int
        <5>1. (T \ {y}) \ {x} \in SUBSET (1..k)
          OBVIOUS
        <5>2. Fine((T \ {y}) \ {x})
          <6>1. /\ T \ {y} \in SUBSET (1..k) /\ Cardinality(T \ {y}) = c - 1 /\ c - 1 \in Nat
            BY <2>2, <3>2, SetsAre
          <6>2. Cardinality((T \ {y}) \ {x}) = c - 1 - 1 /\ c - 1 - 1 \in Nat
            BY <4>1, <6>1, SetsAre
          <6>3. ~ (c <= c - 1 - 1)
            BY <2>3
          <6>4. c - 1 - 1 \notin Bad
            BY <2>1, <6>3
          <6> QED
            BY <5>1, <6>2, <6>4 DEF Bad
        <5> QED
          BY <5>2
      <4>5. v[x] \in Int
        OBVIOUS
      <4>6. PICK i \in Int : i = f[(T \ {y}) \ {x}]
        BY <4>4
      <4>7. f[T \ {y}] = i + v[x] /\ f[T \ {x}] = i + v[y]
        BY <4>1, <4>2, <4>3, <4>6
      <4> QED
        BY <3>3, <3>4, <4>5, <4>6, <4>7
    <3>6. f[T] \in Int
      BY <3>3, <3>4
    <3>7. Fine(T)
      BY <3>3, <3>5, <3>6
    <3> QED
      BY <2>2, <3>7
  <2> QED
    BY <2>5, <2>6
<1> SUFFICES ASSUME NEW T \in SUBSET (1..k)
             PROVE  Fine(T)
  OBVIOUS
<1>2. Cardinality(T) \in Nat /\ Cardinality(T) \notin Bad
  BY <1>1, SetsAre
<1> QED
  BY <1>2

\* Nothing adds up to zero.
LEMMA TotalOfNone ==
  ASSUME NEW v \in Seq(Int), Len(v) = 0, NEW t, IsTotal(v, t)
  PROVE  t = 0
<1>1. DOMAIN v = {}
  OBVIOUS
<1>2. PICK f : IsSum(v, f) /\ t = f[DOMAIN v]
  BY DEF IsTotal
<1>3. {} \in SUBSET DOMAIN v
  OBVIOUS
<1> QED
  BY <1>1, <1>2, <1>3 DEF IsSum, AddsUp

\* w is v and one more.
LEMMA TotalOfOneMore ==
  ASSUME NEW v \in Seq(Int), NEW x \in Int, NEW w \in Seq(Int), Len(w) = Len(v) + 1,
         \A i \in 1..Len(v) : w[i] = v[i], w[Len(v) + 1] = x,
         NEW t, IsTotal(v, t), NEW u, IsTotal(w, u)
  PROVE  t \in Int /\ u = t + x
<1>1. PICK k \in Nat : k = Len(v)
  OBVIOUS
<1>2. v \in [1..k -> Int] /\ w \in [1..k+1 -> Int] /\ k + 1 \in Nat
  BY <1>1
<1>3. PICK f : IsSum(v, f) /\ t = f[1..k]
  BY <1>2 DEF IsTotal
<1>4. PICK g : IsSum(w, g) /\ u = g[1..k+1]
  BY <1>2 DEF IsTotal
<1>5. \A T \in SUBSET (1..k) : f[T] \in Int /\ \A y \in T : f[T] = f[T \ {y}] + v[y]
  BY <1>2, <1>3, AnyOrder
<1>6. \A T \in SUBSET (1..k+1) : g[T] \in Int /\ \A y \in T : g[T] = g[T \ {y}] + w[y]
  <2>1. PICK n \in Nat : n = k + 1
    BY <1>2
  <2>2. w \in [1..n -> Int]
    BY <1>2, <2>1
  <2>3. \A T \in SUBSET (1..n) : g[T] \in Int /\ \A y \in T : g[T] = g[T \ {y}] + w[y]
    BY <1>4, <2>2, AnyOrder
  <2> QED
    BY <2>1, <2>3
<1> DEFINE Bad == {m \in 0..k : f[1..m] # g[1..m]}
<1>7. Bad = {}
  <2> SUFFICES ASSUME Bad # {}
               PROVE  FALSE
    OBVIOUS
  <2>0. Bad \subseteq Nat
    OBVIOUS
  <2>1. PICK m \in Bad : \A i \in Bad : m <= i
    BY <2>0, Least
  <2>2. m \in 0..k /\ f[1..m] # g[1..m]
    OBVIOUS
  <2>3. m # 0
    <3>1. {} \in SUBSET DOMAIN v /\ {} \in SUBSET DOMAIN w /\ 1..0 = {}
      OBVIOUS
    <3>2. f[{}] = 0 /\ g[{}] = 0
      BY <1>3, <1>4, <3>1 DEF IsSum, AddsUp
    <3> QED
      BY <2>2, <3>1, <3>2
  <2>4. m \in 1..k /\ m - 1 \in 0..k /\ ~ (m <= m - 1)
    BY <2>2, <2>3
  <2>5. m - 1 \notin Bad
    BY <2>1, <2>4
  <2>6. f[1..m-1] = g[1..m-1]
    BY <2>4, <2>5
  <2> HIDE DEF Bad
  <2>7. /\ 1..m \in SUBSET (1..k) /\ 1..m \in SUBSET (1..k+1) /\ m \in 1..m
        /\ (1..m) \ {m} = 1..m-1
    BY <2>4
  <2>8. f[1..m] = f[1..m-1] + v[m]
    BY <1>5, <2>7
  <2>9. g[1..m] = g[1..m-1] + w[m]
    BY <1>6, <2>7
  <2> QED
    BY <1>1, <2>2, <2>4, <2>6, <2>8, <2>9
<1>8. f[1..k] = g[1..k]
  BY <1>7
<1>9. /\ 1..k \in SUBSET (1..k) /\ 1..k+1 \in SUBSET (1..k+1) /\ k + 1 \in 1..k+1
      /\ (1..k+1) \ {k+1} = 1..k
  OBVIOUS
<1>10. g[1..k+1] = g[1..k] + w[k+1]
  BY <1>6, <1>9
<1> QED
  BY <1>1, <1>3, <1>4, <1>5, <1>8, <1>9, <1>10

-----------------------------------------------------------------------------
(* Weights *)

\* What a server directive adds to the weight of server s.
Gain(d, s) == IF d[1] = s /\ d[2] > 0 THEN d[2] ELSE 0

LEMMA GainType ==
  ASSUME NEW d \in Servers \X Weights, NEW s
  PROVE  Gain(d, s) \in Int
<1>1. d[2] \in Int
  BY WeightsAreInts
<1> QED
  BY <1>1 DEF Gain

\* A weight is a sum of gains.
LEMMA WeightIsTotal ==
  ASSUME NEW b \in Seq(Servers \X Weights), NEW s
  PROVE  IsTotal([i \in DOMAIN b |-> Gain(b[i], s)], WeightIn(b, s))
<1>1. PICK v : v = [i \in DOMAIN b |-> Gain(b[i], s)]
  OBVIOUS
<1>2. DOMAIN v = 1..Len(b) /\ Len(b) \in Nat /\ DOMAIN b = DOMAIN v
  BY <1>1
<1>3. PICK h : IsSum(v, h)
  BY <1>2, SumExists
<1> DEFINE Unfolded(f) ==
             f = [T \in SUBSET DOMAIN b |->
                    IF T = {} THEN 0
                    ELSE f[T \ {CHOOSE x \in T : TRUE}] +
                           (IF b[CHOOSE x \in T : TRUE][1] = s /\ b[CHOOSE x \in T : TRUE][2] > 0
                            THEN b[CHOOSE x \in T : TRUE][2] ELSE 0)]
<1>4. WeightIn(b, s) = (CHOOSE f : Unfolded(f))[DOMAIN b]
  BY DEF WeightIn, FoldSeq, FoldFunction, FoldFunctionOnSet, MapThenFoldSet
<1>5. \A f : Unfolded(f) <=> IsSum(v, f)
  <2>1. \A T \in SUBSET DOMAIN b : T # {} =>
          v[First(T)] = IF b[CHOOSE x \in T : TRUE][1] = s /\ b[CHOOSE x \in T : TRUE][2] > 0
                        THEN b[CHOOSE x \in T : TRUE][2] ELSE 0
    BY <1>1 DEF First, Gain
  <2> TAKE f
  <2>2. [T \in SUBSET DOMAIN b |->
           IF T = {} THEN 0
           ELSE f[T \ {CHOOSE x \in T : TRUE}] +
                  (IF b[CHOOSE x \in T : TRUE][1] = s /\ b[CHOOSE x \in T : TRUE][2] > 0
                   THEN b[CHOOSE x \in T : TRUE][2] ELSE 0)]
        = [T \in SUBSET DOMAIN b |-> IF T = {} THEN 0 ELSE f[T \ {First(T)}] + v[First(T)]]
    BY <2>1 DEF First
  <2> QED
    BY <1>2, <2>2 DEF IsSum, AddsUp
<1> HIDE DEF Unfolded
<1>6. PICK f : IsSum(v, f) /\ WeightIn(b, s) = f[DOMAIN b]
  BY <1>3, <1>4, <1>5
<1> QED
  BY <1>1, <1>2, <1>6 DEF IsTotal

\* The weight that the first g blocks give a server.
Total(gs, g, s) == FoldSeq(LAMBDA b, sum : sum + WeightIn(b, s), 0, [h \in 1..g |-> gs[h].block])

\* A sum of integers is an integer.
LEMMA TotalType ==
  ASSUME NEW v \in Seq(Int), NEW t, IsTotal(v, t)
  PROVE  t \in Int
<1>1. PICK k \in Nat : k = Len(v)
  OBVIOUS
<1>2. v \in [1..k -> Int] /\ DOMAIN v \in SUBSET (1..k)
  BY <1>1
<1>3. PICK f : IsSum(v, f) /\ t = f[DOMAIN v]
  BY DEF IsTotal
<1> QED
  BY <1>2, <1>3, AnyOrder

\* What a block adds to the weight of s, directive by directive.
Gains(b, s) == [i \in DOMAIN b |-> Gain(b[i], s)]

LEMMA GainsOf ==
  ASSUME NEW b \in Seq(Servers \X Weights), NEW s, NEW v, v = Gains(b, s)
  PROVE  /\ v \in Seq(Int) /\ Len(v) = Len(b) /\ \A i \in 1..Len(b) : v[i] = Gain(b[i], s)
         /\ IsTotal(v, WeightIn(b, s))
<1>1. PICK k \in Nat : k = Len(b)
  OBVIOUS
<1>2. \A i \in 1..k : Gain(b[i], s) \in Int
  <2> TAKE i \in 1..k
  <2>1. PICK d \in Servers \X Weights : d = b[i]
    BY <1>1
  <2> QED
    BY <2>1, GainType
<1>3. v = [i \in 1..k |-> Gain(b[i], s)]
  BY <1>1 DEF Gains
<1>4. v \in [1..k -> Int] /\ \A i \in 1..k : v[i] = Gain(b[i], s)
  BY <1>2, <1>3
<1>5. IsTotal(v, WeightIn(b, s))
  BY WeightIsTotal DEF Gains
<1> QED
  BY <1>1, <1>4, <1>5

LEMMA WeightType ==
  ASSUME NEW b \in Seq(Servers \X Weights), NEW s
  PROVE  WeightIn(b, s) \in Int
<1>1. PICK v : v = Gains(b, s)
  OBVIOUS
<1>2. v \in Seq(Int) /\ IsTotal(v, WeightIn(b, s))
  BY <1>1, GainsOf
<1> QED
  BY <1>2, TotalType

\* A block that is not begun gives no weight.
LEMMA WeightOfNone ==
  ASSUME NEW s
  PROVE  WeightIn(<<>>, s) = 0
<1>0. <<>> \in Seq(Servers \X Weights)
  OBVIOUS
<1>1. PICK b \in Seq(Servers \X Weights) : b = <<>>
  BY <1>0
<1>2. PICK v : v = Gains(b, s)
  OBVIOUS
<1>3. v \in Seq(Int) /\ Len(v) = 0 /\ IsTotal(v, WeightIn(b, s))
  BY <1>1, <1>2, GainsOf
<1>4. WeightIn(b, s) = 0
  BY <1>3, TotalOfNone
<1> QED
  BY <1>1, <1>4

\* Sequence w is v with d behind it.
Grown(w, v, d) ==
  Len(w) = Len(v) + 1 /\ w[Len(v) + 1] = d /\ \A i \in 1..Len(v) : w[i] = v[i]

\* One more summand adds itself.
LEMMA TotalOfGrown ==
  ASSUME NEW v \in Seq(Int), NEW w \in Seq(Int), NEW x \in Int, Grown(w, v, x),
         NEW t, IsTotal(v, t), NEW u, IsTotal(w, u)
  PROVE  t \in Int /\ u = t + x
<1>1. Len(w) = Len(v) + 1 /\ w[Len(v) + 1] = x /\ \A i \in 1..Len(v) : w[i] = v[i]
  BY DEF Grown
<1> QED
  BY <1>1, TotalOfOneMore

Directives == Servers \X Weights

\* One more directive adds its weight.
LEMMA WeightGrows ==
  ASSUME NEW b \in Seq(Directives), NEW c \in Seq(Directives), NEW s,
         NEW d \in Directives, Grown(c, b, d)
  PROVE  /\ WeightIn(b, s) \in Int
         /\ WeightIn(c, s) = WeightIn(b, s) + Gain(d, s)
<1>1. PICK v : v = Gains(b, s)
  OBVIOUS
<1>2. PICK w : w = Gains(c, s)
  OBVIOUS
<1>3. /\ v \in Seq(Int) /\ Len(v) = Len(b) /\ \A i \in 1..Len(b) : v[i] = Gain(b[i], s)
      /\ IsTotal(v, WeightIn(b, s))
  BY <1>1, GainsOf DEF Directives
<1>4. /\ w \in Seq(Int) /\ Len(w) = Len(c) /\ \A i \in 1..Len(c) : w[i] = Gain(c[i], s)
      /\ IsTotal(w, WeightIn(c, s))
  BY <1>2, GainsOf DEF Directives
<1>5. Gain(d, s) \in Int
  BY GainType DEF Directives
<1>6. PICK x \in Int : x = Gain(d, s)
  BY <1>5
<1>7. Grown(w, v, x)
  <2>1. PICK k \in Nat : k = Len(b)
    OBVIOUS
  <2> QED
    BY <1>3, <1>4, <1>6, <2>1 DEF Grown
<1>8. PICK t : t = WeightIn(b, s)
  OBVIOUS
<1>9. PICK u : u = WeightIn(c, s)
  OBVIOUS
<1>10. IsTotal(v, t) /\ IsTotal(w, u) /\ v \in Seq(Int) /\ w \in Seq(Int)
  BY <1>3, <1>4, <1>8, <1>9
<1>11. t \in Int /\ u = t + x
  BY <1>7, <1>10, TotalOfGrown
<1> QED
  BY <1>6, <1>8, <1>9, <1>11

\* Append is how sequences grow.
LEMMA AppendGrows ==
  ASSUME NEW S, NEW b \in Seq(S), NEW d \in S, NEW c, c = Append(b, d)
  PROVE  c \in Seq(S) /\ Grown(c, b, d)
  BY AppendProperties DEF Grown

\* The weight that the first g blocks give is a sum too.
LEMMA TotalIsTotal ==
  ASSUME NEW gs \in Seq(GroupRecords), NEW g \in 0..Len(gs), NEW s
  PROVE  IsTotal([h \in 1..g |-> WeightIn(gs[h].block, s)], Total(gs, g, s))
<1>1. PICK v : v = [h \in 1..g |-> WeightIn(gs[h].block, s)]
  OBVIOUS
<1>2. PICK q : q = [h \in 1..g |-> gs[h].block]
  OBVIOUS
<1>3. DOMAIN v = 1..g /\ g \in Nat /\ DOMAIN q = 1..g
  BY <1>1, <1>2
<1>4. PICK h : IsSum(v, h)
  BY <1>3, SumExists
<1> DEFINE Unfolded(f) ==
             f = [T \in SUBSET DOMAIN q |->
                    IF T = {} THEN 0
                    ELSE f[T \ {CHOOSE x \in T : TRUE}] + WeightIn(q[CHOOSE x \in T : TRUE], s)]
<1>5. Total(gs, g, s) = FoldSeq(LAMBDA b, sum : sum + WeightIn(b, s), 0, q)
  BY <1>2 DEF Total
<1>6. Total(gs, g, s) = (CHOOSE f : Unfolded(f))[DOMAIN q]
  BY <1>2 DEF Total, FoldSeq, FoldFunction, FoldFunctionOnSet, MapThenFoldSet
<1>7. \A f : Unfolded(f) <=> IsSum(v, f)
  <2>1. \A T \in SUBSET DOMAIN q : T # {} =>
          v[First(T)] = WeightIn(q[CHOOSE x \in T : TRUE], s)
    <3> TAKE T \in SUBSET DOMAIN q
    <3> HAVE T # {}
    <3>1. First(T) \in 1..g
      BY <1>3 DEF First
    <3>2. v[First(T)] = WeightIn(q[First(T)], s)
      BY <1>1, <1>2, <3>1
    <3> QED
      BY <3>2 DEF First
  <2> QED
    BY <1>3, <2>1 DEF IsSum, AddsUp, First
<1> HIDE DEF Unfolded
<1>8. PICK f : IsSum(v, f) /\ Total(gs, g, s) = f[DOMAIN q]
  BY <1>4, <1>6, <1>7
<1> QED
  BY <1>1, <1>3, <1>8 DEF IsTotal

\* A block adds what it gives a server.
LEMMA TotalsAdd ==
  ASSUME NEW gs \in Seq(GroupRecords), NEW s
  PROVE  /\ Total(gs, 0, s) = 0
         /\ \A g \in 1..Len(gs) : /\ Total(gs, g-1, s) \in Int
                                  /\ Total(gs, g, s) = Total(gs, g-1, s) + WeightIn(gs[g].block, s)
<1> DEFINE v(g) == [h \in 1..g |-> WeightIn(gs[h].block, s)]
<1>1. Len(gs) \in Nat /\ \A h \in 1..Len(gs) : WeightIn(gs[h].block, s) \in Int
  <2>1. \A h \in 1..Len(gs) : gs[h] \in GroupRecords
    OBVIOUS
  <2>2. \A h \in 1..Len(gs) : gs[h].block \in Seq(Servers \X Weights)
    BY <2>1 DEF GroupRecords
  <2>3. ASSUME NEW h \in 1..Len(gs)
        PROVE  WeightIn(gs[h].block, s) \in Int
    <3>1. PICK b \in Seq(Servers \X Weights) : b = gs[h].block
      BY <2>2
    <3> QED
      BY <3>1, WeightType
  <2> QED
    BY <2>3
<1>2. ASSUME NEW g \in 0..Len(gs)
      PROVE  v(g) \in Seq(Int) /\ Len(v(g)) = g /\ IsTotal(v(g), Total(gs, g, s))
  <2>1. v(g) \in Seq(Int) /\ Len(v(g)) = g
    <3>1. g \in Nat /\ v(g) \in [1..g -> Int]
      BY <1>1
    <3> HIDE DEF v
    <3> QED
      BY <3>1
  <2> QED
    BY <2>1, TotalIsTotal
<1>3. Total(gs, 0, s) = 0
  <2>1. PICK w : w = v(0)
    OBVIOUS
  <2>2. 0 \in 0..Len(gs)
    BY <1>1
  <2>3. w \in Seq(Int) /\ Len(w) = 0 /\ IsTotal(w, Total(gs, 0, s))
    BY <1>2, <2>1, <2>2
  <2> QED
    BY <2>3, TotalOfNone
<1>4. ASSUME NEW g \in 1..Len(gs)
      PROVE  /\ Total(gs, g-1, s) \in Int
             /\ Total(gs, g, s) = Total(gs, g-1, s) + WeightIn(gs[g].block, s)
  <2>1. g - 1 \in 0..Len(gs) /\ g \in 0..Len(gs) /\ (g - 1) + 1 = g
    BY <1>1
  <2>2. PICK a : a = v(g-1)
    OBVIOUS
  <2>3. PICK b : b = v(g)
    OBVIOUS
  <2>4. /\ a \in Seq(Int) /\ Len(a) = g - 1 /\ IsTotal(a, Total(gs, g-1, s))
        /\ b \in Seq(Int) /\ Len(b) = g /\ IsTotal(b, Total(gs, g, s))
    BY <1>2, <2>1, <2>2, <2>3
  <2>5. PICK x \in Int : x = WeightIn(gs[g].block, s)
    BY <1>1
  <2>6. /\ Len(b) = Len(a) + 1 /\ b[Len(a) + 1] = x /\ \A i \in 1..Len(a) : b[i] = a[i]
    BY <1>1, <2>1, <2>2, <2>3, <2>4, <2>5
  <2> HIDE DEF v
  <2>7. PICK t : t = Total(gs, g-1, s)
    OBVIOUS
  <2>8. PICK u : u = Total(gs, g, s)
    OBVIOUS
  <2>9. t \in Int /\ u = t + x
    BY <2>4, <2>5, <2>6, <2>7, <2>8, TotalOfOneMore
  <2> QED
    BY <2>5, <2>7, <2>8, <2>9
<1> QED
  BY <1>3, <1>4

\* A total depends on the blocks only.
LEMMA SameTotal ==
  ASSUME NEW gs, NEW hs, NEW g, \A h \in 1..g : hs[h].block = gs[h].block, NEW s
  PROVE  Total(hs, g, s) = Total(gs, g, s)
<1>1. [h \in 1..g |-> hs[h].block] = [h \in 1..g |-> gs[h].block]
  OBVIOUS
<1> QED
  BY <1>1 DEF Total

-----------------------------------------------------------------------------
(* Shares: the nodes that a server has in a list *)

\* A bijection keeps the size of a finite set.
LEMMA SameSize ==
  ASSUME NEW S, NEW T, IsFiniteSet(S), NEW g \in [S -> T],
         \A a, b \in S : g[a] = g[b] => a = b, \A t \in T : \E s \in S : g[s] = t
  PROVE  IsFiniteSet(T) /\ Cardinality(T) = Cardinality(S)
<1>1. g \in Bijection(S, T)
  BY Fun_IsBij
<1> QED
  BY <1>1, FS_Bijection DEF ExistsBijection

LEMMA ShareType ==
  ASSUME NEW q \in Seq(Servers), NEW s
  PROVE  IsFiniteSet({i \in DOMAIN q : q[i] = s}) /\ Share(s, q) \in Nat
<1>1. {i \in DOMAIN q : q[i] = s} \in SUBSET (1..Len(q)) /\ Len(q) \in Int /\ 1 \in Int
  OBVIOUS
<1>2. IsFiniteSet({i \in DOMAIN q : q[i] = s})
  BY <1>1, FS_Interval, FS_Subset
<1> QED
  BY <1>2, FS_CardinalityType DEF Share

\* l is q with n nodes of server r in front.
Fronted(l, n, r, q) ==
  Len(l) = n + Len(q) /\ \A i \in 1 .. n + Len(q) : l[i] = IF i <= n THEN r ELSE q[i-n]

LEMMA ShareInFront ==
  ASSUME NEW n \in Nat, NEW r \in Servers, NEW q \in Seq(Servers), NEW l \in Seq(Servers),
         Fronted(l, n, r, q), NEW s
  PROVE  Share(s, l) = Share(s, q) + (IF r = s THEN n ELSE 0)
<1>0. Len(l) = n + Len(q) /\ \A i \in 1 .. n + Len(q) : l[i] = IF i <= n THEN r ELSE q[i-n]
  BY DEF Fronted
<1>1. PICK k \in Nat : k = Len(q)
  OBVIOUS
<1> DEFINE new == {i \in 1..n : r = s}
           S   == {i \in DOMAIN q : q[i] = s}
           T   == {i \in n+1 .. n+k : l[i] = s}
           all == {i \in DOMAIN l : l[i] = s}
<1>2. IsFiniteSet(S) /\ Cardinality(S) = Share(s, q) /\ Share(s, q) \in Nat
  BY ShareType DEF Share
<1>3. IsFiniteSet(new) /\ Cardinality(new) = IF r = s THEN n ELSE 0
  <2>1. IsFiniteSet(1..n) /\ Cardinality(1..n) = n
    BY FS_Interval
  <2>0. IsFiniteSet({}) /\ Cardinality({}) = 0
    BY FS_EmptySet
  <2>2. CASE r = s
    BY <2>1, <2>2
  <2>3. CASE r # s
    BY <2>0, <2>3
  <2> QED
    BY <2>2, <2>3
<1>4. IsFiniteSet(T) /\ Cardinality(T) = Cardinality(S)
  <2>1. PICK g : g = [i \in S |-> i + n]
    OBVIOUS
  <2>2. g \in [S -> T]
    BY <1>0, <1>1, <2>1
  <2>3. \A a, b \in S : g[a] = g[b] => a = b
    BY <1>0, <1>1, <2>1
  <2>4. ASSUME NEW t \in T PROVE \E i \in S : g[i] = t
    <3>1. t - n \in S /\ g[t - n] = t
      BY <1>0, <1>1, <2>1
    <3> QED
      BY <3>1
  <2> HIDE DEF S, T
  <2> QED
    BY <1>2, <2>2, <2>3, <2>4, SameSize
<1>5. all = new \cup T /\ new \cap T = {}
  BY <1>0, <1>1
<1> HIDE DEF new, S, T, all
<1>6. /\ IsFiniteSet(all)
      /\ Cardinality(all) = Cardinality(new) + Cardinality(T) - Cardinality(new \cap T)
  BY <1>3, <1>4, <1>5, FS_Union
<1>7. Cardinality(new \cap T) = 0
  BY <1>5, FS_EmptySet
<1>8. Cardinality(all) = Share(s, l)
  BY DEF all, Share
<1> QED
  BY <1>2, <1>3, <1>4, <1>6, <1>7, <1>8

InFront(n, r, q) == [i \in 1..n |-> r] \o q

\* What f_upstream prepends for a directive.
LEMMA ShareOfFront ==
  ASSUME NEW wt \in Weights, NEW r \in Servers, NEW q \in Seq(Servers), NEW s,
         NEW l, l = InFront(wt, r, q)
  PROVE  Share(s, l) = Share(s, q) + Gain(<<r, wt>>, s)
<1>1. wt \in Int /\ Gain(<<r, wt>>, s) = IF r = s /\ wt > 0 THEN wt ELSE 0
  BY WeightsAreInts DEF Gain
<1>2. PICK n \in Nat : n = IF wt > 0 THEN wt ELSE 0
  BY <1>1
<1>3. 1..wt = 1..n
  BY <1>1, <1>2
<1>4. [i \in 1..n |-> r] \in Seq(Servers) /\ Len([i \in 1..n |-> r]) = n
  OBVIOUS
<1>5. PICK c : c = [i \in 1..n |-> r]
  OBVIOUS
<1>6. c \in Seq(Servers) /\ Len(c) = n /\ \A i \in 1..n : c[i] = r
  BY <1>4, <1>5
<1>7. l = c \o q
  BY <1>3, <1>5 DEF InFront
<1>8. l \in Seq(Servers) /\ Fronted(l, n, r, q)
  <2>1. /\ c \o q \in Seq(Servers) /\ Len(c \o q) = n + Len(q)
        /\ \A i \in 1 .. n + Len(q) : (c \o q)[i] = IF i <= n THEN r ELSE q[i-n]
    BY <1>6
  <2> QED
    BY <1>7, <2>1 DEF Fronted
<1>9. Share(s, l) = Share(s, q) + (IF r = s THEN n ELSE 0)
  BY <1>8, ShareInFront
<1> QED
  BY <1>1, <1>2, <1>9

LEMMA TotalsInt ==
  ASSUME NEW gs \in Seq(GroupRecords), NEW s
  PROVE  \A g \in 0..Len(gs) : Total(gs, g, s) \in Int
<1> SUFFICES ASSUME NEW g \in 0..Len(gs) PROVE Total(gs, g, s) \in Int
  OBVIOUS
<1>1. CASE g = 0
  BY <1>1, TotalsAdd
<1>2. CASE g # 0
  <2>1. g \in 1..Len(gs) /\ gs[g] \in GroupRecords
    BY <1>2
  <2>2. PICK b \in Seq(Servers \X Weights) : b = gs[g].block
    BY <2>1 DEF GroupRecords
  <2>3. WeightIn(gs[g].block, s) \in Int
    BY <2>2, WeightType
  <2>4. Total(gs, g-1, s) \in Int /\ Total(gs, g, s) = Total(gs, g-1, s) + WeightIn(gs[g].block, s)
    BY <2>1, TotalsAdd
  <2> QED
    BY <2>3, <2>4
<1> QED
  BY <1>1, <1>2

\* A list has as many nodes of a server as the weights read so far add up to:
\* the lists of the groups, and the one under construction.
Balanced(gs, svs, blk) ==
  \A s \in Servers :
    /\ \A g \in 1..Len(gs) : Share(s, gs[g].list) = Total(gs, g, s)
    /\ Share(s, svs) = Total(gs, Len(gs), s) + WeightIn(blk, s)

Weighed == Balanced(groups, servers, block)

\* f_upstream: the nodes that a directive adds are its weight.
LEMMA BalancedByDirective ==
  ASSUME NEW gs \in Seq(GroupRecords), NEW svs \in Seq(Servers),
         NEW blk \in Seq(Servers \X Weights), NEW d \in Servers \X Weights,
         Balanced(gs, svs, blk), NEW l, l = InFront(d[2], d[1], svs),
         NEW b \in Seq(Servers \X Weights), Grown(b, blk, d)
  PROVE  Balanced(gs, l, b)
<1> SUFFICES ASSUME NEW s \in Servers PROVE Share(s, l) = Total(gs, Len(gs), s) + WeightIn(b, s)
  BY DEF Balanced
<1>6. WeightIn(blk, s) \in Int /\ WeightIn(b, s) = WeightIn(blk, s) + Gain(d, s)
  <2>1. d \in Directives /\ blk \in Seq(Directives) /\ b \in Seq(Directives)
    BY DEF Directives
  <2> QED
    BY <2>1, WeightGrows
<1>7. Gain(d, s) \in Int
  BY GainType
<1>8. Share(s, l) = Share(s, svs) + Gain(d, s)
  <2>1. PICK r \in Servers, wt \in Weights : d = <<r, wt>>
    OBVIOUS
  <2>2. l = InFront(wt, r, svs)
    BY <2>1
  <2>3. Share(s, l) = Share(s, svs) + Gain(<<r, wt>>, s)
    BY <2>2, ShareOfFront
  <2> QED
    BY <2>1, <2>3
<1>9. Len(gs) \in 0..Len(gs)
  OBVIOUS
<1>10. Total(gs, Len(gs), s) \in Int
  BY <1>9, TotalsInt
<1>11. Share(s, svs) = Total(gs, Len(gs), s) + WeightIn(blk, s)
  BY DEF Balanced
<1> QED
  BY <1>6, <1>7, <1>8, <1>10, <1>11

\* f_upstreams: the list is the group's, and stays the one under construction.
LEMMA BalancedByGroup ==
  ASSUME NEW gs \in Seq(GroupRecords), NEW svs \in Seq(Servers),
         NEW blk \in Seq(Servers \X Weights), Balanced(gs, svs, blk),
         NEW r \in GroupRecords, r.list = svs, r.block = blk,
         NEW hs \in Seq(GroupRecords), Grown(hs, gs, r)
  PROVE  Balanced(hs, svs, <<>>)
<1>1. PICK n \in Nat : n = Len(gs)
  OBVIOUS
<1>2. Len(hs) = n + 1 /\ (\A g \in 1..n : hs[g] = gs[g]) /\ hs[n+1] = r
  BY <1>1 DEF Grown
<1> SUFFICES ASSUME NEW s \in Servers
             PROVE  /\ \A g \in 1..n+1 : Share(s, hs[g].list) = Total(hs, g, s)
                    /\ Share(s, svs) = Total(hs, n + 1, s) + WeightIn(<<>>, s)
  BY <1>2 DEF Balanced
<1>3. /\ \A g \in 1..n : Share(s, gs[g].list) = Total(gs, g, s)
      /\ Share(s, svs) = Total(gs, n, s) + WeightIn(blk, s)
  BY <1>1 DEF Balanced
<1>4. ASSUME NEW g \in 0..n PROVE Total(hs, g, s) = Total(gs, g, s)
  <2>1. \A h \in 1..g : h \in 1..n
    OBVIOUS
  <2>2. \A h \in 1..g : hs[h].block = gs[h].block
    BY <1>2, <2>1
  <2> QED
    BY <2>2, SameTotal
<1>5. PICK m \in 1..Len(hs) : m = n + 1
  BY <1>2
<1>6. Total(hs, m, s) = Total(hs, m-1, s) + WeightIn(hs[m].block, s)
  BY <1>2, TotalsAdd
<1>7. Total(hs, n + 1, s) = Total(gs, n, s) + WeightIn(blk, s)
  <2>1. m - 1 = n /\ n \in 0..n
    BY <1>5
  <2> QED
    BY <1>2, <1>4, <1>5, <1>6, <2>1
<1>8. Share(s, svs) = Total(hs, n + 1, s)
  BY <1>3, <1>7
<1>9. Share(s, svs) \in Nat
  BY ShareType
<1>10. WeightIn(<<>>, s) = 0
  BY WeightOfNone
<1>11. ASSUME NEW g \in 1..n+1 PROVE Share(s, hs[g].list) = Total(hs, g, s)
  <2>1. CASE g \in 1..n
    BY <1>2, <1>3, <1>4, <2>1
  <2>2. CASE g = n + 1
    BY <1>2, <1>8, <2>2
  <2> QED
    BY <2>1, <2>2
<1> QED
  BY <1>8, <1>9, <1>10, <1>11

\* Storing a pointer changes neither nodes nor weights.
LEMMA BalancedOtherwise ==
  ASSUME NEW gs, NEW hs, NEW svs, NEW blk, Balanced(gs, svs, blk),
         Len(hs) = Len(gs), Len(gs) \in Nat,
         \A g \in 1..Len(gs) : hs[g].list = gs[g].list /\ hs[g].block = gs[g].block
  PROVE  Balanced(hs, svs, blk)
<1> SUFFICES ASSUME NEW s \in Servers
             PROVE  /\ \A g \in 1..Len(hs) : Share(s, hs[g].list) = Total(hs, g, s)
                    /\ Share(s, svs) = Total(hs, Len(hs), s) + WeightIn(blk, s)
  BY DEF Balanced
<1>1. ASSUME NEW g \in 0..Len(gs) PROVE Total(hs, g, s) = Total(gs, g, s)
  <2>1. \A h \in 1..g : hs[h].block = gs[h].block
    OBVIOUS
  <2> QED
    BY <2>1, SameTotal
<1>2. Len(gs) \in 0..Len(gs) /\ \A g \in 1..Len(gs) : g \in 0..Len(gs)
  OBVIOUS
<1> QED
  BY <1>1, <1>2 DEF Balanced

LEMMA BalancedAtFirst == Balanced(<<>>, <<>>, <<>>)
<1>1. PICK gs \in Seq(GroupRecords) : gs = <<>>
  <2>1. <<>> \in Seq(GroupRecords)
    OBVIOUS
  <2> QED
    BY <2>1
<1>2. ASSUME NEW s \in Servers
      PROVE  Share(s, <<>>) = 0 /\ Total(gs, 0, s) = 0 /\ WeightIn(<<>>, s) = 0
  <2>1. {i \in DOMAIN <<>> : <<>>[i] = s} = {}
    OBVIOUS
  <2>2. Share(s, <<>>) = 0
    BY <2>1, FS_EmptySet DEF Share
  <2> QED
    BY <2>2, TotalsAdd, WeightOfNone
<1>3. Len(gs) = 0
  BY <1>1
<1>4. ASSUME NEW s \in Servers
      PROVE  Share(s, <<>>) = Total(gs, Len(gs), s) + WeightIn(<<>>, s)
  BY <1>2, <1>3
<1>5. 1..Len(gs) = {}
  BY <1>3
<1> QED
  BY <1>1, <1>4, <1>5 DEF Balanced

\* getUpstreamServer changes no list.
LEMMA ListsKept ==
  ASSUME IInv, NEW w \in workers, Serve(w)
  PROVE  /\ UNCHANGED config /\ groups' \in Seq(GroupRecords) /\ Len(groups') = Len(groups)
         /\ \A g \in Groups : groups'[g].list = groups[g].list /\ groups'[g].block = groups[g].block
<1>0. /\ groups \in Seq(GroupRecords) /\ w \in Workers /\ Typed
  BY DEF IInv, Typed
<1>1. ASSUME NEW p \in Nat, p <= Len(List(w)), SetCurrent(w, p), pc[w] # "idle"
      PROVE  /\ groups' \in Seq(GroupRecords) /\ Len(groups') = Len(groups)
             /\ \A g \in Groups : groups'[g].list = groups[g].list /\ groups'[g].block = groups[g].block
  BY <1>0, <1>1, InGroup, SetCurrentEffect
<1>2. CASE StoreNext(w)
  <2>1. pc[w] = "store" /\ SetCurrent(w, tmp[w]) /\ UNCHANGED config
    BY <1>2 DEF StoreNext, Goto
  <2>2. tmp[w] \in Nat /\ tmp[w] <= Len(List(w))
    BY <2>1, InGroup
  <2> QED
    BY <1>1, <2>1, <2>2
<1>3. CASE Wrap(w)
  <2>1. pc[w] = "wrap" /\ SetCurrent(w, 1) /\ UNCHANGED config
    BY <1>3 DEF Wrap, Goto
  <2>2. Len(List(w)) \in Nat /\ Len(List(w)) > 0
    BY <1>0, <2>1, InGroup DEF IInv, WorkersPlaced, Placed
  <2>3. 1 \in Nat /\ 1 <= Len(List(w))
    BY <2>2
  <2> QED
    BY <1>1, <2>1, <2>3
<1>4. CASE UNCHANGED <<config, groups>>
  BY <1>0, <1>4
<1> QED
  BY <1>2, <1>3, <1>4
     DEF Serve, Request, CopyPort, CopyAddr, LoadNext, Check, Connect, Segfault

LEMMA WeighedStep == IInv /\ Weighed /\ [Next]_vars => Weighed'
<1> SUFFICES ASSUME IInv, Weighed, [Next]_vars PROVE Weighed'
  OBVIOUS
<1>0. /\ groups \in Seq(GroupRecords) /\ Len(groups) \in Nat
      /\ servers \in Seq(Servers) /\ block \in Seq(Servers \X Weights)
      /\ Balanced(groups, servers, block)
  BY DEF IInv, Typed, Weighed
<1>1. ASSUME NEW s \in Servers, NEW wt \in Weights, DeclareServer(s, wt) PROVE Weighed'
  <2>1. PICK d \in Servers \X Weights : d = <<s, wt>>
    OBVIOUS
  <2>2. PICK b : b = Append(block, d)
    OBVIOUS
  <2>3. b \in Seq(Servers \X Weights) /\ Grown(b, block, d)
    BY <1>0, <2>2, AppendGrows
  <2>4. PICK l : l = InFront(d[2], d[1], servers)
    OBVIOUS
  <2>5. Balanced(groups, l, b)
    BY <1>0, <2>3, <2>4, BalancedByDirective
  <2>6. groups' = groups /\ servers' = l /\ block' = b
    BY <1>1, <2>1, <2>2, <2>4 DEF DeclareServer, Prepended, InFront
  <2> QED
    BY <2>5, <2>6 DEF Weighed
<1>2. CASE EndGroup
  <2> DEFINE rec == [list |-> servers, block |-> block,
                     current |-> IF servers = <<>> THEN NULL ELSE 1]
  <2>1. rec \in GroupRecords /\ rec.list = servers /\ rec.block = block
    BY <1>0 DEF GroupRecords, NULL
  <2>2. groups' = Append(groups, rec) /\ servers' = servers /\ block' = <<>>
    BY <1>2 DEF EndGroup
  <2> HIDE DEF rec
  <2>3. PICK hs : hs = Append(groups, rec)
    OBVIOUS
  <2>4. hs \in Seq(GroupRecords) /\ Grown(hs, groups, rec)
    BY <1>0, <2>1, <2>3, AppendGrows
  <2>5. Balanced(hs, servers, <<>>)
    BY <1>0, <2>1, <2>4, BalancedByGroup
  <2> QED
    BY <2>2, <2>3, <2>5 DEF Weighed
<1>3. ASSUME Len(groups') = Len(groups), servers' = servers, block' = block,
             \A g \in Groups : groups'[g].list = groups[g].list /\ groups'[g].block = groups[g].block
      PROVE  Weighed'
  <2>1. PICK hs : hs = groups'
    OBVIOUS
  <2>2. Balanced(hs, servers, block)
    BY <1>0, <1>3, <2>1, BalancedOtherwise DEF Groups
  <2> QED
    BY <1>3, <2>1, <2>2 DEF Weighed
<1>4. ASSUME NEW w \in workers, Serve(w) PROVE Weighed'
  BY <1>3, <1>4, ListsKept DEF config
<1>5. CASE UNCHANGED <<servers, block, groups>>
  BY <1>3, <1>5
<1>6. CASE UNCHANGED vars
  BY <1>5, <1>6 DEF vars, config
<1> QED
  BY <1>1, <1>2, <1>4, <1>5, <1>6
     DEF Next, Configure, NameGroup, StartServing, Crashed

LEMMA WeighedAtFirst == Init => Weighed
  BY BalancedAtFirst DEF Init, Weighed

-----------------------------------------------------------------------------
(* The rotation of a worker that is alone *)

\* The position k before p, and the one after it, in a ring of n.
Back(p, k, n) == IF p > k THEN p - k ELSE p - k + n

Follow(p, n) == IF p = n THEN 1 ELSE p + 1

\* q is what a rotation along list l has visited, p the last position.
Turned(l, q, p) ==
  Len(q) <= Len(l) /\ \A i \in 1..Len(q) : q[i] = l[Back(p, Len(q) - i, Len(l))]

\* What a rotation finds when it has read the next of position n.
After(n, l) == IF n = Len(l) THEN NULL ELSE n + 1

\* A rotation on its way to position n, at a stage of getUpstreamServer: c is
\* currentServer, t and a what the worker has loaded and copied.
Spot(l, n, c, stage, t, a) ==
  /\ stage \in {"idle", "port", "addr", "load", "store"} => c = n
  /\ stage \in {"load", "store", "check", "wrap", "connect"} => a = l[n]
  /\ stage = "store" => t = After(n, l)
  /\ stage = "check" => c = After(n, l)
  /\ stage = "wrap" => n = Len(l)
  /\ stage = "connect" => c = Follow(n, Len(l))

InTurn(l, q, c, stage, t, a) ==
  l # <<>> =>
    \E p \in 1..Len(l) : Turned(l, q, p) /\ Spot(l, Follow(p, Len(l)), c, stage, t, a)

\* Going forward in a ring undoes going back.
LEMMA RingFacts ==
  ASSUME NEW L \in Nat \ {0}
  PROVE  /\ \A p \in 1..L : Follow(p, L) \in 1..L /\ Back(p, 0, L) = p
         /\ \A p \in 1..L : \A k \in 0..L-1 :
              Back(p, k, L) \in 1..L /\ Back(Follow(p, L), k + 1, L) = Back(p, k, L)
         /\ \A p, j \in 1..L : /\ Back(j, p, L) \in 1..L
                               /\ Back(p, L - Back(j, p, L), L) = j
  BY DEF Follow, Back

\* One more request, to the server at the next position.
LEMMA TurnedOn ==
  ASSUME NEW l \in Seq(Servers), Len(l) > 0, NEW q \in Seq(Servers), NEW p \in 1..Len(l),
         Turned(l, q, p), NEW n, n = Follow(p, Len(l)), NEW long, long = Append(q, l[n]),
         NEW r, r = IF Len(long) > Len(l) THEN Tail(long) ELSE long
  PROVE  Turned(l, r, n)
<1>1. PICK L \in Nat \ {0} : L = Len(l)
  OBVIOUS
<1>2. PICK k \in Nat : k = Len(q)
  OBVIOUS
<1>3. n \in 1..L /\ l[n] \in Servers
  BY <1>1, RingFacts
<1>4. k <= L /\ \A i \in 1..k : q[i] = l[Back(p, k - i, L)]
  BY <1>1, <1>2 DEF Turned
<1>5. /\ long \in Seq(Servers) /\ Len(long) = k + 1 /\ long[k+1] = l[n]
      /\ \A i \in 1..k : long[i] = q[i]
  BY <1>2, <1>3
<1>6. ASSUME NEW i \in 1..k+1 PROVE long[i] = l[Back(n, k + 1 - i, L)]
  <2>1. CASE i = k + 1
    <3>1. Back(n, 0, L) = n /\ k + 1 - i = 0
      BY <1>3, <2>1, RingFacts
    <3> QED
      BY <1>5, <2>1, <3>1
  <2>2. CASE i # k + 1
    <3>1. i \in 1..k /\ k - i \in 0..L-1 /\ (k - i) + 1 = k + 1 - i
      BY <1>4, <2>2
    <3>2. Back(n, (k - i) + 1, L) = Back(p, k - i, L)
      BY <1>1, <3>1, RingFacts
    <3> QED
      BY <1>4, <1>5, <3>1, <3>2
  <2> QED
    BY <2>1, <2>2
<1>7. CASE k + 1 > L
  <2>1. k = L
    BY <1>4, <1>7
  <2>2. r = Tail(long)
    BY <1>1, <1>5, <1>7
  <2>3. Len(r) = k /\ \A i \in 1..k : r[i] = long[i+1]
    BY <1>5, <2>2
  <2>4. ASSUME NEW i \in 1..k PROVE r[i] = l[Back(n, k - i, L)]
    <3>1. PICK j \in 1..k+1 : j = i + 1
      OBVIOUS
    <3>2. k + 1 - j = k - i
      BY <3>1
    <3>3. r[i] = long[j]
      BY <2>3, <3>1
    <3>4. long[j] = l[Back(n, k + 1 - j, L)]
      BY <1>6
    <3> QED
      BY <3>2, <3>3, <3>4
  <2> QED
    BY <1>1, <1>4, <2>3, <2>4 DEF Turned
<1>8. CASE ~ (k + 1 > L)
  <2>1. r = long
    BY <1>1, <1>5, <1>8
  <2> QED
    BY <1>1, <1>5, <1>6, <1>8, <2>1 DEF Turned
<1> QED
  BY <1>7, <1>8

\* A full round visits every position of the list once.
LEMMA RoundShares ==
  ASSUME NEW l \in Seq(Servers), NEW q \in Seq(Servers), NEW p \in 1..Len(l),
         Turned(l, q, p), Len(q) = Len(l), NEW s
  PROVE  Share(s, q) = Share(s, l)
<1>1. PICK L \in Nat \ {0} : L = Len(l)
  OBVIOUS
<1>2. DOMAIN q = 1..L /\ DOMAIN l = 1..L /\ p \in 1..L
      /\ \A i \in 1..L : q[i] = l[Back(p, L - i, L)]
  BY <1>1 DEF Turned
<1> DEFINE S == {i \in 1..L : q[i] = s}
           T == {j \in 1..L : l[j] = s}
<1>3. PICK g : g = [i \in S |-> Back(p, L - i, L)]
  OBVIOUS
<1>4. g \in [S -> T]
  <2>1. ASSUME NEW i \in S PROVE Back(p, L - i, L) \in T
    <3>1. i \in 1..L /\ L - i \in 0..L-1 /\ q[i] = s
      OBVIOUS
    <3>2. Back(p, L - i, L) \in 1..L
      BY <1>2, <3>1, RingFacts
    <3> QED
      BY <1>2, <3>1, <3>2
  <2> QED
    BY <1>3, <2>1
<1>5. \A a, b \in S : g[a] = g[b] => a = b
  <2> SUFFICES ASSUME NEW a \in S, NEW b \in S, g[a] = g[b] PROVE a = b
    OBVIOUS
  <2>1. a \in 1..L /\ b \in 1..L /\ Back(p, L - a, L) = Back(p, L - b, L)
    BY <1>3
  <2> QED
    BY <1>2, <2>1 DEF Back
<1>6. ASSUME NEW t \in T PROVE \E i \in S : g[i] = t
  <2>1. t \in 1..L /\ l[t] = s
    OBVIOUS
  <2>2. PICK i \in 1..L : i = Back(t, p, L)
    BY <1>2, <2>1, RingFacts
  <2>3. Back(p, L - i, L) = t
    BY <1>2, <2>1, <2>2, RingFacts
  <2>4. i \in S
    BY <1>2, <2>1, <2>3
  <2> QED
    BY <1>3, <2>3, <2>4
<1>7. IsFiniteSet(S)
  BY <1>2, ShareType
<1> HIDE DEF S, T
<1>8. Cardinality(T) = Cardinality(S)
  BY <1>4, <1>5, <1>6, <1>7, SameSize
<1> QED
  BY <1>2, <1>8 DEF S, T, Share

\* How the steps of getUpstreamServer move a rotation.
LEMMA Moves ==
  ASSUME NEW l \in Seq(Servers), NEW q, NEW c, NEW t, NEW a, NEW t2, NEW a2
  PROVE  /\ InTurn(l, q, c, "idle", t, a) => InTurn(l, q, c, "idle", t2, a2)
         /\ InTurn(l, q, c, "idle", t, a) => InTurn(l, q, c, "port", t2, a2)
         /\ InTurn(l, q, c, "port", t, a) => InTurn(l, q, c, "addr", t2, a2)
         /\ InTurn(l, q, c, "addr", t, a) => InTurn(l, q, c, "load", t2, l[c])
         /\ InTurn(l, q, c, "load", t, a) => InTurn(l, q, c, "store", After(c, l), a)
         /\ InTurn(l, q, c, "store", t, a) => InTurn(l, q, t, "check", t2, a)
         /\ InTurn(l, q, NULL, "check", t, a) => InTurn(l, q, NULL, "wrap", t2, a)
         /\ c # NULL => (InTurn(l, q, c, "check", t, a) => InTurn(l, q, c, "connect", t2, a))
         /\ InTurn(l, q, c, "wrap", t, a) => InTurn(l, q, 1, "connect", t2, a)
<1>1. ASSUME NEW p \in 1..Len(l), NEW n, n = Follow(p, Len(l))
      PROVE  /\ Spot(l, n, c, "idle", t, a) => Spot(l, n, c, "idle", t2, a2)
             /\ Spot(l, n, c, "idle", t, a) => Spot(l, n, c, "port", t2, a2)
             /\ Spot(l, n, c, "port", t, a) => Spot(l, n, c, "addr", t2, a2)
             /\ Spot(l, n, c, "addr", t, a) => Spot(l, n, c, "load", t2, l[c])
             /\ Spot(l, n, c, "load", t, a) => Spot(l, n, c, "store", After(c, l), a)
             /\ Spot(l, n, c, "store", t, a) => Spot(l, n, t, "check", t2, a)
             /\ Spot(l, n, NULL, "check", t, a) => Spot(l, n, NULL, "wrap", t2, a)
             /\ c # NULL => (Spot(l, n, c, "check", t, a) => Spot(l, n, c, "connect", t2, a))
             /\ Spot(l, n, c, "wrap", t, a) => Spot(l, n, 1, "connect", t2, a)
  <2>1. n \in Nat \ {0}
    BY <1>1 DEF Follow
  <2>2. /\ After(n, l) = NULL => n = Len(l)
        /\ After(n, l) # NULL => After(n, l) = Follow(n, Len(l))
        /\ n = Len(l) => Follow(n, Len(l)) = 1
    BY <2>1 DEF After, Follow, NULL
  <2> QED
    BY <2>2 DEF Spot
<1>2. ASSUME NEW P, NEW Q, NEW c1, NEW c2, NEW t1, NEW t3, NEW a1, NEW a3,
             \A p \in 1..Len(l) : Spot(l, Follow(p, Len(l)), c1, P, t1, a1)
                                    => Spot(l, Follow(p, Len(l)), c2, Q, t3, a3)
      PROVE  InTurn(l, q, c1, P, t1, a1) => InTurn(l, q, c2, Q, t3, a3)
  BY <1>2 DEF InTurn
<1> QED
  BY <1>1, <1>2

\* connect, the end of a turn.
LEMMA MovesOn ==
  ASSUME NEW l \in Seq(Servers), NEW q \in Seq(Servers), NEW c, NEW t, NEW a, NEW t2, NEW a2,
         NEW long, long = Append(q, a),
         NEW r, r = IF Len(long) > Len(l) THEN Tail(long) ELSE long
  PROVE  InTurn(l, q, c, "connect", t, a) => InTurn(l, r, c, "idle", t2, a2)
<1> SUFFICES ASSUME InTurn(l, q, c, "connect", t, a), l # <<>>
             PROVE  InTurn(l, r, c, "idle", t2, a2)
  BY DEF InTurn
<1>1. PICK p \in 1..Len(l) : Turned(l, q, p) /\ Spot(l, Follow(p, Len(l)), c, "connect", t, a)
  BY DEF InTurn
<1>2. PICK n : n = Follow(p, Len(l))
  OBVIOUS
<1>3. n \in 1..Len(l)
  BY <1>2 DEF Follow
<1>4. a = l[n] /\ c = Follow(n, Len(l))
  BY <1>1, <1>2 DEF Spot
<1>5. Len(l) > 0 /\ long = Append(q, l[n])
  BY <1>4
<1>6. Turned(l, r, n)
  BY <1>1, <1>2, <1>5, TurnedOn
<1>7. Spot(l, Follow(n, Len(l)), c, "idle", t2, a2)
  BY <1>4 DEF Spot
<1> QED
  BY <1>3, <1>6, <1>7 DEF InTurn

\* A list nobody has asked for yet starts at its first server.
LEMMA FirstTurn ==
  ASSUME NEW l \in Seq(Servers), l # <<>>, NEW t, NEW a
  PROVE  InTurn(l, <<>>, 1, "idle", t, a)
<1>1. Len(l) \in 1..Len(l) /\ Follow(Len(l), Len(l)) = 1
  BY DEF Follow
<1>2. Turned(l, <<>>, Len(l))
  BY DEF Turned
<1>3. Spot(l, 1, 1, "idle", t, a)
  BY DEF Spot
<1> QED
  BY <1>1, <1>2, <1>3 DEF InTurn

StageIn(w, g) == IF grp[w] = g THEN pc[w] ELSE "idle"

InTurnAt(w, g) ==
  InTurn(groups[g].list, sent[g], groups[g].current, StageIn(w, g), tmp[w], addr[w])

\* A worker that is alone goes round every list, server after server.
Rotating == \A w \in workers : workers = {w} => \A g \in Groups : InTurnAt(w, g)

\* Reading the configuration starts rotations and moves none.
LEMMA RotatingByConfig ==
  ASSUME IInv, Rotating, ~serving, UNCHANGED <<workers, pc, grp, tmp, addr>>,
         \A g \in Groups : groups'[g] = groups[g] /\ sent'[g] = sent[g],
         \A g \in Groups' \ Groups :
           /\ groups'[g].list \in Seq(Servers) /\ sent'[g] = <<>>
           /\ groups'[g].list # <<>> => groups'[g].current = 1
  PROVE  Rotating'
<1> SUFFICES ASSUME NEW w \in workers, workers = {w}, NEW g \in Groups' PROVE InTurnAt(w, g)'
  BY DEF Rotating
<1>1. pc[w] = "idle" /\ w \in Workers
  BY DEF IInv, Typed, WorkersPlaced, Placed
<1>2. CASE g \in Groups
  BY <1>2 DEF Rotating, InTurnAt, StageIn
<1>3. CASE g \notin Groups
  <2>1. PICK l \in Seq(Servers) : l = groups'[g].list
    BY <1>3
  <2>2. StageIn(w, g)' = "idle"
    BY <1>1 DEF StageIn
  <2>3. CASE l = <<>>
    BY <2>1, <2>3 DEF InTurnAt, InTurn
  <2>4. CASE l # <<>>
    <3>1. InTurn(l, <<>>, 1, "idle", tmp'[w], addr'[w])
      BY <2>4, FirstTurn
    <3> QED
      BY <1>3, <2>1, <2>2, <2>4, <3>1 DEF InTurnAt
  <2> QED
    BY <2>3, <2>4
<1> QED
  BY <1>2, <1>3

\* A step of the worker on its way in group h moves that group's rotation only.
LEMMA RotatingByStep ==
  ASSUME IInv, Rotating, NEW w \in workers, Serve(w), NEW h \in Groups,
         \A g \in Groups : g # h => /\ groups'[g].current = groups[g].current
                                    /\ sent'[g] = sent[g]
                                    /\ StageIn(w, g) = "idle" /\ StageIn(w, g)' = "idle",
         workers = {w} => InTurnAt(w, h)'
  PROVE  Rotating'
<1>1. /\ workers' = workers /\ Groups' = Groups
      /\ \A g \in Groups : groups'[g].list = groups[g].list
  BY ListsKept DEF config, Groups
<1> SUFFICES ASSUME workers = {w}, NEW g \in Groups PROVE InTurnAt(w, g)'
  BY <1>1 DEF Rotating
<1>2. CASE g # h
  <2>1. InTurn(groups[g].list, sent[g], groups[g].current, "idle", tmp[w], addr[w])
    BY <1>2 DEF Rotating, InTurnAt
  <2>2. PICK l \in Seq(Servers) : l = groups[g].list
    BY GroupFields DEF IInv
  <2>3. PICK t : t = tmp'[w]
    OBVIOUS
  <2>4. PICK a : a = addr'[w]
    OBVIOUS
  <2>5. InTurn(l, sent[g], groups[g].current, "idle", t, a)
    BY <2>1, <2>2, Moves
  <2> QED
    BY <1>1, <1>2, <2>2, <2>3, <2>4, <2>5 DEF InTurnAt
<1> QED
  BY <1>2

\* The same for a step that keeps the worker in its group and records no request.
LEMMA RotatingInside ==
  ASSUME IInv, Rotating, NEW w \in workers, Serve(w), pc[w] # "idle",
         grp' = grp, sent' = sent,
         \A g \in Groups : g # grp[w] => groups'[g].current = groups[g].current,
         workers = {w} =>
           InTurn(List(w), sent[grp[w]], groups'[grp[w]].current, pc'[w], tmp'[w], addr'[w])
  PROVE  Rotating'
<1>1. grp[w] \in Groups
  BY InGroup
<1>2. groups'[grp[w]].list = List(w)
  BY <1>1, ListsKept DEF List
<1>3. workers = {w} => InTurnAt(w, grp[w])'
  BY <1>2 DEF InTurnAt, StageIn
<1>4. \A g \in Groups : g # grp[w] => StageIn(w, g) = "idle" /\ StageIn(w, g)' = "idle"
  BY DEF StageIn
<1>5. PICK h \in Groups : h = grp[w]
  BY <1>1
<1>6. workers = {w} => InTurnAt(w, h)'
  BY <1>2, <1>5 DEF InTurnAt, StageIn
<1> QED
  BY <1>4, <1>5, <1>6, RotatingByStep

\* Where the rotation of the worker's group is.
LEMMA TurnOf ==
  ASSUME IInv, Rotating, NEW w \in workers, pc[w] # "idle", workers = {w}
  PROVE  InTurn(List(w), sent[grp[w]], Current(w), pc[w], tmp[w], addr[w])
<1>1. grp[w] \in Groups
  BY InGroup
<1> QED
  BY <1>1 DEF Rotating, InTurnAt, StageIn, List, Current

\* A request enters its group's rotation where the last one left it.
LEMMA RotatingByRequest ==
  ASSUME IInv, Rotating, NEW w \in workers, NEW h \in Groups, Request(w, h) PROVE Rotating'
<1>1. /\ pc[w] = "idle" /\ pc' = [pc EXCEPT ![w] = "port"] /\ grp' = [grp EXCEPT ![w] = h]
      /\ UNCHANGED <<config, crashed, groups, sent, port, addr, tmp>>
      /\ pc \in [Workers -> Stages] /\ grp \in [Workers -> Nat] /\ w \in Workers
  BY DEF IInv, Typed, Request, Goto
<1>2. grp[w] = 0 /\ grp'[w] = h /\ pc'[w] = "port"
  BY <1>1 DEF IInv, WorkersPlaced, Placed
<1>3. \A g \in Groups : /\ StageIn(w, g) = "idle"
                        /\ g # h => StageIn(w, g)' = "idle"
  BY <1>1, <1>2 DEF StageIn
<1>4. workers = {w} => InTurnAt(w, h)'
  <2> SUFFICES ASSUME workers = {w} PROVE InTurnAt(w, h)'
    OBVIOUS
  <2>1. InTurn(groups[h].list, sent[h], groups[h].current, "idle", tmp[w], addr[w])
    BY <1>3 DEF Rotating, InTurnAt
  <2>2. PICK l \in Seq(Servers) : l = groups[h].list
    BY GroupFields DEF IInv
  <2>3. InTurn(l, sent[h], groups[h].current, "port", tmp[w], addr[w])
    BY <2>1, <2>2, Moves
  <2> QED
    BY <1>1, <1>2, <2>2, <2>3 DEF InTurnAt, StageIn
<1>5. Serve(w)
  BY DEF Serve
<1> QED
  BY <1>1, <1>3, <1>4, <1>5, RotatingByStep

\* The accesses that read the pointer.
LEMMA RotatingByReaders ==
  ASSUME IInv, Rotating, NEW w \in workers,
         CopyPort(w) \/ CopyAddr(w) \/ LoadNext(w) \/ Check(w)
  PROVE  Rotating'
<1>1. /\ pc \in [Workers -> Stages] /\ w \in Workers /\ tmp \in [Workers -> Nat]
      /\ addr \in [Workers -> Servers \cup {Unset}] /\ Serve(w)
  BY DEF IInv, Typed, Serve
<1>2. UNCHANGED <<config, crashed, groups, sent, grp>> /\ pc[w] # "idle"
  BY DEF CopyPort, CopyAddr, LoadNext, Check, Goto
<1>3. PICK l \in Seq(Servers) : l = List(w)
  BY <1>2, InGroup
<1>4. PICK c \in Nat : c = Current(w) /\ groups'[grp[w]].current = c
  BY <1>2, InGroup DEF Current
<1>5. PICK q : q = sent[grp[w]]
  OBVIOUS
<1>6. PICK t : t = tmp[w]
  OBVIOUS
<1>7. PICK a : a = addr[w]
  OBVIOUS
<1>8. PICK t2 : t2 = tmp'[w]
  OBVIOUS
<1>9. PICK a2 : a2 = addr'[w]
  OBVIOUS
<1> SUFFICES ASSUME workers = {w} PROVE InTurn(l, q, c, pc'[w], t2, a2)
  BY <1>1, <1>2, <1>3, <1>4, <1>5, <1>8, <1>9, RotatingInside
<1>10. InTurn(l, q, c, pc[w], t, a)
  BY <1>2, <1>3, <1>4, <1>5, <1>6, <1>7, TurnOf
<1>11. CASE CopyPort(w)
  <2>1. pc[w] = "port" /\ pc'[w] = "addr"
    BY <1>1, <1>11 DEF CopyPort, Goto
  <2>2. InTurn(l, q, c, "port", t, a)
    BY <1>10, <2>1
  <2>3. InTurn(l, q, c, "addr", t2, a2)
    BY ONLY <2>2, Moves, l \in Seq(Servers)
  <2> QED
    BY <2>1, <2>3
<1>12. CASE CopyAddr(w)
  <2>1. pc[w] = "addr" /\ pc'[w] = "load" /\ a2 = l[c]
    BY <1>1, <1>3, <1>4, <1>9, <1>12 DEF CopyAddr, Goto
  <2>2. InTurn(l, q, c, "addr", t, a)
    BY <1>10, <2>1
  <2>3. InTurn(l, q, c, "load", t2, l[c])
    BY ONLY <2>2, Moves, l \in Seq(Servers)
  <2> QED
    BY <2>1, <2>3
<1>13. CASE LoadNext(w)
  <2>1. pc[w] = "load" /\ pc'[w] = "store" /\ t2 = After(c, l) /\ a2 = a
    BY <1>1, <1>3, <1>4, <1>7, <1>8, <1>9, <1>13 DEF LoadNext, Goto, After
  <2>2. InTurn(l, q, c, "store", After(c, l), a)
    BY <1>10, <2>1, Moves
  <2> QED
    BY <2>1, <2>2
<1>14. CASE Check(w)
  <2>1. pc[w] = "check" /\ a2 = a
    BY <1>7, <1>9, <1>14 DEF Check, Goto
  <2>2. \/ pc'[w] = "wrap" /\ c = NULL
        \/ pc'[w] = "connect" /\ c # NULL
    BY <1>1, <1>4, <1>14 DEF Check, Goto
  <2>3. CASE pc'[w] = "wrap" /\ c = NULL
    <3>1. InTurn(l, q, NULL, "check", t, a)
      BY <1>10, <2>1, <2>3
    <3>2. InTurn(l, q, NULL, "wrap", t2, a)
      BY <3>1, Moves
    <3> QED
      BY <2>1, <2>3, <3>2
  <2>4. CASE pc'[w] = "connect" /\ c # NULL
    <3>1. InTurn(l, q, c, "connect", t2, a)
      BY <1>10, <2>1, <2>4, Moves
    <3> QED
      BY <2>1, <2>4, <3>1
  <2> QED
    BY <2>2, <2>3, <2>4
<1> QED
  BY <1>11, <1>12, <1>13, <1>14

\* StoreNext and Wrap.
LEMMA RotatingByStore ==
  ASSUME IInv, Rotating, NEW w \in workers, StoreNext(w) \/ Wrap(w)
  PROVE  Rotating'
<1>1. /\ pc \in [Workers -> Stages] /\ w \in Workers /\ Serve(w) /\ Typed
  BY DEF IInv, Typed, Serve
<1>2. UNCHANGED <<config, crashed, sent, grp, port, addr, tmp>> /\ pc[w] # "idle"
  BY DEF StoreNext, Wrap, Goto
<1>3. PICK l \in Seq(Servers) : l = List(w)
  BY <1>2, InGroup
<1>4. PICK c \in Nat : c = Current(w)
  BY <1>2, InGroup
<1>5. PICK q : q = sent[grp[w]]
  OBVIOUS
<1>6. PICK t \in Nat : t = tmp[w] /\ t <= Len(List(w))
  BY <1>2, InGroup
<1>7. PICK a : a = addr[w]
  OBVIOUS
<1>8. grp[w] \in Groups
  BY <1>2, InGroup
<1>9. ASSUME NEW p \in Nat, p <= Len(List(w)), SetCurrent(w, p)
      PROVE  /\ groups'[grp[w]].current = p
             /\ \A g \in Groups : g # grp[w] => groups'[g].current = groups[g].current
  BY <1>1, <1>8, <1>9, SetCurrentEffect
<1>10. workers = {w} => InTurn(l, q, c, pc[w], t, a)
  BY <1>2, <1>3, <1>4, <1>5, <1>6, <1>7, TurnOf
<1>11. CASE StoreNext(w)
  <2>1. pc[w] = "store" /\ pc'[w] = "check" /\ SetCurrent(w, t)
    BY <1>1, <1>6, <1>11 DEF StoreNext, Goto
  <2>2. /\ groups'[grp[w]].current = t
        /\ \A g \in Groups : g # grp[w] => groups'[g].current = groups[g].current
    BY <1>6, <1>9, <2>1
  <2>3. workers = {w} => InTurn(l, q, t, "check", t, a)
    BY <1>10, <2>1, Moves
  <2> QED
    BY <1>1, <1>2, <1>3, <1>5, <1>6, <1>7, <2>1, <2>2, <2>3, RotatingInside
<1>12. CASE Wrap(w)
  <2>1. pc[w] = "wrap" /\ pc'[w] = "connect" /\ SetCurrent(w, 1)
    BY <1>1, <1>12 DEF Wrap, Goto
  <2>2. PICK one \in Nat : one = 1
    OBVIOUS
  <2>3. Len(List(w)) > 0
    BY <1>1, <2>1 DEF IInv, WorkersPlaced, Placed
  <2>4. one <= Len(List(w)) /\ SetCurrent(w, one)
    BY <1>3, <2>1, <2>2, <2>3
  <2>5. /\ groups'[grp[w]].current = one
        /\ \A g \in Groups : g # grp[w] => groups'[g].current = groups[g].current
    BY <1>9, <2>4
  <2>6. workers = {w} => InTurn(l, q, 1, "connect", t, a)
    BY <1>10, <2>1, Moves
  <2> QED
    BY <1>1, <1>2, <1>3, <1>5, <1>6, <1>7, <2>1, <2>2, <2>5, <2>6, RotatingInside
<1> QED
  BY <1>11, <1>12

\* The request is sent to the server at the next position.
LEMMA RotatingByConnect ==
  ASSUME IInv, Rotating, NEW w \in workers, Connect(w) PROVE Rotating'
<1>1. /\ pc[w] = "connect" /\ pc' = [pc EXCEPT ![w] = "idle"] /\ grp' = [grp EXCEPT ![w] = 0]
      /\ UNCHANGED <<config, crashed, groups>> /\ Serve(w)
      /\ pc \in [Workers -> Stages] /\ grp \in [Workers -> Nat] /\ w \in Workers
      /\ sent \in Seq(Seq(Servers)) /\ Len(sent) = Len(groups)
  BY DEF IInv, Typed, Connect, Goto, Serve
<1>2. PICK h \in Groups : h = grp[w]
  BY <1>1, InGroup
<1>3. PICK l \in Seq(Servers) : l = List(w)
  BY <1>1, InGroup
<1>4. PICK q \in Seq(Servers) : q = sent[h]
  BY <1>1 DEF Groups
<1>5. PICK a : a = addr[w]
  OBVIOUS
<1>6. PICK long : long = Append(q, a)
  OBVIOUS
<1>7. PICK r : r = IF Len(long) > Len(l) THEN Tail(long) ELSE long
  OBVIOUS
<1>8. sent' = [sent EXCEPT ![h] = r]
  BY <1>2, <1>3, <1>4, <1>5, <1>6, <1>7 DEF Connect
<1>9. sent'[h] = r /\ \A g \in Groups : g # h => sent'[g] = sent[g]
  BY <1>1, <1>8 DEF Groups
<1>10. \A g \in Groups : /\ StageIn(w, g)' = "idle"
                         /\ g # h => StageIn(w, g) = "idle"
  BY <1>1, <1>2 DEF StageIn
<1>11. ASSUME workers = {w} PROVE InTurnAt(w, h)'
  <2>1. PICK t : t = tmp[w]
    OBVIOUS
  <2>2. PICK c : c = Current(w) /\ c = groups[h].current
    BY <1>2 DEF Current
  <2>3. InTurn(l, q, c, "connect", t, a)
    BY <1>1, <1>2, <1>3, <1>4, <1>5, <1>11, <2>1, <2>2, TurnOf
  <2>4. PICK t2 : t2 = tmp'[w]
    OBVIOUS
  <2>5. PICK a2 : a2 = addr'[w]
    OBVIOUS
  <2>6. InTurn(l, r, c, "idle", t2, a2)
    BY <1>6, <1>7, <2>3, MovesOn
  <2> QED
    BY <1>1, <1>2, <1>3, <1>9, <1>10, <2>2, <2>4, <2>5, <2>6 DEF InTurnAt, List
<1> QED
  BY <1>1, <1>9, <1>10, <1>11, RotatingByStep

\* The parser.
LEMMA RotatingByParser == ASSUME IInv, Rotating, Configure PROVE Rotating'
<1>0. /\ groups \in Seq(GroupRecords) /\ Len(groups) \in Nat
      /\ sent \in Seq(Seq(Servers)) /\ Len(sent) = Len(groups) /\ servers \in Seq(Servers)
      /\ block \in Seq(Servers \X Weights)
  BY DEF IInv, Typed
<1>1. CASE EndGroup
  <2> DEFINE rec == [list |-> servers, block |-> block,
                     current |-> IF servers = <<>> THEN NULL ELSE 1]
  <2>1. /\ rec \in GroupRecords /\ rec.list = servers
        /\ servers # <<>> => rec.current = 1
    BY <1>0 DEF GroupRecords, NULL
  <2>2. groups' = Append(groups, rec) /\ sent' = Append(sent, <<>>) /\ ~serving
        /\ UNCHANGED <<workers, pc, grp, tmp, addr>>
    BY <1>1 DEF EndGroup
  <2> HIDE DEF rec
  <2>3. /\ Len(groups') = Len(groups) + 1 /\ groups'[Len(groups) + 1] = rec
        /\ \A g \in 1..Len(groups) : groups'[g] = groups[g]
    BY <1>0, <2>1, <2>2
  <2>4. PICK none \in Seq(Servers) : none = <<>>
    <3>1. <<>> \in Seq(Servers)
      OBVIOUS
    <3> QED
      BY <3>1
  <2>5. /\ sent'[Len(groups) + 1] = none
        /\ \A g \in 1..Len(groups) : sent'[g] = sent[g]
    BY <1>0, <2>2, <2>4
  <2>6. \A g \in Groups' \ Groups : g = Len(groups) + 1
    BY <1>0, <2>3 DEF Groups
  <2>7. \A g \in Groups' \ Groups :
          /\ groups'[g].list \in Seq(Servers) /\ sent'[g] = <<>>
          /\ groups'[g].list # <<>> => groups'[g].current = 1
    BY <1>0, <2>1, <2>3, <2>4, <2>5, <2>6
  <2>8. \A g \in Groups : groups'[g] = groups[g] /\ sent'[g] = sent[g]
    BY <2>3, <2>5 DEF Groups
  <2> QED
    BY <2>2, <2>7, <2>8, RotatingByConfig
<1>2. CASE ~serving /\ UNCHANGED <<workers, pc, grp, tmp, addr, groups, sent>>
  BY <1>2, RotatingByConfig DEF Groups
<1> QED
  BY <1>1, <1>2 DEF Configure, DeclareServer, NameGroup, StartServing

LEMMA RotatingStep == IInv /\ Rotating /\ [Next]_vars => Rotating'
<1> SUFFICES ASSUME IInv, Rotating, [Next]_vars PROVE Rotating'
  OBVIOUS
<1>1. ASSUME UNCHANGED <<workers, groups, sent, pc, grp, tmp, addr>> PROVE Rotating'
  BY <1>1 DEF Rotating, InTurnAt, StageIn, Groups
<1>2. ASSUME NEW w \in workers, Segfault(w) PROVE Rotating'
  BY <1>1, <1>2 DEF Segfault, config
<1>3. CASE UNCHANGED vars
  BY <1>1, <1>3 DEF vars, config
<1>4. ASSUME NEW w \in workers, Serve(w) PROVE Rotating'
  BY <1>2, <1>4, RotatingByRequest, RotatingByReaders, RotatingByStore, RotatingByConnect
     DEF Serve
<1> QED
  BY <1>3, <1>4, RotatingByParser DEF Next, Crashed

LEMMA RotatingAtFirst == Init => Rotating
  BY DEF Init, Rotating, Groups

\* One request at a time goes round a group's list, for any list and any
\* starting point: a full round visits each position once, so that a server gets
\* as many requests as it has nodes, and in the first group of a configuration
\* as many as its weight.
THEOREM RotationIsFull == Spec => []FullRounds
<1>1. Init => IInv /\ Rotating /\ Weighed
  BY InitStep, RotatingAtFirst, WeighedAtFirst
<1>2. IInv /\ Rotating /\ Weighed /\ [Next]_vars => (IInv /\ Rotating /\ Weighed)'
  BY NextStep, RotatingStep, WeighedStep
<1>3. IInv /\ Rotating /\ Weighed => FullRounds
  <2> SUFFICES ASSUME IInv, Rotating, Weighed, NEW g \in Groups, OneAtATime, FullRound(g),
                      NEW s \in Servers
               PROVE  /\ Share(s, sent[g]) = Share(s, groups[g].list)
                      /\ g = 1 => Share(s, sent[g]) = WeightIn(groups[g].block, s)
    BY DEF FullRounds
  <2>1. PICK w \in workers : workers = {w}
    BY DEF OneAtATime
  <2>2. PICK l \in Seq(Servers) : l = groups[g].list
    BY GroupFields DEF IInv
  <2>3. PICK q \in Seq(Servers) : q = sent[g]
    BY DEF IInv, Typed, Groups
  <2>4. Len(q) = Len(l) /\ l # <<>>
    BY <2>2, <2>3 DEF FullRound
  <2>5. InTurn(l, q, groups[g].current, StageIn(w, g), tmp[w], addr[w])
    BY <2>1, <2>2, <2>3 DEF Rotating, InTurnAt
  <2>6. PICK p \in 1..Len(l) : Turned(l, q, p)
    BY <2>4, <2>5 DEF InTurn
  <2>7. Share(s, q) = Share(s, l)
    BY <2>4, <2>6, RoundShares
  <2>8. Share(s, l) = Total(groups, g, s)
    BY <2>2 DEF Weighed, Balanced, Groups
  <2>9. ASSUME g = 1 PROVE Total(groups, g, s) = WeightIn(groups[g].block, s)
    <3>1. groups \in Seq(GroupRecords) /\ g \in 1..Len(groups)
      BY DEF IInv, Typed, Groups
    <3>2. PICK x : x = WeightIn(groups[g].block, s)
      OBVIOUS
    <3>3. groups[g].block \in Seq(Servers \X Weights)
      BY GroupFields DEF IInv
    <3>a. x \in Int
      BY <3>2, <3>3, WeightType
    <3>4. /\ Total(groups, 0, s) = 0
          /\ Total(groups, g, s) = Total(groups, g - 1, s) + WeightIn(groups[g].block, s)
      BY <3>1, TotalsAdd
    <3>5. g - 1 = 0
      BY <2>9
    <3> QED
      BY <3>2, <3>a, <3>4, <3>5
  <2> QED
    BY <2>2, <2>3, <2>7, <2>8, <2>9
<1> QED
  BY <1>1, <1>2, <1>3, PTL DEF Spec
=============================================================================
