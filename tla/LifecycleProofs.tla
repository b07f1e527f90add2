-------------------------- MODULE LifecycleProofs --------------------------
(***************************************************************************)
(* Proofs about Lifecycle, for every set of pids, every configuration of   *)
(* ports and worker processes and, where a theorem does not say otherwise, *)
(* any overlap of commands.                                                *)
(***************************************************************************)
EXTENDS Lifecycle, FunctionTheorems, FiniteSetTheorems, WellFoundedInduction, TLAPS

-----------------------------------------------------------------------------
(* The fork loop *)

\* A process that has a parent was forked by a process in or past its loop,
\* with an element of procList that the parent has gone past.
Kin ==
  \A q \in Pids : parent[q] # NoPid =>
    /\ at[q] \in {"child", "serve", "zombie"}
    /\ at[parent[q]] \in {"fork", "serve"}
    /\ slot[q] >= 1 /\ slot[q] < slot[parent[q]]

\* No two children of a parent have the same element.
Apart ==
  \A q, r \in Pids :
    parent[q] # NoPid /\ parent[r] = parent[q] /\ slot[r] = slot[q] => r = q

\* pcount and the pointer into procList move together.
Counting ==
  \A p \in Pids : at[p] = "fork" =>
    \/ Len(ProcList) = 0 /\ left[p] = 0
    \/ slot[p] >= 1 /\ left[p] >= 1 /\ slot[p] + left[p] = Len(ProcList) + 1

SlotsInv == TypeOK /\ Kin /\ Apart /\ Counting

-----------------------------------------------------------------------------
(* Commands one after the other *)

Sequential == "overlap" \notin Cases

Starts == {"daemonize", "save", "write", "fork"}
Stops  == {"read", "kill", "unlink"}

Busy(p) == at[p] = "check" \/ at[p] \in Starts \/ at[p] \in Stops

\* One command is under way at a time.
OneBusy == \A p, q \in Pids : Busy(p) /\ Busy(q) => p = q

\* Which command a process belongs to.
CmdFits ==
  \A p \in Pids :
    /\ at[p] \in Starts \cup {"none"} => cmd[p] = "start"
    /\ at[p] \in Stops => cmd[p] = "stop"
    /\ at[p] = "child" => cmd[p] = "fork"
    /\ at[p] = "check" => cmd[p] # "fork"

\* A start command does not run beside a daemon.
StartsAlone ==
  \A p \in Pids : at[p] \in Starts \cup {"check"} /\ cmd[p] = "start" => Daemons = {}

\* What the pid file holds while a command is under way and while a daemon is up.
FileFits ==
  /\ \A p \in Pids :
       /\ at[p] = "write" => p \in writers
       /\ at[p] = "fork" => pidFile = p
       /\ at[p] = "kill" => target[p] = pidFile
       /\ at[p] = "unlink" => Daemons = {}
       /\ at[p] \in Starts => pidFile # Absent
  /\ \A p \in Daemons : pidFile = p

\* Every element of procList that the parent has gone past has a process.
Complete ==
  \A p \in Pids : at[p] = "fork" \/ p \in Daemons =>
    /\ \A i \in 1 .. slot[p] - 1 : \E q \in Pids : parent[q] = p /\ slot[q] = i
    /\ p \in Daemons => slot[p] = Len(ProcList) /\ slot[p] # 0

SeqInv == SlotsInv /\ OneBusy /\ CmdFits /\ StartsAlone /\ FileFits /\ Complete

-----------------------------------------------------------------------------
(* The elements of procList *)

\* A set of positions has a first one.
LEMMA Least ==
  ASSUME NEW T, T \subseteq Nat, T # {}
  PROVE  \E m \in T : \A k \in T : m <= k
<1> DEFINE R == OpToRel(<, Nat)
<1>1. IsWellFoundedOn(R, Nat)
  BY NatLessThanWellFounded
<1>2. \A x, y \in Nat : <<x, y>> \in R <=> x < y
  BY DEF OpToRel
<1> HIDE DEF R
<1>3. PICK m \in T : \A y \in T : ~ (<<y, m>> \in R)
  BY <1>1, WFMin
<1>4. \A y \in T : ~ (y < m)
  BY <1>2, <1>3
<1> QED
  BY <1>4

\* The greatest of some positions.
LEMMA Greatest ==
  ASSUME NEW k \in Nat, NEW T, T \subseteq 1..k, T # {}
  PROVE  Max(T) \in T /\ \A x \in T : x <= Max(T)
<1> DEFINE S == {i \in Nat : \A x \in T : x <= i}
<1>1. \E m \in S : \A i \in S : m <= i
  <2>1. k \in S
    OBVIOUS
  <2> QED
    BY <2>1, Least
<1>2. PICK m \in S : \A i \in S : m <= i
  BY <1>1
<1>3. m \in T
  <2> SUFFICES ASSUME m \notin T
               PROVE  FALSE
    OBVIOUS
  <2>1. PICK x \in T : TRUE
    OBVIOUS
  <2>2. x \in Nat /\ x >= 1 /\ x <= m
    OBVIOUS
  <2>3. m \in Nat /\ m - 1 \in Nat
    BY <2>2
  <2>4. \A y \in T : y <= m - 1
    <3> TAKE y \in T
    <3>1. y \in Nat /\ y <= m /\ y # m
      OBVIOUS
    <3> HIDE DEF S
    <3> QED
      BY <2>3, <3>1
  <2>5. m - 1 \in S
    BY <2>3, <2>4
  <2>6. m <= m - 1
    BY <1>2, <2>5
  <2> QED
    BY <2>3, <2>6
<1>4. \E x \in T : \A y \in T : x >= y
  <2>1. \A y \in T : m >= y
    <3> TAKE y \in T
    <3>1. y <= m /\ y \in Nat /\ m \in Nat
      OBVIOUS
    <3> HIDE DEF S
    <3> QED
      BY <3>1
  <2> QED
    BY <1>3, <2>1
<1>5. Max(T) \in T /\ \A y \in T : Max(T) >= y
  BY <1>4 DEF Max
<1> QED
  BY <1>5

\* The folds of ProcListFor over subsets of the first k ports.
IsFold(n, all, k, f) ==
  f = [T \in SUBSET (1..k) |->
         IF T = {} THEN <<>> ELSE AddPort(n, all[Max(T)], f[T \ {Max(T)}])]

\* There is a fold, since the ports are finitely many.
LEMMA FoldOfNone ==
  ASSUME NEW n, NEW all
  PROVE  \E f : IsFold(n, all, 0, f)
<1> DEFINE f == [T \in SUBSET (1..0) |-> <<>>]
<1>1. \A T \in SUBSET (1..0) : T = {}
  OBVIOUS
<1>2. f = [T \in SUBSET (1..0) |->
             IF T = {} THEN <<>> ELSE AddPort(n, all[Max(T)], f[T \ {Max(T)}])]
  BY <1>1
<1> QED
  BY <1>2 DEF IsFold

LEMMA FoldOfOneMore ==
  ASSUME NEW n, NEW all, NEW k \in Nat, \E f : IsFold(n, all, k, f)
  PROVE  \E f : IsFold(n, all, k + 1, f)
<1>1. PICK f : IsFold(n, all, k, f)
  OBVIOUS
<1> DEFINE g == [T \in SUBSET (1..k+1) |->
                   IF k + 1 \in T THEN AddPort(n, all[k+1], f[T \ {k+1}]) ELSE f[T]]
<1>2. \A T \in SUBSET (1..k) : T \in SUBSET (1..k+1) /\ k + 1 \notin T /\ g[T] = f[T]
  OBVIOUS
<1>3. ASSUME NEW T \in SUBSET (1..k+1)
      PROVE  g[T] = IF T = {} THEN <<>> ELSE AddPort(n, all[Max(T)], g[T \ {Max(T)}])
  <2>1. CASE k + 1 \in T
    <3>1. Max(T) \in T /\ \A x \in T : x <= Max(T)
      <4>1. k + 1 \in Nat /\ T \subseteq 1..k+1 /\ T # {}
        BY <2>1
      <4> HIDE DEF g
      <4> QED
        BY <4>1, Greatest
    <3>2. Max(T) = k + 1
      <4>1. PICK m : m = Max(T)
        OBVIOUS
      <4>2. m \in 1..k+1 /\ k + 1 <= m
        BY <2>1, <3>1, <4>1
      <4> QED
        BY <4>1, <4>2
    <3>3. T \ {k+1} \in SUBSET (1..k)
      OBVIOUS
    <3>4. g[T] = AddPort(n, all[k+1], f[T \ {k+1}])
      BY <2>1
    <3>5. g[T \ {k+1}] = f[T \ {k+1}]
      BY <1>2, <3>3
    <3> HIDE DEF g
    <3> QED
      BY <2>1, <3>2, <3>4, <3>5
  <2>2. CASE k + 1 \notin T
    <3>1. T \in SUBSET (1..k)
      BY <2>2
    <3>2. g[T] = f[T]
      BY <1>2, <3>1
    <3>3. f[T] = IF T = {} THEN <<>> ELSE AddPort(n, all[Max(T)], f[T \ {Max(T)}])
      BY <1>1, <3>1 DEF IsFold
    <3>4. T \ {Max(T)} \in SUBSET (1..k)
      BY <3>1
    <3>5. g[T \ {Max(T)}] = f[T \ {Max(T)}]
      BY <1>2, <3>4
    <3> HIDE DEF g
    <3> QED
      BY <3>2, <3>3, <3>5
  <2> QED
    BY <2>1, <2>2
<1>4. g = [T \in SUBSET (1..k+1) |->
             IF T = {} THEN <<>> ELSE AddPort(n, all[Max(T)], g[T \ {Max(T)}])]
  <2>1. g = [T \in SUBSET (1..k+1) |-> g[T]]
    OBVIOUS
  <2> HIDE DEF g
  <2> QED
    BY <1>3, <2>1
<1> HIDE DEF g
<1> QED
  BY <1>4 DEF IsFold

LEMMA FoldExists ==
  ASSUME NEW n, NEW all, NEW k \in Nat
  PROVE  \E f : IsFold(n, all, k, f)
<1> DEFINE T == {i \in Nat : ~ \E f : IsFold(n, all, i, f)}
<1> SUFFICES ASSUME T # {}
             PROVE  FALSE
  OBVIOUS
<1>1. PICK m \in T : \A i \in T : m <= i
  BY Least
<1>2. m \in Nat /\ ~ \E f : IsFold(n, all, m, f)
  OBVIOUS
<1>3. m # 0
  BY <1>2, FoldOfNone
<1>4. PICK j \in Nat : m = j + 1
  BY <1>2, <1>3
<1>5. ~ (m <= j)
  BY <1>4
<1>6. j \notin T
  BY <1>1, <1>5
<1> QED
  BY <1>2, <1>4, <1>6, FoldOfOneMore

\* ProcListFor is the fold over all ports.
LEMMA ListIsFold ==
  ASSUME NEW n, FlattenSeq(PortLists) \in Seq(Ports)
  PROVE  \E f : /\ IsFold(n, FlattenSeq(PortLists), Len(FlattenSeq(PortLists)), f)
                /\ ProcListFor(n) = f[1..Len(FlattenSeq(PortLists))]
<1>1. PICK all \in Seq(Ports) : all = FlattenSeq(PortLists)
  OBVIOUS
<1>2. DOMAIN all = 1..Len(all) /\ Len(all) \in Nat
  OBVIOUS
<1>3. \E f : IsFold(n, all, Len(all), f)
  BY <1>2, FoldExists
<1>b. ProcListFor(n) = (CHOOSE f : f = [T \in SUBSET DOMAIN all |->
         IF T = {} THEN <<>> ELSE AddPort(n, all[Max(T)], f[T \ {Max(T)}])])[DOMAIN all]
  BY <1>1 DEF ProcListFor, FoldLeft, MapThenFoldSet
<1>4. PICK f : IsFold(n, all, Len(all), f) /\ ProcListFor(n) = f[1..Len(all)]
  BY <1>b, <1>2, <1>3 DEF IsFold
<1> QED
  BY <1>1, <1>4
\* The flattening of the first k lists.
IsFlat(seqs, k, f) == f = [i \in 1..k |-> IF i = 1 THEN seqs[i] ELSE f[i-1] \o seqs[i]]

LEMMA FlatExists ==
  ASSUME NEW seqs, NEW k \in Nat
  PROVE  \E f : IsFlat(seqs, k, f)
<1> DEFINE T == {i \in Nat : ~ \E f : IsFlat(seqs, i, f)}
<1> SUFFICES ASSUME T # {}
             PROVE  FALSE
  OBVIOUS
<1>1. PICK m \in T : \A i \in T : m <= i
  BY Least
<1>2. m \in Nat /\ ~ \E f : IsFlat(seqs, m, f)
  OBVIOUS
<1>3. m # 0
  <2>1. IsFlat(seqs, 0, [i \in 1..0 |-> <<>>])
    BY DEF IsFlat
  <2> QED
    BY <1>2, <2>1
<1>4. PICK j \in Nat : m = j + 1
  BY <1>2, <1>3
<1>5. ~ (m <= j)
  BY <1>4
<1>6. j \notin T
  BY <1>1, <1>5
<1>7. PICK f : IsFlat(seqs, j, f)
  BY <1>6
<1> HIDE DEF T
<1> DEFINE g == [i \in 1..m |-> IF i = m THEN IF m = 1 THEN seqs[1] ELSE f[j] \o seqs[m]
                                ELSE f[i]]
<1>8. \A i \in 1..m : g[i] = IF i = 1 THEN seqs[i] ELSE g[i-1] \o seqs[i]
  <2> TAKE i \in 1..m
  <2>1. CASE i = m
    <3>1. CASE m = 1
      BY <2>1, <3>1
    <3>2. CASE m # 1
      <4>1. j \in 1..m /\ m \in 1..m /\ j # m /\ m - 1 = j
        BY <1>4, <3>2
      <4>2. g[j] = f[j] /\ g[m] = f[j] \o seqs[m]
        BY <1>2, <3>2, <4>1
      <4> HIDE DEF g
      <4> QED
        BY <2>1, <3>2, <4>1, <4>2
    <3> QED
      BY <3>1, <3>2
  <2>2. CASE i # m
    <3>1. i \in 1..j
      BY <1>4, <2>2
    <3>2. g[i] = f[i]
      BY <2>2
    <3>3. f[i] = IF i = 1 THEN seqs[i] ELSE f[i-1] \o seqs[i]
      BY <1>7, <3>1 DEF IsFlat
    <3>4. i # 1 => g[i-1] = f[i-1]
      BY <1>4, <3>1
    <3> HIDE DEF g
    <3> QED
      BY <3>2, <3>3, <3>4
  <2> QED
    BY <2>1, <2>2
<1>9. g = [i \in 1..m |-> g[i]]
  OBVIOUS
<1> HIDE DEF g
<1>10. IsFlat(seqs, m, g)
  BY <1>8, <1>9 DEF IsFlat
<1> QED
  BY <1>2, <1>10

\* It is a list if they are.
LEMMA FlatTyped ==
  ASSUME NEW S, NEW seqs \in Seq(Seq(S)), NEW f, IsFlat(seqs, Len(seqs), f)
  PROVE  \A i \in 1..Len(seqs) : f[i] \in Seq(S)
<1> DEFINE T == {i \in 1..Len(seqs) : f[i] \notin Seq(S)}
<1> SUFFICES ASSUME T # {}
             PROVE  FALSE
  OBVIOUS
<1>0. Len(seqs) \in Nat /\ T \subseteq Nat
  OBVIOUS
<1>1. PICK m \in T : \A i \in T : m <= i
  BY <1>0, Least
<1>2. m \in 1..Len(seqs) /\ Len(seqs) \in Nat /\ f[m] \notin Seq(S) /\ seqs[m] \in Seq(S)
  OBVIOUS
<1>3. f[m] = IF m = 1 THEN seqs[m] ELSE f[m-1] \o seqs[m]
  BY <1>2 DEF IsFlat
<1>4. m # 1
  BY <1>2, <1>3
<1>5. m - 1 \in 1..Len(seqs) /\ ~ (m <= m - 1)
  BY <1>2, <1>4
<1>6. m - 1 \notin T
  BY <1>1, <1>5
<1>7. f[m-1] \in Seq(S)
  BY <1>5, <1>6
<1> QED
  BY <1>2, <1>3, <1>4, <1>7

\* The ports of all servers, one after the other, are a list of ports.
LEMMA PortsAreListed == FlattenSeq(PortLists) \in Seq(Ports)
<1>1. PortLists \in Seq(Seq(Ports)) /\ Len(PortLists) \in Nat
  BY PortListsAreLists
<1>2. CASE Len(PortLists) = 0
  <2>1. FlattenSeq(PortLists) = PortLists /\ PortLists = <<>>
    BY <1>1, <1>2 DEF FlattenSeq
  <2> QED
    BY <2>1
<1>3. CASE Len(PortLists) # 0
  <2>1. FlattenSeq(PortLists) = (CHOOSE f : f = [i \in 1..Len(PortLists) |->
           IF i = 1 THEN PortLists[i] ELSE f[i-1] \o PortLists[i]])[Len(PortLists)]
    BY <1>3 DEF FlattenSeq
  <2>2. PICK f : IsFlat(PortLists, Len(PortLists), f) /\ FlattenSeq(PortLists) = f[Len(PortLists)]
    BY <1>1, <2>1, FlatExists DEF IsFlat
  <2>3. Len(PortLists) \in 1..Len(PortLists)
    BY <1>1, <1>3
  <2> QED
    BY <1>1, <2>2, <2>3, FlatTyped
<1> QED
  BY <1>2, <1>3

\* What the fold does with the first m ports.
LEMMA FoldSteps ==
  ASSUME NEW n, NEW all, NEW k \in Nat, NEW f, IsFold(n, all, k, f)
  PROVE  /\ f[1..0] = <<>>
         /\ \A m \in 1..k : f[1..m] = AddPort(n, all[m], f[1..m-1])
<1>1. f[1..0] = <<>>
  <2>1. 1..0 \in SUBSET (1..k) /\ 1..0 = {}
    OBVIOUS
  <2> QED
    BY <2>1 DEF IsFold
<1>2. ASSUME NEW m \in 1..k
      PROVE  f[1..m] = AddPort(n, all[m], f[1..m-1])
  <2>1. m \in Nat /\ 1..m \in SUBSET (1..k) /\ 1..m # {}
    OBVIOUS
  <2>2. f[1..m] = AddPort(n, all[Max(1..m)], f[(1..m) \ {Max(1..m)}])
    BY <2>1 DEF IsFold
  <2>3. Max(1..m) = m
    <3>1. Max(1..m) \in 1..m /\ \A x \in 1..m : x <= Max(1..m)
      BY <2>1, Greatest
    <3>2. PICK x : x = Max(1..m)
      OBVIOUS
    <3>3. m \in 1..m
      BY <2>1
    <3>4. x \in 1..m /\ m <= x
      BY <3>1, <3>2, <3>3
    <3> QED
      BY <2>1, <3>2, <3>4
  <2>4. (1..m) \ {m} = 1..m-1
    BY <2>1
  <2> QED
    BY <2>2, <2>3, <2>4
<1> QED
  BY <1>1, <1>2

\* Two sets between which there is a bijection have the same size.
LEMMA SameSize ==
  ASSUME NEW S, NEW T, IsFiniteSet(S), NEW g \in [S -> T],
         \A a, b \in S : g[a] = g[b] => a = b, \A t \in T : \E s \in S : g[s] = t
  PROVE  IsFiniteSet(T) /\ Cardinality(T) = Cardinality(S)
<1>1. g \in Bijection(S, T)
  BY Fun_IsBij
<1> QED
  BY <1>1, FS_Bijection DEF ExistsBijection

\* The elements of a list that have a port number.
Copies(ps, num) == {i \in 1..Len(ps) : ps[i].portNum = num}

\* They are finitely many.
LEMMA CopiesFinite ==
  ASSUME NEW ps \in Seq(Ports), NEW num
  PROVE  IsFiniteSet(Copies(ps, num))
<1>1. Copies(ps, num) \in SUBSET (1..Len(ps)) /\ Len(ps) \in Int /\ 1 \in Int
  BY DEF Copies
<1> QED
  BY <1>1, FS_Interval, FS_Subset

\* A port that is new gets n elements in front of the list.
LEMMA InFront ==
  ASSUME NEW n \in Nat, NEW port \in Ports, NEW ps \in Seq(Ports), UniquePort(ps, port),
         NEW q, q = AddPort(n, port, ps)
  PROVE  /\ q \in Seq(Ports) /\ Len(q) = n + Len(ps) /\ Len(ps) \in Nat
         /\ \A i \in 1 .. n + Len(ps) : q[i] = IF i <= n THEN port ELSE ps[i-n]
<1> DEFINE c == [i \in 1..n |-> port]
<1>1. c \in Seq(Ports) /\ Len(c) = n /\ \A i \in 1..n : c[i] = port
  OBVIOUS
<1>2. q = c \o ps
  BY DEF AddPort
<1> HIDE DEF c
<1>3. /\ c \o ps \in Seq(Ports) /\ Len(c \o ps) = n + Len(ps) /\ Len(ps) \in Nat
      /\ \A i \in 1 .. n + Len(ps) : (c \o ps)[i] = IF i <= n THEN port ELSE ps[i-n]
  BY <1>1
<1> QED
  BY <1>2, <1>3

\* A port that is new gets n elements, and the others keep theirs.
LEMMA CopiesAdded ==
  ASSUME NEW n \in Nat, NEW port \in Ports, NEW ps \in Seq(Ports), UniquePort(ps, port),
         NEW q, q = AddPort(n, port, ps), NEW num
  PROVE  Cardinality(Copies(q, num)) =
           IF num = port.portNum THEN n ELSE Cardinality(Copies(ps, num))
<1>1. /\ q \in Seq(Ports) /\ Len(q) = n + Len(ps) /\ Len(ps) \in Nat
      /\ \A i \in 1 .. n + Len(ps) : q[i] = IF i <= n THEN port ELSE ps[i-n]
  BY InFront
<1>2. CASE num = port.portNum
  <2>1. \A i \in 1..Len(ps) : ps[i].portNum # num
    BY <1>2 DEF UniquePort
  <2>2. ASSUME NEW i \in 1 .. n + Len(ps), i > n
        PROVE  q[i].portNum # num
    <3>1. i - n \in 1..Len(ps) /\ q[i] = ps[i-n]
      BY <1>1, <2>2
    <3> QED
      BY <2>1, <3>1
  <2>3. ASSUME NEW i \in 1..n
        PROVE  i \in 1 .. n + Len(ps) /\ q[i].portNum = num
    BY <1>1, <1>2
  <2>4. Copies(q, num) = 1..n
    BY <1>1, <2>2, <2>3 DEF Copies
  <2>5. Cardinality(1..n) = n
    BY FS_Interval
  <2> QED
    BY <1>2, <2>4, <2>5
<1>3. CASE num # port.portNum
  <2> DEFINE S == Copies(ps, num)
             T == Copies(q, num)
             g == [i \in S |-> i + n]
  <2>1. ASSUME NEW i \in S
        PROVE  i \in Nat /\ i + n \in T
    <3>1. i \in 1..Len(ps) /\ ps[i].portNum = num
      BY DEF Copies
    <3>2. i + n \in 1 .. n + Len(ps) /\ ~ (i + n <= n) /\ (i + n) - n = i
      BY <1>1, <3>1
    <3>3. q[i + n] = ps[i]
      BY <1>1, <3>2
    <3> QED
      BY <1>1, <3>1, <3>2, <3>3 DEF Copies
  <2>2. ASSUME NEW t \in T
        PROVE  \E i \in S : g[i] = t
    <3>1. t \in 1 .. n + Len(ps) /\ q[t].portNum = num
      BY <1>1 DEF Copies
    <3>2. ~ (t <= n)
      BY <1>1, <1>3, <3>1
    <3>3. t - n \in 1..Len(ps) /\ (t - n) + n = t
      BY <1>1, <3>1, <3>2
    <3>4. ps[t-n].portNum = num
      BY <1>1, <3>1, <3>2
    <3>5. t - n \in S
      BY <3>3, <3>4 DEF Copies
    <3> QED
      BY <3>3, <3>5
  <2> HIDE DEF S, T
  <2>3. g \in [S -> T] /\ \A a, b \in S : g[a] = g[b] => a = b
    BY <2>1
  <2>4. IsFiniteSet(S)
    BY CopiesFinite DEF S
  <2> HIDE DEF g
  <2>5. Cardinality(T) = Cardinality(S)
    BY <2>2, <2>3, <2>4, SameSize
  <2> QED
    BY <1>3, <2>5 DEF S, T
<1> QED
  BY <1>2, <1>3

\* A list with n elements for each of the first m ports, and no others.
Listed(n, all, m, ps) ==
  /\ ps \in Seq(Ports)
  /\ \A i \in 1..Len(ps) : \E j \in 1..m : ps[i].portNum = all[j].portNum
  /\ \A j \in 1..m : Cardinality(Copies(ps, all[j].portNum)) = n

\* addPort for a port that is new, and for any port.
LEMMA NewPortListed ==
  ASSUME NEW n \in Nat, NEW all \in Seq(Ports), NEW m \in 1..Len(all), NEW ps \in Seq(Ports),
         Listed(n, all, m - 1, ps), NEW port \in Ports, port = all[m], UniquePort(ps, port),
         NEW q, q = AddPort(n, port, ps)
  PROVE  Listed(n, all, m, q)
<1>1. /\ q \in Seq(Ports) /\ Len(q) = n + Len(ps) /\ Len(ps) \in Nat
      /\ \A i \in 1 .. n + Len(ps) : q[i] = IF i <= n THEN port ELSE ps[i-n]
  BY InFront
<1>2. m \in Nat
  OBVIOUS
<1>3. ASSUME NEW i \in 1 .. n + Len(ps)
      PROVE  \E j \in 1..m : q[i].portNum = all[j].portNum
  <2>1. CASE i <= n
    BY <1>1, <1>2, <2>1
  <2>2. CASE ~ (i <= n)
    <3>1. i - n \in 1..Len(ps) /\ q[i] = ps[i-n]
      BY <1>1, <2>2
    <3>2. PICK j \in 1..m-1 : ps[i-n].portNum = all[j].portNum
      BY <3>1 DEF Listed
    <3>3. j \in 1..m
      BY <1>2
    <3> QED
      BY <3>1, <3>2, <3>3
  <2> QED
    BY <2>1, <2>2
<1>4. ASSUME NEW j \in 1..m
      PROVE  Cardinality(Copies(q, all[j].portNum)) = n
  <2>1. PICK num : num = all[j].portNum
    OBVIOUS
  <2>2. Cardinality(Copies(q, num)) =
          IF num = port.portNum THEN n ELSE Cardinality(Copies(ps, num))
    BY CopiesAdded
  <2>3. CASE j = m
    BY <2>1, <2>2, <2>3
  <2>4. CASE j # m
    <3>1. j \in 1..m-1
      BY <1>2, <2>4
    <3> QED
      BY <2>1, <2>2, <3>1 DEF Listed
  <2> QED
    BY <2>3, <2>4
<1> QED
  BY <1>1, <1>3, <1>4 DEF Listed

LEMMA OneMoreListed ==
  ASSUME NEW n \in Nat, NEW all \in Seq(Ports), NEW m \in 1..Len(all), NEW ps,
         Listed(n, all, m - 1, ps)
  PROVE  Listed(n, all, m, AddPort(n, all[m], ps))
<1>0. PICK port \in Ports : port = all[m]
  OBVIOUS
<1>1. ps \in Seq(Ports) /\ m \in Nat
  BY DEF Listed
<1>2. CASE UniquePort(ps, port)
  BY <1>0, <1>1, <1>2, NewPortListed
<1>3. CASE ~UniquePort(ps, port)
  <2>1. AddPort(n, port, ps) = ps
    BY <1>3 DEF AddPort
  <2>2. PICK i \in 1..Len(ps) : ps[i].portNum = port.portNum
    BY <1>1, <1>3 DEF UniquePort
  <2>3. PICK k \in 1..m-1 : ps[i].portNum = all[k].portNum
    BY DEF Listed
  <2>4. ASSUME NEW j \in 1..m
        PROVE  Cardinality(Copies(ps, all[j].portNum)) = n
    <3>1. CASE j = m
      BY <1>0, <2>2, <2>3, <3>1 DEF Listed
    <3>2. CASE j # m
      <4>1. j \in 1..m-1
        BY <1>1, <3>2
      <4> QED
        BY <4>1 DEF Listed
    <3> QED
      BY <3>1, <3>2
  <2>5. \A x \in 1..m-1 : x \in 1..m
    BY <1>1
  <2> QED
    BY <1>0, <1>1, <2>1, <2>4, <2>5 DEF Listed
<1> QED
  BY <1>0, <1>2, <1>3

\* procList has n elements for each port that some server listens on.
LEMMA ProcListListed ==
  ASSUME NEW n \in Nat
  PROVE  LET all == FlattenSeq(PortLists) IN Listed(n, all, Len(all), ProcListFor(n))
<1>1. PICK all \in Seq(Ports) : all = FlattenSeq(PortLists)
  BY PortsAreListed
<1>2. PICK f : IsFold(n, all, Len(all), f) /\ ProcListFor(n) = f[1..Len(all)]
  BY <1>1, PortsAreListed, ListIsFold
<1>3. Len(all) \in Nat
  OBVIOUS
<1>4. /\ f[1..0] = <<>>
      /\ \A m \in 1..Len(all) : f[1..m] = AddPort(n, all[m], f[1..m-1])
  BY <1>2, <1>3, FoldSteps
<1> DEFINE T == {m \in 0..Len(all) : ~Listed(n, all, m, f[1..m])}
<1>5. T = {}
  <2> SUFFICES ASSUME T # {}
               PROVE  FALSE
    OBVIOUS
  <2>0. T \subseteq Nat
    BY <1>3
  <2>1. PICK m \in T : \A i \in T : m <= i
    BY <2>0, Least
  <2>2. m \in 0..Len(all) /\ ~Listed(n, all, m, f[1..m])
    OBVIOUS
  <2>3. m # 0
    <3>1. <<>> \in Seq(Ports) /\ 1..Len(<<>>) = {} /\ 1..0 = {}
      OBVIOUS
    <3>2. Listed(n, all, 0, <<>>)
      BY <3>1 DEF Listed
    <3> QED
      BY <1>4, <2>2, <3>2
  <2>4. m - 1 \in 0..Len(all) /\ m \in 1..Len(all) /\ ~ (m <= m - 1)
    BY <1>3, <2>2, <2>3
  <2>5. m - 1 \notin T
    BY <2>1, <2>4
  <2>6. Listed(n, all, m - 1, f[1..m-1])
    BY <2>4, <2>5
  <2> HIDE DEF T
  <2>7. Listed(n, all, m, AddPort(n, all[m], f[1..m-1]))
    BY <2>4, <2>6, OneMoreListed
  <2> QED
    BY <1>4, <2>2, <2>4, <2>7
<1>6. Len(all) \in 0..Len(all)
  BY <1>3
<1>7. Listed(n, all, Len(all), f[1..Len(all)])
  BY <1>5, <1>6
<1> QED
  BY <1>1, <1>2, <1>7
-----------------------------------------------------------------------------
(* Type correctness *)

LEMMA ListLength ==
  ASSUME workerProcesses \in WorkerCounts
  PROVE  Len(ProcList) \in Nat /\ (ProcList # <<>> => Len(ProcList) >= 1)
<1>1. ProcList \in Seq(Ports)
  BY WorkerCountsAreNat, ProcListListed DEF ProcList, Listed
<1> QED
  BY <1>1

\* Ending processes keeps the types, wherever the survivors are.
LEMMA EndTypes ==
  ASSUME TypeOK, NEW D, NEW stages \in [Pids -> Stages], End(D, stages)
  PROVE  /\ at' \in [Pids -> Stages] /\ cmd' \in [Pids -> {"start", "stop", "fork"}]
         /\ parent' \in [Pids -> Pids \cup {NoPid}] /\ armed' \in [Pids -> BOOLEAN]
         /\ slot' \in [Pids -> Slots] /\ left' \in [Pids -> Slots]
         /\ target' \in [Pids -> Pids \cup {NoPid}]
<1>1. 0 \in Slots /\ {"none", "zombie"} \subseteq Stages
  BY ListLength DEF TypeOK, Slots, Stages
<1>2. armed' \in [Pids -> BOOLEAN]
  BY Zenon DEF End
<1>3. /\ at' \in [Pids -> Stages] /\ cmd' \in [Pids -> {"start", "stop", "fork"}]
      /\ parent' \in [Pids -> Pids \cup {NoPid}]
      /\ slot' \in [Pids -> Slots] /\ left' \in [Pids -> Slots]
      /\ target' \in [Pids -> Pids \cup {NoPid}]
  BY <1>1 DEF End, TypeOK
<1> QED
  BY <1>2, <1>3

LEMMA TypeStep == TypeOK /\ [Next]_vars => TypeOK'
<1> SUFFICES ASSUME TypeOK, [Next]_vars PROVE TypeOK'
  OBVIOUS
<1>0. CASE UNCHANGED vars
  BY <1>0 DEF vars, local, TypeOK, Slots, ProcList
<1>a. CASE workerProcesses' = workerProcesses
  <2>1. Len(ProcList) \in Nat /\ Slots' = Slots
    BY <1>a, ListLength DEF Slots, ProcList, TypeOK
  <2> USE <1>a, <2>1 DEF TypeOK, Goto, Stages
  <2>2. CASE Touch
    BY <2>2 DEF Touch, local
  <2>3. ASSUME NEW p \in Pids, NEW c \in {"start", "stop"}, Run(p, c) PROVE TypeOK'
    BY <2>3 DEF Run
  <2>4. ASSUME NEW p \in Pids, CheckConfig(p) \/ ParentServes(p) PROVE TypeOK'
    BY <2>4 DEF CheckConfig, ParentServes, local
  <2>5. ASSUME NEW p \in Pids, OpenPidFile(p) PROVE TypeOK'
    BY <2>5 DEF OpenPidFile, local
  <2>6. ASSUME NEW p \in Pids, WritePid(p) PROVE TypeOK'
    <3>1. Len(ProcList) \in Slots /\ (IF ProcList = <<>> THEN 0 ELSE 1) \in Slots
      <4>1. CASE ProcList = <<>>
        BY <4>1 DEF Slots
      <4>2. CASE ProcList # <<>>
        <5>1. Len(ProcList) >= 1
          BY <4>2, ListLength
        <5> QED
          BY <4>2, <5>1 DEF Slots
      <4> QED
        BY <4>1, <4>2
    <3> QED
      BY <2>6, <3>1 DEF WritePid
  <2>7. ASSUME NEW p \in Pids, Arm(p) PROVE TypeOK'
    BY <2>7 DEF Arm
  <2>8. ASSUME NEW p \in Pids, NEW q \in Pids, Daemonize(p, q) PROVE TypeOK'
    BY <2>8 DEF Daemonize, local
  <2>9. ASSUME NEW p \in Pids, NEW q \in Pids, Fork(p, q) PROVE TypeOK'
    <3>1. slot[p] \in Slots /\ Following(slot[p]) \in Slots
      BY DEF Slots, Following
    <3>2. left[p] - 1 \in Slots
      BY <2>9 DEF Slots, Fork
    <3> QED
      BY <2>9, <3>1, <3>2 DEF Fork
  <2>10. ASSUME NEW p \in Pids,
                \/ PidFileMissing(p) \/ DaemonizeFails(p) \/ ForkFails(p) \/ ForkFromNothing(p)
                \/ ArmFails(p) \/ ServerEnds(p)
         PROVE  TypeOK'
    <3>1. End({p}, at) /\ UNCHANGED <<pidFile, writers>>
      BY <2>10 DEF PidFileMissing, DaemonizeFails, ForkFails, ForkFromNothing, ArmFails,
                  ServerEnds
    <3> QED
      BY <3>1, EndTypes
  <2>11. ASSUME NEW p \in Pids, ReadNothing(p) \/ Unlink(p) PROVE TypeOK'
    <3>1. End({p}, at) /\ pidFile' = Absent /\ writers' = {}
      BY <2>11 DEF ReadNothing, Unlink
    <3> QED
      BY <3>1, EndTypes
  <2>12. ASSUME NEW p \in Pids, ReadPid(p) PROVE TypeOK'
    BY <2>12 DEF ReadPid
  <2>13. ASSUME NEW p \in Pids, Kill(p) PROVE TypeOK'
    <3>1. [at EXCEPT ![p] = "unlink"] \in [Pids -> Stages]
      OBVIOUS
    <3> QED
      BY <2>13, <3>1, EndTypes DEF Kill
  <2> QED
    BY <1>0, <2>2, <2>3, <2>4, <2>5, <2>6, <2>7, <2>8, <2>9, <2>10, <2>11, <2>12, <2>13
       DEF Next, Admin, Startup, SendSignal, PidsUsedUp
<1> QED
  BY <1>0, <1>a DEF Next, PidsUsedUp

LEMMA TypeInit == Init => TypeOK
<1> SUFFICES ASSUME Init PROVE TypeOK
  OBVIOUS
<1>1. 0 \in Slots
  BY ListLength DEF Init, Slots
<1> QED
  BY <1>1 DEF Init, TypeOK, Stages

\* Types: in particular a process's pointer into procList and its pcount stay
\* within procList, whatever commands run beside it.
THEOREM TypeCorrect == Spec => []TypeOK
  BY TypeInit, TypeStep, PTL DEF Spec

-----------------------------------------------------------------------------
(* The fork loop hands out each element once *)

\* Ending processes, in Kill too, keeps what is known of the survivors.
LEMMA EndSlots ==
  ASSUME SlotsInv, TypeOK', workerProcesses' = workerProcesses,
         NEW D, NEW stages, End(D, stages),
         \A x \in Pids : stages[x] = at[x] \/ (at[x] = "kill" /\ stages[x] = "unlink")
  PROVE  SlotsInv'
<1> DEFINE dead == EndWith(D)
           gone == {x \in dead : parent[x] \in dead \cup {NoPid}}
<1>1. \A x \in Pids :
        /\ at'[x] = IF x \in gone THEN "none" ELSE IF x \in dead THEN "zombie" ELSE stages[x]
        /\ parent'[x] = IF x \in gone \/ parent[x] \in dead THEN NoPid ELSE parent[x]
        /\ x \notin gone => slot'[x] = slot[x] /\ left'[x] = left[x]
  BY DEF End
<1> HIDE DEF dead
<1>2. \A x \in Pids : parent'[x] # NoPid =>
        /\ parent'[x] = parent[x] /\ parent[x] \in Pids /\ x \notin gone
        /\ parent[x] \notin dead
  <2>1. \A x \in Pids : parent[x] \in Pids \cup {NoPid}
    BY DEF SlotsInv, TypeOK
  <2> QED
    BY <1>1, <2>1
<1>3. Kin'
  <2> SUFFICES ASSUME NEW q \in Pids, parent'[q] # NoPid
               PROVE  /\ at'[q] \in {"child", "serve", "zombie"}
                      /\ at'[parent'[q]] \in {"fork", "serve"}
                      /\ slot'[q] >= 1 /\ slot'[q] < slot'[parent'[q]]
    BY DEF Kin
  <2>1. /\ parent'[q] = parent[q] /\ parent[q] \in Pids /\ q \notin gone
        /\ parent[q] \notin dead
    BY <1>2
  <2>2. /\ at[q] \in {"child", "serve", "zombie"} /\ at[parent[q]] \in {"fork", "serve"}
        /\ slot[q] >= 1 /\ slot[q] < slot[parent[q]]
    BY <2>1 DEF SlotsInv, Kin
  <2> QED
    BY <1>1, <2>1, <2>2
<1>4. Apart'
  BY <1>1, <1>2 DEF SlotsInv, Apart
<1>5. Counting'
  BY <1>1 DEF SlotsInv, Counting, ProcList
<1> QED
  BY <1>3, <1>4, <1>5 DEF SlotsInv

\* Steps that move one process, between stages that the fork loop does not
\* know or past its end, and touch nothing the loop uses.
LEMMA MoveSlots ==
  ASSUME SlotsInv, TypeOK', workerProcesses' = workerProcesses,
         UNCHANGED <<parent, slot, left>>,
         \A x \in Pids : \/ at'[x] = at[x]
                         \/ at[x] \notin {"child", "serve", "zombie", "fork"} /\ at'[x] # "fork"
                         \/ at[x] \in {"child", "fork"} /\ at'[x] = "serve"
  PROVE  SlotsInv'
<1>1. Kin'
  <2>1. \A x \in Pids : parent[x] # NoPid => parent[x] \in Pids
    BY DEF SlotsInv, TypeOK
  <2> QED
    BY <2>1 DEF SlotsInv, Kin
<1>2. Apart'
  BY DEF SlotsInv, Apart
<1>3. Counting'
  BY DEF SlotsInv, Counting, ProcList
<1> QED
  BY <1>1, <1>2, <1>3 DEF SlotsInv

\* startProcesses sets out at the head of procList.
LEMMA WriteSlots ==
  ASSUME SlotsInv, TypeOK', workerProcesses' = workerProcesses, NEW p \in Pids, WritePid(p)
  PROVE  SlotsInv'
<1>1. /\ at[p] = "write" /\ at' = [at EXCEPT ![p] = "fork"] /\ parent' = parent
      /\ left' = [left EXCEPT ![p] = Len(ProcList)]
      /\ slot' = [slot EXCEPT ![p] = IF ProcList = <<>> THEN 0 ELSE 1]
  BY DEF WritePid, Goto
<1>2. /\ at \in [Pids -> Stages] /\ slot \in [Pids -> Slots] /\ left \in [Pids -> Slots]
      /\ parent \in [Pids -> Pids \cup {NoPid}]
      /\ Len(ProcList) \in Nat /\ (ProcList # <<>> => Len(ProcList) >= 1)
  BY ListLength DEF SlotsInv, TypeOK
<1>3. /\ parent[p] = NoPid
      /\ \A q \in Pids : parent[q] # NoPid => parent[q] # p /\ q # p /\ parent[q] \in Pids
  BY <1>1, <1>2 DEF SlotsInv, Kin
<1>4. Kin'
  BY <1>1, <1>2, <1>3 DEF SlotsInv, Kin
<1>5. Apart'
  BY <1>1, <1>2, <1>3 DEF SlotsInv, Apart
<1>6. Counting'
  <2>1. ProcList = <<>> => Len(ProcList) = 0
    OBVIOUS
  <2>2. \/ Len(ProcList) = 0 /\ left'[p] = 0
        \/ slot'[p] >= 1 /\ left'[p] >= 1 /\ slot'[p] + left'[p] = Len(ProcList) + 1
    BY <1>1, <1>2, <2>1
  <2> QED
    BY <1>1, <1>2, <2>2 DEF SlotsInv, Counting, ProcList
<1> QED
  BY <1>4, <1>5, <1>6 DEF SlotsInv

\* What one turn of the fork loop does.
LEMMA ForkEffect ==
  ASSUME SlotsInv, NEW p \in Pids, NEW q \in Pids, Fork(p, q)
  PROVE  /\ p # q /\ at' = [at EXCEPT ![q] = "child"] /\ at[p] = "fork" /\ at[q] = "none"
         /\ slot[p] \in Nat /\ left[p] \in Nat /\ left[p] > 1 /\ slot[p] >= 1
         /\ \A x \in Pids : /\ parent'[x] = IF x = q THEN p ELSE parent[x]
                            /\ slot'[x] = IF x = q THEN slot[p]
                                          ELSE IF x = p THEN slot[p] + 1 ELSE slot[x]
                            /\ left'[x] = IF x = p THEN left[p] - 1 ELSE left[x]
         /\ parent[p] = NoPid /\ parent[q] = NoPid
         /\ \A x \in Pids : parent[x] # NoPid => parent[x] \in Pids /\ parent[x] # q
<1>1. /\ at[p] = "fork" /\ left[p] > 1 /\ at[q] = "none"
      /\ at' = [at EXCEPT ![q] = "child"]
      /\ parent' = [parent EXCEPT ![q] = p]
      /\ slot' = [slot EXCEPT ![q] = slot[p], ![p] = Following(slot[p])]
      /\ left' = [left EXCEPT ![p] = left[p] - 1]
  BY DEF Fork
<1>2. /\ slot \in [Pids -> Slots] /\ left \in [Pids -> Slots]
      /\ parent \in [Pids -> Pids \cup {NoPid}]
      /\ Len(ProcList) \in Nat
  BY ListLength DEF SlotsInv, TypeOK
<1>3. slot[p] \in Nat /\ left[p] \in Nat
  BY <1>2 DEF Slots
<1>4. slot[p] >= 1 /\ slot[p] + left[p] = Len(ProcList) + 1
  BY <1>1, <1>2, <1>3 DEF SlotsInv, Counting
<1>5. Following(slot[p]) = slot[p] + 1
  BY <1>1, <1>2, <1>3, <1>4 DEF Following
<1>6. /\ parent[p] = NoPid /\ parent[q] = NoPid
      /\ \A x \in Pids : parent[x] # NoPid => parent[x] \in Pids /\ parent[x] # q
  BY <1>1, <1>2 DEF SlotsInv, Kin
<1>7. p # q
  BY <1>1
<1> QED
  BY <1>1, <1>2, <1>3, <1>4, <1>5, <1>6, <1>7

LEMMA ForkSlots ==
  ASSUME SlotsInv, TypeOK', workerProcesses' = workerProcesses,
         NEW p \in Pids, NEW q \in Pids, Fork(p, q)
  PROVE  SlotsInv'
<1>1. /\ p # q /\ at' = [at EXCEPT ![q] = "child"] /\ at[p] = "fork" /\ at[q] = "none"
      /\ slot[p] \in Nat /\ left[p] \in Nat /\ left[p] > 1 /\ slot[p] >= 1
      /\ \A x \in Pids : /\ parent'[x] = IF x = q THEN p ELSE parent[x]
                         /\ slot'[x] = IF x = q THEN slot[p]
                                       ELSE IF x = p THEN slot[p] + 1 ELSE slot[x]
                         /\ left'[x] = IF x = p THEN left[p] - 1 ELSE left[x]
      /\ parent[p] = NoPid /\ parent[q] = NoPid
      /\ \A x \in Pids : parent[x] # NoPid => parent[x] \in Pids /\ parent[x] # q
  BY ForkEffect
<1>2. /\ at \in [Pids -> Stages] /\ Len(ProcList) \in Nat
      /\ \A x \in Pids : slot[x] \in Nat
  BY ListLength DEF SlotsInv, TypeOK, Slots
<1>3. \A x \in Pids : parent[x] = p => slot[x] < slot[p]
  BY NoPidIsNone DEF SlotsInv, Kin
<1>4. Kin'
  <2> SUFFICES ASSUME NEW x \in Pids, parent'[x] # NoPid
               PROVE  /\ at'[x] \in {"child", "serve", "zombie"}
                      /\ at'[parent'[x]] \in {"fork", "serve"}
                      /\ slot'[x] >= 1 /\ slot'[x] < slot'[parent'[x]]
    BY DEF Kin
  <2>1. CASE x = q
    BY <1>1, <1>2, <2>1
  <2>2. CASE x # q
    <3>1. /\ parent'[x] = parent[x] /\ parent[x] # NoPid /\ parent[x] \in Pids
          /\ parent[x] # q /\ x # p
      BY <1>1, <2>2
    <3>2. /\ at[x] \in {"child", "serve", "zombie"} /\ at[parent[x]] \in {"fork", "serve"}
          /\ slot[x] >= 1 /\ slot[x] < slot[parent[x]]
      BY <3>1 DEF SlotsInv, Kin
    <3> QED
      BY <1>1, <1>2, <2>2, <3>1, <3>2
  <2> QED
    BY <2>1, <2>2
<1>5. Apart'
  <2> SUFFICES ASSUME NEW x \in Pids, NEW y \in Pids, parent'[x] # NoPid,
                      parent'[y] = parent'[x], slot'[y] = slot'[x]
               PROVE  y = x
    BY DEF Apart
  <2>1. x # p /\ y # p
    BY <1>1
  <2>2. CASE x = q \/ y = q
    <3>1. \A z \in Pids \ {p, q} : parent'[z] = p => slot'[z] < slot[p]
      BY <1>1, <1>3
    <3> QED
      BY <1>1, <2>1, <2>2, <3>1
  <2>3. CASE x # q /\ y # q
    BY <1>1, <2>1, <2>3 DEF SlotsInv, Apart
  <2> QED
    BY <2>2, <2>3
<1>6. Counting'
  <2> SUFFICES ASSUME NEW x \in Pids, at'[x] = "fork"
               PROVE  \/ Len(ProcList) = 0 /\ left'[x] = 0
                      \/ /\ slot'[x] >= 1 /\ left'[x] >= 1
                         /\ slot'[x] + left'[x] = Len(ProcList) + 1
    BY DEF Counting, ProcList
  <2>1. x # q /\ at[x] = "fork"
    BY <1>1, <1>2
  <2>2. \/ Len(ProcList) = 0 /\ left[x] = 0
        \/ slot[x] >= 1 /\ left[x] >= 1 /\ slot[x] + left[x] = Len(ProcList) + 1
    BY <2>1 DEF SlotsInv, Counting
  <2>3. CASE x = p
    <3>1. slot'[p] = slot[p] + 1 /\ left'[p] = left[p] - 1
      BY <1>1
    <3> QED
      BY <1>1, <1>2, <2>2, <2>3, <3>1
  <2>4. CASE x # p
    <3>1. slot'[x] = slot[x] /\ left'[x] = left[x]
      BY <1>1, <2>1, <2>4
    <3> QED
      BY <2>2, <3>1
  <2> QED
    BY <2>3, <2>4
<1> QED
  BY <1>4, <1>5, <1>6 DEF SlotsInv

LEMMA SlotsStep == SlotsInv /\ [Next]_vars => SlotsInv'
<1> SUFFICES ASSUME SlotsInv, [Next]_vars PROVE SlotsInv'
  OBVIOUS
<1>1. TypeOK' /\ workerProcesses' = workerProcesses /\ at \in [Pids -> Stages]
  BY TypeStep DEF SlotsInv, Next, PidsUsedUp, vars, TypeOK
<1>2. CASE UNCHANGED vars
  BY <1>1, <1>2, MoveSlots DEF vars, local
<1>3. CASE Touch
  BY <1>1, <1>3, MoveSlots DEF Touch, local
<1>4. ASSUME NEW p \in Pids, NEW c \in {"start", "stop"}, Run(p, c) PROVE SlotsInv'
  BY <1>1, <1>4, MoveSlots DEF Run, Goto
<1>5. ASSUME NEW p \in Pids, CheckConfig(p) PROVE SlotsInv'
  BY <1>1, <1>5, MoveSlots DEF CheckConfig, Goto, local
<1>6. ASSUME NEW p \in Pids, OpenPidFile(p) PROVE SlotsInv'
  BY <1>1, <1>6, MoveSlots DEF OpenPidFile, Goto, local
<1>7. ASSUME NEW p \in Pids, ParentServes(p) \/ Arm(p) PROVE SlotsInv'
  BY <1>1, <1>7, MoveSlots DEF ParentServes, Arm, Goto, local
<1>8. ASSUME NEW p \in Pids, NEW q \in Pids, Daemonize(p, q) PROVE SlotsInv'
  BY <1>1, <1>8, MoveSlots DEF Daemonize, local
<1>9. ASSUME NEW p \in Pids, ReadPid(p) PROVE SlotsInv'
  BY <1>1, <1>9, MoveSlots DEF ReadPid, Goto
<1>10. ASSUME NEW p \in Pids,
              \/ PidFileMissing(p) \/ DaemonizeFails(p) \/ ForkFails(p)
              \/ ForkFromNothing(p) \/ ReadNothing(p) \/ Unlink(p)
              \/ ArmFails(p) \/ ServerEnds(p)
       PROVE  SlotsInv'
  <2>1. End({p}, at)
    BY <1>10 DEF PidFileMissing, DaemonizeFails, ForkFails, ForkFromNothing, ReadNothing,
                 Unlink, ArmFails, ServerEnds
  <2> QED
    BY <1>1, <2>1, EndSlots
<1>11. ASSUME NEW p \in Pids, Kill(p) PROVE SlotsInv'
  <2>1. at[p] = "kill" /\ End({target[p]}, [at EXCEPT ![p] = "unlink"])
    BY <1>11 DEF Kill
  <2>2. \A x \in Pids : \/ [at EXCEPT ![p] = "unlink"][x] = at[x]
                        \/ at[x] = "kill" /\ [at EXCEPT ![p] = "unlink"][x] = "unlink"
    BY <1>1, <2>1
  <2> QED
    BY <1>1, <2>1, <2>2, EndSlots
<1> QED
  BY <1>1, <1>2, <1>3, <1>4, <1>5, <1>6, <1>7, <1>8, <1>9, <1>10, <1>11, WriteSlots,
     ForkSlots
     DEF Next, Admin, Startup, SendSignal, PidsUsedUp

LEMMA SlotsInit == Init => SlotsInv
  BY TypeInit DEF Init, SlotsInv, Kin, Apart, Counting

LEMMA FamilyApart == SlotsInv => SlotsApart
<1> SUFFICES ASSUME SlotsInv, NEW p \in Pids,
                    NEW q \in Family(p), NEW r \in Family(p), q # r
             PROVE  slot[q] # slot[r]
  BY DEF SlotsApart
<1>1. /\ q = p \/ (q \in Pids /\ parent[q] = p)
      /\ r = p \/ (r \in Pids /\ parent[r] = p)
  BY DEF Family
<1>2. \A x \in Pids : parent[x] = p => slot[x] < slot[p]
  BY NoPidIsNone DEF SlotsInv, Kin
<1>3. \A x \in Pids : slot[x] \in Int
  BY ListLength DEF SlotsInv, TypeOK, Slots
<1> QED
  BY <1>1, <1>2, <1>3, NoPidIsNone DEF SlotsInv, Apart

\* No two processes of a family get the same element of procList, whichever
\* commands overlap, whether forks fail, and whoever has been killed and had
\* its pid used again (startProcesses).
THEOREM SlotsStayApart == Spec => []SlotsApart
  BY FamilyApart, SlotsInit, SlotsStep, PTL DEF Spec

-----------------------------------------------------------------------------
(* The pid file, with commands one after the other *)

\* Children and their elements stay, and nobody enters the loop or leaves it.
LEMMA CompleteKept ==
  ASSUME SeqInv, UNCHANGED <<workerProcesses, parent, slot>>, Daemons' \subseteq Daemons,
         \A x \in Pids : at'[x] = "fork" => at[x] = "fork"
  PROVE  Complete'
  BY DEF SeqInv, Complete, ProcList

\* A state without a daemon in which at most one stop command is at its end.
LEMMA ServiceDown ==
  ASSUME SlotsInv', Daemons' = {}, NEW p \in Pids,
         \A x \in Pids : /\ Busy(x)' => x = p /\ at'[x] = "unlink" /\ cmd'[x] = "stop"
                         /\ at'[x] = "none" => cmd'[x] = "start"
                         /\ at'[x] = "child" => cmd'[x] = "fork"
  PROVE  SeqInv'
<1>1. \A x \in Pids : /\ at'[x] # "check" /\ at'[x] \notin Starts
                      /\ at'[x] \in Stops => x = p /\ at'[x] = "unlink" /\ cmd'[x] = "stop"
  BY DEF Busy, Starts, Stops
<1>2. OneBusy'
  BY DEF OneBusy
<1>3. CmdFits'
  BY <1>1 DEF CmdFits
<1>4. StartsAlone'
  BY DEF StartsAlone
<1>5. FileFits' /\ Complete'
  BY <1>1 DEF FileFits, Complete, Starts, Stops
<1> QED
  BY <1>2, <1>3, <1>4, <1>5 DEF SeqInv

\* What is known while process p is under way: the others wait or serve.
LEMMA OthersIdle ==
  ASSUME SeqInv, NEW p \in Pids, Busy(p)
  PROVE  /\ at \in [Pids -> Stages] /\ cmd \in [Pids -> {"start", "stop", "fork"}]
         /\ \A x \in Pids \ {p} : at[x] \in {"none", "serve", "child", "zombie"}
         /\ \A x \in Pids : /\ at[x] = "none" => cmd[x] = "start"
                            /\ at[x] = "child" => cmd[x] = "fork"
<1>1. at \in [Pids -> Stages] /\ cmd \in [Pids -> {"start", "stop", "fork"}]
  BY DEF SeqInv, SlotsInv, TypeOK
<1>2. \A x \in Pids \ {p} : ~Busy(x)
  BY DEF SeqInv, OneBusy
<1>3. \A x \in Pids \ {p} : at[x] \in {"none", "serve", "child", "zombie"}
  BY <1>1, <1>2 DEF Busy, Starts, Stops, Stages
<1> QED
  BY <1>1, <1>3 DEF SeqInv, CmdFits

\* A command that ends when there is no daemon leaves the service down.
LEMMA CommandEnds ==
  ASSUME SeqInv, SlotsInv', NEW p \in Pids, Busy(p), Daemons = {}, End({p}, at)
  PROVE  SeqInv'
<1> DEFINE dead == EndWith({p})
           gone == {x \in dead : parent[x] \in dead \cup {NoPid}}
<1>0. p \in gone
  <2>1. parent[p] = NoPid
    BY DEF Busy, Starts, Stops, SeqInv, SlotsInv, Kin
  <2> QED
    BY <2>1 DEF EndWith
<1>1. /\ p \in gone /\ gone \subseteq dead
      /\ \A x \in Pids : /\ at'[x] = IF x \in gone THEN "none"
                                     ELSE IF x \in dead THEN "zombie" ELSE at[x]
                         /\ cmd'[x] = IF x \in gone THEN "start" ELSE cmd[x]
  BY <1>0 DEF End
<1> HIDE DEF dead, gone
<1>2. Daemons' = {}
  BY <1>1 DEF Daemons
<1>3. \A x \in Pids : /\ ~Busy(x)'
                      /\ at'[x] = "none" => cmd'[x] = "start"
                      /\ at'[x] = "child" => cmd'[x] = "fork"
  BY <1>1, OthersIdle DEF Busy, Starts, Stops
<1> QED
  BY <1>2, <1>3, ServiceDown

LEMMA KillSeq ==
  ASSUME SeqInv, SlotsInv', NEW p \in Pids, Kill(p)
  PROVE  SeqInv'
<1> DEFINE dead == EndWith({target[p]})
           gone == {x \in dead : parent[x] \in dead \cup {NoPid}}
<1>1. /\ at[p] = "kill" /\ target[p] \in dead /\ gone \subseteq dead
      /\ \A x \in Pids :
           /\ at'[x] = IF x \in gone THEN "none" ELSE IF x \in dead THEN "zombie"
                       ELSE [at EXCEPT ![p] = "unlink"][x]
           /\ cmd'[x] = IF x \in gone THEN "start" ELSE cmd[x]
  BY DEF Kill, End, EndWith
<1>p. p \in dead => p \in gone
  <2>1. parent[p] = NoPid
    BY <1>1 DEF SeqInv, SlotsInv, Kin
  <2> QED
    BY <2>1
<1> HIDE DEF dead, gone
<1>2. Busy(p)
  BY <1>1 DEF Busy, Stops
<1>3. /\ at \in [Pids -> Stages]
      /\ \A x \in Pids \ {p} : at[x] \in {"none", "serve", "child", "zombie"}
      /\ \A x \in Pids : /\ at[x] = "none" => cmd[x] = "start"
                         /\ at[x] = "child" => cmd[x] = "fork"
  BY <1>2, OthersIdle
<1>4. \A x \in Pids : at'[x] = IF x \in gone THEN "none" ELSE IF x \in dead THEN "zombie"
                               ELSE IF x = p THEN "unlink" ELSE at[x]
  BY <1>1, <1>3
<1>5. \A d \in Daemons : d \in dead
  BY <1>1 DEF SeqInv, FileFits
<1>6. Daemons' = {}
  BY <1>1, <1>4, <1>5 DEF Daemons
<1>7. cmd[p] = "stop"
  BY <1>1 DEF SeqInv, CmdFits, Stops
<1>8. \A x \in Pids : /\ Busy(x)' => x = p /\ at'[x] = "unlink" /\ cmd'[x] = "stop"
                      /\ at'[x] = "none" => cmd'[x] = "start"
                      /\ at'[x] = "child" => cmd'[x] = "fork"
  BY <1>1, <1>3, <1>4, <1>7 DEF Busy, Starts, Stops
<1> QED
  BY <1>6, <1>8, ServiceDown

\* A start command before the fork loop: q is the process that carries it on.
LEMMA StartMoves ==
  ASSUME SeqInv, SlotsInv', Daemons = {}, NEW p \in Pids, Busy(p), NEW q \in Pids,
         NEW to \in {"daemonize", "save", "write"}, pidFile' # Absent,
         to = "write" => q \in writers',
         at' = [at EXCEPT ![p] = "none", ![q] = to],
         cmd' = cmd, cmd[p] = "start", q = p \/ at[q] = "none"
  PROVE  SeqInv'
<1>1. /\ at \in [Pids -> Stages]
      /\ \A x \in Pids \ {p} : at[x] \in {"none", "serve", "child", "zombie"}
      /\ \A x \in Pids : /\ at[x] = "none" => cmd[x] = "start"
                         /\ at[x] = "child" => cmd[x] = "fork"
  BY OthersIdle
<1>2. \A x \in Pids : at'[x] = IF x = q THEN to ELSE IF x = p THEN "none" ELSE at[x]
  BY <1>1
<1>3. Daemons' = {}
  BY <1>2 DEF Daemons
<1>4. OneBusy'
  BY <1>1, <1>2 DEF OneBusy, Busy, Starts, Stops
<1>5. CmdFits'
  BY <1>1, <1>2 DEF CmdFits, Starts, Stops
<1>6. StartsAlone'
  BY <1>3 DEF StartsAlone
<1>7. FileFits'
  <2>1. \A x \in Pids : /\ at'[x] = "write" => x = q /\ to = "write"
                        /\ at'[x] \notin {"fork", "kill", "unlink"}
    BY <1>1, <1>2
  <2> QED
    BY <1>3, <2>1 DEF FileFits
<1>8. Complete'
  BY <1>1, <1>2, <1>3 DEF Complete
<1> QED
  BY <1>4, <1>5, <1>6, <1>7, <1>8 DEF SeqInv

\* A stop command before it kills: the daemon, if there is one, serves on.
LEMMA StopMoves ==
  ASSUME SeqInv, SlotsInv', NEW p \in Pids, Busy(p), cmd[p] = "stop",
         NEW to \in {"read", "kill"}, at' = [at EXCEPT ![p] = to], cmd' = cmd,
         to = "kill" => target'[p] = pidFile,
         UNCHANGED <<workerProcesses, pidFile, parent, slot>>
  PROVE  SeqInv'
<1>1. /\ at \in [Pids -> Stages]
      /\ \A x \in Pids \ {p} : at[x] \in {"none", "serve", "child", "zombie"}
      /\ \A x \in Pids : /\ at[x] = "none" => cmd[x] = "start"
                         /\ at[x] = "child" => cmd[x] = "fork"
  BY OthersIdle
<1>2. \A x \in Pids : at'[x] = IF x = p THEN to ELSE at[x]
  BY <1>1
<1>3. at[p] # "serve"
  BY DEF Busy, Starts, Stops
<1>4. Daemons' = Daemons
  BY <1>2, <1>3 DEF Daemons
<1>5. OneBusy'
  BY <1>1, <1>2 DEF OneBusy, Busy, Starts, Stops
<1>6. CmdFits'
  BY <1>1, <1>2 DEF CmdFits, Starts, Stops
<1>7. StartsAlone'
  <2>1. \A x \in Pids : at'[x] \notin Starts \cup {"check"}
    BY <1>1, <1>2 DEF Starts
  <2> QED
    BY <2>1 DEF StartsAlone
<1>8. FileFits'
  <2>1. \A x \in Pids : /\ at'[x] = "kill" => x = p /\ to = "kill"
                        /\ at'[x] \notin {"write", "fork", "unlink"} \cup Starts
    BY <1>1, <1>2 DEF Starts
  <2>2. \A x \in Daemons' : pidFile' = x
    BY <1>4 DEF SeqInv, FileFits
  <2> QED
    BY <2>1, <2>2 DEF FileFits
<1>9. Complete'
  BY <1>1, <1>2, <1>4, CompleteKept
<1> QED
  BY <1>5, <1>6, <1>7, <1>8, <1>9 DEF SeqInv

\* The administrator gives a command when the last one is done.
LEMMA RunSeq ==
  ASSUME Sequential, SeqInv, SlotsInv', workerProcesses' = workerProcesses,
         NEW p \in Pids, NEW c \in {"start", "stop"}, Run(p, c)
  PROVE  SeqInv'
<1>1. /\ at \in [Pids -> Stages] /\ cmd \in [Pids -> {"start", "stop", "fork"}]
      /\ \A x \in Pids : at[x] \in {"none", "serve", "zombie"}
      /\ c = "start" => Daemons = {}
      /\ at[p] = "none" /\ at' = [at EXCEPT ![p] = "check"]
      /\ cmd' = [cmd EXCEPT ![p] = c]
      /\ UNCHANGED <<pidFile, parent, slot>>
  BY DEF Run, Goto, Settled, Sequential, SeqInv, SlotsInv, TypeOK
<1>2. /\ at'[p] = "check" /\ cmd'[p] = c
      /\ \A x \in Pids \ {p} : at'[x] = at[x] /\ cmd'[x] = cmd[x]
  BY <1>1
<1>3. Daemons' = Daemons
  BY <1>1, <1>2 DEF Daemons
<1>4. \A x \in Pids : at'[x] \notin Starts \cup Stops \cup {"child", "fork"}
  BY <1>1, <1>2 DEF Starts, Stops
<1>5. OneBusy'
  BY <1>1, <1>2, <1>4 DEF OneBusy, Busy
<1>6. CmdFits'
  BY <1>1, <1>2, <1>4 DEF CmdFits, SeqInv
<1>7. StartsAlone'
  BY <1>1, <1>2, <1>3, <1>4 DEF StartsAlone
<1>8. FileFits'
  <2>1. \A x \in Daemons' : pidFile' = x
    BY <1>1, <1>3 DEF SeqInv, FileFits
  <2> QED
    BY <1>4, <2>1 DEF FileFits, Starts, Stops
<1>9. Complete'
  BY <1>1, <1>3, <1>4, CompleteKept
<1> QED
  BY <1>5, <1>6, <1>7, <1>8, <1>9 DEF SeqInv

LEMMA TouchSeq ==
  ASSUME SeqInv, SlotsInv', workerProcesses' = workerProcesses, Touch
  PROVE  SeqInv'
<1>1. /\ \A x \in Pids : at[x] \in {"none", "serve", "zombie"}
      /\ pidFile = Absent /\ UNCHANGED <<at, cmd, parent, slot>>
  BY DEF Touch, Settled, local
<1>2. Daemons = {} /\ Daemons' = {}
  <2>1. Daemons \subseteq Pids
    BY DEF Daemons
  <2> QED
    BY <1>1, <2>1, NoPidInMarks DEF SeqInv, FileFits, Daemons
<1>3. \A x \in Pids : /\ ~Busy(x)'
                      /\ at'[x] = "none" => cmd'[x] = "start"
                      /\ at'[x] = "child" => cmd'[x] = "fork"
  BY <1>1 DEF Busy, Starts, Stops, SeqInv, CmdFits
<1>4. CASE Pids = {}
  BY <1>1, <1>2, <1>4 DEF SeqInv, OneBusy, CmdFits, StartsAlone, FileFits, Complete
<1>5. CASE Pids # {}
  BY <1>2, <1>3, <1>5, ServiceDown
<1> QED
  BY <1>4, <1>5

\* The pid reaches the file that the daemon has just opened.
LEMMA WriteSeq ==
  ASSUME SeqInv, SlotsInv', workerProcesses' = workerProcesses, NEW p \in Pids, WritePid(p)
  PROVE  SeqInv'
<1>1. /\ at[p] = "write" /\ at' = [at EXCEPT ![p] = "fork"] /\ cmd' = cmd
      /\ pidFile' = (IF p \in writers THEN p ELSE pidFile)
      /\ slot' = [slot EXCEPT ![p] = IF ProcList = <<>> THEN 0 ELSE 1]
  BY DEF WritePid, Goto
<1>2. Busy(p)
  BY <1>1 DEF Busy, Starts
<1>3. /\ at \in [Pids -> Stages]
      /\ \A x \in Pids \ {p} : at[x] \in {"none", "serve", "child", "zombie"}
      /\ \A x \in Pids : /\ at[x] = "none" => cmd[x] = "start"
                         /\ at[x] = "child" => cmd[x] = "fork"
  BY <1>2, OthersIdle
<1>4. cmd[p] = "start" /\ pidFile' = p /\ Daemons = {}
  BY <1>1 DEF SeqInv, CmdFits, FileFits, StartsAlone, Starts
<1>5. \A x \in Pids : at'[x] = IF x = p THEN "fork" ELSE at[x]
  BY <1>1, <1>3
<1>6. Daemons' = {}
  BY <1>1, <1>4, <1>5 DEF Daemons
<1>7. OneBusy'
  BY <1>3, <1>5 DEF OneBusy, Busy, Starts, Stops
<1>8. CmdFits'
  BY <1>1, <1>3, <1>4, <1>5 DEF CmdFits, Starts, Stops
<1>9. StartsAlone'
  BY <1>6 DEF StartsAlone
<1>10. FileFits'
  <2>1. \A x \in Pids : /\ at'[x] = "fork" => x = p
                        /\ at'[x] \notin {"write", "kill", "unlink"}
    BY <1>3, <1>5
  <2> QED
    BY <1>4, <1>6, <2>1, NoPidInMarks DEF FileFits
<1>11. Complete'
  <2>1. \A x \in Pids : at'[x] = "fork" => x = p
    BY <1>3, <1>5
  <2>2. 1 .. slot'[p] - 1 = {}
    BY <1>1 DEF SeqInv, SlotsInv, TypeOK
  <2> QED
    BY <1>6, <2>1, <2>2 DEF Complete
<1> QED
  BY <1>7, <1>8, <1>9, <1>10, <1>11 DEF SeqInv

\* A turn of the fork loop gives the element it goes past to the new child.
LEMMA ForkSeq ==
  ASSUME SeqInv, SlotsInv', workerProcesses' = workerProcesses,
         NEW p \in Pids, NEW q \in Pids, Fork(p, q)
  PROVE  SeqInv'
<1>1. /\ p # q /\ at' = [at EXCEPT ![q] = "child"] /\ at[p] = "fork" /\ at[q] = "none"
      /\ slot[p] \in Nat /\ slot[p] >= 1
      /\ \A x \in Pids : /\ parent'[x] = IF x = q THEN p ELSE parent[x]
                         /\ slot'[x] = IF x = q THEN slot[p]
                                       ELSE IF x = p THEN slot[p] + 1 ELSE slot[x]
      /\ parent[q] = NoPid /\ parent[p] = NoPid
  BY ForkEffect DEF SeqInv
<1>2. cmd' = [cmd EXCEPT ![q] = "fork"] /\ UNCHANGED pidFile
  BY DEF Fork
<1>3. Busy(p)
  BY <1>1 DEF Busy, Starts
<1>4. /\ at \in [Pids -> Stages] /\ cmd \in [Pids -> {"start", "stop", "fork"}]
      /\ \A x \in Pids \ {p} : at[x] \in {"none", "serve", "child", "zombie"}
      /\ \A x \in Pids : /\ at[x] = "none" => cmd[x] = "start"
                         /\ at[x] = "child" => cmd[x] = "fork"
  BY <1>3, OthersIdle
<1>5. cmd[p] = "start" /\ pidFile = p /\ Daemons = {} /\ pidFile # Absent
  BY <1>1 DEF SeqInv, CmdFits, FileFits, StartsAlone, Starts
<1>6. \A x \in Pids : /\ at'[x] = IF x = q THEN "child" ELSE at[x]
                      /\ cmd'[x] = IF x = q THEN "fork" ELSE cmd[x]
  BY <1>1, <1>2, <1>4
<1>7. Daemons' = {}
  BY <1>5, <1>6 DEF Daemons
<1>8. OneBusy'
  BY <1>1, <1>4, <1>6 DEF OneBusy, Busy, Starts, Stops
<1>9. CmdFits'
  BY <1>1, <1>4, <1>5, <1>6 DEF CmdFits, Starts, Stops
<1>10. StartsAlone'
  BY <1>7 DEF StartsAlone
<1>11. FileFits'
  <2>1. \A x \in Pids : /\ at'[x] = "fork" => x = p
                        /\ at'[x] \notin {"write", "kill", "unlink"}
    BY <1>1, <1>4, <1>6
  <2> QED
    BY <1>2, <1>5, <1>7, <2>1 DEF FileFits
<1>12. Complete'
  <2>1. \A x \in Pids : at'[x] = "fork" => x = p
    BY <1>1, <1>4, <1>6
  <2>2. \A i \in 1 .. slot[p] - 1 : \E x \in Pids : parent[x] = p /\ slot[x] = i
    BY <1>1 DEF SeqInv, Complete
  <2>3. ASSUME NEW i \in 1 .. slot'[p] - 1
        PROVE  \E x \in Pids : parent'[x] = p /\ slot'[x] = i
    <3>1. slot'[p] = slot[p] + 1 /\ i \in Int /\ 1 <= i /\ i <= slot[p]
      BY <1>1
    <3>2. CASE i = slot[p]
      BY <1>1, <3>2
    <3>3. CASE i # slot[p]
      <4>1. i \in 1 .. slot[p] - 1
        BY <1>1, <3>1, <3>3
      <4>2. PICK x \in Pids : parent[x] = p /\ slot[x] = i
        BY <2>2, <4>1
      <4>3. x # q /\ x # p
        BY <1>1, <4>2, NoPidIsNone
      <4> QED
        BY <1>1, <4>2, <4>3
    <3> QED
      BY <3>2, <3>3
  <2> QED
    BY <1>7, <2>1, <2>3 DEF Complete
<1> QED
  BY <1>8, <1>9, <1>10, <1>11, <1>12 DEF SeqInv

\* The parent leaves the loop with the last element for itself.
LEMMA ParentSeq ==
  ASSUME SeqInv, SlotsInv', workerProcesses' = workerProcesses,
         NEW p \in Pids, ParentServes(p)
  PROVE  SeqInv'
<1>1. /\ at[p] = "fork" /\ left[p] = 1 /\ at' = [at EXCEPT ![p] = "serve"]
      /\ UNCHANGED <<pidFile, cmd, parent, slot>>
  BY DEF ParentServes, Goto, local
<1>2. Busy(p)
  BY <1>1 DEF Busy, Starts
<1>3. /\ at \in [Pids -> Stages]
      /\ \A x \in Pids \ {p} : at[x] \in {"none", "serve", "child", "zombie"}
      /\ \A x \in Pids : /\ at[x] = "none" => cmd[x] = "start"
                         /\ at[x] = "child" => cmd[x] = "fork"
  BY <1>2, OthersIdle
<1>4. cmd[p] = "start" /\ pidFile = p /\ Daemons = {}
  BY <1>1 DEF SeqInv, CmdFits, FileFits, StartsAlone, Starts
<1>5. \A x \in Pids : at'[x] = IF x = p THEN "serve" ELSE at[x]
  BY <1>1, <1>3
<1>6. Daemons' = {p}
  BY <1>1, <1>4, <1>5 DEF Daemons
<1>7. \A x \in Pids : at'[x] \in {"none", "serve", "child", "zombie"}
  BY <1>3, <1>5
<1>8. OneBusy' /\ StartsAlone'
  BY <1>7 DEF OneBusy, StartsAlone, Busy, Starts, Stops
<1>9. CmdFits'
  BY <1>1, <1>3, <1>4, <1>5, <1>7 DEF CmdFits, Starts, Stops
<1>10. FileFits'
  BY <1>1, <1>4, <1>6, <1>7 DEF FileFits, Starts
<1>11. Complete'
  <2>1. slot[p] = Len(ProcList) /\ slot[p] # 0
    <3>1. slot[p] \in Int /\ Len(ProcList) \in Nat
      BY ListLength DEF SeqInv, SlotsInv, TypeOK, Slots
    <3> QED
      BY <1>1, <3>1 DEF SeqInv, SlotsInv, Counting
  <2>2. \A i \in 1 .. slot[p] - 1 : \E x \in Pids : parent[x] = p /\ slot[x] = i
    BY <1>1 DEF SeqInv, Complete
  <2> QED
    BY <1>1, <1>6, <1>7, <2>1, <2>2 DEF Complete, ProcList
<1> QED
  BY <1>8, <1>9, <1>10, <1>11 DEF SeqInv

\* A child comes to serve; it is no daemon.
LEMMA ArmSeq ==
  ASSUME SeqInv, SlotsInv', workerProcesses' = workerProcesses, NEW p \in Pids, Arm(p)
  PROVE  SeqInv'
<1>1. /\ at[p] = "child" /\ at' = [at EXCEPT ![p] = "serve"]
      /\ UNCHANGED <<pidFile, writers, cmd, parent, slot, target>>
  BY DEF Arm, Goto
<1>2. at \in [Pids -> Stages] /\ cmd[p] = "fork"
  BY <1>1 DEF SeqInv, SlotsInv, TypeOK, CmdFits
<1>3. \A x \in Pids : at'[x] = IF x = p THEN "serve" ELSE at[x]
  BY <1>1, <1>2
<1>4. Daemons' = Daemons
  BY <1>1, <1>2, <1>3 DEF Daemons
<1>5. OneBusy'
  BY <1>1, <1>3 DEF SeqInv, OneBusy, Busy, Starts, Stops
<1>6. CmdFits'
  BY <1>1, <1>3 DEF SeqInv, CmdFits, Starts, Stops
<1>7. StartsAlone'
  BY <1>1, <1>3, <1>4 DEF SeqInv, StartsAlone, Starts
<1>8. FileFits'
  BY <1>1, <1>3, <1>4 DEF SeqInv, FileFits, Starts
<1>9. Complete'
  BY <1>1, <1>3, <1>4, CompleteKept
<1> QED
  BY <1>5, <1>6, <1>7, <1>8, <1>9 DEF SeqInv

\* A forked or serving process ends: nothing else that is known depends on it.
LEMMA ServerEndsSeq ==
  ASSUME SeqInv, SlotsInv', workerProcesses' = workerProcesses, NEW p \in Pids,
         at[p] \in {"child", "serve"}, End({p}, at), UNCHANGED <<pidFile, writers>>
  PROVE  SeqInv'
<1> DEFINE dead == EndWith({p})
           gone == {x \in dead : parent[x] \in dead \cup {NoPid}}
<1>1. \A x \in Pids :
        /\ at'[x] = IF x \in gone THEN "none" ELSE IF x \in dead THEN "zombie" ELSE at[x]
        /\ parent'[x] = IF x \in gone \/ parent[x] \in dead THEN NoPid ELSE parent[x]
        /\ slot'[x] = IF x \in gone THEN 0 ELSE slot[x]
        /\ target'[x] = IF x \in gone THEN NoPid ELSE target[x]
        /\ cmd'[x] = IF x \in gone THEN "start" ELSE cmd[x]
  BY DEF End
<1>2. \A x \in Pids : x \in dead => at[x] \in {"child", "serve", "zombie"}
  BY NoPidIsNone DEF EndWith, SeqInv, SlotsInv, Kin
<1>3. \A x, q \in Pids : parent[q] = x /\ x \notin dead => q \notin gone
  BY NoPidIsNone
<1>4. gone \subseteq dead
  OBVIOUS
<1> HIDE DEF dead, gone
<1>5. \A x \in Pids : at'[x] \notin {"none", "zombie"} =>
        x \notin dead /\ at'[x] = at[x] /\ cmd'[x] = cmd[x] /\ slot'[x] = slot[x]
        /\ target'[x] = target[x]
  BY <1>1, <1>4
<1>6. Daemons' \subseteq Daemons
  BY <1>5 DEF Daemons
<1>7. OneBusy'
  BY <1>5 DEF SeqInv, OneBusy, Busy, Starts, Stops
<1>8. CmdFits'
  <2> SUFFICES ASSUME NEW x \in Pids
               PROVE  /\ at'[x] \in Starts \cup {"none"} => cmd'[x] = "start"
                      /\ at'[x] \in Stops => cmd'[x] = "stop"
                      /\ at'[x] = "child" => cmd'[x] = "fork"
                      /\ at'[x] = "check" => cmd'[x] # "fork"
    BY DEF CmdFits
  <2>1. CASE x \in dead
    BY <1>1, <2>1 DEF Starts, Stops
  <2>2. CASE x \notin dead
    BY <1>1, <1>4, <2>2 DEF SeqInv, CmdFits
  <2> QED
    BY <2>1, <2>2
<1>9. StartsAlone'
  BY <1>5, <1>6 DEF SeqInv, StartsAlone, Starts
<1>10. FileFits'
  <2> SUFFICES ASSUME NEW x \in Pids
               PROVE  /\ at'[x] = "write" => x \in writers
                      /\ at'[x] = "fork" => pidFile = x
                      /\ at'[x] = "kill" => target'[x] = pidFile
                      /\ at'[x] = "unlink" => Daemons' = {}
                      /\ at'[x] \in Starts => pidFile # Absent
                      /\ x \in Daemons' => pidFile = x
    BY DEF FileFits, Daemons
  <2> QED
    BY <1>5, <1>6 DEF SeqInv, FileFits, Starts
<1>11. Complete'
  <2> SUFFICES ASSUME NEW x \in Pids, at'[x] = "fork" \/ x \in Daemons'
               PROVE  /\ \A i \in 1 .. slot'[x] - 1 :
                            \E q \in Pids : parent'[q] = x /\ slot'[q] = i
                      /\ x \in Daemons' => slot'[x] = Len(ProcList) /\ slot'[x] # 0
    BY DEF Complete, ProcList
  <2>1. at'[x] \notin {"none", "zombie"}
    BY DEF Daemons
  <2>2. x \notin dead /\ slot'[x] = slot[x] /\ (at[x] = "fork" \/ x \in Daemons)
        /\ (x \in Daemons' => x \in Daemons)
    BY <1>5, <1>6, <2>1
  <2>3. \A i \in 1 .. slot[x] - 1 : \E q \in Pids : parent[q] = x /\ slot[q] = i
    BY <2>2 DEF SeqInv, Complete
  <2>4. \A q \in Pids : parent[q] = x => parent'[q] = x /\ slot'[q] = slot[q]
    BY <1>1, <1>3, <2>2
  <2> QED
    BY <2>2, <2>3, <2>4 DEF SeqInv, Complete
<1> QED
  BY <1>7, <1>8, <1>9, <1>10, <1>11 DEF SeqInv

LEMMA SeqStep == ASSUME Sequential PROVE SeqInv /\ [Next]_vars => SeqInv'
<1> SUFFICES ASSUME SeqInv, [Next]_vars PROVE SeqInv'
  OBVIOUS
<1>1. SlotsInv' /\ workerProcesses' = workerProcesses /\ at \in [Pids -> Stages]
  BY SlotsStep DEF SeqInv, SlotsInv, Next, PidsUsedUp, vars, TypeOK
<1>2. CASE UNCHANGED vars
  BY <1>1, <1>2
     DEF vars, local, SeqInv, OneBusy, Busy, CmdFits, StartsAlone, FileFits, Complete,
         Daemons, ProcList
<1>3. ASSUME NEW p \in Pids, CheckConfig(p) PROVE SeqInv'
  <2>1. /\ at[p] = "check" /\ Busy(p) /\ pidFile # Absent /\ UNCHANGED <<pidFile, writers, local>>
        /\ at' = [at EXCEPT ![p] = IF cmd[p] = "start" THEN "daemonize" ELSE "read"]
    BY <1>3 DEF CheckConfig, Goto, Busy
  <2>2. CASE cmd[p] = "start"
    <3>1. Daemons = {}
      BY <2>1, <2>2 DEF SeqInv, StartsAlone
    <3>2. at' = [at EXCEPT ![p] = "none", ![p] = "daemonize"]
      BY <1>1, <2>1, <2>2
    <3> QED
      BY <1>1, <2>1, <2>2, <3>1, <3>2, StartMoves DEF local
  <2>3. CASE cmd[p] = "stop"
    BY <1>1, <2>1, <2>3, StopMoves DEF local
  <2>4. cmd[p] # "fork"
    BY <2>1 DEF SeqInv, CmdFits
  <2> QED
    BY <2>2, <2>3, <2>4 DEF SeqInv, SlotsInv, TypeOK
<1>4. ASSUME NEW p \in Pids, NEW q \in Pids, Daemonize(p, q) PROVE SeqInv'
  <2>1. /\ at[p] = "daemonize" /\ Busy(p) /\ (q = p \/ at[q] = "none")
        /\ at' = [at EXCEPT ![p] = "none", ![q] = "save"]
        /\ UNCHANGED <<pidFile, writers, local>>
    BY <1>4 DEF Daemonize, Busy, Starts
  <2>2. cmd[p] = "start" /\ Daemons = {} /\ pidFile # Absent
    BY <2>1 DEF SeqInv, CmdFits, StartsAlone, FileFits, Starts
  <2> QED
    BY <1>1, <2>1, <2>2, StartMoves DEF local
<1>5. ASSUME NEW p \in Pids, OpenPidFile(p) PROVE SeqInv'
  <2>1. /\ at[p] = "save" /\ Busy(p) /\ at' = [at EXCEPT ![p] = "write"]
        /\ pidFile' = Empty /\ p \in writers' /\ UNCHANGED local
    BY <1>5 DEF OpenPidFile, Goto, Busy, Starts
  <2>2. cmd[p] = "start" /\ Daemons = {}
    BY <2>1 DEF SeqInv, CmdFits, StartsAlone, Starts
  <2>3. at' = [at EXCEPT ![p] = "none", ![p] = "write"] /\ Empty # Absent
    BY <1>1, <2>1 DEF Empty, Absent
  <2> QED
    BY <1>1, <2>1, <2>2, <2>3, StartMoves DEF local
<1>6. ASSUME NEW p \in Pids, ReadPid(p) PROVE SeqInv'
  <2>1. /\ at[p] = "read" /\ Busy(p) /\ at' = [at EXCEPT ![p] = "kill"]
        /\ target' = [target EXCEPT ![p] = pidFile]
        /\ UNCHANGED <<pidFile, writers, cmd, parent, slot>>
    BY <1>6 DEF ReadPid, Goto, Busy, Stops
  <2>2. cmd[p] = "stop" /\ target'[p] = pidFile
    BY <2>1 DEF SeqInv, CmdFits, Stops, SlotsInv, TypeOK
  <2> QED
    BY <1>1, <2>1, <2>2, StopMoves
<1>7. ASSUME NEW p \in Pids, DaemonizeFails(p) \/ ForkFails(p) \/ ForkFromNothing(p)
      PROVE  SeqInv'
  <2>1. at[p] \in Starts /\ End({p}, at)
    BY <1>7 DEF DaemonizeFails, ForkFails, ForkFromNothing, Starts
  <2>2. Busy(p) /\ Daemons = {}
    BY <2>1 DEF Busy, SeqInv, CmdFits, StartsAlone
  <2> QED
    BY <1>1, <2>1, <2>2, CommandEnds
<1>8. ASSUME NEW p \in Pids, PidFileMissing(p) \/ ReadNothing(p) PROVE SeqInv'
  <2>1. at[p] \in {"check", "read"} /\ pidFile \in {Absent, Empty} /\ End({p}, at)
    BY <1>8 DEF PidFileMissing, ReadNothing
  <2>2. Busy(p)
    BY <2>1 DEF Busy, Stops
  <2>3. Daemons = {}
    <3>1. Daemons \subseteq Pids
      BY DEF Daemons
    <3> QED
      BY <2>1, <3>1, NoPidInMarks DEF SeqInv, FileFits
  <2> QED
    BY <1>1, <2>1, <2>2, <2>3, CommandEnds
<1>9. ASSUME NEW p \in Pids, Unlink(p) PROVE SeqInv'
  <2>1. at[p] = "unlink" /\ End({p}, at)
    BY <1>9 DEF Unlink
  <2>2. Busy(p) /\ Daemons = {}
    BY <2>1 DEF Busy, Stops, SeqInv, FileFits
  <2> QED
    BY <1>1, <2>1, <2>2, CommandEnds
<1>10. ASSUME NEW p \in Pids, ArmFails(p) \/ ServerEnds(p) PROVE SeqInv'
  BY <1>1, <1>10, ServerEndsSeq DEF ArmFails, ServerEnds
<1> QED
  BY <1>1, <1>2, <1>3, <1>4, <1>5, <1>6, <1>7, <1>8, <1>9, <1>10, RunSeq, TouchSeq, WriteSeq,
     ForkSeq, ParentSeq, ArmSeq, KillSeq
     DEF Next, Admin, Startup, SendSignal, PidsUsedUp

LEMMA SeqInit == Init => SeqInv
<1> SUFFICES ASSUME Init PROVE SeqInv
  OBVIOUS
<1>1. SlotsInv
  BY SlotsInit
<1>2. (\A p \in Pids : at[p] = "none" /\ cmd[p] = "start") /\ Daemons = {}
  BY DEF Init, Daemons
<1> QED
  BY <1>1, <1>2 DEF SeqInv, OneBusy, Busy, Starts, Stops, CmdFits, StartsAlone, FileFits,
                    Complete

\* With commands one after the other, whatever has failed before, the pid file
\* names the daemon that is up, a stop command kills that daemon, and without
\* the file no start gets past checkConfig.
THEOREM PidFileStaysTrue == ASSUME Sequential PROVE Spec => []PidFileTrue
<1>1. SeqInv => PidFileTrue
  <2> SUFFICES ASSUME SeqInv PROVE PidFileTrue
    OBVIOUS
  <2>1. \A p \in Daemons : pidFile = p
    BY DEF SeqInv, FileFits
  <2>2. \A p \in Pids : at[p] = "kill" /\ Daemons # {} => target[p] \in Daemons
    BY <2>1 DEF SeqInv, FileFits
  <2>3. pidFile = Absent =>
          \A p \in Pids : at[p] \notin {"daemonize", "save", "write", "fork"}
    BY DEF SeqInv, FileFits, Starts
  <2> QED
    BY <2>1, <2>2, <2>3 DEF PidFileTrue
<1> QED
  BY <1>1, SeqInit, SeqStep, PTL DEF Spec

\* Every element of procList was given to a process of the daemon's family,
\* which is that process's own or its child still, ended or not.
EveryElementGiven ==
  \A p \in Daemons : \A i \in 1 .. Len(ProcList) : \E q \in Family(p) : slot[q] = i

LEMMA FamilyComplete ==
  ASSUME SeqInv
  PROVE  EveryElementGiven
<1> SUFFICES ASSUME NEW p \in Daemons, NEW i \in 1 .. Len(ProcList)
             PROVE  \E q \in Family(p) : slot[q] = i
  BY DEF EveryElementGiven
<1>1. p \in Pids /\ slot[p] = Len(ProcList) /\ Len(ProcList) \in Nat
  BY ListLength DEF Daemons, SeqInv, SlotsInv, TypeOK, Complete
<1>2. CASE i = slot[p]
  BY <1>1, <1>2 DEF Family
<1>3. CASE i # slot[p]
  <2>1. i \in 1 .. slot[p] - 1
    BY <1>1, <1>3
  <2>2. PICK q \in Pids : parent[q] = p /\ slot[q] = i
    BY <1>1, <2>1 DEF SeqInv, Complete
  <2>3. at[q] \in {"child", "serve", "zombie"}
    BY <1>1, <2>2, NoPidIsNone DEF SeqInv, SlotsInv, Kin
  <2> QED
    BY <2>2, <2>3 DEF Family, Alive
<1> QED
  BY <1>2, <1>3

\* With commands one after the other, a daemon that has left the fork loop has
\* given every element of procList to a process of its family, by SlotsStayApart
\* to one: the fork loop of startProcesses neither skips nor repeats a port, also
\* when children end while it runs.  A process may have ended since; nobody takes
\* its element over.
THEOREM LoopIsComplete == ASSUME Sequential PROVE Spec => []EveryElementGiven
  BY FamilyComplete, SeqInit, SeqStep, PTL DEF Spec

\* A family is as large as procList: slot is a bijection between the processes
\* and the elements.
LEMMA FamilySlots ==
  ASSUME SeqInv, NEW p \in Daemons
  PROVE  /\ \A q \in Family(p) : slot[q] \in 1 .. Len(ProcList)
         /\ \A q, r \in Family(p) : slot[q] = slot[r] => q = r
         /\ \A i \in 1 .. Len(ProcList) : \E q \in Family(p) : slot[q] = i
<1>1. /\ p \in Pids /\ at[p] = "serve" /\ slot[p] # 0
      /\ slot \in [Pids -> 0..Len(ProcList)] /\ Len(ProcList) \in Nat
  BY ListLength DEF Daemons, SeqInv, SlotsInv, TypeOK, Slots, Complete
<1>2. \A q \in Family(p) : slot[q] \in 1 .. Len(ProcList)
  <2> TAKE q \in Family(p)
  <2>1. q = p \/ (q \in Pids /\ parent[q] = p)
    BY DEF Family
  <2>2. q # p => slot[q] >= 1
    BY <1>1, <2>1, NoPidIsNone DEF SeqInv, SlotsInv, Kin
  <2> QED
    BY <1>1, <2>1, <2>2
<1>3. \A q, r \in Family(p) : slot[q] = slot[r] => q = r
  BY <1>1, FamilyApart DEF SeqInv, SlotsApart
<1> QED
  BY <1>2, <1>3, FamilyComplete DEF EveryElementGiven

\* With commands one after the other, once a daemon has left the fork loop
\* worker_processes processes of its family have been given each port that some
\* server listens on, and no element of procList is handed out twice (addPort
\* and startProcesses).  All of them serve, or are about to, or have ended by
\* themselves: the theorem counts processes as they were forked, and those that
\* bind, prctl, accept() or a signal has ended are not replaced.
THEOREM PortsAreServed == ASSUME Sequential PROVE Spec => []PortsServed
<1>1. SeqInv => PortsServed
  <2> SUFFICES ASSUME SeqInv
               PROVE  PortsServed
    OBVIOUS
  <2> DEFINE all == FlattenSeq(PortLists)
  <2>1. SlotsApart
    BY FamilyApart DEF SeqInv
  <2>2. workerProcesses \in Nat
    BY WorkerCountsAreNat DEF SeqInv, SlotsInv, TypeOK
  <2>3. /\ all \in Seq(Ports) /\ ProcList \in Seq(Ports)
        /\ \A j \in 1..Len(all) : Cardinality(Copies(ProcList, all[j].portNum)) = workerProcesses
    BY <2>2, PortsAreListed, ProcListListed DEF ProcList, Listed
  <2> HIDE DEF all
  <2>4. ASSUME NEW p \in Daemons, NEW num
        PROVE  Cardinality({q \in Family(p) : ProcList[slot[q]].portNum = num})
                 = Cardinality(Copies(ProcList, num))
    <3> DEFINE S == {q \in Family(p) : ProcList[slot[q]].portNum = num}
               T == Copies(ProcList, num)
               who == [i \in T |-> CHOOSE q \in Family(p) : slot[q] = i]
    <3>1. /\ \A q \in Family(p) : slot[q] \in 1 .. Len(ProcList)
          /\ \A q, r \in Family(p) : slot[q] = slot[r] => q = r
          /\ \A i \in 1 .. Len(ProcList) : \E q \in Family(p) : slot[q] = i
      BY FamilySlots
    <3>2. \A i \in T : i \in 1 .. Len(ProcList) /\ ProcList[i].portNum = num
      BY DEF Copies
    <3>3. \A q \in S : slot[q] \in T /\ q \in Family(p)
      BY <3>1 DEF Copies
    <3> HIDE DEF T
    <3>4. \A i \in T : who[i] \in Family(p) /\ slot[who[i]] = i
      BY <3>1, <3>2
    <3>5. who \in [T -> S]
      BY <3>2, <3>4
    <3>6. \A i, j \in T : who[i] = who[j] => i = j
      BY <3>4
    <3>7. \A q \in S : \E i \in T : who[i] = q
      BY <3>1, <3>3, <3>4
    <3>8. IsFiniteSet(T)
      BY <2>3, CopiesFinite DEF T
    <3> HIDE DEF S, who
    <3>9. Cardinality(S) = Cardinality(T)
      BY <3>5, <3>6, <3>7, <3>8, SameSize
    <3> QED
      BY <3>9 DEF S, T
  <2>5. ASSUME NEW p \in Daemons, NEW q \in Family(p)
        PROVE  slot[q] # 0 /\ at[q] \in {"child", "serve", "zombie"}
    <3>1. slot[q] # 0
      BY FamilySlots
    <3>2. (q = p /\ at[q] = "serve") \/ (q \in Pids /\ parent[q] = p /\ p \in Pids)
      BY DEF Family, Daemons
    <3> QED
      BY <3>1, <3>2, NoPidIsNone DEF SeqInv, SlotsInv, Kin
  <2>6. ASSUME NEW p \in Daemons, NEW i \in DOMAIN all
        PROVE  Cardinality({q \in Family(p) : ProcList[slot[q]].portNum = all[i].portNum})
                 = workerProcesses
    BY <2>3, <2>4
  <2> QED
    BY <2>1, <2>5, <2>6 DEF PortsServed, all
<1> QED
  BY <1>1, SeqInit, SeqStep, PTL DEF Spec
=============================================================================
