----------------------------- MODULE Lifecycle -----------------------------
(***************************************************************************)
(* Starting and stopping the service: main, startProcesses and sendSignal  *)
(* of ogws.c, daemonize.c, and the pid-file check of parseConfig.c.        *)
(*                                                                         *)
(* A start command turns itself into a daemon, writes its pid file, forks  *)
(* one process per element of procList but the last, and takes the last    *)
(* one itself.  A stop command reads the pid file, kills that process and  *)
(* removes the file.  Commands are processes like the servers, and run at  *)
(* the same time as they do.  A serving process may end by itself.  Nobody *)
(* restarts it, and nobody waits for it: while its parent lives it stays a *)
(* zombie.  A pid is used again once its process is gone.                  *)
(***************************************************************************)
EXTENDS Integers, FiniteSets, SequencesExt

CONSTANTS Pids,          \* process ids
          NoPid,         \* no process
          PortLists,     \* the port lists of the servers, in server order
          WorkerCounts,  \* values of the worker_processes directive
          Cases          \* what the administrator and the system bring about

CaseKinds == {"overlap",     \* a command is given before the last one is done
              "forkFails",   \* fork() fails
              "serverEnds"}  \* a forked or serving process ends by itself

ASSUME NoPidIsNone == NoPid \notin Pids
ASSUME WorkerCountsAreNat == WorkerCounts \subseteq Nat
ASSUME CasesAreKinds == Cases \subseteq CaseKinds

Absent == "absent"   \* there is no pid file
Empty  == "empty"    \* as installed, or just opened for writing

Ports == UNION {Range(PortLists[k]) : k \in DOMAIN PortLists}

ASSUME PortListsAreLists == PortLists \in Seq(Seq(Ports))

ASSUME NoPidInMarks == Absent \notin Pids /\ Empty \notin Pids

VARIABLES
  workerProcesses,  \* as the configuration says
  pidFile,  \* what the pid file holds
  writers,  \* processes that have the present pid file open for writing
  at,       \* where process p is
  cmd,      \* how p came about: a start or stop command, or a fork
  parent,   \* parent[p], while that process lives
  armed,    \* p has asked to be signalled when its parent dies
  slot,     \* p's pointer into procList, 0 when past its end
  left,     \* p's pcount
  target    \* the pid a stop command has read

local == <<cmd, parent, armed, slot, left, target>>
vars == <<workerProcesses, pidFile, writers, at, local>>

Stages == {"none", "check", "daemonize", "save", "write", "fork", "child", "serve",
           "zombie", "read", "kill", "unlink"}

(* procList: worker_processes elements for each port, the first time a server
   that listens on it is met; new elements go to the front *)

\* mutant of UniquePort: every port counts as a new one
EveryPort(ps, port) == TRUE

UniquePort(ps, port) == \A i \in DOMAIN ps : ps[i].portNum # port.portNum

AddPort(n, port, ps) ==
  IF UniquePort(ps, port) THEN [i \in 1..n |-> port] \o ps ELSE ps

ProcListFor(n) ==
  FoldLeft(LAMBDA ps, port : AddPort(n, port, ps), <<>>, FlattenSeq(PortLists))

ProcList == ProcListFor(workerProcesses)

Slots == 0..Len(ProcList)

TypeOK ==
  /\ workerProcesses \in WorkerCounts
  /\ pidFile \in Pids \cup {Absent, Empty}
  /\ writers \subseteq Pids
  /\ at \in [Pids -> Stages]
  /\ cmd \in [Pids -> {"start", "stop", "fork"}]
  /\ parent \in [Pids -> Pids \cup {NoPid}]
  /\ armed \in [Pids -> BOOLEAN]
  /\ slot \in [Pids -> Slots]
  /\ left \in [Pids -> Slots]
  /\ target \in [Pids -> Pids \cup {NoPid}]

\* the install creates an empty pid file
Init ==
  /\ workerProcesses \in WorkerCounts
  /\ pidFile = Empty /\ writers = {}
  /\ at = [p \in Pids |-> "none"]
  /\ cmd = [p \in Pids |-> "start"]
  /\ parent = [p \in Pids |-> NoPid]
  /\ armed = [p \in Pids |-> FALSE]
  /\ slot = [p \in Pids |-> 0]
  /\ left = [p \in Pids |-> 0]
  /\ target = [p \in Pids |-> NoPid]

-----------------------------------------------------------------------------
Alive(p) == at[p] # "none"

\* The armed children of the processes in D get SIGTERM when those end, and
\* their zombies are cleared away
EndWith(D) ==
  D \cup {q \in Pids : parent[q] \in D /\ (armed[q] \/ at[q] = "zombie")}

\* The processes in D end and take their armed children along; their other
\* children are left without a parent.  One whose own parent goes on becomes
\* its zombie.  The survivors are at stages.
End(D, stages) ==
  LET dead == EndWith(D)
      gone == {p \in dead : parent[p] \in dead \cup {NoPid}}
  IN
  /\ at' = [p \in Pids |-> IF p \in gone THEN "none"
                          ELSE IF p \in dead THEN "zombie" ELSE stages[p]]
  /\ parent' = [p \in Pids |-> IF p \in gone \/ parent[p] \in dead THEN NoPid ELSE parent[p]]
  /\ armed' = [p \in Pids |-> armed[p] /\ p \notin dead]
  /\ slot' = [p \in Pids |-> IF p \in gone THEN 0 ELSE slot[p]]
  /\ left' = [p \in Pids |-> IF p \in gone THEN 0 ELSE left[p]]
  /\ target' = [p \in Pids |-> IF p \in gone THEN NoPid ELSE target[p]]
  /\ cmd' = [p \in Pids |-> IF p \in gone THEN "start" ELSE cmd[p]]

Goto(p, from, to) == at[p] = from /\ at' = [at EXCEPT ![p] = to]

\* Only daemons are left, and they are all serving or have ended
Settled == \A p \in Pids : at[p] \in {"none", "serve", "zombie"}

Daemons == {p \in Pids : at[p] = "serve" /\ cmd[p] = "start"}

(* The administrator *)

Run(p, c) ==
  /\ \/ "overlap" \in Cases
     \/ Settled /\ (c = "start" => Daemons = {})
  /\ Goto(p, "none", "check")
  /\ cmd' = [cmd EXCEPT ![p] = c]
  /\ UNCHANGED <<pidFile, writers, parent, armed, slot, left, target>>

\* "touch /etc/ogws/ogws.pid", as make install does
Touch ==
  /\ pidFile = Absent /\ Settled
  /\ pidFile' = Empty
  /\ UNCHANGED <<writers, at, local>>

(* main: parseConfig, with checkConfig's test of the pid file, comes first *)

CheckConfig(p) ==
  /\ pidFile # Absent
  /\ Goto(p, "check", IF cmd[p] = "start" THEN "daemonize" ELSE "read")
  /\ UNCHANGED <<pidFile, writers, local>>

PidFileMissing(p) ==
  /\ at[p] = "check" /\ pidFile = Absent
  /\ End({p}, at)
  /\ UNCHANGED <<pidFile, writers>>

(* daemonize *)

\* in the foreground q is p itself; else the two forks leave a new process
Daemonize(p, q) ==
  /\ at[p] = "daemonize"
  /\ q = p \/ at[q] = "none"
  /\ at' = [at EXCEPT ![p] = "none", ![q] = "save"]
  /\ UNCHANGED <<pidFile, writers, local>>

DaemonizeFails(p) ==
  /\ at[p] \in {"daemonize", "save"}
  /\ End({p}, at)
  /\ UNCHANGED <<pidFile, writers>>

\* fopen(pidFile, "w+") creates or truncates it
OpenPidFile(p) ==
  /\ Goto(p, "save", "write")
  /\ pidFile' = Empty
  /\ writers' = writers \cup {p}
  /\ UNCHANGED local

\* mutant of WritePid: the pid of the process before the last fork is written
WritePidEarly(p) ==
  /\ Goto(p, "write", "fork")
  /\ \E q \in Pids : at[q] = "none" /\ pidFile' = q
  /\ writers' = writers \ {p}
  /\ left' = [left EXCEPT ![p] = Len(ProcList)]
  /\ slot' = [slot EXCEPT ![p] = IF ProcList = <<>> THEN 0 ELSE 1]
  /\ UNCHANGED <<cmd, parent, armed, target>>

\* the pid reaches the file, unless that has been removed meanwhile; then
\* startProcesses counts the processes it needs
WritePid(p) ==
  /\ Goto(p, "write", "fork")
  /\ pidFile' = IF p \in writers THEN p ELSE pidFile
  /\ writers' = writers \ {p}
  /\ left' = [left EXCEPT ![p] = Len(ProcList)]
  /\ slot' = [slot EXCEPT ![p] = IF ProcList = <<>> THEN 0 ELSE 1]
  /\ UNCHANGED <<cmd, parent, armed, target>>

(* startProcesses *)

Following(i) == IF i = Len(ProcList) THEN 0 ELSE i + 1

\* mutant of Fork: the loop does not stop at the last element
ForkOn(p, q) ==
  /\ at[p] = "fork" /\ at[q] = "none"
  /\ at' = [at EXCEPT ![q] = "child"]
  /\ parent' = [parent EXCEPT ![q] = p]
  /\ cmd' = [cmd EXCEPT ![q] = "fork"]
  /\ slot' = [slot EXCEPT ![q] = slot[p], ![p] = Following(slot[p])]
  /\ left' = [left EXCEPT ![p] = @ - 1]
  /\ UNCHANGED <<pidFile, writers, armed, target>>

Fork(p, q) ==
  /\ at[p] = "fork" /\ left[p] > 1 /\ at[q] = "none"
  /\ at' = [at EXCEPT ![q] = "child"]
  /\ parent' = [parent EXCEPT ![q] = p]
  /\ cmd' = [cmd EXCEPT ![q] = "fork"]
  /\ slot' = [slot EXCEPT ![q] = slot[p], ![p] = Following(slot[p])]
  /\ left' = [left EXCEPT ![p] = @ - 1]
  /\ UNCHANGED <<pidFile, writers, armed, target>>

ForkFails(p) ==
  /\ "forkFails" \in Cases
  /\ at[p] = "fork" /\ left[p] > 1
  /\ End({p}, at)
  /\ UNCHANGED <<pidFile, writers>>

\* no element at all: pcount passes zero, and parent and child follow NULL
ForkFromNothing(p) ==
  /\ at[p] = "fork" /\ left[p] = 0
  /\ End({p}, at)
  /\ UNCHANGED <<pidFile, writers>>

\* the parent falls out of the loop and serves
ParentServes(p) ==
  /\ left[p] = 1
  /\ Goto(p, "fork", "serve")
  /\ UNCHANGED <<pidFile, writers, local>>

\* prctl(PR_SET_PDEATHSIG, SIGTERM); the child serves
Arm(p) ==
  /\ Goto(p, "child", "serve")
  /\ armed' = [armed EXCEPT ![p] = TRUE]
  /\ UNCHANGED <<pidFile, writers, cmd, parent, slot, left, target>>

\* the child cannot have itself signalled, and exits
ArmFails(p) ==
  /\ "serverEnds" \in Cases
  /\ at[p] = "child"
  /\ End({p}, at)
  /\ UNCHANGED <<pidFile, writers>>

\* The server function exits when it cannot bind and returns when accept()
\* fails, and SIGPIPE or a segmentation fault kills the process: it is gone,
\* with its armed children, and nobody restarts it
ServerEnds(p) ==
  /\ "serverEnds" \in Cases
  /\ at[p] = "serve"
  /\ End({p}, at)
  /\ UNCHANGED <<pidFile, writers>>

(* sendSignal *)

\* an empty file is removed, too
ReadNothing(p) ==
  /\ at[p] = "read" /\ pidFile \in {Absent, Empty}
  /\ End({p}, at)
  /\ pidFile' = Absent /\ writers' = {}

ReadPid(p) ==
  /\ pidFile \in Pids
  /\ Goto(p, "read", "kill")
  /\ target' = [target EXCEPT ![p] = pidFile]
  /\ UNCHANGED <<pidFile, writers, cmd, parent, armed, slot, left>>

\* SIGKILL or SIGINT, which nobody handles; a dead target is not noticed
Kill(p) ==
  /\ at[p] = "kill"
  /\ End({target[p]}, [at EXCEPT ![p] = "unlink"])
  /\ writers' = writers \ EndWith({target[p]})
  /\ UNCHANGED pidFile

Unlink(p) ==
  /\ at[p] = "unlink"
  /\ End({p}, at)
  /\ pidFile' = Absent /\ writers' = {}
-----------------------------------------------------------------------------
Admin == Touch \/ \E p \in Pids, c \in {"start", "stop"} : Run(p, c)

Startup(p) ==
  \/ CheckConfig(p) \/ PidFileMissing(p)
  \/ DaemonizeFails(p) \/ OpenPidFile(p) \/ WritePid(p)
  \/ ForkFails(p) \/ ForkFromNothing(p) \/ ParentServes(p)
  \/ Arm(p) \/ ArmFails(p) \/ ServerEnds(p)
  \/ \E q \in Pids : Daemonize(p, q) \/ Fork(p, q)

SendSignal(p) == ReadNothing(p) \/ ReadPid(p) \/ Kill(p) \/ Unlink(p)

\* the bound on processes is reached, which the system does not have
PidsUsedUp == (\A p \in Pids : Alive(p)) /\ UNCHANGED vars

Next == \/ /\ Admin \/ \E p \in Pids : Startup(p) \/ SendSignal(p)
           /\ UNCHANGED workerProcesses
        \/ PidsUsedUp

Spec == Init /\ [][Next]_vars

-----------------------------------------------------------------------------
(* Properties *)

\* The processes that p has forked for its ports, and itself
Family(p) == {p} \cup {q \in Pids : Alive(q) /\ parent[q] = p}

\* No two processes of a family are given the same element of procList, in
\* the middle of the fork loop or after it, whichever of them run first.
SlotsApart ==
  \A p \in Pids : at[p] \in {"fork", "serve"} =>
    \A q, r \in Family(p) : q # r => slot[q] # slot[r]

\* The elements of procList are handed out once each.  Once the parent has left
\* the fork loop, worker_processes processes of the family have been given each
\* port that some server listens on, and no process another port.  Every one of
\* them serves that port, or is about to, or has ended by itself: no other port
\* and no other command costs a port one of its processes.
PortsServed ==
  /\ SlotsApart
  /\ \A p \in Daemons :
       LET all == FlattenSeq(PortLists) IN
       /\ \A q \in Family(p) : slot[q] # 0 /\ at[q] \in {"child", "serve", "zombie"}
       /\ \A i \in DOMAIN all :
            Cardinality({q \in Family(p) : ProcList[slot[q]].portNum = all[i].portNum})
              = workerProcesses

\* "Link to the parent process so that killing the parent causes the whole
\* family to die" (ogws.c:148-149): a server process that was forked does not
\* go on without its parent.
NoOrphans ==
  \A p \in Pids : at[p] = "serve" /\ cmd[p] = "fork" => parent[p] # NoPid

\* With commands one after the other the pid file can be relied on.  A daemon
\* that is up is the one the file names, and the process that a stop command is
\* about to kill is that daemon: what earlier starts that failed have left in
\* the file, and the processes they have left behind, do not come in between.
\* checkConfig refuses to run without the file (parseConfig.c:107-110) and a
\* stop removes it: from then on, until the administrator creates the file, the
\* service is down and no start gets past its check.
PidFileTrue ==
  /\ \A p \in Daemons : pidFile = p
  /\ \A p \in Pids : at[p] = "kill" /\ Daemons # {} => target[p] \in Daemons
  /\ pidFile = Absent =>
       \A p \in Pids : at[p] \notin {"daemonize", "save", "write", "fork"}
=============================================================================
