------------------------------ MODULE Listing -------------------------------
(***************************************************************************)
(* showDirectoryListing.c: the page that lists a directory is put together *)
(* in `fragments`, a list that is global, while the TLS server answers     *)
(* every request in a thread of its own.                                   *)
(*                                                                         *)
(* A node of the list is a number; 0 is NULL.  A step reads or writes the  *)
(* list once, except that a walk along it is one step: what another thread *)
(* does during the walk it can as well do right after it.  Nodes are not   *)
(* used again, and a thread that follows a freed node ends the behaviour.  *)
(***************************************************************************)
EXTENDS Integers, SequencesExt

CONSTANTS Workers,     \* the threads of a TLS server; one for the event server
          MaxEntries,  \* bound on the entries of a directory
          MaxNodes     \* bound on the fragments that are ever allocated

ASSUME ListingBounds == MaxEntries \in Nat \ {0} /\ MaxNodes \in Nat

NULL == 0
Nodes == 1..MaxNodes

VARIABLES
  at,         \* at[w]: where worker w is
  died,       \* how the process has ended, if it has
  fragments,  \* head of the list
  next,       \* next[n]: the next field of node n
  mem,        \* mem[n]: what has become of node n
  page        \* page[w]: the local variables of showDirectoryListing

heap == <<fragments, next, mem>>

ListingStages == {"look", "first", "walk", "link", "fill", "count", "test", "take",
                  "advance", "send"}

\* left: directory entries to come; f, prev, nx: nodes the thread points to;
\* mine: the nodes it has made; counted: those in Content-Length, <<NULL>> if
\* that is garbage; body: those it has sent; alone: no other listing has been
\* under way since it began
NewPage == [left |-> 0, f |-> NULL, prev |-> NULL, nx |-> NULL, mine |-> <<>>,
            counted |-> <<>>, body |-> <<>>, alone |-> TRUE]

Pages == [left : 0..MaxEntries, f : Nodes \cup {NULL}, prev : Nodes \cup {NULL},
          nx : Nodes \cup {NULL}, mine : Seq(Nodes), counted : Seq(Nodes \cup {NULL}),
          body : Seq(Nodes), alone : BOOLEAN]

ListingTypeOK ==
  /\ fragments \in Nodes \cup {NULL}
  /\ next \in [Nodes -> Nodes \cup {NULL}]
  /\ mem \in [Nodes -> {"unused", "raw", "filled", "freed"}]
  /\ page \in [Workers -> Pages]

ListingInit ==
  /\ fragments = NULL
  /\ next = [n \in Nodes |-> NULL]
  /\ mem = [n \in Nodes |-> "unused"]
  /\ page = [w \in Workers |-> NewPage]

Listings == {w \in Workers : at[w] \in ListingStages}

-----------------------------------------------------------------------------
Goto(w, stage) == at' = [at EXCEPT ![w] = stage]
Local(w, p)    == page' = [page EXCEPT ![w] = p]

\* the process dies in what worker w does
Dies(w, how) ==
  /\ died' = [how |-> how, by |-> w]
  /\ UNCHANGED <<at, page, heap>>

\* the nodes from node n on
Chain(n) ==
  LET from[m \in 0..MaxNodes] == IF m = NULL THEN <<>> ELSE <<m>> \o from[next[m]]
  IN  from[n]

Touches(ns) == \E i \in DOMAIN ns : mem[ns[i]] = "freed"

\* opendir() has succeeded: there are n entries besides "."
BeginListing(w, n) ==
  /\ Goto(w, "look")
  /\ page' = [v \in Workers |->
                IF v = w THEN [NewPage EXCEPT !.left = n, !.alone = Listings = {}]
                ELSE IF v \in Listings THEN [page[v] EXCEPT !.alone = FALSE] ELSE page[v]]

(* addFragment *)

\* malloc, and the look at whether the list is empty
Look(w) ==
  /\ at[w] = "look"
  /\ \E n \in Nodes :
       /\ mem[n] = "unused" /\ \A m \in 1 .. n - 1 : mem[m] # "unused"
       /\ mem' = [mem EXCEPT ![n] = "raw"]
       /\ Local(w, [page[w] EXCEPT !.left = @ - 1, !.f = n, !.mine = Append(@, n)])
  /\ Goto(w, IF fragments = NULL THEN "first" ELSE "walk")
  /\ UNCHANGED <<died, fragments, next>>

LinkFirst(w) ==
  /\ at[w] = "first"
  /\ fragments' = page[w].f
  /\ Goto(w, "fill")
  /\ UNCHANGED <<died, next, mem, page>>

\* prev is not set if the list has become empty
Walk(w) ==
  /\ at[w] = "walk"
  /\ IF fragments = NULL \/ Touches(Chain(fragments))
     THEN Dies(w, "undefined")
     ELSE /\ Local(w, [page[w] EXCEPT !.prev = Last(Chain(fragments))])
          /\ Goto(w, "link")
          /\ UNCHANGED <<died, heap>>

Link(w) ==
  /\ at[w] = "link"
  /\ IF mem[page[w].prev] = "freed"
     THEN Dies(w, "undefined")
     ELSE /\ next' = [next EXCEPT ![page[w].prev] = page[w].f]
          /\ Goto(w, "fill")
          /\ UNCHANGED <<died, fragments, mem, page>>

\* len and fragment are set once the file has been looked at
Fill(w) ==
  /\ at[w] = "fill"
  /\ IF mem[page[w].f] = "freed"
     THEN Dies(w, "undefined")
     ELSE /\ mem' = [mem EXCEPT ![page[w].f] = "filled"]
          /\ Goto(w, IF page[w].left > 0 THEN "look" ELSE "count")
          /\ UNCHANGED <<died, fragments, next, page>>

(* the response *)

\* mutant of Count: the sum starts at the second fragment
CountRest(w) ==
  /\ at[w] = "count"
  /\ Local(w, [page[w] EXCEPT !.counted = Tail(Chain(fragments))])
  /\ Goto(w, "test")
  /\ UNCHANGED <<died, heap>>

\* the lengths are added up and the header is sent; SIGPIPE ends the process
\* if the client has hung up
Count(w) ==
  /\ at[w] = "count"
  /\ LET all == Chain(fragments)
     IN  IF Touches(all)
         THEN Dies(w, "undefined")
         ELSE \/ Dies(w, "signal")
              \/ /\ Local(w, [page[w] EXCEPT
                      !.counted = IF \E i \in DOMAIN all : mem[all[i]] = "raw"
                                  THEN <<NULL>> ELSE all])
                 /\ Goto(w, "test")
                 /\ UNCHANGED <<died, heap>>

\* mutant of Emptied: the loop stops at the last fragment
EmptiedButOne == fragments = NULL \/ next[fragments] = NULL

Emptied == fragments = NULL

\* while (fragments != NULL); when it is NULL the request is at its end
Test(w) ==
  /\ at[w] = "test" /\ fragments # NULL
  /\ Goto(w, "take")
  /\ UNCHANGED <<died, heap, page>>

\* f = fragments, and f->next is read
Take(w) ==
  /\ at[w] = "take"
  /\ IF fragments = NULL THEN Dies(w, "null")
     ELSE IF mem[fragments] = "freed" THEN Dies(w, "undefined")
     ELSE /\ Local(w, [page[w] EXCEPT !.f = fragments, !.nx = next[fragments]])
          /\ Goto(w, "advance")
          /\ UNCHANGED <<died, heap>>

Advance(w) ==
  /\ at[w] = "advance"
  /\ fragments' = page[w].nx
  /\ Goto(w, "send")
  /\ UNCHANGED <<died, next, mem, page>>

\* the fragment is sent, then it and its node are freed
SendFragment(w) ==
  /\ at[w] = "send"
  /\ IF mem[page[w].f] # "filled"
     THEN Dies(w, "undefined")
     ELSE \/ Dies(w, "signal")
          \/ /\ mem' = [mem EXCEPT ![page[w].f] = "freed"]
             /\ Local(w, [page[w] EXCEPT !.body = Append(@, page[w].f)])
             /\ Goto(w, "test")
             /\ UNCHANGED <<died, fragments, next>>

ListingStep(w) ==
  \/ Look(w) \/ LinkFirst(w) \/ Walk(w) \/ Link(w) \/ Fill(w) \/ Count(w)
  \/ Test(w) \/ Take(w) \/ Advance(w) \/ SendFragment(w)

-----------------------------------------------------------------------------
\* A listing that no other listing overlaps sends one line for each entry of
\* its own directory, in order, and its Content-Length is the sum of these.
Exact(w) == page[w].alone => page[w].body = page[w].mine /\ page[w].counted = page[w].mine
=============================================================================
