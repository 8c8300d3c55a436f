----------------------------- MODULE TaskGraph -----------------------------
(***************************************************************************)
(* The task queue in the build with USE_MT (main.cpp:349-400): a graph of  *)
(* TBB nodes, made anew after every batch,                                 *)
(*                                                                         *)
(*   fgsrc -> fg_precfg -> fg_setup -> fg_postcfg -> fg_sflags             *)
(*            Accept()     Configure() Process()     epoll_ctl()           *)
(*                                                                         *)
(* that worker threads run while the main thread still makes the edges and *)
(* then waits.  The library is modelled as main.cpp uses it: a source node *)
(* is active from its construction and runs once it has a successor; each  *)
(* of its tasks takes one item, and a task that finds it reserved ends; a  *)
(* node of concurrency 1 holds further items back (in any order here); what*)
(* a node returns without having a successor is discarded.                 *)
(***************************************************************************)
EXTENDS Integers, Sequences

CONSTANTS
  Clients,
  Queues,       \* what a batch may leave in the task queue
  Interfaces,   \* ClientInterface objects
  Interface,    \* the one the configuration script returned for a client
  None

ASSUME QueuesAssumption ==
  Queues \subseteq {q \in Seq(Clients) :
                      \A i, j \in DOMAIN q : q[i] = q[j] => i = j}
ASSUME InterfaceAssumption == Interface \in [Clients -> Interfaces]
ASSUME NoneAssumption == None \notin Clients

VARIABLES
  taskq,     \* the queue
  edges,     \* calls of make_edge so far
  main,      \* the main thread: "wiring", "waiting", "returned"
  sources,   \* tasks of fgsrc that were spawned and have not ended
  reserved,  \* the client such a task has taken and not yet passed on
  node,      \* where each client is
  phase,     \* of its item in a node: "held", "spawned", "running"
  settings,  \* what a ClientInterface says: whose request, set up for whom
  answer,    \* history: the settings that Process() found
  early      \* history: passed on by fgsrc before the graph was complete

itemVars == <<node, phase>>
vars == <<taskq, edges, main, sources, reserved, itemVars, settings, answer, early>>

Nodes  == {"precfg", "setup", "postcfg", "sflags"}
Places == Nodes \cup {"absent", "queue", "source", "done", "lost"}
Phases == {"none", "held", "spawned", "running"}

\* Slip: fg_setup is constructed as unlimited.
Serial_NotSetup == {"sflags"}

\* The nodes with a concurrency of 1.
Serial == {"setup", "sflags"}

\* Slip: Process() comes before Configure().
Successor_Swapped(n) ==
  CASE n = "precfg" -> "postcfg" [] n = "postcfg" -> "setup" [] n = "setup" -> "sflags"

\* Where a node sends what it returns, and which edge, by number, that takes.
Successor(n) ==
  CASE n = "precfg" -> "setup" [] n = "setup" -> "postcfg" [] n = "postcfg" -> "sflags"
Edge(n) == CASE n = "precfg" -> 2 [] n = "setup" -> 3 [] n = "postcfg" -> 4

\* A task of node n exists for client c.
Task(c, n) == node[c] = n /\ phase[c] \in {"spawned", "running"}

Blank == [request |-> None, setup |-> None]

Init ==
  /\ taskq \in Queues
  /\ edges = 0 /\ main = "wiring"
  /\ sources = 0 /\ reserved = None
  /\ node = [c \in Clients |->
               IF \E i \in DOMAIN taskq : taskq[i] = c THEN "queue" ELSE "absent"]
  /\ phase = [c \in Clients |-> "none"]
  /\ settings = [i \in Interfaces |-> Blank]
  /\ answer = [c \in Clients |-> Blank]
  /\ early = {}

-----------------------------------------------------------------------------
(* The main thread.                                                        *)

\* Slip: fg_sflags gets an edge too.
AllEdges_Loop == 5

AllEdges == 4

\* make_edge(); the first one lets the active source node run.
MakeEdge ==
  /\ main = "wiring" /\ edges < AllEdges
  /\ edges' = edges + 1
  /\ sources' = IF edges = 0 THEN sources + 1 ELSE sources
  /\ UNCHANGED <<taskq, main, reserved, itemVars, settings, answer, early>>

\* fgsrc.activate() spawns a task once more.
Activate ==
  /\ main = "wiring" /\ edges = AllEdges
  /\ sources' = sources + 1
  /\ main' = "waiting"
  /\ UNCHANGED <<taskq, edges, reserved, itemVars, settings, answer, early>>

\* Slip: only the source node is waited for.
Idle_SourceOnly == sources = 0

\* No task is left.
Idle == sources = 0 /\ \A c \in Clients, n \in Nodes : ~Task(c, n)

\* fg.wait_for_all()
Return ==
  /\ main = "waiting" /\ Idle
  /\ main' = "returned"
  /\ UNCHANGED <<taskq, edges, sources, reserved, itemVars, settings, answer, early>>

-----------------------------------------------------------------------------
(* The source node.                                                        *)

\* A task takes the front of the queue.
Take ==
  /\ sources > 0 /\ reserved = None /\ taskq # << >>
  /\ reserved' = Head(taskq)
  /\ taskq' = Tail(taskq)
  /\ node' = [node EXCEPT ![Head(taskq)] = "source"]
  /\ UNCHANGED <<edges, main, sources, phase, settings, answer, early>>

\* A task ends that finds another item reserved, or the queue empty.
Expire ==
  /\ IF reserved = None THEN sources > 0 /\ taskq = << >> ELSE sources > 1
  /\ sources' = sources - 1
  /\ UNCHANGED <<taskq, edges, main, reserved, itemVars, settings, answer, early>>

\* It passes the client on; having it accepted spawns the next task.
PassOn ==
  /\ reserved # None
  /\ node' = [node EXCEPT ![reserved] = "precfg"]
  /\ phase' = [phase EXCEPT ![reserved] = "spawned"]
  /\ reserved' = None
  /\ early' = IF main = "wiring" THEN early \cup {reserved} ELSE early
  /\ UNCHANGED <<taskq, edges, main, sources, settings, answer>>

-----------------------------------------------------------------------------
(* The other nodes: a body begins, and ends with the result passed on.     *)

Begin(c) ==
  /\ phase[c] = "spawned"
  /\ phase' = [phase EXCEPT ![c] = "running"]
  /\ UNCHANGED <<taskq, edges, main, sources, reserved, node, settings, answer, early>>

\* What the body did to the settings of the client, and what Process() saw.
Body(c, n) ==
  LET i == Interface[c]
  IN /\ settings' = CASE n = "precfg" -> [settings EXCEPT ![i] =
                                            [request |-> c, setup |-> None]]
                      [] n = "setup" -> [settings EXCEPT ![i].setup = settings[i].request]
                      [] OTHER -> settings
     /\ answer' = IF n = "postcfg" THEN [answer EXCEPT ![c] = settings[i]] ELSE answer

\* Slip: nobody fetches what was held back.
Released_None(n, c) == {c}

\* The items node n may take up when c leaves it: c itself stands for none.
Released(n, c) ==
  LET waiting == {d \in Clients : node[d] = n /\ phase[d] = "held"}
  IN IF n \notin Serial \/ waiting = {} THEN {c} ELSE waiting

\* Where c goes from n: the successor, or nowhere without an edge.
Target(n) == IF n = "sflags" THEN "done"
             ELSE IF edges >= Edge(n) THEN Successor(n) ELSE "lost"

\* The phase in which an item comes to m.
Arrival(m) ==
  IF m \in {"done", "lost"} THEN "none"
  ELSE IF m \in Serial /\ \E d \in Clients : Task(d, m) THEN "held"
  ELSE "spawned"

End(c, n) ==
  /\ node[c] = n /\ phase[c] = "running"
  /\ Body(c, n)
  /\ node' = [node EXCEPT ![c] = Target(n)]
  /\ \E d \in Released(n, c) :
       phase' = [phase EXCEPT ![d] = "spawned", ![c] = Arrival(Target(n))]
  /\ UNCHANGED <<taskq, edges, main, sources, reserved, early>>

Next ==
  \/ MakeEdge \/ Activate \/ Return
  \/ Take \/ Expire \/ PassOn
  \/ \E c \in Clients : Begin(c) \/ \E n \in Nodes : End(c, n)

Spec == Init /\ [][Next]_vars

\* The main thread runs, and workers run what is spawned.
FairSpec ==
  /\ Spec
  /\ WF_vars(MakeEdge) /\ WF_vars(Activate) /\ WF_vars(Return)
  /\ WF_vars(Take) /\ WF_vars(Expire) /\ WF_vars(PassOn)
  /\ \A c \in Clients : WF_vars(Begin(c)) /\ WF_vars(\E n \in Nodes : End(c, n))

-----------------------------------------------------------------------------
(* Properties.                                                             *)

TypeOK ==
  /\ taskq \in Seq(Clients)
  /\ edges \in 0..4 /\ main \in {"wiring", "waiting", "returned"}
  /\ sources \in Nat /\ reserved \in Clients \cup {None}
  /\ node \in [Clients -> Places] /\ phase \in [Clients -> Phases]
  /\ settings \in [Interfaces -> [request : Clients \cup {None},
                                  setup : Clients \cup {None}]]
  /\ answer \in [Clients -> [request : Clients \cup {None},
                             setup : Clients \cup {None}]]
  /\ early \subseteq Clients

\* Configure() "is not thread-safe" (protocol.cpp:742), and fg_sflags uses the
\* one event1 of main(): no two bodies of such a node exist at a time.
SerialAlone ==
  \A c, d \in Clients : \A n \in {"setup", "sflags"} :
    Task(c, n) /\ Task(d, n) => c = d

\* A client is answered as its own request was set up, in spite of the requests
\* processed beside it, unless one of them uses the same ClientInterface.
OwnAnswer ==
  \A c \in Clients :
    node[c] \in {"sflags", "done"} =>
      \/ answer[c] = [request |-> c, setup |-> c]
      \/ \E d \in Clients \ {c} : Interface[d] = Interface[c] /\ node[d] # "absent"

\* The graph hands every client over once and returns when none is left in it;
\* it loses only clients taken before all its edges were made.
Fate(c) ==
  CASE node[c] = "absent" -> "absent"
    [] node[c] \in {"queue", "source"} -> "pending"
    [] node[c] \in Nodes -> IF c \in early THEN "early" ELSE "late"
    [] node[c] = "done" -> "finished"
    [] OTHER -> "dropped"

Round == CASE main = "wiring" -> "setup" [] main = "waiting" -> "running"
           [] OTHER -> "over"

O == INSTANCE Offload WITH fate <- [c \in Clients |-> Fate(c)], round <- Round

ImplementsOffload == O!Spec

\* The loop goes on: wait_for_all() returns, after every client taken late was
\* processed.
Returns ==
  <>(main = "returned" /\ \A c \in Clients :
       node[c] \in {"absent", "done"} \/ (node[c] = "lost" /\ c \in early))

=============================================================================
