-------------------------- MODULE TaskGraphProofs --------------------------
(***************************************************************************)
(* Safety of the task graph, for any clients, any queue and any sharing of *)
(* ClientInterface objects.                                                *)
(***************************************************************************)
EXTENDS TaskGraph, SequenceTheorems, TLAPS

\* The source node is not forgotten while there is something to take.
Wired ==
  /\ main # "wiring" => edges = AllEdges
  /\ reserved # None => sources > 0
  /\ taskq # << >> /\ edges > 0 => sources > 0

\* Each client of the queue is in it once, and marked as being there.
Queued ==
  /\ \A i, j \in 1..Len(taskq) : taskq[i] = taskq[j] => i = j
  /\ \A i \in 1..Len(taskq) : node[taskq[i]] = "queue"
  /\ \A c \in Clients : node[c] = "queue" => \E i \in 1..Len(taskq) : taskq[i] = c
  /\ \A c \in Clients : node[c] = "source" <=> reserved = c

\* An item in a node has a task, or waits for one in a node of concurrency 1.
Working ==
  \A c \in Clients :
    node[c] \in Nodes =>
      /\ phase[c] # "none"
      /\ phase[c] = "held" => /\ node[c] \in Serial
                              /\ \E d \in Clients : Task(d, node[c])

\* Only a client passed on early can meet a node without a successor.
Losing ==
  \A c \in Clients :
    /\ c \in early => node[c] \in Nodes \cup {"done", "lost"}
    /\ node[c] \in Nodes /\ main = "wiring" => c \in early
    /\ node[c] = "lost" => c \in early

\* Nobody else in the graph has the ClientInterface of c.
Alone(c) ==
  \A d \in Clients : Interface[d] = Interface[c] /\ d # c => node[d] = "absent"

\* What the nodes have done for such a client so far.
Answering ==
  \A c \in Clients : Alone(c) =>
    /\ node[c] \in {"setup", "postcfg"} => settings[Interface[c]].request = c
    /\ node[c] = "postcfg" => settings[Interface[c]].setup = c
    /\ node[c] \in {"sflags", "done"} => answer[c] = [request |-> c, setup |-> c]

IInv ==
  TypeOK /\ SerialAlone /\ Wired /\ Queued /\ Working /\ Losing /\ Answering

-----------------------------------------------------------------------------
(* Initially.                                                              *)

(***************************************************************************)
(* Before the first edge nothing but the queue holds a client.             *)
(***************************************************************************)
LEMMA InitInvariant == Init => IInv
<1> SUFFICES ASSUME Init PROVE IInv OBVIOUS
<1>1. taskq \in Seq(Clients)
      /\ \A i, j \in 1..Len(taskq) : taskq[i] = taskq[j] => i = j
  BY QueuesAssumption, LenProperties DEF Init
<1>2. \A i \in 1..Len(taskq) : taskq[i] \in Clients
  BY <1>1, ElementOfSeq
<1>3. DOMAIN taskq = 1..Len(taskq)
  BY <1>1, LenProperties
<1>4. \A c \in Clients :
        /\ node[c] \in {"queue", "absent"}
        /\ node[c] = "queue" <=> \E i \in 1..Len(taskq) : taskq[i] = c
  BY <1>3 DEF Init
<1>5. TypeOK
  BY <1>1 DEF Init, TypeOK, Blank, Places, Phases
<1>6. SerialAlone
  BY <1>4 DEF SerialAlone, Task
<1>7. Wired
  BY DEF Init, Wired
<1>8. Queued
  BY <1>1, <1>2, <1>4, NoneAssumption DEF Init, Queued
<1>9. Working /\ Losing /\ Answering
  BY <1>4 DEF Init, Working, Losing, Answering, Nodes
<1> QED BY <1>5, <1>6, <1>7, <1>8, <1>9 DEF IInv

-----------------------------------------------------------------------------
(* The main thread.                                                        *)

(***************************************************************************)
(* make_edge(), activate() and wait_for_all() move no client.              *)
(***************************************************************************)
LEMMA MainInvariant ==
  ASSUME IInv, MakeEdge \/ Activate \/ Return
  PROVE  IInv'
<1>1. /\ UNCHANGED <<taskq, reserved, node, phase, settings, answer, early>>
      /\ edges' \in 0..4 /\ main' \in {"wiring", "waiting", "returned"}
      /\ sources' \in Nat /\ sources' >= sources /\ edges' >= edges
      /\ main' = "wiring" => main = "wiring"
      /\ main' # "wiring" => edges' = AllEdges
  BY DEF IInv, TypeOK, Wired, MakeEdge, Activate, Return, itemVars, AllEdges
<1>2. edges = 0 /\ edges' > 0 => sources' > 0
  BY DEF IInv, TypeOK, Wired, MakeEdge, Activate, Return, AllEdges
<1>3. TypeOK'
  BY <1>1 DEF IInv, TypeOK
<1>4. SerialAlone'
  BY <1>1 DEF IInv, SerialAlone, Task
<1>5. Wired'
  BY <1>1, <1>2 DEF IInv, TypeOK, Wired
<1>6. Queued'
  BY <1>1 DEF IInv, Queued
<1>7. Working'
  BY <1>1 DEF IInv, Working, Task
<1>8. Losing'
  BY <1>1 DEF IInv, Losing
<1>9. Answering'
  BY <1>1 DEF IInv, Answering, Alone
<1> QED BY <1>3, <1>4, <1>5, <1>6, <1>7, <1>8, <1>9 DEF IInv

-----------------------------------------------------------------------------
(* The source node.                                                        *)

(***************************************************************************)
(* Taking the front of the queue leaves a queue without it.                *)
(***************************************************************************)
LEMMA TakeInvariant == ASSUME IInv, Take PROVE IInv'
<1> DEFINE h == Head(taskq)
<1>1. /\ sources > 0 /\ reserved = None /\ taskq # << >> /\ taskq \in Seq(Clients)
      /\ reserved' = h /\ taskq' = Tail(taskq)
      /\ node' = [node EXCEPT ![h] = "source"]
      /\ UNCHANGED <<edges, main, sources, phase, settings, answer, early>>
  BY DEF IInv, TypeOK, Take
<1>2. /\ h \in Clients /\ h = taskq[1] /\ taskq' \in Seq(Clients)
      /\ Len(taskq) \in Nat \ {0} /\ Len(taskq') = Len(taskq) - 1
      /\ \A i \in 1..Len(taskq') : taskq'[i] = taskq[i + 1]
  BY <1>1, HeadTailProperties, EmptySeq, LenProperties
<1>3. node[h] = "queue"
  BY <1>2 DEF IInv, Queued
<1>4. /\ node'[h] = "source" /\ node' \in [Clients -> Places]
      /\ \A c \in Clients \ {h} : node'[c] = node[c]
  BY <1>1, <1>2 DEF IInv, TypeOK, Places
<1> HIDE DEF h
<1>5. TypeOK'
  BY <1>1, <1>2, <1>4 DEF IInv, TypeOK
<1>6. SerialAlone'
  BY <1>1, <1>2, <1>4 DEF IInv, SerialAlone, Task
<1>7. Wired'
  BY <1>1 DEF IInv, TypeOK, Wired
<1>8. Queued'
  <2>1. \A i, j \in 1..Len(taskq') : taskq'[i] = taskq'[j] => i = j
    BY <1>2 DEF IInv, Queued
  <2>2. ASSUME NEW i \in 1..Len(taskq') PROVE node'[taskq'[i]] = "queue"
    <3>1. i + 1 \in 1..Len(taskq) /\ 1 \in 1..Len(taskq) /\ i + 1 # 1
      BY <1>2
    <3>2. taskq'[i] = taskq[i + 1] /\ taskq[i + 1] # h /\ taskq[i + 1] \in Clients
      BY <1>1, <1>2, <3>1, ElementOfSeq DEF IInv, Queued
    <3> QED BY <1>4, <3>1, <3>2 DEF IInv, Queued
  <2>3. ASSUME NEW c \in Clients, node'[c] = "queue"
        PROVE  \E i \in 1..Len(taskq') : taskq'[i] = c
    <3>1. c # h /\ node[c] = "queue"
      BY <1>4, <2>3
    <3>2. PICK i \in 1..Len(taskq) : taskq[i] = c
      BY <3>1 DEF IInv, Queued
    <3>3. i - 1 \in 1..Len(taskq') /\ taskq'[i - 1] = taskq[(i - 1) + 1]
      BY <1>2, <3>1, <3>2
    <3> QED BY <3>2, <3>3
  <2>4. \A c \in Clients : node'[c] = "source" <=> reserved' = c
    BY <1>1, <1>2, <1>4, NoneAssumption DEF IInv, Queued
  <2> QED BY <2>1, <2>2, <2>3, <2>4 DEF Queued
<1>9. Working'
  BY <1>1, <1>2, <1>3, <1>4 DEF IInv, Working, Task, Nodes
<1>10. Losing'
  BY <1>1, <1>2, <1>3, <1>4 DEF IInv, Losing, Nodes
<1>11. Answering'
  BY <1>1, <1>2, <1>3, <1>4 DEF IInv, Answering, Alone
<1> QED BY <1>5, <1>6, <1>7, <1>8, <1>9, <1>10, <1>11 DEF IInv

(***************************************************************************)
(* A task of the source node ends only where another goes on, or where     *)
(* nothing is left.                                                        *)
(***************************************************************************)
LEMMA ExpireInvariant == ASSUME IInv, Expire PROVE IInv'
<1>1. /\ UNCHANGED <<taskq, edges, main, reserved, node, phase, settings, answer, early>>
      /\ sources' \in Nat
      /\ reserved # None => sources' > 0
      /\ reserved = None => taskq = << >>
  BY DEF IInv, TypeOK, Expire, itemVars
<1>2. TypeOK'
  BY <1>1 DEF IInv, TypeOK
<1>3. SerialAlone'
  BY <1>1 DEF IInv, SerialAlone, Task
<1>4. Wired'
  BY <1>1 DEF IInv, Wired
<1>5. Queued'
  BY <1>1 DEF IInv, Queued
<1>6. Working'
  BY <1>1 DEF IInv, Working, Task
<1>7. Losing' /\ Answering'
  BY <1>1 DEF IInv, Losing, Answering, Alone
<1> QED BY <1>2, <1>3, <1>4, <1>5, <1>6, <1>7 DEF IInv

(***************************************************************************)
(* The client passed on gets a task of its own in a node without limit.    *)
(***************************************************************************)
LEMMA PassOnInvariant == ASSUME IInv, PassOn PROVE IInv'
<1> DEFINE r == reserved
<1>1. /\ r \in Clients /\ node[r] = "source" /\ reserved' = None
      /\ node' = [node EXCEPT ![r] = "precfg"]
      /\ phase' = [phase EXCEPT ![r] = "spawned"]
      /\ early' = IF main = "wiring" THEN early \cup {r} ELSE early
      /\ UNCHANGED <<taskq, edges, main, sources, settings, answer>>
  BY DEF IInv, TypeOK, Queued, PassOn
<1>2. /\ node'[r] = "precfg" /\ node' \in [Clients -> Places]
      /\ phase'[r] = "spawned" /\ phase' \in [Clients -> Phases]
      /\ \A c \in Clients \ {r} : node'[c] = node[c] /\ phase'[c] = phase[c]
  BY <1>1 DEF IInv, TypeOK, Places, Nodes, Phases
<1>3. \A c \in Clients : c \in early' <=> c \in early \/ (main = "wiring" /\ c = r)
  BY <1>1
<1>4. TypeOK'
  BY <1>1, <1>2 DEF IInv, TypeOK
<1>5. SerialAlone'
  BY <1>1, <1>2 DEF IInv, SerialAlone, Task
<1>6. Wired'
  BY <1>1 DEF IInv, Wired
<1>7. Queued'
  <2>1. \A i \in 1..Len(taskq) : taskq[i] # r /\ taskq[i] \in Clients
    BY <1>1, ElementOfSeq DEF IInv, TypeOK, Queued
  <2> QED BY <1>1, <1>2, <2>1, NoneAssumption DEF IInv, Queued
<1>8. Working'
  BY <1>1, <1>2 DEF IInv, Working, Task, Nodes
<1>9. Losing'
  BY <1>1, <1>2, <1>3 DEF IInv, Losing, Nodes
<1>10. Answering'
  BY <1>1, <1>2 DEF IInv, Answering, Alone
<1> QED BY <1>4, <1>5, <1>6, <1>7, <1>8, <1>9, <1>10 DEF IInv

-----------------------------------------------------------------------------
(* The other nodes.                                                        *)

(***************************************************************************)
(* A body that begins keeps its item where it is.                          *)
(***************************************************************************)
LEMMA BeginInvariant == ASSUME IInv, NEW c \in Clients, Begin(c) PROVE IInv'
<1>1. /\ phase[c] = "spawned" /\ phase' = [phase EXCEPT ![c] = "running"]
      /\ UNCHANGED <<taskq, edges, main, sources, reserved, node, settings, answer, early>>
  BY DEF Begin
<1>2. /\ phase' \in [Clients -> Phases] /\ phase'[c] = "running"
      /\ \A d \in Clients \ {c} : phase'[d] = phase[d]
  BY <1>1 DEF IInv, TypeOK, Phases
<1>3. \A d \in Clients, n \in Nodes : Task(d, n)' <=> Task(d, n)
  BY <1>1, <1>2 DEF Task
<1>4. TypeOK'
  BY <1>1, <1>2 DEF IInv, TypeOK
<1>5. SerialAlone'
  BY <1>3 DEF IInv, SerialAlone, Nodes
<1>6. Wired'
  BY <1>1 DEF IInv, Wired
<1>7. Queued'
  BY <1>1 DEF IInv, Queued
<1>8. Working'
  BY <1>1, <1>2, <1>3 DEF IInv, Working
<1>9. Losing' /\ Answering'
  BY <1>1 DEF IInv, Losing, Answering, Alone
<1> QED BY <1>4, <1>5, <1>6, <1>7, <1>8, <1>9 DEF IInv

(***************************************************************************)
(* An item leaves a node for another one, or is done with, or lost.        *)
(***************************************************************************)
LEMMA TargetType ==
  ASSUME NEW n \in Nodes, edges \in 0..4
  PROVE  /\ Target(n) \in Nodes \cup {"done", "lost"} /\ Target(n) # n
         /\ Target(n) = "lost" => edges < AllEdges
         /\ Target(n) \notin {"precfg", "absent"}
         /\ Target(n) = "setup" => n = "precfg"
         /\ Target(n) = "postcfg" => n = "setup"
         /\ Target(n) = "sflags" => n = "postcfg"
         /\ Target(n) = "done" => n = "sflags"
<1>1. CASE n = "precfg" BY <1>1 DEF Target, Successor, Edge, AllEdges, Nodes
<1>2. CASE n = "setup" BY <1>2 DEF Target, Successor, Edge, AllEdges, Nodes
<1>3. CASE n = "postcfg" BY <1>3 DEF Target, Successor, Edge, AllEdges, Nodes
<1>4. CASE n = "sflags" BY <1>4 DEF Target, Successor, Edge, AllEdges, Nodes
<1> QED BY <1>1, <1>2, <1>3, <1>4 DEF Nodes

(***************************************************************************)
(* It is held back only where the node is taken.                           *)
(***************************************************************************)
LEMMA ArrivalType ==
  ASSUME NEW m \in Nodes \cup {"done", "lost"}
  PROVE  /\ Arrival(m) \in {"none", "held", "spawned"}
         /\ m \in Nodes => Arrival(m) # "none"
         /\ Arrival(m) = "held" => m \in Serial /\ \E d \in Clients : Task(d, m)
         /\ Arrival(m) = "spawned" =>
              m \notin Serial \/ \A d \in Clients : ~Task(d, m)
<1> QED BY DEF Arrival, Nodes

(***************************************************************************)
(* What a body writes is typed, and is written for its own client only.    *)
(***************************************************************************)
LEMMA BodyEffect ==
  ASSUME TypeOK, NEW c \in Clients, NEW n \in Nodes, Body(c, n)
  PROVE  /\ settings' \in [Interfaces -> [request : Clients \cup {None},
                                          setup : Clients \cup {None}]]
         /\ answer' \in [Clients -> [request : Clients \cup {None},
                                     setup : Clients \cup {None}]]
         /\ \A i \in Interfaces : i # Interface[c] => settings'[i] = settings[i]
         /\ \A d \in Clients : d # c => answer'[d] = answer[d]
         /\ n = "precfg" => settings'[Interface[c]].request = c
         /\ n = "setup" =>
              /\ settings'[Interface[c]].request = settings[Interface[c]].request
              /\ settings'[Interface[c]].setup = settings[Interface[c]].request
         /\ n = "postcfg" => answer'[c] = settings[Interface[c]]
         /\ n = "sflags" => UNCHANGED <<settings, answer>>
<1>1. Interface[c] \in Interfaces
  BY InterfaceAssumption
<1>2. CASE n = "precfg"
  <2>1. /\ settings' = [settings EXCEPT ![Interface[c]] = [request |-> c, setup |-> None]]
        /\ answer' = answer
    BY <1>2 DEF Body
  <2> QED BY <1>1, <1>2, <2>1 DEF TypeOK
<1>3. CASE n = "setup"
  <2>1. /\ settings' = [settings EXCEPT ![Interface[c]].setup = settings[Interface[c]].request]
        /\ answer' = answer
    BY <1>3 DEF Body
  <2> QED BY <1>1, <1>3, <2>1 DEF TypeOK
<1>4. CASE n = "postcfg"
  <2>1. settings' = settings /\ answer' = [answer EXCEPT ![c] = settings[Interface[c]]]
    BY <1>4 DEF Body
  <2> QED BY <1>1, <1>4, <2>1 DEF TypeOK
<1>5. CASE n = "sflags"
  <2>1. settings' = settings /\ answer' = answer
    BY <1>5 DEF Body
  <2> QED BY <1>5, <2>1 DEF TypeOK
<1> QED BY <1>2, <1>3, <1>4, <1>5 DEF Nodes

(***************************************************************************)
(* A body that ends hands its node to one that waits for it, and its item  *)
(* to the next node.                                                       *)
(***************************************************************************)
LEMMA EndInvariant ==
  ASSUME IInv, NEW c \in Clients, NEW n \in Nodes, End(c, n)
  PROVE  IInv'
<1> DEFINE t == Target(n)
           a == Arrival(t)
<1>1. PICK d \in Released(n, c) :
        phase' = [phase EXCEPT ![d] = "spawned", ![c] = a]
  BY DEF End
<1>2. /\ node[c] = n /\ phase[c] = "running" /\ Body(c, n)
      /\ node' = [node EXCEPT ![c] = t]
      /\ UNCHANGED <<taskq, edges, main, sources, reserved, early>>
  BY DEF End
<1>3. /\ t \in Nodes \cup {"done", "lost"} /\ t # n
      /\ t = "lost" => edges < AllEdges
  BY TargetType DEF IInv, TypeOK
<1>4. /\ a \in {"none", "held", "spawned"}
      /\ t \in Nodes => a # "none"
      /\ a = "held" => t \in Serial /\ \E e \in Clients : Task(e, t)
      /\ a = "spawned" => t \notin Serial \/ \A e \in Clients : ~Task(e, t)
  BY <1>3, ArrivalType
<1>5. /\ d \in Clients
      /\ d # c => node[d] = n
      /\ \A e \in Clients : n \in Serial /\ node[e] = n /\ phase[e] = "held" => d # c
  BY <1>1, <1>2 DEF Released
<1>6. /\ node' \in [Clients -> Places] /\ node'[c] = t
      /\ \A e \in Clients \ {c} : node'[e] = node[e]
  BY <1>2, <1>3 DEF IInv, TypeOK, Places
<1>7. /\ phase' \in [Clients -> Phases] /\ phase'[c] = a
      /\ d # c => phase'[d] = "spawned"
      /\ \A e \in Clients \ {c, d} : phase'[e] = phase[e]
  BY <1>1, <1>4, <1>5 DEF IInv, TypeOK, Phases
<1>8. Task(c, n)
  BY <1>2 DEF Task
<1> HIDE DEF t, a
<1>9. TypeOK'
  BY <1>2, <1>6, <1>7, BodyEffect DEF IInv, TypeOK
<1>10. SerialAlone'
  <2> SUFFICES ASSUME NEW x \in Clients, NEW y \in Clients, NEW m \in {"setup", "sflags"},
                      Task(x, m)', Task(y, m)'
               PROVE  x = y
    BY DEF SerialAlone
  <2>1. m \in Serial
    BY DEF Serial
  <2>2. ASSUME NEW z \in Clients, Task(z, m)'
        PROVE  (z # c /\ z # d => Task(z, m)) /\ (z = c => m = t /\ a = "spawned")
               /\ (z = d /\ d # c => m = n)
    BY <1>4, <1>5, <1>6, <1>7, <2>2 DEF Task
  <2>3. CASE x = c \/ y = c
    <3>1. m = t /\ \A e \in Clients : ~Task(e, m)
      BY <1>4, <2>1, <2>2, <2>3
    <3> QED BY <1>3, <2>2, <3>1
  <2>4. CASE x # c /\ y # c /\ m = n
    <3>1. \A e \in Clients : Task(e, n) => e = c
      BY <1>8, <2>4 DEF IInv, SerialAlone
    <3> QED BY <2>2, <2>4, <3>1
  <2>5. CASE x # c /\ y # c /\ m # n
    <3>1. Task(x, m) /\ Task(y, m)
      BY <2>2, <2>5
    <3> QED BY <3>1 DEF IInv, SerialAlone
  <2> QED BY <2>3, <2>4, <2>5
<1>11. Wired'
  BY <1>2 DEF IInv, Wired
<1>12. Queued'
  <2>1. \A i \in 1..Len(taskq) : taskq[i] # c /\ taskq[i] \in Clients
    BY <1>2, ElementOfSeq DEF IInv, TypeOK, Queued, Nodes
  <2>2. t \notin {"queue", "source"} /\ n \notin {"queue", "source"}
    BY <1>3 DEF Nodes
  <2> QED BY <1>2, <1>6, <2>1, <2>2 DEF IInv, Queued
<1>13. Working'
  <2>1. ASSUME NEW e \in Clients, NEW m \in Nodes, m # n, Task(e, m)
        PROVE  Task(e, m)'
    BY <1>2, <1>5, <1>6, <1>7, <2>1 DEF Task
  <2>2. ASSUME NEW m \in Nodes, m = t
        PROVE  a # "none" /\ (a = "held" => m \in Serial /\ \E e \in Clients : Task(e, m)')
    <3>1. m # n /\ a # "none"
      BY <1>3, <1>4, <2>2
    <3>2. a = "held" => m \in Serial /\ \E e \in Clients : Task(e, m)
      BY <1>4, <2>2
    <3> QED BY <2>1, <3>1, <3>2
  <2>3. ASSUME NEW x \in Clients \ {c}, NEW m \in Nodes, node[x] = m
        PROVE  /\ phase'[x] # "none"
               /\ phase'[x] = "held" => m \in Serial /\ \E e \in Clients : Task(e, m)'
    <3>1. phase'[x] # "none"
      BY <1>7, <2>3 DEF IInv, Working
    <3>2. ASSUME phase'[x] = "held"
          PROVE  m \in Serial /\ \E e \in Clients : Task(e, m)'
      <4>1. phase[x] = "held" /\ m \in Serial /\ \E e \in Clients : Task(e, m)
        BY <1>7, <2>3, <3>2 DEF IInv, Working
      <4>2. CASE m = n
        <5>1. d # c
          BY <1>5, <2>3, <4>1, <4>2
        <5>2. Task(d, m)'
          BY <1>5, <1>6, <1>7, <4>2, <5>1 DEF Task
        <5> QED BY <1>5, <4>1, <5>2
      <4>3. CASE m # n
        BY <2>1, <4>1, <4>3
      <4> QED BY <4>2, <4>3
    <3> QED BY <3>1, <3>2
  <2>4. ASSUME NEW x \in Clients, NEW m \in Nodes, node'[x] = m
        PROVE  /\ phase'[x] # "none"
               /\ phase'[x] = "held" => m \in Serial /\ \E e \in Clients : Task(e, m)'
    <3>1. CASE x = c BY <1>6, <1>7, <2>2, <2>4, <3>1
    <3>2. CASE x # c BY <1>6, <2>3, <2>4, <3>2
    <3> QED BY <3>1, <3>2
  <2> QED BY <2>4 DEF Working, Task
<1>14. Losing'
  <2>1. t = "lost" => main = "wiring" /\ c \in early
    BY <1>2, <1>3 DEF IInv, Wired, Losing, AllEdges
  <2> QED BY <1>2, <1>3, <1>6, <2>1 DEF IInv, Losing
<1>15. Answering'
  <2> SUFFICES ASSUME NEW x \in Clients, Alone(x)'
               PROVE  /\ node'[x] \in {"setup", "postcfg"} =>
                           settings'[Interface[x]].request = x
                      /\ node'[x] = "postcfg" => settings'[Interface[x]].setup = x
                      /\ node'[x] \in {"sflags", "done"} =>
                           answer'[x] = [request |-> x, setup |-> x]
    BY DEF Answering
  <2>1. t # "absent" /\ n # "absent"
    BY <1>3 DEF Nodes
  <2>2. Alone(x) /\ (x # c => Interface[x] # Interface[c])
    BY <1>2, <1>6, <2>1 DEF Alone
  <2>3. Interface[x] \in Interfaces
    BY InterfaceAssumption
  <2>4. CASE x # c
    <3>1. /\ node'[x] = node[x] /\ answer'[x] = answer[x]
          /\ settings'[Interface[x]] = settings[Interface[x]]
      BY <1>2, <1>6, <2>2, <2>3, <2>4, BodyEffect DEF IInv
    <3> QED BY <2>2, <3>1 DEF IInv, Answering
  <2>5. CASE x = c
    <3>1. settings[Interface[c]] \in [request : Clients \cup {None},
                                      setup : Clients \cup {None}]
      BY <2>3, <2>5 DEF IInv, TypeOK
    <3>2. CASE n = "precfg"
      <4>1. t \notin {"postcfg", "sflags", "done"}
        BY <3>2, TargetType DEF IInv, TypeOK, t
      <4> QED BY <1>2, <1>6, <2>5, <3>2, <4>1, BodyEffect DEF IInv
    <3>3. CASE n = "setup"
      <4>1. t \notin {"setup", "sflags", "done"}
        BY <3>3, TargetType DEF IInv, TypeOK, t
      <4>2. settings[Interface[c]].request = c
        BY <1>2, <2>2, <2>5, <3>3 DEF IInv, Answering
      <4> QED BY <1>2, <1>6, <2>5, <3>3, <4>1, <4>2, BodyEffect DEF IInv
    <3>4. CASE n = "postcfg"
      <4>1. t \notin {"setup", "postcfg", "done"}
        BY <3>4, TargetType DEF IInv, TypeOK, t
      <4>2. /\ settings[Interface[c]].request = c
            /\ settings[Interface[c]].setup = c
        BY <1>2, <2>2, <2>5, <3>4 DEF IInv, Answering
      <4>3. settings[Interface[c]] = [request |-> c, setup |-> c]
        BY <3>1, <4>2
      <4> QED BY <1>2, <1>6, <2>5, <3>4, <4>1, <4>3, BodyEffect DEF IInv
    <3>5. CASE n = "sflags"
      <4>1. t \notin {"setup", "postcfg", "sflags"}
        BY <3>5, TargetType DEF IInv, TypeOK, t
      <4>2. answer[c] = [request |-> c, setup |-> c]
        BY <1>2, <2>2, <2>5, <3>5 DEF IInv, Answering
      <4> QED BY <1>2, <1>6, <2>5, <3>5, <4>1, <4>2, BodyEffect DEF IInv
    <3> QED BY <3>2, <3>3, <3>4, <3>5 DEF Nodes
  <2> QED BY <2>4, <2>5
<1> QED BY <1>9, <1>10, <1>11, <1>12, <1>13, <1>14, <1>15 DEF IInv

-----------------------------------------------------------------------------
(* The results.                                                            *)

(***************************************************************************)
(* The invariant holds in every state of the graph's life.                 *)
(***************************************************************************)
THEOREM Invariant == Spec => []IInv
<1>1. IInv /\ [Next]_vars => IInv'
  <2> SUFFICES ASSUME IInv, [Next]_vars PROVE IInv' OBVIOUS
  <2>1. CASE MakeEdge \/ Activate \/ Return BY <2>1, MainInvariant
  <2>2. CASE Take BY <2>2, TakeInvariant
  <2>3. CASE Expire BY <2>3, ExpireInvariant
  <2>4. CASE PassOn BY <2>4, PassOnInvariant
  <2>5. ASSUME NEW c \in Clients, Begin(c) PROVE IInv'
    BY <2>5, BeginInvariant
  <2>6. ASSUME NEW c \in Clients, NEW n \in Nodes, End(c, n) PROVE IInv'
    BY <2>6, EndInvariant
  <2>7. CASE UNCHANGED vars
    BY <2>7 DEF vars, itemVars, IInv, TypeOK, SerialAlone, Wired, Queued, Working, Losing,
                Answering, Alone, Task
  <2> QED BY <2>1, <2>2, <2>3, <2>4, <2>5, <2>6, <2>7 DEF Next
<1> QED BY InitInvariant, <1>1, PTL DEF Spec

(***************************************************************************)
(* The variables of the graph keep their types.                            *)
(***************************************************************************)
THEOREM TypeCorrect == Spec => []TypeOK
<1>1. IInv => TypeOK BY DEF IInv
<1> QED BY Invariant, <1>1, PTL

(***************************************************************************)
(* fg_setup and fg_sflags never run two bodies at a time (main.cpp:365 and *)
(* 386), so that Configure() and the one event1 of main() are safe.        *)
(***************************************************************************)
THEOREM SerialNodesAlone == Spec => []SerialAlone
<1>1. IInv => SerialAlone BY DEF IInv
<1> QED BY Invariant, <1>1, PTL

(***************************************************************************)
(* Process() finds the client's own request, set up for it, unless another *)
(* client in the graph has the same ClientInterface (main.cpp:355-384).    *)
(***************************************************************************)
THEOREM OwnAnswers == Spec => []OwnAnswer
<1>1. IInv => OwnAnswer
  BY DEF IInv, Answering, Alone, OwnAnswer
<1> QED BY Invariant, <1>1, PTL

-----------------------------------------------------------------------------
(* The graph implements Offload.                                           *)

fates == [c \in Clients |-> Fate(c)]

(***************************************************************************)
(* A step that moves one client changes one fate.                          *)
(***************************************************************************)
LEMMA OneFate ==
  ASSUME NEW c \in Clients,
         \A d \in Clients \ {c} : node'[d] = node[d] /\ (d \in early' <=> d \in early)
  PROVE  /\ fates' = [fates EXCEPT ![c] = Fate(c)']
         /\ fates[c] = Fate(c)
         /\ Fate(c)' = Fate(c) => fates' = fates
<1>1. \A d \in Clients \ {c} : Fate(d)' = Fate(d)
  BY DEF Fate
<1>2. fates' = [fates EXCEPT ![c] = Fate(c)'] /\ fates[c] = Fate(c)
  BY <1>1 DEF fates
<1>3. ASSUME Fate(c)' = Fate(c)
      PROVE  fates' = fates
  BY <1>1, <1>3 DEF fates
<1> QED BY <1>2, <1>3

(***************************************************************************)
(* No task is left only when no client is: what is held back waits for a   *)
(* task, and what is in the queue for the source node's.                   *)
(***************************************************************************)
LEMMA IdleEmpty ==
  ASSUME IInv, main = "waiting", Idle, NEW c \in Clients
  PROVE  Fate(c) \in {"absent", "finished", "dropped"}
<1>1. sources = 0 /\ edges = 4 /\ taskq = << >> /\ reserved = None
  BY DEF IInv, TypeOK, Wired, Idle, AllEdges
<1>2. node[c] \notin {"queue", "source"}
  BY <1>1, NoneAssumption DEF IInv, Queued
<1>3. ASSUME node[c] \in Nodes PROVE FALSE
  <2>1. phase[c] \in Phases /\ phase[c] # "none" /\ ~Task(c, node[c])
    BY <1>3 DEF IInv, TypeOK, Working, Idle
  <2>2. phase[c] = "held"
    BY <2>1 DEF Phases, Task
  <2>3. PICK d \in Clients : Task(d, node[c])
    BY <1>3, <2>2 DEF IInv, Working
  <2> QED BY <1>3, <2>3 DEF Idle
<1>4. node[c] \in {"absent", "done", "lost"}
  BY <1>2, <1>3 DEF IInv, TypeOK, Places
<1> QED BY <1>4 DEF Fate, Nodes

(***************************************************************************)
(* Each step of the graph is one of Offload, or one it does not see.       *)
(***************************************************************************)
LEMMA StepOffload ==
  ASSUME IInv, [Next]_vars
  PROVE  [O!Next]_(O!vars)
<1>1. ASSUME UNCHANGED <<node, early, main>>
      PROVE  UNCHANGED O!vars
  BY <1>1 DEF O!vars, Fate, Round
<1>2. CASE MakeEdge \/ Expire \/ UNCHANGED vars
  BY <1>1, <1>2 DEF MakeEdge, Expire, vars, itemVars
<1>3. ASSUME NEW c \in Clients, Begin(c)
      PROVE  UNCHANGED O!vars
  BY <1>1, <1>3 DEF Begin
<1>4. CASE Activate
  <2>1. fates' = fates /\ Round = "setup" /\ Round' = "running"
    BY <1>4 DEF Activate, itemVars, fates, Fate, Round
  <2> QED BY <2>1 DEF O!Begin, O!Next, fates
<1>5. CASE Return
  <2>1. fates' = fates /\ Round = "running" /\ Round' = "over"
    BY <1>5 DEF Return, itemVars, fates, Fate, Round
  <2>2. \A c \in Clients : Fate(c) \in {"absent", "finished", "dropped"}
    BY <1>5, IdleEmpty DEF Return
  <2> QED BY <2>1, <2>2 DEF O!End, O!Next, fates
<1>6. CASE Take
  <2>1. /\ taskq # << >> /\ taskq \in Seq(Clients)
        /\ node' = [node EXCEPT ![Head(taskq)] = "source"]
        /\ early' = early /\ main' = main
    BY <1>6 DEF IInv, TypeOK, Take
  <2>2. PICK h \in Clients : h = Head(taskq)
    BY <2>1, HeadTailProperties
  <2>3. node[h] = "queue"
    BY <2>1, <2>2, HeadTailProperties, EmptySeq, LenProperties DEF IInv, Queued
  <2>4. node'[h] = "source" /\ \A d \in Clients \ {h} : node'[d] = node[d]
    BY <2>1, <2>2 DEF IInv, TypeOK
  <2>5. Fate(h) = "pending" /\ Fate(h)' = "pending"
    BY <2>3, <2>4 DEF Fate, Nodes
  <2>6. fates' = fates
    BY <2>1, <2>4, <2>5, OneFate
  <2> QED BY <2>1, <2>6 DEF O!vars, fates, Round
<1>7. CASE PassOn
  <2>1. PICK r \in Clients : r = reserved
    BY <1>7 DEF IInv, TypeOK, PassOn
  <2>2. /\ node[r] = "source" /\ node' = [node EXCEPT ![r] = "precfg"]
        /\ early' = (IF main = "wiring" THEN early \cup {r} ELSE early)
        /\ main' = main
    BY <1>7, <2>1 DEF IInv, Queued, PassOn
  <2>3. node'[r] = "precfg" /\ \A d \in Clients \ {r} : node'[d] = node[d]
    BY <2>2 DEF IInv, TypeOK
  <2>4. r \notin early
    BY <2>2 DEF IInv, Losing, Nodes
  <2>5. \A d \in Clients \ {r} : d \in early' <=> d \in early
    BY <2>2
  <2>6. /\ Fate(r) = "pending"
        /\ Fate(r)' = IF main = "wiring" THEN "early" ELSE "late"
    BY <2>2, <2>3, <2>4 DEF Fate, Nodes
  <2>7. /\ fates' = [fates EXCEPT ![r] = Fate(r)'] /\ fates[r] = Fate(r)
    BY <2>3, <2>5, OneFate
  <2>8. Round' = Round /\ (Round = "setup" <=> main = "wiring")
    BY <2>2 DEF Round
  <2>9. O!HandOver(r)
    BY <2>6, <2>7, <2>8 DEF O!HandOver, fates
  <2> QED BY <2>9 DEF O!Next
<1>8. ASSUME NEW c \in Clients, NEW n \in Nodes, End(c, n)
      PROVE  [O!Next]_(O!vars)
  <2>1. /\ node[c] = n /\ node' = [node EXCEPT ![c] = Target(n)]
        /\ early' = early /\ main' = main /\ edges' = edges
    BY <1>8 DEF End
  <2>2. node'[c] = Target(n) /\ \A d \in Clients \ {c} : node'[d] = node[d]
    BY <2>1 DEF IInv, TypeOK
  <2>3. /\ Target(n) \in Nodes \cup {"done", "lost"}
        /\ Target(n) = "lost" => edges < AllEdges
    BY TargetType DEF IInv, TypeOK
  <2>4. Round' = Round
    BY <2>1 DEF Round
  <2>5. /\ fates' = [fates EXCEPT ![c] = Fate(c)'] /\ fates[c] = Fate(c)
        /\ Fate(c)' = Fate(c) => fates' = fates
    BY <2>1, <2>2, OneFate
  <2>6. Fate(c) = IF c \in early THEN "early" ELSE "late"
    BY <2>1 DEF Fate, Nodes
  <2>7. CASE Target(n) \in Nodes
    <3>1. Fate(c)' = Fate(c)
      BY <2>1, <2>2, <2>6, <2>7 DEF Fate, Nodes
    <3> QED BY <2>4, <2>5, <3>1 DEF O!vars, fates
  <2>8. CASE Target(n) = "done"
    <3>1. Fate(c)' = "finished"
      BY <2>2, <2>8 DEF Fate, Nodes
    <3>2. O!Finish(c)
      BY <2>4, <2>5, <2>6, <3>1 DEF O!Finish, fates
    <3> QED BY <3>2 DEF O!Next
  <2>9. CASE Target(n) = "lost"
    <3>1. main = "wiring" /\ c \in early
      BY <2>1, <2>3, <2>9 DEF IInv, Wired, Losing, AllEdges
    <3>2. Fate(c)' = "dropped" /\ Fate(c) = "early" /\ Round = "setup"
      BY <2>2, <2>6, <2>9, <3>1 DEF Fate, Nodes, Round
    <3>3. O!Drop(c)
      BY <2>4, <2>5, <3>2 DEF O!Drop, fates
    <3> QED BY <3>3 DEF O!Next
  <2> QED BY <2>3, <2>7, <2>8, <2>9
<1> QED BY <1>2, <1>3, <1>4, <1>5, <1>6, <1>7, <1>8 DEF Next

(***************************************************************************)
(* For any clients and any queue, a round of the graph hands every client  *)
(* over once, loses only those taken before the edges were complete, and   *)
(* returns when none is left in it (main.cpp:349-400).                     *)
(***************************************************************************)
THEOREM GraphImplementsOffload == Spec => ImplementsOffload
<1>1. Init => O!Init
  <2> SUFFICES ASSUME Init PROVE O!Init
    OBVIOUS
  <2>1. \A c \in Clients : Fate(c) \in {"absent", "pending"}
    BY DEF Init, Fate, Nodes
  <2>2. Round = "setup"
    BY DEF Init, Round
  <2> QED BY <2>1, <2>2 DEF O!Init
<1>2. IInv /\ [Next]_vars => [O!Next]_(O!vars)
  BY StepOffload
<1> QED BY <1>1, <1>2, Invariant, PTL DEF Spec, ImplementsOffload, O!Spec

=============================================================================
