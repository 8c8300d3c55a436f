----------------------------- MODULE EventLoop -----------------------------
(***************************************************************************)
(* main.cpp: one thread that waits on epoll, accepts connections, drives   *)
(* the stream of every client that has an event, and then works through    *)
(* the task queue before it waits again (the build without USE_MT).  The   *)
(* clients it drives are those of HttpClient.                              *)
(*                                                                         *)
(* The environment is the remote end of every connection: it connects,     *)
(* sends one of the byte streams in Traffic, and may go away at any time.  *)
(* A model client is one connection; descriptors are not reused.           *)
(***************************************************************************)
EXTENDS HttpClient, FiniteSets

CONSTANTS
  Clients,      \* connections
  Listener,     \* the listening socket, as a source of events
  Traffic,      \* byte streams a remote end may send, as token sequences
  MaxEvents,    \* size of the array given to epoll_wait
  Spurious,     \* may a descriptor epoll reported still give EAGAIN?
  Garbage       \* values an uninitialised size_t member may have

ASSUME ClientsAssumption == Listener \notin Clients /\ IsFiniteSet(Clients)
ASSUME TrafficAssumption == Traffic \subseteq Seq(Token)
ASSUME EventsAssumption == MaxEvents \in Nat \ {0}
ASSUME SpuriousAssumption == Spurious \in BOOLEAN
ASSUME GarbageAssumption == Garbage \subseteq Nat /\ Garbage # {}

VARIABLES
  pc,        \* where the loop is; "undefined" after an undefined operation
  cl,        \* the client objects; meaningful from accept to delete
  life,      \* "remote" until connected, then "backlog", "open", "closed"
  interest,  \* the events registered with epoll_ctl
  events,    \* what epoll_wait returned and the loop has not handled
  taskq,     \* clients with a complete request, in order of arrival
  wire,      \* tokens the remote end has still to send
  peer       \* is the remote end "up" or "down"

vars == <<pc, cl, life, interest, events, taskq, wire, peer>>

Open == {c \in Clients : life[c] = "open"}

-----------------------------------------------------------------------------
(* System calls.                                                           *)

\* Where epoll reported a descriptor, a call on it blocks only if readiness
\* may prove to be spurious.
Spuriously == {r \in {WouldBlock} : Spurious}

\* recv() of at most Chunk tokens.  Only a remote end that is gone lets it
\* end the stream.
RecvResults(c) ==
  Transferred(1..Min2(Chunk, Len(wire[c]))) \cup Spuriously
  \cup (IF peer[c] = "down" THEN {Result(0, "none"), Broken} ELSE {})

\* send() of n units: all or part of them, or none for now; a send to a
\* remote end that is gone may fail.
SendResults(c, n) ==
  (IF n = 0 THEN Transferred({0}) ELSE Transferred(1..n) \cup Spuriously)
  \cup (IF peer[c] = "down" THEN {Broken} ELSE {})

\* An event that epoll may report for a client: a stream can be written to
\* at any time, and read when something is left to read.
Ready(c) ==
  \/ "SEND" \in interest[c]
  \/ "RECV" \in interest[c] /\ (wire[c] # << >> \/ peer[c] = "down")

-----------------------------------------------------------------------------
(* psp->Read() and psp->Write(): the stream the protocol selected.         *)

Driven(k, o) ==
  [k   |-> [k EXCEPT !.owed = k.owed - o.sent, !.lost = k.lost + o.lost,
                     !.fault = o.fault],
   ret |-> o.ret]

StreamRead(k, r, data) ==
  IF k.psp = "req"
  THEN LET o == RequestRead(k.req, r, data)
       IN Driven([k EXCEPT !.req = o.s], o)
  ELSE LET o == CgiRead(k.cgi, r)
           excess == IF r.len > 0 THEN CgiExcess(k.cgi, data) ELSE << >>
       IN Driven([k EXCEPT !.cgi = o.s,
                           !.req.buffer = k.req.buffer \o excess], o)

StreamOffer(k, p) ==
  CASE k.psp = "res"  -> BufferOffer(k.res)
    [] k.psp = "data" -> BufferOffer(k.data)
    [] k.psp = "file" -> FileOffer(k.file)
    [] k.psp = "cgi"  -> CgiOffer(k.cgi, p)

WriteBy(k, p, r) ==
  CASE k.psp = "res"  -> LET o == ResponseWrite(k.res, r)
                         IN Driven([k EXCEPT !.res = o.s], o)
    [] k.psp = "data" -> LET o == DataWrite(k.data, r)
                         IN Driven([k EXCEPT !.data = o.s], o)
    [] k.psp = "file" -> LET o == FileWrite(k.file, r)
                         IN Driven([k EXCEPT !.file = o.s], o)
    [] k.psp = "cgi"  -> LET o == CgiWrite(k.cgi, p, r)
                         IN Driven([k EXCEPT !.cgi = o.s], o)

\* A write, and the history of whether its send, if it made one, reported an
\* error: a write that makes none does not return true.
StreamWrite(k, p, r) ==
  LET broken == r = Broken /\ WriteBy(k, p, r).ret
  IN WriteBy([k EXCEPT !.failed = k.failed \/ broken], p, r)

-----------------------------------------------------------------------------
(* The loop.                                                               *)

\* Slip: the flags are compared with themselves.
Registered_Stale(old, new, current) == current

\* epoll_ctl(EPOLL_CTL_MOD), only when the flags of the client changed.
Registered(old, new, current) ==
  IF old.sflags # new.sflags THEN new.sflags ELSE current

\* Once an operation is undefined nothing more is said of the process.
Continue(k, next) == pc' = IF k.fault = "none" THEN next ELSE "undefined"

\* Slip: the newest request goes first.
Queued_First(c, poll) == IF poll = "RUN" THEN <<c>> \o taskq ELSE taskq

\* taskq.push().
Queued(c, poll) == IF poll = "RUN" THEN Append(taskq, c) ELSE taskq

\* Slip: the event of a deleted client is used once more.
Remaining_AfterDelete(c, poll) == IF poll = "CLOSE" THEN events ELSE events \ {c}

\* Each event is used once; after a delete the loop goes on to the next.
Remaining(c, poll) == events \ {c}

\* What the loop does for a client after its Read() or Write(), with outcome o.
Dispatch(c, o) ==
  \E p \in {IF o.ret THEN Poll(o.k) ELSE Polled(o.k, "SKIP")} :
    /\ cl' = [cl EXCEPT ![c] = p.k]
    /\ events' = Remaining(c, p.poll)
    /\ taskq' = Queued(c, p.poll)
    /\ life' = IF p.poll = "CLOSE" THEN [life EXCEPT ![c] = "closed"] ELSE life
    /\ interest' = [interest EXCEPT ![c] =
                      IF p.poll = "CLOSE" THEN {}
                      ELSE Registered(cl[c], p.k, interest[c])]
    /\ Continue(p.k, "events")

HandleRecv(c) ==
  /\ pc = "events" /\ c \in events
  /\ "RECV" \in cl[c].sflags
  /\ \E r \in RecvResults(c) :
       /\ wire' = [wire EXCEPT ![c] = Dropped(wire[c], Moved(r))]
       /\ \E o \in {StreamRead(cl[c], r, SubSeq(wire[c], 1, Moved(r)))} :
            Dispatch(c, o)
  /\ UNCHANGED peer

HandleSend(c) ==
  /\ pc = "events" /\ c \in events
  /\ "SEND" \in cl[c].sflags
  /\ \E p \in IF cl[c].psp = "cgi" THEN PipeReads(cl[c].cgi) ELSE Transferred({0}) :
     \E r \in SendResults(c, StreamOffer(cl[c], p)) :
     \E o \in {StreamWrite(cl[c], p, r)} : Dispatch(c, o)
  /\ UNCHANGED <<wire, peer>>

\* A turn of the accept4() loop: a client is made and registered.
AcceptClient(c) ==
  /\ pc = "events" /\ Listener \in events
  /\ life[c] = "backlog"
  /\ \E postl, datac, datal \in Garbage :
       cl' = [cl EXCEPT ![c] = NewClient(postl, datac, datal)]
  /\ life' = [life EXCEPT ![c] = "open"]
  /\ interest' = [interest EXCEPT ![c] = cl'[c].sflags]
  /\ UNCHANGED <<pc, events, taskq, wire, peer>>

\* The configuration script returns no client: close it and leave the loop.
AcceptRefused(c) ==
  /\ pc = "events" /\ Listener \in events
  /\ life[c] = "backlog"
  /\ life' = [life EXCEPT ![c] = "closed"]
  /\ events' = events \ {Listener}
  /\ UNCHANGED <<pc, cl, interest, taskq, wire, peer>>

\* accept4() fails: nothing is left, or it gives out with connections left.
AcceptDone ==
  /\ pc = "events" /\ Listener \in events
  /\ events' = events \ {Listener}
  /\ UNCHANGED <<pc, cl, life, interest, taskq, wire, peer>>

\* The batch is handled.
EventsDone ==
  /\ pc = "events" /\ events = {}
  /\ pc' = "tasks"
  /\ UNCHANGED <<cl, life, interest, events, taskq, wire, peer>>

\* Accept(), Configure() and Process() of the first client in the queue.
RunTask ==
  /\ pc = "tasks" /\ taskq # << >>
  /\ \E c \in {Head(taskq)}, cfg \in Configs :
     \E k \in {Process(Accept(cl[c]), cfg)} :
       /\ cl' = [cl EXCEPT ![c] = k]
       /\ interest' = [interest EXCEPT ![c] = Registered(cl[c], k, interest[c])]
  /\ taskq' = Tail(taskq)
  /\ UNCHANGED <<pc, life, events, wire, peer>>

TasksDone ==
  /\ pc = "tasks" /\ taskq = << >>
  /\ pc' = "wait"
  /\ UNCHANGED <<cl, life, interest, events, taskq, wire, peer>>

\* epoll_wait() returns some of the sources that are ready.
EpollWait ==
  /\ pc = "wait"
  /\ \E batch \in SUBSET ({c \in Open : Ready(c)}
                          \cup {s \in {Listener} :
                                  \E c \in Clients : life[c] = "backlog"}) :
       /\ batch # {} /\ Cardinality(batch) <= MaxEvents
       /\ events' = batch
  /\ pc' = "events"
  /\ UNCHANGED <<cl, life, interest, taskq, wire, peer>>

\* The remote end connects; what it will send is settled here.
Connect(c) ==
  /\ pc # "undefined" /\ life[c] = "remote"
  /\ life' = [life EXCEPT ![c] = "backlog"]
  /\ \E stream \in Traffic : wire' = [wire EXCEPT ![c] = stream]
  /\ UNCHANGED <<pc, cl, interest, events, taskq, peer>>

\* The remote end goes away; what it sent before may still arrive.
PeerClose(c) ==
  /\ pc # "undefined" /\ life[c] \in {"backlog", "open"} /\ peer[c] = "up"
  /\ peer' = [peer EXCEPT ![c] = "down"]
  /\ UNCHANGED <<pc, cl, life, interest, events, taskq, wire>>

Init ==
  /\ pc = "wait"
  /\ cl = [c \in Clients |-> NewClient(0, 0, 0)]
  /\ life = [c \in Clients |-> "remote"]
  /\ interest = [c \in Clients |-> {}]
  /\ events = {}
  /\ taskq = << >>
  /\ wire = [c \in Clients |-> << >>]
  /\ peer = [c \in Clients |-> "up"]

Loop ==
  \/ \E c \in Clients : HandleRecv(c) \/ HandleSend(c)
                        \/ AcceptClient(c) \/ AcceptRefused(c)
  \/ AcceptDone \/ EventsDone \/ RunTask \/ TasksDone \/ EpollWait

Next == Loop \/ \E c \in Clients : Connect(c) \/ PeerClose(c)

Spec == Init /\ [][Next]_vars

-----------------------------------------------------------------------------
(* Fairness.                                                               *)

\* The script of a client delivers output, or ends, and no send fails.
Delivers(c) ==
  HandleSend(c) /\ cl'[c] # cl[c] /\ cl'[c].failed = cl[c].failed

(***************************************************************************)
(* The process keeps running: WF of the loop.  epoll reports descriptors   *)
(* that stay ready in turn, so a client is not passed over for ever, and a *)
(* script that was started goes on to produce its output and to end.       *)
(***************************************************************************)
Fairness ==
  /\ WF_vars(Loop)
  /\ \A c \in Clients : /\ SF_vars(EpollWait /\ c \in events')
                        /\ SF_vars(Delivers(c))
  /\ SF_vars(EpollWait /\ Listener \in events')

FairSpec == Spec /\ Fairness

-----------------------------------------------------------------------------
(* Properties.                                                             *)

\* Every variable has the values its comment announces.
TypeOK ==
  /\ pc \in {"wait", "events", "tasks", "undefined"}
  /\ cl \in [Clients -> Client]
  /\ life \in [Clients -> {"remote", "backlog", "open", "closed"}]
  /\ interest \in [Clients -> {{}, {"RECV"}, {"SEND"}}]
  /\ events \subseteq Clients \cup {Listener}
  /\ taskq \in Seq(Clients)
  /\ wire \in [Clients -> Seq(Token)]
  /\ peer \in [Clients -> {"up", "down"}]

(***************************************************************************)
(* What the kernel watches is what the client object says it waits for,    *)
(* whenever the loop is between two operations: the two copies of the      *)
(* flags are kept together by comparing the flags before and after each    *)
(* operation (main.cpp:312, 339-345, 405, 411-417).  A missed update would *)
(* leave a client that nobody ever wakes, or wake it for nothing.          *)
(***************************************************************************)
EpollInSync ==
  \A c \in Clients :
    interest[c] = IF life[c] = "open" THEN cl[c].sflags ELSE {}

(***************************************************************************)
(* The clients in the task queue are, each exactly once, the open clients  *)
(* that epoll is told to ignore (Poll(), protocol.cpp:558, 579, 609): no   *)
(* request is processed twice or after its client was deleted, and no      *)
(* client is ignored by both.  The loop never waits while requests queue.  *)
(***************************************************************************)
QueueExact ==
  /\ \A i, j \in 1..Len(taskq) : taskq[i] = taskq[j] => i = j
  /\ \A c \in Clients : (\E i \in 1..Len(taskq) : taskq[i] = c)
                        <=> life[c] = "open" /\ cl[c].sflags = {}
  /\ pc = "wait" => taskq = << >>

(***************************************************************************)
(* The pointers epoll_wait() returned and the loop has still to follow are *)
(* those of live objects that wait for an event, whatever the events       *)
(* before them in the batch did (main.cpp:262, 309-324, 334).              *)
(***************************************************************************)
BatchAlive ==
  \A c \in events \ {Listener} : life[c] = "open" /\ cl[c].sflags # {}

(***************************************************************************)
(* The stream that psp selects is one that was prepared: fread() never     *)
(* sees a null FILE (protocol.cpp:297), no pipe is used that was not       *)
(* opened, and no empty buffer is sent, which would look like an error.    *)
(***************************************************************************)
StreamReady ==
  \A c \in {d \in Open : cl[d].fault = "none"} :
    LET k == cl[c]
    IN /\ k.state = "RECV_REQUEST" => k.psp = "req"
       /\ k.state = "RECV_DATA" => k.psp = "cgi" /\ k.cgi.rd /\ k.cgi.wr
       /\ k.state = "SEND_RESPONSE" => k.psp = "res" /\ k.res.size > 0
       /\ k.state = "SEND_DATA" => k.content # "NONE" /\ k.psp = StreamOf(k.content)
       /\ k.psp = "file" => k.file.open
       /\ k.psp = "data" => k.data.size > 0
       /\ k.psp = "cgi" => k.cgi.rd

(***************************************************************************)
(* Between two requests of a connection nothing is left of the first: no   *)
(* unsent bytes that would precede the next response, no open file, no     *)
(* running script; and a deleted client leaves no file open (Clear(),      *)
(* protocol.cpp:632-639, called on the way to either at 574 and 605).      *)
(***************************************************************************)
IdleClean ==
  \A c \in Clients :
    /\ life[c] = "open" /\ cl[c].state = "RECV_REQUEST" /\ cl[c].fault = "none"
         => /\ ~cl[c].file.open /\ ~cl[c].cgi.child
            /\ cl[c].res.size = 0 /\ cl[c].data.size = 0
    /\ life[c] = "closed" => ~cl[c].file.open

\* Units of the current response that the streams of a client still hold.
Pending(k) ==
  LET held == CASE k.content = "NONE" -> 0
                [] k.content = "DATA" -> k.data.size
                [] k.content = "FILE" -> k.file.size - k.file.pos
                [] k.content = "CGI"  -> Len(k.cgi.pipe) + Len(k.cgi.buffer)
                                         + IF k.cgi.feedback THEN 0 ELSE 1
  IN CASE k.state = "RECV_REQUEST"  -> 0
       [] k.state = "SEND_RESPONSE" -> k.res.size + held
       [] OTHER                     -> held

(***************************************************************************)
(* Every unit of a response that was announced was accepted by the kernel, *)
(* is still held by a stream, was dropped by one, or is the difference     *)
(* between st_size and the file: through short sends, EAGAIN, the chunks   *)
(* of Write() and the change from one stream to the next, none is sent     *)
(* twice and none disappears elsewhere.  A failed connection owes nothing. *)
(***************************************************************************)
Conservation ==
  \A c \in Open :
    LET k == cl[c]
    IN k.failed \/ k.fault # "none"
       \/ k.owed = Pending(k) + k.lost + k.drift

(***************************************************************************)
(* A connection that is kept has received its whole response, no more and  *)
(* no less: otherwise the client takes the start of the next response for  *)
(* a part of this one (Finished; protocol.cpp:165, 264, 305-311).          *)
(***************************************************************************)
FramingKept ==
  \A c \in Open :
    cl[c].state = "RECV_REQUEST" /\ cl[c].fault = "none" /\ ~cl[c].failed
      => cl[c].owed = 0

(***************************************************************************)
(* What is handed to Accept() as a request is one: it begins with a        *)
(* request line and ends with the end of that request's headers, after any *)
(* number of requests on the connection and however they were cut into     *)
(* reads (protocol.cpp:104-107, 117-132).                                  *)
(***************************************************************************)
RequestBoundary ==
  \A c \in Open :
    LET q == cl[c].req
    IN q.state = "SUCCESS" /\ cl[c].state = "RECV_REQUEST"
       => /\ q.postl \in 1..Len(q.buffer)
          /\ q.buffer[1].kind = "line"
          /\ q.buffer[q.postl].kind = "end"
          /\ \A i \in 2..q.postl - 1 : q.buffer[i].kind = "field"

(***************************************************************************)
(* Reset() erases inside its buffer, with two exceptions in which postl is *)
(* not the end of a request: after a request of which no end was found, and*)
(* after a POST, where Open() has put the length of the body in its place  *)
(* ("the request data will be erased up to the end of the POST",           *)
(* protocol.cpp:531, 121).                                                 *)
(***************************************************************************)
ErasesInside ==
  \A c \in Clients :
    LET k == cl[c]
    IN k.fault = "Erase" =>
         \/ k.status = 413
         \/ k.content = "CGI" /\ k.method = "POST" /\ k.req.postl = k.cgi.datal

(***************************************************************************)
(* A deleted client leaves nothing of its script behind: neither the       *)
(* process nor either pipe, whichever way the connection came to its end   *)
(* ("close the pipes (in case they're still hanging)", protocol.cpp:460,   *)
(* and 468-472).                                                           *)
(***************************************************************************)
ScriptReleased ==
  \A c \in Clients :
    life[c] = "closed" => ~cl[c].cgi.child /\ ~cl[c].cgi.rd /\ ~cl[c].cgi.wr

\* Where a connection is, as Service sees it.
ServicePhase(c) ==
  CASE life[c] # "open" -> life[c]
    [] OTHER -> CASE cl[c].state = "RECV_REQUEST" ->
                       IF cl[c].sflags = {} THEN "queued" ELSE "idle"
                  [] cl[c].state = "RECV_DATA" -> "receiving"
                  [] OTHER -> "answering"

Service == INSTANCE Service WITH
  phase   <- [c \in Clients |-> ServicePhase(c)],
  waiting <- taskq

(***************************************************************************)
(* The loop, the task queue and the HTTP state machine together implement  *)
(* Service: complete requests are taken once each and in order, no client  *)
(* is deleted while its request waits, and no second request of a client   *)
(* enters before its response is out (main.cpp:260-420, Poll()).           *)
(***************************************************************************)
ImplementsService == Service!Spec

\* A connection that waits for its remote end to send the rest of something.
Starved(c) == wire[c] = << >> /\ peer[c] = "up" /\ "RECV" \in cl[c].sflags

(***************************************************************************)
(* A request that was queued is answered: its connection comes back to     *)
(* reading requests or is closed, unless the remote end holds back the     *)
(* rest of a body, or an operation was undefined.                          *)
(***************************************************************************)
Served ==
  \A c \in Clients :
    (\E i \in 1..Len(taskq) : taskq[i] = c)
      ~> \/ life[c] = "closed" \/ pc = "undefined" \/ Starved(c)
         \/ cl[c].state = "RECV_REQUEST" /\ cl[c].sflags # {}

(***************************************************************************)
(* Every client that was accepted and whose remote end has gone away is    *)
(* deleted: what is left of its input and of its response is dealt with,   *)
(* and the end of the connection is noticed.                               *)
(***************************************************************************)
Reaped ==
  \A c \in Clients :
    (life[c] = "open" /\ peer[c] = "down")
      ~> (life[c] = "closed" \/ pc = "undefined")

=============================================================================
