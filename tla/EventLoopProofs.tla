-------------------------- MODULE EventLoopProofs --------------------------
(***************************************************************************)
(* Safety of the event loop, for any number of connections, any traffic,   *)
(* any configuration and any batch size: first what the methods of the     *)
(* HTTP client return, then the invariant of the loop.                     *)
(***************************************************************************)
EXTENDS EventLoop, StreamProofs

-----------------------------------------------------------------------------
(* The type of a client after a method, and its control state: which       *)
(* stream it drives in which state, and with which events.                 *)

\* A request stream whose request can be processed.
RequestReady(q) ==
  /\ q.state \in {"SUCCESS", "CORRUPTED"}
  /\ q.state = "SUCCESS" => q.postl \in 1..Len(q.buffer)

\* The four situations of an open client.
AwaitsRequest(k) ==
  k.sflags = {"RECV"} /\ k.state = "RECV_REQUEST" /\ k.psp = "req"

AwaitsBody(k) ==
  k.sflags = {"RECV"} /\ k.state = "RECV_DATA" /\ k.psp = "cgi"
  /\ k.cgi.datac < k.cgi.datal

Answers(k) ==
  k.sflags = {"SEND"} /\ k.state \in {"SEND_RESPONSE", "SEND_DATA"}
  /\ k.psp # "req"

Queues(k) ==
  k.sflags = {} /\ k.state = "RECV_REQUEST" /\ RequestReady(k.req)

Control(k) == AwaitsRequest(k) \/ AwaitsBody(k) \/ Answers(k) \/ Queues(k)

(***************************************************************************)
(* Reset() makes a client that awaits a request (protocol.cpp:621-630).    *)
(***************************************************************************)
LEMMA ResetType ==
  ASSUME NEW k \in Client
  PROVE  Reset(k) \in Client /\ AwaitsRequest(Reset(k)) /\ Reset(k).req = k.req
BY DEF Client, Reset, Method, AwaitsRequest

(***************************************************************************)
(* The constructor does too, whatever the uninitialised members held       *)
(* (protocol.cpp:537-539).                                                 *)
(***************************************************************************)
LEMMA NewClientType ==
  ASSUME NEW postl \in Nat, NEW datac \in Nat, NEW datal \in Nat
  PROVE  NewClient(postl, datac, datal) \in Client
         /\ AwaitsRequest(NewClient(postl, datac, datal))
<1>1. ASSUME NEW req \in RequestStream(Token), NEW buf \in BufferStream,
             NEW file \in FileStream, NEW cgi \in CgiStream
      PROVE  [psp |-> "req", state |-> "RECV_REQUEST", sflags |-> {"RECV"},
              method |-> "GET", content |-> "NONE", connection |-> "CLOSE",
              status |-> 200, clen |-> 0, length |-> FALSE, req |-> req,
              res |-> buf, data |-> buf, file |-> file, cgi |-> cgi,
              owed |-> 0, lost |-> 0, drift |-> 0, failed |-> FALSE,
              fault |-> "none"] \in Client
  BY DEF Client, Method, StatusCode, StreamFault
<1> QED
  BY <1>1, ResetType, NewRequestType, EmptyBufferType, ClosedFileType,
     NewCgiType DEF NewClient

(***************************************************************************)
(* Clear() touches the streams and not the control state                   *)
(* (protocol.cpp:632-639).                                                 *)
(***************************************************************************)
LEMMA ClearType ==
  ASSUME NEW k \in Client
  PROVE  /\ Clear(k) \in Client
         /\ Clear(k).sflags = k.sflags /\ Clear(k).state = k.state
         /\ Clear(k).psp = k.psp
<1>1. /\ k.req \in RequestStream(Token) /\ k.cgi \in CgiStream
  BY DEF Client
<1>2. /\ RequestReset(k.req).s \in RequestStream(Token)
      /\ RequestReset(k.req).fault \in StreamFault
  BY <1>1, RequestResetType DEF IsOutcome
<1>3. CgiReset(k.cgi) \in CgiStream
  BY <1>1, CgiResetType
<1>4. FileReset(k.file) \in FileStream
  BY ClosedFileType DEF FileReset
<1> QED BY <1>2, <1>3, <1>4, EmptyBufferType DEF Clear, Client

\* What Poll() may answer about a client that is done with an operation.
Answered(p) ==
  /\ p.k \in Client
  /\ p.poll \in {"SKIP", "RUN", "CLOSE"}
  /\ p.poll = "RUN" => Queues(p.k)
  /\ p.poll = "SKIP" => AwaitsRequest(p.k) \/ Answers(p.k)

(***************************************************************************)
(* The two components of the answer of Poll().                             *)
(***************************************************************************)
LEMMA PolledType ==
  ASSUME NEW k, NEW poll
  PROVE  Polled(k, poll).k = k /\ Polled(k, poll).poll = poll
BY DEF Polled

(***************************************************************************)
(* A response that is out leaves a client that is closed, queued with a    *)
(* whole request, or waits (protocol.cpp:602-614).                         *)
(***************************************************************************)
LEMMA FinishedType ==
  ASSUME NEW k \in Client, Answers(k)
  PROVE  Answered(Finished(k))
<1> DEFINE cleared == Clear(k)
           again   == Reset(cleared)
           next    == CheckPipeline(again.req)
<1>1. cleared \in Client /\ Answers(cleared)
  BY ClearType DEF Answers
<1>2. again \in Client /\ AwaitsRequest(again)
  <2> HIDE DEF cleared
  <2> QED BY <1>1, ResetType
<1>3. again.req \in RequestStream(Token)
  <2> HIDE DEF again
  <2> QED BY <1>2 DEF Client
<1>4. /\ next.s \in RequestStream(Token)
      /\ next.ret => RequestReady(next.s)
  <2> HIDE DEF again
  <2>1. next.s \in RequestStream(Token) /\ next.ret \in BOOLEAN
    BY <1>3, CheckPipelineType
  <2>2. again.req.buffer \in Seq(Token)
    BY <1>3 DEF RequestStream
  <2>3. ASSUME Breaks(again.req.buffer) # {}
        PROVE  FindBreak(again.req.buffer) \in 1..Len(again.req.buffer)
    BY <2>2, <2>3, FindBreakType
  <2>4. CASE Breaks(again.req.buffer) = {}
    BY <2>1, <2>4 DEF CheckPipeline
  <2>5. CASE Breaks(again.req.buffer) # {}
    BY <1>3, <2>1, <2>3, <2>5 DEF CheckPipeline, RequestReady, RequestStream
  <2> QED BY <2>4, <2>5
<1> HIDE DEF cleared, again, next
<1>5. next.ret => /\ [again EXCEPT !.req = next.s, !.sflags = {}] \in Client
                  /\ Queues([again EXCEPT !.req = next.s, !.sflags = {}])
  BY <1>2, <1>4 DEF Client, AwaitsRequest, Queues
<1> QED
  BY <1>1, <1>2, <1>5, PolledType DEF Finished, cleared, again, next, Answered

\* A client whose Read() or Write() returned true.
Completed(k) ==
  /\ k \in Client
  /\ \/ AwaitsRequest(k) /\ (k.req.state = "CLOSED" \/ RequestReady(k.req))
     \/ k.sflags = {"RECV"} /\ k.state = "RECV_DATA" /\ k.psp = "cgi"
     \/ Answers(k)

(***************************************************************************)
(* Poll() answers RUN only for a client whose request can be processed,    *)
(* and SKIP only for one that waits for an event (protocol.cpp:546-619).   *)
(***************************************************************************)
LEMMA PollType ==
  ASSUME NEW k, Completed(k)
  PROVE  Answered(Poll(k))
<1>0. k \in Client
  BY DEF Completed
<1>1. CASE k.state = "RECV_REQUEST"
  <2>1. AwaitsRequest(k) /\ (k.req.state = "CLOSED" \/ RequestReady(k.req))
    BY <1>1 DEF Completed, Answers
  <2>2. RequestReady(k.req) =>
          [k EXCEPT !.sflags = {}] \in Client /\ Queues([k EXCEPT !.sflags = {}])
    BY <1>0, <1>1, <2>1 DEF Client, Queues
  <2>3. Poll(k) = IF k.req.state = "CLOSED" THEN Polled(k, "CLOSE")
                  ELSE Polled([k EXCEPT !.sflags = {}], "RUN")
    BY <1>1 DEF Poll
  <2> QED BY <1>0, <2>1, <2>2, <2>3, PolledType DEF Answered
<1>2. CASE k.state = "RECV_DATA"
  <2> DEFINE n == [k EXCEPT !.psp = "cgi", !.state = "SEND_DATA", !.sflags = {"SEND"}]
  <2>1. n \in Client /\ Answers(n)
    BY <1>0 DEF Client, Answers
  <2>2. Poll(k) = IF k.cgi.state = "CLOSED" THEN Polled(k, "CLOSE")
                  ELSE Polled(n, "SKIP")
    BY <1>2 DEF Poll
  <2> HIDE DEF n
  <2> QED BY <1>0, <2>1, <2>2, PolledType DEF Answered
<1>3. CASE k.state = "SEND_RESPONSE"
  <2>1. Answers(k)
    BY <1>3 DEF Completed, AwaitsRequest
  <2> DEFINE n == [k EXCEPT !.psp = StreamOf(k.content), !.state = "SEND_DATA"]
  <2>2. k.content # "NONE" => n \in Client /\ Answers(n)
    <3>1. k.content # "NONE" => StreamOf(k.content) \in {"data", "file", "cgi"}
      BY <1>0 DEF Client, StreamOf
    <3> QED BY <1>0, <2>1, <3>1 DEF Client, Answers
  <2>3. Poll(k) = IF k.content = "NONE" THEN Finished(k) ELSE Polled(n, "SKIP")
    BY <1>3 DEF Poll
  <2> HIDE DEF n
  <2> QED BY <1>0, <2>1, <2>2, <2>3, PolledType, FinishedType DEF Answered
<1>4. CASE k.state = "SEND_DATA"
  <2>1. Answers(k)
    BY <1>4 DEF Completed, AwaitsRequest
  <2>2. Poll(k) = Finished(k)
    BY <1>4 DEF Poll
  <2> QED BY <1>0, <2>1, <2>2, FinishedType
<1> QED BY <1>0, <1>1, <1>2, <1>3, <1>4 DEF Client

(***************************************************************************)
(* Poll() ends the reading of a request with its processing or with the    *)
(* connection, and the reading of a body with the response or with the     *)
(* connection (protocol.cpp:550-570).                                      *)
(***************************************************************************)
LEMMA PollNext ==
  ASSUME NEW k, Completed(k)
  PROVE  /\ k.state = "RECV_REQUEST" => Poll(k).poll \in {"RUN", "CLOSE"}
         /\ k.state = "RECV_DATA" =>
              \/ Poll(k).poll = "CLOSE"
              \/ Poll(k).poll = "SKIP" /\ Poll(k).k.state = "SEND_DATA"
<1>1. k \in Client
  BY DEF Completed
<1>2. CASE k.state = "RECV_REQUEST"
  BY <1>2, PolledType DEF Poll
<1>3. CASE k.state = "RECV_DATA"
  <2> DEFINE n == [k EXCEPT !.psp = "cgi", !.state = "SEND_DATA", !.sflags = {"SEND"}]
  <2>1. n.state = "SEND_DATA"
    BY <1>1 DEF Client
  <2>2. Poll(k) = IF k.cgi.state = "CLOSED" THEN Polled(k, "CLOSE")
                  ELSE Polled(n, "SKIP")
    BY <1>3 DEF Poll
  <2> HIDE DEF n
  <2> QED BY <1>3, <2>1, <2>2, PolledType
<1> QED BY <1>2, <1>3

-----------------------------------------------------------------------------
(* Accept() and Process().                                                 *)

\* A client whose request is processed: the erase of the request is inside
\* the buffer where anything but an error is answered.
Processed(k) ==
  /\ k \in Client
  /\ k.status = 200 => k.req.postl <= Len(k.req.buffer)

(***************************************************************************)
(* Accept() reads a request line that is there, and answers 413 where      *)
(* there is none (protocol.cpp:643-646).                                   *)
(***************************************************************************)
LEMMA AcceptType ==
  ASSUME NEW k \in Client, Queues(k)
  PROVE  Processed(Accept(k))
<1> DEFINE first == Head(k.req.buffer)
           r == first.req
<1>1. CASE k.req.state = "CORRUPTED"
  <2>1. [k EXCEPT !.status = 413] \in Client
    BY DEF Client, StatusCode, ErrorCode
  <2> QED BY <1>1, <2>1 DEF Accept, Processed, Client
<1>2. CASE k.req.state = "SUCCESS"
  <2>1. k.req.buffer \in Seq(Token) /\ k.req.postl \in 1..Len(k.req.buffer)
    BY <1>2 DEF Queues, RequestReady, Client, RequestStream
  <2>2. first \in Token
    BY <2>1, EmptySeq, HeadTailProperties
  <2>3. r \in Request
    <3> HIDE DEF first
    <3> QED BY <2>2 DEF Token
  <2> HIDE DEF r, first
  <2>4. [k EXCEPT !.status = 501] \in Client
    BY DEF Client, StatusCode, ErrorCode
  <2>5. [k EXCEPT !.status = r.status, !.method = r.method,
                  !.clen = r.clen, !.length = r.length,
                  !.connection = IF r.status = 200 /\ r.keep
                                 THEN "KEEPALIVE" ELSE "CLOSE"] \in Client
    <3>1. /\ r.status \in StatusCode /\ r.method \in Method
          /\ r.clen \in Nat /\ r.length \in BOOLEAN
      BY <2>3 DEF Request, StatusCode, ErrorCode
    <3>2. (IF r.status = 200 /\ r.keep THEN "KEEPALIVE" ELSE "CLOSE")
            \in {"CLOSE", "KEEPALIVE"}
      OBVIOUS
    <3> QED BY <3>1, <3>2 DEF Client
  <2>6. Accept(k).req = k.req
    BY <1>2 DEF Accept, Client
  <2>7. Accept(k) \in Client
    BY <1>2, <2>4, <2>5 DEF Accept, first, r
  <2>8. k.req.postl <= Len(k.req.buffer)
    BY <2>1
  <2> QED BY <2>6, <2>7, <2>8 DEF Processed
<1> QED BY <1>1, <1>2 DEF Queues, RequestReady

(***************************************************************************)
(* What a response owes starts with its whole length.                      *)
(***************************************************************************)
LEMMA PromiseType ==
  ASSUME NEW k \in Client, NEW n \in Int
  PROVE  Promise(k, n) \in Client
<1> DEFINE k1 == [k EXCEPT !.owed = n]
           k2 == [k1 EXCEPT !.lost = 0]
           k3 == [k2 EXCEPT !.drift = 0]
           k4 == [k3 EXCEPT !.failed = FALSE]
<1>1. ASSUME NEW j \in Client
      PROVE  [j EXCEPT !.drift = 0] \in Client
  BY DEF Client
<1>2. ASSUME NEW j \in Client
      PROVE  [j EXCEPT !.failed = FALSE] \in Client
  BY DEF Client
<1>3. k2 \in Client
  BY DEF Client
<1>4. k4 \in Client
  <2> HIDE DEF k2
  <2> QED BY <1>1, <1>2, <1>3
<1>5. Promise(k, n) = k4
  BY DEF Promise, Client
<1> QED BY <1>4, <1>5

(***************************************************************************)
(* A response header announces what is owed and fills the response stream. *)
(***************************************************************************)
LEMMA GenerateType ==
  ASSUME NEW k \in Client, NEW body \in Nat
  PROVE  Generate(k, body) \in Client
<1>1. Promise(k, HeaderSize + body) \in Client
  <2>1. HeaderSize + body \in Int
    BY HeaderAssumption
  <2> QED BY <2>1, PromiseType
<1> QED BY <1>1, HeaderAssumption DEF Generate, Client, BufferStream

(***************************************************************************)
(* A client that is switched to its response answers (protocol.cpp:907).   *)
(***************************************************************************)
LEMMA SendingType ==
  ASSUME NEW k \in Client
  PROVE  Sending(k) \in Client /\ Answers(Sending(k))
BY DEF Sending, Client, Answers

(***************************************************************************)
(* A refused request is answered (protocol.cpp:913-936).                   *)
(***************************************************************************)
LEMMA RefuseType ==
  ASSUME NEW k \in Client, NEW c \in Configs, NEW status \in StatusCode
  PROVE  Refuse(k, status, c) \in Client /\ Answers(Refuse(k, status, c))
<1> DEFINE page == IF status >= 400 THEN c.pageSize ELSE 0
           paged == status >= 400 /\ k.method # "HEAD"
           made == [k EXCEPT !.data.size = page,
                             !.content = IF paged THEN "DATA" ELSE k.content]
           body == IF paged THEN page ELSE 0
<1>1. page \in Nat /\ body \in Nat
  BY ConfigAssumption DEF Config
<1>2. made \in Client
  <2> HIDE DEF page, paged
  <2> QED BY <1>1 DEF Client, BufferStream
<1> HIDE DEF made, body
<1>3. Generate(made, body) \in Client
  BY <1>1, <1>2, GenerateType
<1> QED BY <1>3, SendingType DEF Refuse, made, body

(***************************************************************************)
(* Routing selects a stream that fits the state and its events.            *)
(***************************************************************************)
LEMMA RouteType ==
  ASSUME NEW k \in Client, NEW c \in Configs
  PROVE  Route(k, c) \in Client /\ (AwaitsBody(Route(k, c)) \/ Answers(Route(k, c)))
<1>1. CASE k.method = "POST" /\ k.cgi.datac < k.cgi.datal
  BY <1>1 DEF Route, Client, AwaitsBody
<1>2. CASE ~(k.method = "POST" /\ k.cgi.datac < k.cgi.datal) /\ c.cgi
  BY <1>2 DEF Route, Client, Answers
<1>3. CASE ~(k.method = "POST" /\ k.cgi.datac < k.cgi.datal) /\ ~c.cgi
  BY <1>3, SendingType DEF Route
<1> QED BY <1>1, <1>2, <1>3

(***************************************************************************)
(* The three sources of a 200 response leave a client.                     *)
(***************************************************************************)
LEMMA ListDirType ==
  ASSUME NEW k \in Client, NEW c \in Configs
  PROVE  ListDir(k, c) \in Client
<1> DEFINE n == [k EXCEPT !.data.size = c.pageSize, !.content = "DATA"]
<1>1. n \in Client /\ c.pageSize \in Nat
  BY ConfigAssumption DEF Config, Client, BufferStream
<1> HIDE DEF n
<1> QED BY <1>1, GenerateType DEF ListDir, n

\* A file: its size is st_size in the header and the length of the file in
\* the stream, so the difference is any integer.
LEMMA SendFileType ==
  ASSUME NEW k \in Client, NEW c \in Configs
  PROVE  SendFile(k, c) \in Client
<1> DEFINE n == [k EXCEPT !.file = OpenFile(c.length), !.content = "FILE"]
<1>1. c.length \in Nat /\ c.st_size \in Nat
  BY ConfigAssumption DEF Config
<1>2. n \in Client
  BY <1>1, OpenFileType DEF Client
<1> HIDE DEF n
<1>3. Generate(n, c.st_size) \in Client /\ Generate(k, 0) \in Client
  BY <1>1, <1>2, GenerateType
<1>4. [Generate(n, c.st_size) EXCEPT !.drift = c.st_size - c.length] \in Client
  BY <1>1, <1>3 DEF Client
<1> QED BY <1>3, <1>4 DEF SendFile, n

\* A script: Open() needs a request whose end is in the buffer.
LEMMA RunCgiType ==
  ASSUME NEW k \in Client, NEW c \in Configs, k.req.postl <= Len(k.req.buffer)
  PROVE  RunCgi(k, c) \in Client
<1> DEFINE datal == IF k.method = "POST" THEN k.clen ELSE 0
           open == CgiOpen(k.cgi, c.script, datal, k.req)
           n == [k EXCEPT !.cgi = open.s, !.req = open.req, !.content = "CGI"]
<1>1. /\ k.cgi \in CgiStream /\ k.req \in RequestStream(Token)
      /\ datal \in Nat /\ c.script \in Seq(CgiUnit)
  BY ConfigAssumption DEF Config, Client
<1>2. open.s \in CgiStream /\ open.req \in RequestStream(Token)
  <2> HIDE DEF datal
  <2> QED BY <1>1, CgiOpenType
<1>3. n \in Client
  <2> HIDE DEF open
  <2> QED BY <1>2 DEF Client
<1>4. 1 + Len(c.script) \in Int
  BY <1>1, LenProperties
<1> HIDE DEF n
<1>5. Promise(n, 1 + Len(c.script)) \in Client
  BY <1>3, <1>4, PromiseType
<1> QED BY <1>5 DEF RunCgi, n, open, datal

(***************************************************************************)
(* After Process() the client answers or waits for the rest of the body of *)
(* a POST: it never again reads a request or stays in the queue            *)
(* (protocol.cpp:896-911, 913-936).                                        *)
(***************************************************************************)
LEMMA ProcessType ==
  ASSUME NEW k, Processed(k), NEW c \in Configs
  PROVE  Process(k, c) \in Client /\ (AwaitsBody(Process(k, c)) \/ Answers(Process(k, c)))
<1> DEFINE a == IF c.cgi THEN [k EXCEPT !.connection = "CLOSE"] ELSE k
           verdict == Verdict(k, c)
<1>1. k \in Client /\ k.status \in StatusCode
  BY DEF Processed, Client
<1>2. a \in Client /\ a.req = k.req
  BY <1>1 DEF Client
<1>3. Verdict(k, c) \in StatusCode
  BY DEF Verdict, StatusCode, ErrorCode
<1> HIDE DEF a, verdict
<1>4. CASE k.status # 200
  BY <1>1, <1>4, RefuseType DEF Process
<1>5. CASE k.status = 200
  <2>1. CASE Verdict(k, c) # 200 /\ Verdict(k, c) # 304
    <3>1. Process(k, c) = Refuse(a, Verdict(k, c), c)
      BY <1>5, <2>1 DEF Process, a
    <3> QED BY <1>2, <1>3, <3>1, RefuseType
  <2>2. CASE Verdict(k, c) = 304
    <3>1. Process(k, c) = Route(Generate(a, 0), c)
      BY <1>5, <2>2 DEF Process, a
    <3> QED BY <1>2, <3>1, GenerateType, RouteType
  <2>3. CASE Verdict(k, c) = 200
    <3>1. RunCgi(a, c) \in Client
      BY <1>2, <1>5, RunCgiType DEF Processed
    <3>2. SendFile(a, c) \in Client /\ ListDir(a, c) \in Client
      BY <1>2, SendFileType, ListDirType
    <3>3. \/ Process(k, c) = Route(ListDir(a, c), c)
          \/ Process(k, c) = Route(RunCgi(a, c), c)
          \/ Process(k, c) = Route(SendFile(a, c), c)
      BY <1>5, <2>3 DEF Process, a
    <3> QED BY <3>1, <3>2, <3>3, RouteType
  <2> QED BY <2>1, <2>2, <2>3
<1> QED BY <1>4, <1>5

-----------------------------------------------------------------------------
(* The event loop.                                                         *)

\* An open client that epoll is told to watch.
Waits(k) == AwaitsRequest(k) \/ AwaitsBody(k) \/ Answers(k)

\* What Read() or Write() left of a client k that was driven.
Handled(k, o) ==
  /\ o.ret \in BOOLEAN
  /\ o.k.state = k.state /\ o.k.sflags = k.sflags
  /\ o.ret => Completed(o.k)
  /\ ~o.ret => o.k \in Client /\ Waits(o.k)

-----------------------------------------------------------------------------
(* System calls.                                                           *)

(***************************************************************************)
(* recv() returns a length or an error, and no more than was sent.         *)
(***************************************************************************)
LEMMA RecvResultsType ==
  ASSUME NEW c \in Clients, wire[c] \in Seq(Token), NEW r \in RecvResults(c)
  PROVE  r \in SystemResult /\ Moved(r) \in 0..Len(wire[c])
<1>1. Len(wire[c]) \in Nat /\ Min2(Chunk, Len(wire[c])) \in Nat
      /\ Min2(Chunk, Len(wire[c])) <= Len(wire[c])
  BY ChunkAssumption, LenProperties DEF Min2
<1>2. CASE r \in Transferred(1..Min2(Chunk, Len(wire[c])))
  BY <1>1, <1>2 DEF Transferred, Result, SystemResult, Moved
<1>3. CASE r \in {WouldBlock, Result(0, "none"), Broken}
  BY <1>1, <1>3 DEF WouldBlock, Broken, Result, SystemResult, Moved
<1> QED BY <1>2, <1>3 DEF RecvResults, Spuriously

(***************************************************************************)
(* send() returns a length within what it was offered, or an error.        *)
(***************************************************************************)
LEMMA SendResultsType ==
  ASSUME NEW c \in Clients, NEW n \in Nat, NEW r \in SendResults(c, n)
  PROVE  r \in SystemResult /\ -1 <= r.len /\ r.len <= n
<1>1. CASE r \in Transferred(1..n)
  BY <1>1 DEF Transferred, Result, SystemResult
<1>2. CASE r \in {WouldBlock, Result(0, "none"), Broken}
  BY <1>2 DEF WouldBlock, Broken, Result, SystemResult
<1>3. Transferred({0}) = {Result(0, "none")}
  BY DEF Transferred
<1> QED BY <1>1, <1>2, <1>3 DEF SendResults, Spuriously

-----------------------------------------------------------------------------
(* One client.                                                             *)

(***************************************************************************)
(* Driving a stream changes the history of a client and its fault, and     *)
(* nothing that decides what is to be done with it.                        *)
(***************************************************************************)
LEMMA DrivenType ==
  ASSUME NEW k \in Client, NEW S, NEW o, IsOutcome(o, S)
  PROVE  /\ Driven(k, o).k \in Client /\ Driven(k, o).ret = o.ret
         /\ Driven(k, o).k.sflags = k.sflags /\ Driven(k, o).k.state = k.state
         /\ Driven(k, o).k.psp = k.psp /\ Driven(k, o).k.req = k.req
         /\ Driven(k, o).k.cgi = k.cgi
<1> DEFINE owed == k.owed - o.sent
           lost == k.lost + o.lost
           n == [k EXCEPT !.owed = owed, !.lost = lost, !.fault = o.fault]
<1>1. owed \in Int /\ lost \in Nat /\ o.fault \in StreamFault
  BY DEF Client, IsOutcome
<1> HIDE DEF owed, lost
<1>2. /\ n \in Client /\ n.sflags = k.sflags /\ n.state = k.state
      /\ n.psp = k.psp /\ n.req = k.req /\ n.cgi = k.cgi
  BY <1>1 DEF Client
<1> HIDE DEF n
<1> QED BY <1>2 DEF Driven, n, owed, lost

(***************************************************************************)
(* A read of the stream that was selected.                                 *)
(***************************************************************************)
LEMMA StreamReadType ==
  ASSUME NEW k \in Client, AwaitsRequest(k) \/ AwaitsBody(k),
         NEW r \in SystemResult, NEW data \in Seq(Token)
  PROVE  Handled(k, StreamRead(k, r, data))
<1>1. CASE AwaitsRequest(k)
  <2> DEFINE o == RequestRead(k.req, r, data)
             n == [k EXCEPT !.req = o.s]
             d == Driven(n, o)
  <2>1. k.req \in RequestStream(Token)
    BY DEF Client
  <2>2. IsOutcome(o, RequestStream(Token))
    BY <2>1, RequestReadType
  <2>3. o.ret => o.s.state = "CLOSED" \/ RequestReady(o.s)
    BY <2>1, RequestReadDone DEF RequestReady
  <2> HIDE DEF o
  <2>4. /\ n \in Client /\ AwaitsRequest(n) /\ n.req = o.s
        /\ n.state = k.state /\ n.sflags = k.sflags
    BY <1>1, <2>2 DEF IsOutcome, Client, AwaitsRequest
  <2> HIDE DEF n
  <2>5. /\ d.k \in Client /\ d.ret = o.ret /\ AwaitsRequest(d.k) /\ d.k.req = o.s
        /\ d.k.state = k.state /\ d.k.sflags = k.sflags
    BY <2>2, <2>4, DrivenType DEF AwaitsRequest
  <2>6. StreamRead(k, r, data) = d
    BY <1>1 DEF StreamRead, AwaitsRequest, d, n, o
  <2> HIDE DEF d
  <2> QED BY <2>2, <2>3, <2>5, <2>6 DEF Handled, Completed, Waits, IsOutcome
<1>2. CASE AwaitsBody(k)
  <2> DEFINE o == CgiRead(k.cgi, r)
             excess == IF r.len > 0 THEN CgiExcess(k.cgi, data) ELSE << >>
             buffer == k.req.buffer \o excess
             n == [k EXCEPT !.cgi = o.s, !.req.buffer = buffer]
             d == Driven(n, o)
  <2>1. k.cgi \in CgiStream /\ k.req \in RequestStream(Token)
        /\ k.cgi.datac < k.cgi.datal
    BY <1>2 DEF Client, AwaitsBody
  <2>2. IsOutcome(o, CgiStream) /\ (~o.ret => o.s.datac < o.s.datal)
    BY <2>1, CgiReadType, CgiReadShort
  <2>3. excess \in Seq(Token)
    BY <2>1, CgiExcessType, EmptySeq
  <2>4. buffer \in Seq(Token)
    <3> HIDE DEF excess
    <3> QED BY <2>1, <2>3, ConcatType DEF RequestStream
  <2> HIDE DEF o, buffer
  <2>5. [k.req EXCEPT !.buffer = buffer] \in RequestStream(Token)
    BY <2>1, <2>4 DEF RequestStream
  <2>6. /\ n \in Client /\ n.cgi = o.s
        /\ n.sflags = k.sflags /\ n.state = k.state /\ n.psp = k.psp
    BY <2>2, <2>5 DEF IsOutcome, Client
  <2> HIDE DEF n
  <2>7. /\ d.k \in Client /\ d.ret = o.ret /\ d.k.cgi = o.s
        /\ d.k.sflags = k.sflags /\ d.k.state = k.state /\ d.k.psp = k.psp
    BY <2>2, <2>6, DrivenType
  <2>8. StreamRead(k, r, data) = d
    BY <1>2 DEF StreamRead, AwaitsBody, d, n, o, buffer
  <2> HIDE DEF d
  <2> QED
    BY <1>2, <2>2, <2>7, <2>8
       DEF Handled, Completed, Waits, AwaitsBody, IsOutcome
<1> QED BY <1>1, <1>2

(***************************************************************************)
(* A write by the stream that was selected.                                *)
(***************************************************************************)
LEMMA StreamOfferType ==
  ASSUME NEW k \in Client, Answers(k), NEW p, PipeRead(k.cgi, p)
  PROVE  StreamOffer(k, p) \in Nat
<1>1. /\ k.res \in BufferStream /\ k.data \in BufferStream
      /\ k.file \in FileStream /\ k.cgi \in CgiStream
      /\ k.psp \in {"res", "data", "file", "cgi"}
  BY DEF Client, Answers
<1>2. /\ BufferOffer(k.res) \in Nat /\ BufferOffer(k.data) \in Nat
      /\ FileOffer(k.file) \in Nat /\ CgiOffer(k.cgi, p) \in Nat
  BY <1>1, BufferOfferType, FileOfferType, CgiOfferType DEF BufferStream
<1> QED BY <1>1, <1>2 DEF StreamOffer

(***************************************************************************)
(* A write by any of the four streams that answer leaves a client that     *)
(* still answers.                                                          *)
(***************************************************************************)
LEMMA WriteByType ==
  ASSUME NEW k \in Client, Answers(k), NEW p, PipeRead(k.cgi, p),
         NEW r \in SystemResult, -1 <= r.len, r.len <= StreamOffer(k, p)
  PROVE  Handled(k, WriteBy(k, p, r)) /\ Answers(WriteBy(k, p, r).k)
<1>1. /\ k.res \in BufferStream /\ k.data \in BufferStream
      /\ k.file \in FileStream /\ k.cgi \in CgiStream
  BY DEF Client
<1>2. ASSUME NEW n \in Client, NEW S, NEW o, IsOutcome(o, S),
             n.sflags = k.sflags, n.state = k.state, n.psp = k.psp
      PROVE  Handled(k, Driven(n, o)) /\ Answers(Driven(n, o).k)
  <2>1. /\ Driven(n, o).k \in Client /\ Driven(n, o).ret \in BOOLEAN
        /\ Answers(Driven(n, o).k)
        /\ Driven(n, o).k.state = k.state /\ Driven(n, o).k.sflags = k.sflags
    BY <1>2, DrivenType DEF IsOutcome, Answers
  <2> QED BY <2>1 DEF Handled, Completed, Waits
<1>3. CASE k.psp = "res"
  <2> DEFINE o == ResponseWrite(k.res, r)
             n == [k EXCEPT !.res = o.s]
  <2>1. IsOutcome(o, BufferStream)
    BY <1>1, <1>3, ResponseWriteType DEF StreamOffer
  <2> HIDE DEF o
  <2>2. n \in Client /\ n.sflags = k.sflags /\ n.state = k.state /\ n.psp = k.psp
    BY <2>1 DEF Client, IsOutcome
  <2> HIDE DEF n
  <2>3. WriteBy(k, p, r) = Driven(n, o)
    BY <1>3 DEF WriteBy, n, o
  <2> QED BY <1>2, <2>1, <2>2, <2>3
<1>4. CASE k.psp = "data"
  <2> DEFINE o == DataWrite(k.data, r)
             n == [k EXCEPT !.data = o.s]
  <2>1. IsOutcome(o, BufferStream)
    BY <1>1, <1>4, ResponseWriteType DEF StreamOffer, DataWrite
  <2> HIDE DEF o
  <2>2. n \in Client /\ n.sflags = k.sflags /\ n.state = k.state /\ n.psp = k.psp
    BY <2>1 DEF Client, IsOutcome
  <2> HIDE DEF n
  <2>3. WriteBy(k, p, r) = Driven(n, o)
    BY <1>4 DEF WriteBy, n, o
  <2> QED BY <1>2, <2>1, <2>2, <2>3
<1>5. CASE k.psp = "file"
  <2> DEFINE o == FileWrite(k.file, r)
             n == [k EXCEPT !.file = o.s]
  <2>1. IsOutcome(o, FileStream)
    BY <1>1, <1>5, FileWriteType DEF StreamOffer
  <2> HIDE DEF o
  <2>2. n \in Client /\ n.sflags = k.sflags /\ n.state = k.state /\ n.psp = k.psp
    BY <2>1 DEF Client, IsOutcome
  <2> HIDE DEF n
  <2>3. WriteBy(k, p, r) = Driven(n, o)
    BY <1>5 DEF WriteBy, n, o
  <2> QED BY <1>2, <2>1, <2>2, <2>3
<1>6. CASE k.psp = "cgi"
  <2> DEFINE o == CgiWrite(k.cgi, p, r)
             n == [k EXCEPT !.cgi = o.s]
  <2>1. IsOutcome(o, CgiStream)
    BY <1>1, CgiWriteType
  <2> HIDE DEF o
  <2>2. n \in Client /\ n.sflags = k.sflags /\ n.state = k.state /\ n.psp = k.psp
    BY <2>1 DEF Client, IsOutcome
  <2> HIDE DEF n
  <2>3. WriteBy(k, p, r) = Driven(n, o)
    BY <1>6 DEF WriteBy, n, o
  <2> QED BY <1>2, <2>1, <2>2, <2>3
<1> QED BY <1>3, <1>4, <1>5, <1>6 DEF Client, Answers

(***************************************************************************)
(* So does a write that also records whether its send failed.              *)
(***************************************************************************)
LEMMA StreamWriteType ==
  ASSUME NEW k \in Client, Answers(k), NEW p, PipeRead(k.cgi, p),
         NEW r \in SystemResult, -1 <= r.len, r.len <= StreamOffer(k, p)
  PROVE  Handled(k, StreamWrite(k, p, r)) /\ Answers(StreamWrite(k, p, r).k)
<1> DEFINE b == (k.failed \/ (r = Broken /\ WriteBy(k, p, r).ret))
           n == [k EXCEPT !.failed = b]
<1>1. b \in BOOLEAN
  BY DEF Client
<1> HIDE DEF b
<1>2. /\ n \in Client /\ Answers(n) /\ n.cgi = k.cgi
      /\ n.state = k.state /\ n.sflags = k.sflags
  BY <1>1 DEF Client, Answers
<1>3. StreamOffer(n, p) = StreamOffer(k, p)
  BY DEF StreamOffer, Client
<1> HIDE DEF n
<1>4. Handled(n, WriteBy(n, p, r)) /\ Answers(WriteBy(n, p, r).k)
  BY <1>2, <1>3, WriteByType
<1>5. StreamWrite(k, p, r) = WriteBy(n, p, r)
  BY DEF StreamWrite, n, b
<1> QED BY <1>2, <1>4, <1>5 DEF Handled

-----------------------------------------------------------------------------
(* The inductive invariant.                                                *)

\* An open client is in one of four situations.
Controlled == \A c \in Open : Control(cl[c])

(***************************************************************************)
(* EpollInSync, QueueExact and BatchAlive need each other: an event is for *)
(* a client with flags, hence not for one in the queue.  They need         *)
(* Controlled because Poll() and Process() decide from the state what the  *)
(* flags become.                                                           *)
(***************************************************************************)
IInv == TypeOK /\ EpollInSync /\ QueueExact /\ BatchAlive /\ Controlled

(***************************************************************************)
(* The server starts without connections.                                  *)
(***************************************************************************)
LEMMA InitIInv == Init => IInv
<1> SUFFICES ASSUME Init PROVE IInv
  OBVIOUS
<1>1. NewClient(0, 0, 0) \in Client
  BY NewClientType
<1>2. TypeOK
  BY <1>1, EmptySeq DEF Init, TypeOK
<1>3. EpollInSync /\ QueueExact /\ BatchAlive /\ Controlled
  BY DEF Init, EpollInSync, QueueExact, BatchAlive, Controlled, Open
<1> QED BY <1>2, <1>3 DEF IInv

(***************************************************************************)
(* An event whose client has flags is handled: what Dispatch() does with   *)
(* the outcome preserves the invariant.                                    *)
(***************************************************************************)
LEMMA DispatchIInv ==
  ASSUME IInv, pc = "events", NEW c \in Clients, c \in events,
         NEW o, Handled(cl[c], o), Dispatch(c, o),
         wire' \in [Clients -> Seq(Token)], peer' = peer
  PROVE  IInv'
<1> DEFINE q == IF o.ret THEN Poll(o.k) ELSE Polled(o.k, "SKIP")
<1>1. PICK p : /\ p = q
               /\ cl' = [cl EXCEPT ![c] = p.k]
               /\ events' = Remaining(c, p.poll)
               /\ taskq' = Queued(c, p.poll)
               /\ life' = IF p.poll = "CLOSE" THEN [life EXCEPT ![c] = "closed"]
                          ELSE life
               /\ interest' = [interest EXCEPT ![c] =
                                 IF p.poll = "CLOSE" THEN {}
                                 ELSE Registered(cl[c], p.k, interest[c])]
               /\ Continue(p.k, "events")
  BY DEF Dispatch
<1>2. /\ p.k \in Client /\ p.poll \in {"SKIP", "RUN", "CLOSE"}
      /\ p.poll = "RUN" => Queues(p.k)
      /\ p.poll = "SKIP" => Waits(p.k)
  <2>1. CASE o.ret
    <3>1. Answered(Poll(o.k))
      BY <2>1, PollType DEF Handled
    <3> QED BY <1>1, <2>1, <3>1 DEF Answered, Waits
  <2>2. CASE ~o.ret
    BY <1>1, <2>2, PolledType DEF Handled
  <2> QED BY <2>1, <2>2
<1> HIDE DEF q
<1>3. /\ TypeOK /\ EpollInSync /\ QueueExact /\ BatchAlive /\ Controlled
      /\ c # Listener
  BY ClientsAssumption DEF IInv
<1>4. life[c] = "open" /\ cl[c].sflags # {} /\ cl[c] \in Client
  BY <1>3 DEF BatchAlive, TypeOK
<1>5. \A i \in 1..Len(taskq) : taskq[i] # c
  BY <1>3, <1>4 DEF QueueExact
<1>6. /\ \A d \in Clients \ {c} : cl'[d] = cl[d] /\ life'[d] = life[d]
                                  /\ interest'[d] = interest[d]
      /\ cl'[c] = p.k
      /\ life'[c] = (IF p.poll = "CLOSE" THEN "closed" ELSE "open")
  BY <1>1, <1>3, <1>4 DEF TypeOK
<1>7. pc' \in {"events", "undefined"}
  BY <1>1 DEF Continue
<1>8. events' = events \ {c}
  BY <1>1 DEF Remaining
<1>9. p.k.sflags \in {{}, {"RECV"}, {"SEND"}}
  BY <1>2 DEF Client
<1>10. interest'[c] = (IF p.poll = "CLOSE" THEN {} ELSE p.k.sflags)
  <2>1. interest[c] = cl[c].sflags
    BY <1>3, <1>4 DEF EpollInSync
  <2> QED BY <1>1, <1>3, <2>1 DEF TypeOK, Registered
<1>11. TypeOK'
  <2>1. cl' \in [Clients -> Client]
    BY <1>1, <1>2, <1>3 DEF TypeOK
  <2>2. life' \in [Clients -> {"remote", "backlog", "open", "closed"}]
    BY <1>1, <1>3 DEF TypeOK
  <2>3. interest' \in [Clients -> {{}, {"RECV"}, {"SEND"}}]
    <3> DEFINE v == IF p.poll = "CLOSE" THEN {}
                    ELSE Registered(cl[c], p.k, interest[c])
    <3>1. v \in {{}, {"RECV"}, {"SEND"}}
      BY <1>3, <1>9 DEF Registered, TypeOK
    <3>2. interest' = [interest EXCEPT ![c] = v]
      BY <1>1
    <3> HIDE DEF v
    <3> QED BY <1>3, <3>1, <3>2 DEF TypeOK
  <2>4. taskq' \in Seq(Clients)
    BY <1>1, <1>3, AppendProperties DEF TypeOK, Queued
  <2>5. events' \subseteq Clients \cup {Listener}
    BY <1>3, <1>8 DEF TypeOK
  <2> QED BY <1>3, <1>7, <2>1, <2>2, <2>3, <2>4, <2>5 DEF TypeOK
<1>12. EpollInSync'
  BY <1>3, <1>6, <1>10 DEF EpollInSync
<1>13. BatchAlive'
  BY <1>3, <1>6, <1>8 DEF BatchAlive, TypeOK
<1>14. Controlled'
  <2> SUFFICES ASSUME NEW d \in Clients, life'[d] = "open"
               PROVE  Control(cl'[d])
    BY DEF Controlled, Open
  <2>1. CASE d = c
    BY <1>2, <1>6, <2>1 DEF Control, Waits
  <2>2. CASE d # c
    BY <1>3, <1>6, <2>2 DEF Controlled, Open
  <2> QED BY <2>1, <2>2
<1>15. QueueExact'
  <2>1. p.poll = "RUN" => p.k.sflags = {}
    BY <1>2 DEF Queues
  <2>2. p.poll = "SKIP" => p.k.sflags # {}
    BY <1>2 DEF Waits, AwaitsRequest, AwaitsBody, Answers
  <2>3. CASE p.poll # "RUN"
    <3>1. taskq' = taskq
      BY <1>1, <2>3 DEF Queued
    <3>2. ASSUME NEW d \in Clients
          PROVE  life'[d] = "open" /\ cl'[d].sflags = {}
                   <=> life[d] = "open" /\ cl[d].sflags = {}
      <4>1. life'[c] = "open" => cl'[c].sflags # {}
        BY <1>2, <1>6, <2>2, <2>3
      <4> QED BY <1>4, <1>6, <4>1
    <3>3. ASSUME NEW d \in Clients
          PROVE  (\E i \in 1..Len(taskq') : taskq'[i] = d)
                   <=> life'[d] = "open" /\ cl'[d].sflags = {}
      BY <1>3, <3>1, <3>2 DEF QueueExact
    <3>4. \A i, j \in 1..Len(taskq') : taskq'[i] = taskq'[j] => i = j
      BY <1>3, <3>1 DEF QueueExact
    <3> QED BY <1>7, <3>3, <3>4 DEF QueueExact
  <2>4. CASE p.poll = "RUN"
    <3>1. taskq' = Append(taskq, c) /\ taskq \in Seq(Clients)
      BY <1>1, <1>3, <2>4 DEF Queued, TypeOK
    <3>2. /\ Len(taskq') = Len(taskq) + 1 /\ Len(taskq) \in Nat
          /\ \A i \in 1..Len(taskq) : taskq'[i] = taskq[i]
          /\ taskq'[Len(taskq) + 1] = c
      BY <3>1, AppendProperties, LenProperties
    <3>3. ASSUME NEW i \in 1..Len(taskq'), NEW j \in 1..Len(taskq'),
                 taskq'[i] = taskq'[j]
          PROVE  i = j
      <4>1. i = Len(taskq) + 1 \/ i \in 1..Len(taskq)
        BY <3>2
      <4>2. j = Len(taskq) + 1 \/ j \in 1..Len(taskq)
        BY <3>2
      <4> QED BY <1>3, <1>5, <3>2, <3>3, <4>1, <4>2 DEF QueueExact
    <3>4. ASSUME NEW d \in Clients
          PROVE  (\E i \in 1..Len(taskq') : taskq'[i] = d)
                   <=> d = c \/ \E i \in 1..Len(taskq) : taskq[i] = d
      <4>1. Len(taskq) + 1 \in 1..Len(taskq') /\ 1..Len(taskq) \subseteq 1..Len(taskq')
        BY <3>2
      <4>2. \A i \in 1..Len(taskq') : i = Len(taskq) + 1 \/ i \in 1..Len(taskq)
        BY <3>2
      <4> QED BY <3>2, <4>1, <4>2
    <3>5. ASSUME NEW d \in Clients
          PROVE  (\E i \in 1..Len(taskq') : taskq'[i] = d)
                   <=> life'[d] = "open" /\ cl'[d].sflags = {}
      BY <1>3, <1>6, <2>1, <2>4, <3>4 DEF QueueExact
    <3> QED BY <1>7, <3>3, <3>5 DEF QueueExact
  <2> QED BY <2>3, <2>4
<1> QED BY <1>11, <1>12, <1>13, <1>14, <1>15 DEF IInv

(***************************************************************************)
(* recv() and send() results lead to outcomes that Dispatch() can handle.  *)
(***************************************************************************)
LEMMA RecvHandled ==
  ASSUME IInv, NEW c \in Clients, HandleRecv(c)
  PROVE  /\ \E o : Handled(cl[c], o) /\ Dispatch(c, o)
         /\ wire' \in [Clients -> Seq(Token)]
<1>0. TypeOK /\ BatchAlive /\ Controlled
  BY DEF IInv
<1>1. c \in events /\ "RECV" \in cl[c].sflags
  BY DEF HandleRecv
<1>2. PICK r \in RecvResults(c) :
        /\ wire' = [wire EXCEPT ![c] = Dropped(wire[c], Moved(r))]
        /\ Dispatch(c, StreamRead(cl[c], r, SubSeq(wire[c], 1, Moved(r))))
  BY DEF HandleRecv
<1>3. wire[c] \in Seq(Token) /\ cl[c] \in Client
  BY <1>0 DEF TypeOK
<1>4. r \in SystemResult /\ Moved(r) \in 0..Len(wire[c]) /\ Moved(r) \in Nat
  BY <1>3, RecvResultsType
<1> DEFINE data == SubSeq(wire[c], 1, Moved(r))
<1>5. data \in Seq(Token) /\ Dropped(wire[c], Moved(r)) \in Seq(Token)
  <2>1. data \in Seq(Token)
    BY <1>3, <1>4, PrefixType
  <2> QED BY <1>3, <1>4, <2>1, DroppedType
<1> HIDE DEF data
<1>6. AwaitsRequest(cl[c]) \/ AwaitsBody(cl[c])
  <2>1. life[c] = "open"
    BY <1>0, <1>1, ClientsAssumption DEF BatchAlive
  <2> QED BY <1>0, <1>1, <2>1 DEF Controlled, Open, Control, Answers, Queues
<1>7. Handled(cl[c], StreamRead(cl[c], r, data))
  BY <1>3, <1>4, <1>5, <1>6, StreamReadType
<1>8. wire' \in [Clients -> Seq(Token)]
  BY <1>0, <1>2, <1>5 DEF TypeOK
<1> QED BY <1>2, <1>7, <1>8 DEF data

(***************************************************************************)
(* The same of a send: the client answers, and what its stream offers      *)
(* bounds the result.                                                      *)
(***************************************************************************)
LEMMA SendHandled ==
  ASSUME IInv, NEW c \in Clients, HandleSend(c)
  PROVE  \E o : Handled(cl[c], o) /\ Dispatch(c, o)
<1>0. TypeOK /\ BatchAlive /\ Controlled
  BY DEF IInv
<1>1. c \in events /\ "SEND" \in cl[c].sflags
  BY DEF HandleSend
<1>2. PICK p \in IF cl[c].psp = "cgi" THEN PipeReads(cl[c].cgi)
                 ELSE Transferred({0}) :
      \E r \in SendResults(c, StreamOffer(cl[c], p)) :
        Dispatch(c, StreamWrite(cl[c], p, r))
  BY DEF HandleSend
<1>3. PICK r \in SendResults(c, StreamOffer(cl[c], p)) :
        Dispatch(c, StreamWrite(cl[c], p, r))
  BY <1>2
<1>4. cl[c] \in Client /\ cl[c].cgi \in CgiStream
  BY <1>0 DEF TypeOK, Client
<1>5. PipeRead(cl[c].cgi, p)
  <2>1. CASE cl[c].psp = "cgi"
    BY <1>2, <1>4, <2>1, PipeReadsType
  <2>2. CASE cl[c].psp # "cgi"
    <3>1. p = Result(0, "none")
      BY <1>2, <2>2 DEF Transferred
    <3>2. Len(cl[c].cgi.pipe) \in Nat
      BY <1>4, LenProperties DEF CgiStream
    <3> QED BY <3>1, <3>2 DEF Result, SystemResult, PipeRead
  <2> QED BY <2>1, <2>2
<1>6. Answers(cl[c])
  <2>1. life[c] = "open"
    BY <1>0, <1>1, ClientsAssumption DEF BatchAlive
  <2> QED
    BY <1>0, <1>1, <2>1 DEF Controlled, Open, Control, AwaitsRequest, AwaitsBody, Queues
<1>7. StreamOffer(cl[c], p) \in Nat
  BY <1>4, <1>5, <1>6, StreamOfferType
<1>8. r \in SystemResult /\ -1 <= r.len /\ r.len <= StreamOffer(cl[c], p)
  BY <1>7, SendResultsType
<1>9. Handled(cl[c], StreamWrite(cl[c], p, r))
  BY <1>4, <1>5, <1>6, <1>8, StreamWriteType
<1> QED BY <1>3, <1>9

(***************************************************************************)
(* A task takes the client at the head of the queue, which epoll ignores,  *)
(* and gives it back to epoll.                                             *)
(***************************************************************************)
LEMMA RunTaskIInv ==
  ASSUME IInv, RunTask
  PROVE  IInv'
<1>1. /\ pc = "tasks" /\ taskq # << >> /\ pc' = "tasks"
      /\ taskq' = Tail(taskq)
      /\ UNCHANGED <<life, events, wire, peer>>
  BY DEF RunTask
<1>2. PICK c \in {Head(taskq)} : \E cfg \in Configs :
        \E k \in {Process(Accept(cl[c]), cfg)} :
          /\ cl' = [cl EXCEPT ![c] = k]
          /\ interest' = [interest EXCEPT ![c] = Registered(cl[c], k, interest[c])]
  BY DEF RunTask
<1>a. PICK cfg \in Configs : \E k \in {Process(Accept(cl[c]), cfg)} :
        /\ cl' = [cl EXCEPT ![c] = k]
        /\ interest' = [interest EXCEPT ![c] = Registered(cl[c], k, interest[c])]
  BY <1>2
<1>b. PICK k \in {Process(Accept(cl[c]), cfg)} :
        /\ cl' = [cl EXCEPT ![c] = k]
        /\ interest' = [interest EXCEPT ![c] = Registered(cl[c], k, interest[c])]
  BY <1>a
<1>3. /\ TypeOK /\ EpollInSync /\ QueueExact /\ BatchAlive /\ Controlled
  BY DEF IInv
<1>4. taskq \in Seq(Clients) /\ Len(taskq) \in Nat /\ Len(taskq) > 0
      /\ c = taskq[1] /\ c \in Clients
  BY <1>1, <1>2, <1>3, HeadTailProperties, EmptySeq, LenProperties DEF TypeOK
<1>5. life[c] = "open" /\ cl[c].sflags = {} /\ cl[c] \in Client
  <2>1. 1 \in 1..Len(taskq)
    BY <1>4
  <2> QED BY <1>3, <1>4, <2>1 DEF QueueExact, TypeOK
<1>6. k \in Client /\ (AwaitsBody(k) \/ Answers(k))
  <2>1. Queues(cl[c])
    BY <1>3, <1>4, <1>5
       DEF Controlled, Open, Control, AwaitsRequest, AwaitsBody, Answers
  <2> QED BY <1>b, <1>5, <2>1, AcceptType, ProcessType
<1>7. k.sflags # {} /\ k.sflags \in {{"RECV"}, {"SEND"}}
  BY <1>6 DEF AwaitsBody, Answers
<1>8. /\ \A d \in Clients \ {c} : cl'[d] = cl[d] /\ interest'[d] = interest[d]
      /\ cl'[c] = k /\ interest'[c] = k.sflags
  BY <1>b, <1>3, <1>4, <1>5, <1>7 DEF TypeOK, Registered
<1>9. TypeOK'
  <2>1. cl' \in [Clients -> Client]
    BY <1>b, <1>3, <1>6 DEF TypeOK
  <2>2. interest' \in [Clients -> {{}, {"RECV"}, {"SEND"}}]
    BY <1>b, <1>3, <1>5, <1>7 DEF TypeOK, Registered
  <2>3. taskq' \in Seq(Clients)
    BY <1>1, <1>4, HeadTailProperties
  <2> QED BY <1>1, <1>3, <2>1, <2>2, <2>3 DEF TypeOK
<1>10. EpollInSync'
  BY <1>1, <1>3, <1>5, <1>8 DEF EpollInSync
<1>11. BatchAlive'
  BY <1>1, <1>3, <1>7, <1>8 DEF BatchAlive, TypeOK
<1>12. Controlled'
  BY <1>1, <1>3, <1>6, <1>8 DEF Controlled, Open, Control
<1>13. QueueExact'
  <2>1. /\ Len(taskq') = Len(taskq) - 1
        /\ \A i \in 1..Len(taskq') : taskq'[i] = taskq[i + 1]
    BY <1>1, <1>4, HeadTailProperties
  <2>2. ASSUME NEW i \in 1..Len(taskq'), NEW j \in 1..Len(taskq'),
               taskq'[i] = taskq'[j]
        PROVE  i = j
    <3>1. i + 1 \in 1..Len(taskq) /\ j + 1 \in 1..Len(taskq)
      BY <1>4, <2>1
    <3>2. taskq[i + 1] = taskq[j + 1]
      BY <2>1, <2>2
    <3>3. i + 1 = j + 1
      BY <1>3, <3>1, <3>2 DEF QueueExact
    <3> QED BY <3>3
  <2>3. ASSUME NEW d \in Clients
        PROVE  (\E i \in 1..Len(taskq') : taskq'[i] = d)
                 <=> d # c /\ \E i \in 1..Len(taskq) : taskq[i] = d
    <3>1. ASSUME NEW i \in 1..Len(taskq'), taskq'[i] = d
          PROVE  d # c /\ \E j \in 1..Len(taskq) : taskq[j] = d
      <4>1. i + 1 \in 1..Len(taskq) /\ 1 \in 1..Len(taskq) /\ i + 1 # 1
        BY <1>4, <2>1
      <4>2. taskq[i + 1] = d
        BY <2>1, <3>1
      <4> QED BY <1>3, <1>4, <4>1, <4>2 DEF QueueExact
    <3>2. ASSUME d # c, NEW j \in 1..Len(taskq), taskq[j] = d
          PROVE  \E i \in 1..Len(taskq') : taskq'[i] = d
      <4>1. j - 1 \in 1..Len(taskq') /\ (j - 1) + 1 = j
        BY <1>4, <2>1, <3>2
      <4>2. taskq'[j - 1] = d
        BY <2>1, <3>2, <4>1
      <4> QED BY <4>1, <4>2
    <3> QED BY <3>1, <3>2
  <2>4. ASSUME NEW d \in Clients
        PROVE  (\E i \in 1..Len(taskq') : taskq'[i] = d)
                 <=> life'[d] = "open" /\ cl'[d].sflags = {}
    BY <1>1, <1>3, <1>5, <1>7, <1>8, <2>3 DEF QueueExact
  <2> QED BY <1>1, <2>2, <2>4 DEF QueueExact
<1> QED BY <1>9, <1>10, <1>11, <1>12, <1>13 DEF IInv

(***************************************************************************)
(* Accepting makes a client that waits for a request.                      *)
(***************************************************************************)
LEMMA AcceptClientIInv ==
  ASSUME IInv, NEW c \in Clients, AcceptClient(c)
  PROVE  IInv'
<1>1. PICK postl \in Garbage, datac \in Garbage, datal \in Garbage :
        cl' = [cl EXCEPT ![c] = NewClient(postl, datac, datal)]
  BY DEF AcceptClient
<1>2. /\ life[c] = "backlog" /\ life' = [life EXCEPT ![c] = "open"]
      /\ interest' = [interest EXCEPT ![c] = cl'[c].sflags]
      /\ UNCHANGED <<pc, events, taskq, wire, peer>>
  BY DEF AcceptClient
<1> DEFINE k == NewClient(postl, datac, datal)
<1>3. k \in Client /\ AwaitsRequest(k)
  BY GarbageAssumption, NewClientType
<1> HIDE DEF k
<1>4. /\ TypeOK /\ EpollInSync /\ QueueExact /\ BatchAlive /\ Controlled
  BY DEF IInv
<1>5. cl' = [cl EXCEPT ![c] = k]
  BY <1>1 DEF k
<1>6. /\ \A d \in Clients \ {c} : /\ cl'[d] = cl[d] /\ life'[d] = life[d]
                                  /\ interest'[d] = interest[d]
      /\ cl'[c] = k /\ life'[c] = "open" /\ interest'[c] = {"RECV"}
      /\ k.sflags = {"RECV"}
  BY <1>2, <1>3, <1>4, <1>5 DEF TypeOK, AwaitsRequest
<1>7. TypeOK'
  BY <1>2, <1>3, <1>4, <1>5, <1>6 DEF TypeOK
<1>8. EpollInSync'
  BY <1>4, <1>6 DEF EpollInSync
<1>b. BatchAlive'
  <2> SUFFICES ASSUME NEW d \in events \ {Listener}
               PROVE  life'[d] = "open" /\ cl'[d].sflags # {}
    BY <1>2 DEF BatchAlive
  <2>1. life[d] = "open" /\ cl[d].sflags # {} /\ d \in Clients
    BY <1>4 DEF BatchAlive, TypeOK
  <2> QED BY <1>2, <1>6, <2>1
<1>a. QueueExact'
  <2>1. ASSUME NEW d \in Clients
        PROVE  life'[d] = "open" /\ cl'[d].sflags = {}
                 <=> life[d] = "open" /\ cl[d].sflags = {}
    BY <1>2, <1>6
  <2> QED BY <1>2, <1>4, <2>1 DEF QueueExact
<1>9. Controlled'
  BY <1>3, <1>4, <1>6 DEF Controlled, Open, Control
<1> QED BY <1>7, <1>8, <1>a, <1>b, <1>9 DEF IInv

(***************************************************************************)
(* A step that leaves every client, its registration and the set of open   *)
(* connections alone has nothing to do for the other two conjuncts.        *)
(***************************************************************************)
LEMMA QuietIInv ==
  ASSUME IInv, UNCHANGED <<cl, interest, taskq>>, TypeOK',
         pc' = "wait" => taskq = << >>,
         \A d \in Clients : life'[d] = "open" <=> life[d] = "open",
         \A d \in events' \ {Listener} : life[d] = "open" /\ cl[d].sflags # {}
  PROVE  IInv'
<1>1. EpollInSync /\ Controlled /\ QueueExact
  BY DEF IInv
<1>2. EpollInSync'
  BY <1>1 DEF EpollInSync
<1>3. Controlled'
  BY <1>1 DEF Controlled, Open
<1>4. BatchAlive'
  BY DEF BatchAlive, TypeOK
<1>5. QueueExact'
  <2>1. ASSUME NEW d \in Clients
        PROVE  life'[d] = "open" /\ cl'[d].sflags = {}
                 <=> life[d] = "open" /\ cl[d].sflags = {}
    OBVIOUS
  <2> QED BY <1>1, <2>1 DEF QueueExact
<1> QED BY <1>2, <1>3, <1>4, <1>5 DEF IInv

(***************************************************************************)
(* Every step preserves the invariant.                                     *)
(***************************************************************************)
LEMMA NextIInv == IInv /\ [Next]_vars => IInv'
<1> SUFFICES ASSUME IInv, [Next]_vars PROVE IInv'
  OBVIOUS
<1>0. /\ TypeOK /\ EpollInSync /\ QueueExact /\ BatchAlive /\ Controlled
  BY DEF IInv
<1>1. ASSUME NEW c \in Clients, HandleRecv(c)
      PROVE  IInv'
  <2>1. pc = "events" /\ c \in events /\ peer' = peer
    BY <1>1 DEF HandleRecv
  <2> QED BY <1>1, <2>1, RecvHandled, DispatchIInv
<1>2. ASSUME NEW c \in Clients, HandleSend(c)
      PROVE  IInv'
  <2>1. pc = "events" /\ c \in events /\ wire' = wire /\ peer' = peer
    BY <1>2 DEF HandleSend
  <2>2. wire' \in [Clients -> Seq(Token)]
    BY <1>0, <2>1 DEF TypeOK
  <2> QED BY <1>2, <2>1, <2>2, SendHandled, DispatchIInv
<1>3. ASSUME NEW c \in Clients, AcceptRefused(c)
      PROVE  IInv'
  <2>1. /\ UNCHANGED <<pc, cl, interest, taskq, wire, peer>>
        /\ events' = events \ {Listener} /\ life[c] = "backlog"
        /\ life' = [life EXCEPT ![c] = "closed"]
    BY <1>3 DEF AcceptRefused
  <2>2. \A d \in Clients : life'[d] = "open" <=> life[d] = "open"
    BY <1>0, <2>1 DEF TypeOK
  <2>3. TypeOK'
    BY <1>0, <2>1 DEF TypeOK
  <2>4. /\ pc' = "wait" => taskq = << >>
        /\ \A d \in events' \ {Listener} : life[d] = "open" /\ cl[d].sflags # {}
    BY <1>0, <2>1 DEF BatchAlive, QueueExact
  <2> QED BY <2>1, <2>2, <2>3, <2>4, QuietIInv
<1>4. ASSUME NEW c \in Clients, Connect(c)
      PROVE  IInv'
  <2>1. /\ UNCHANGED <<pc, cl, interest, events, taskq, peer>>
        /\ life[c] = "remote" /\ life' = [life EXCEPT ![c] = "backlog"]
    BY <1>4 DEF Connect
  <2>2. PICK stream \in Traffic : wire' = [wire EXCEPT ![c] = stream]
    BY <1>4 DEF Connect
  <2>3. wire' \in [Clients -> Seq(Token)]
    BY <1>0, <2>2, TrafficAssumption DEF TypeOK
  <2>4. \A d \in Clients : life'[d] = "open" <=> life[d] = "open"
    BY <1>0, <2>1 DEF TypeOK
  <2>5. TypeOK'
    BY <1>0, <2>1, <2>3 DEF TypeOK
  <2>6. /\ pc' = "wait" => taskq = << >>
        /\ \A d \in events' \ {Listener} : life[d] = "open" /\ cl[d].sflags # {}
    BY <1>0, <2>1 DEF BatchAlive, QueueExact
  <2> QED BY <2>1, <2>4, <2>5, <2>6, QuietIInv
<1>5. ASSUME NEW c \in Clients, PeerClose(c)
      PROVE  IInv'
  <2>1. /\ UNCHANGED <<pc, cl, life, interest, events, taskq, wire>>
        /\ peer' = [peer EXCEPT ![c] = "down"]
    BY <1>5 DEF PeerClose
  <2>2. TypeOK'
    BY <1>0, <2>1 DEF TypeOK
  <2>3. /\ pc' = "wait" => taskq = << >>
        /\ \A d \in events' \ {Listener} : life[d] = "open" /\ cl[d].sflags # {}
    BY <1>0, <2>1 DEF BatchAlive, QueueExact
  <2> QED BY <2>1, <2>2, <2>3, QuietIInv
<1>6. CASE AcceptDone \/ EventsDone \/ TasksDone
  <2>1. /\ UNCHANGED <<cl, life, interest, taskq, wire, peer>>
        /\ events' \subseteq events
        /\ pc' \in {"wait", "events", "tasks"}
        /\ pc' = "wait" => taskq = << >>
    BY <1>6 DEF AcceptDone, EventsDone, TasksDone
  <2>2. TypeOK'
    BY <1>0, <2>1 DEF TypeOK
  <2>3. /\ pc' = "wait" => taskq = << >>
        /\ \A d \in events' \ {Listener} : life[d] = "open" /\ cl[d].sflags # {}
    BY <1>0, <2>1 DEF BatchAlive, QueueExact
  <2> QED BY <2>1, <2>2, <2>3, QuietIInv
<1>7. CASE EpollWait
  <2>1. \A c \in events' \ {Listener} : c \in Open /\ Ready(c)
    BY <1>7, ClientsAssumption DEF EpollWait
  <2>2. events' \subseteq Clients \cup {Listener}
    BY <1>7 DEF EpollWait, Open
  <2>3. UNCHANGED <<cl, life, interest, taskq, wire, peer>> /\ pc' = "events"
    BY <1>7 DEF EpollWait
  <2>4. TypeOK'
    BY <1>0, <2>2, <2>3 DEF TypeOK
  <2>5. \A c \in events' \ {Listener} : life[c] = "open" /\ cl[c].sflags # {}
    BY <1>0, <2>1 DEF EpollInSync, Ready, Open
  <2> QED BY <2>3, <2>4, <2>5, QuietIInv
<1>8. CASE UNCHANGED vars
  <2>1. UNCHANGED <<pc, cl, life, interest, events, taskq, wire, peer>>
    BY <1>8 DEF vars
  <2>2. TypeOK'
    BY <1>0, <2>1 DEF TypeOK
  <2>3. /\ pc' = "wait" => taskq = << >>
        /\ \A d \in events' \ {Listener} : life[d] = "open" /\ cl[d].sflags # {}
    BY <1>0, <2>1 DEF BatchAlive, QueueExact
  <2> QED BY <2>1, <2>2, <2>3, QuietIInv
<1> QED
  BY <1>1, <1>2, <1>3, <1>4, <1>5, <1>6, <1>7, <1>8, AcceptClientIInv, RunTaskIInv
     DEF Next, Loop

-----------------------------------------------------------------------------
(* The theorems.                                                           *)

(***************************************************************************)
(* The inductive invariant holds in every reachable state.                 *)
(***************************************************************************)
THEOREM Invariant == Spec => []IInv
BY InitIInv, NextIInv, PTL DEF Spec

(***************************************************************************)
(* Every client, stream and queue keeps its type: no index, length or      *)
(* position leaves its range, whatever the remote ends and the system      *)
(* calls do.                                                               *)
(***************************************************************************)
THEOREM TypeCorrect == Spec => []TypeOK
<1>1. IInv => TypeOK
  BY DEF IInv
<1> QED BY <1>1, Invariant, PTL

(***************************************************************************)
(* What epoll watches is what the client objects wait for (main.cpp:312,   *)
(* 339-345, 405, 411-417).                                                 *)
(***************************************************************************)
THEOREM EpollCorrect == Spec => []EpollInSync
<1>1. IInv => EpollInSync
  BY DEF IInv
<1> QED BY <1>1, Invariant, PTL

(***************************************************************************)
(* The task queue holds the clients epoll ignores, each once, and is empty *)
(* when the loop waits (main.cpp:316-318, 403-420).                        *)
(***************************************************************************)
THEOREM QueueCorrect == Spec => []QueueExact
<1>1. IInv => QueueExact
  BY DEF IInv
<1> QED BY <1>1, Invariant, PTL

(***************************************************************************)
(* No event is handled for a client that an earlier event of the batch     *)
(* deleted or queued (main.cpp:262, 309-324, 334).                         *)
(***************************************************************************)
THEOREM BatchCorrect == Spec => []BatchAlive
<1>1. IInv => BatchAlive
  BY DEF IInv
<1> QED BY <1>1, Invariant, PTL

-----------------------------------------------------------------------------
(* The event loop implements Service: every step of the loop is a step of  *)
(* Service, or one that Service does not see.                              *)

\* Where an open connection with client k is, as Service sees it.
ClientPhase(k) ==
  CASE k.state = "RECV_REQUEST" -> IF k.sflags = {} THEN "queued" ELSE "idle"
    [] k.state = "RECV_DATA" -> "receiving"
    [] OTHER -> "answering"

phases == [c \in Clients |-> ServicePhase(c)]

(***************************************************************************)
(* The four situations of an open client are four phases.                  *)
(***************************************************************************)
LEMMA ControlPhase ==
  ASSUME NEW k \in Client
  PROVE  /\ AwaitsRequest(k) => ClientPhase(k) = "idle"
         /\ AwaitsBody(k) => ClientPhase(k) = "receiving"
         /\ Answers(k) => ClientPhase(k) = "answering"
         /\ Queues(k) => ClientPhase(k) = "queued"
BY DEF ClientPhase, AwaitsRequest, AwaitsBody, Answers, Queues

(***************************************************************************)
(* The phase of an open connection is that of its client; another's is its *)
(* life.                                                                   *)
(***************************************************************************)
LEMMA OpenPhase ==
  ASSUME NEW c \in Clients
  PROVE  /\ life[c] = "open" => ServicePhase(c) = ClientPhase(cl[c])
         /\ life[c] # "open" => ServicePhase(c) = life[c]
BY DEF ServicePhase, ClientPhase

(***************************************************************************)
(* A step that changes one connection changes one phase.                   *)
(***************************************************************************)
LEMMA OnePhase ==
  ASSUME NEW c \in Clients, \A d \in Clients \ {c} : cl'[d] = cl[d] /\ life'[d] = life[d]
  PROVE  /\ phases' = [phases EXCEPT ![c] = ServicePhase(c)']
         /\ ServicePhase(c)' = ServicePhase(c) => phases' = phases
<1>1. \A d \in Clients \ {c} : ServicePhase(d)' = ServicePhase(d)
  BY DEF ServicePhase
<1>2. phases' = [phases EXCEPT ![c] = ServicePhase(c)']
  BY <1>1 DEF phases
<1>3. ASSUME ServicePhase(c)' = ServicePhase(c)
      PROVE  phases' = phases
  BY <1>1, <1>3 DEF phases
<1> QED BY <1>2, <1>3

(***************************************************************************)
(* What the loop does for a client after a read or a write is a step of    *)
(* that connection: its request is complete, its body is, its response is  *)
(* out, or the connection ends.                                            *)
(***************************************************************************)
LEMMA DispatchService ==
  ASSUME IInv, NEW c \in Clients, c \in events, c # Listener,
         NEW o, Handled(cl[c], o), Dispatch(c, o)
  PROVE  [Service!Next]_(Service!svars)
<1> DEFINE q == IF o.ret THEN Poll(o.k) ELSE Polled(o.k, "SKIP")
<1>1. PICK p : /\ p = q
               /\ cl' = [cl EXCEPT ![c] = p.k]
               /\ events' = Remaining(c, p.poll)
               /\ taskq' = Queued(c, p.poll)
               /\ life' = IF p.poll = "CLOSE" THEN [life EXCEPT ![c] = "closed"]
                          ELSE life
               /\ interest' = [interest EXCEPT ![c] =
                                 IF p.poll = "CLOSE" THEN {}
                                 ELSE Registered(cl[c], p.k, interest[c])]
               /\ Continue(p.k, "events")
  BY DEF Dispatch
<1>2. /\ life[c] = "open" /\ cl[c].sflags # {} /\ cl[c] \in Client
      /\ life \in [Clients -> {"remote", "backlog", "open", "closed"}]
      /\ cl \in [Clients -> Client]
  BY DEF IInv, BatchAlive, TypeOK
<1>3. Waits(cl[c])
  BY <1>2 DEF IInv, Controlled, Open, Control, Queues, Waits
<1>4. /\ \A d \in Clients \ {c} : cl'[d] = cl[d] /\ life'[d] = life[d]
      /\ cl'[c] = p.k
      /\ life'[c] = (IF p.poll = "CLOSE" THEN "closed" ELSE "open")
  BY <1>1, <1>2
<1>5. /\ phases' = [phases EXCEPT ![c] = ServicePhase(c)']
      /\ ServicePhase(c)' = ServicePhase(c) => phases' = phases
  BY <1>4, OnePhase
<1>6. /\ ServicePhase(c) = ClientPhase(cl[c])
      /\ p.poll = "CLOSE" => ServicePhase(c)' = "closed"
      /\ p.poll # "CLOSE" => ServicePhase(c)' = ClientPhase(p.k)
  BY <1>2, <1>4 DEF ServicePhase, ClientPhase
<1>7. phases[c] = ServicePhase(c) /\ DOMAIN phases = Clients
  BY DEF phases
<1>8. ClientPhase(cl[c]) \in {"idle", "receiving", "answering"}
  BY <1>2, <1>3, ControlPhase DEF Waits
<1>9. CASE ~o.ret
  <2>1. p.k = o.k /\ p.poll = "SKIP"
    BY <1>1, <1>9, PolledType
  <2>2. ClientPhase(p.k) = ClientPhase(cl[c])
    BY <2>1 DEF Handled, ClientPhase
  <2>3. phases' = phases
    BY <1>5, <1>6, <2>1, <2>2
  <2>4. taskq' = taskq
    BY <1>1, <2>1 DEF Queued
  <2> QED BY <2>3, <2>4 DEF Service!svars, phases
<1>10. CASE o.ret
  <2>1. /\ p = Poll(o.k) /\ Completed(o.k)
        /\ o.k.state = cl[c].state /\ o.k.sflags = cl[c].sflags
    BY <1>1, <1>10 DEF Handled
  <2>2. Answered(p)
    BY <2>1, PollType
  <2>3. CASE p.poll = "CLOSE"
    <3>1. phases' = [phases EXCEPT ![c] = "closed"] /\ taskq' = taskq
      BY <1>1, <1>5, <1>6, <2>3 DEF Queued
    <3>2. Service!Close(c)
      BY <1>6, <1>7, <1>8, <3>1 DEF Service!Close, Service!Move, phases
    <3> QED BY <3>2 DEF Service!Next
  <2>4. CASE p.poll = "RUN"
    <3>1. ServicePhase(c)' = "queued"
      BY <1>6, <2>2, <2>4, ControlPhase DEF Answered
    <3>2. phases' = [phases EXCEPT ![c] = "queued"] /\ taskq' = Append(taskq, c)
      BY <1>1, <1>5, <2>4, <3>1 DEF Queued
    <3>3. phases[c] \in {"idle", "answering"}
      <4>1. cl[c].state # "RECV_DATA"
        BY <2>1, <2>4, PollNext
      <4>2. ClientPhase(cl[c]) # "receiving"
        BY <1>2, <4>1 DEF ClientPhase
      <4> QED BY <1>6, <1>7, <1>8, <4>2
    <3>4. Service!Enqueue(c)
      BY <3>2, <3>3 DEF Service!Enqueue, Service!Move, phases
    <3> QED BY <3>4 DEF Service!Next
  <2>5. CASE p.poll = "SKIP"
    <3>1. taskq' = taskq /\ ServicePhase(c)' = ClientPhase(p.k)
      BY <1>1, <1>6, <2>5 DEF Queued
    <3>2. CASE ClientPhase(cl[c]) = "idle"
      <4>1. cl[c].state = "RECV_REQUEST"
        BY <1>2, <3>2 DEF ClientPhase
      <4> QED BY <2>1, <2>5, <4>1, PollNext
    <3>3. CASE ClientPhase(cl[c]) = "receiving"
      <4>1. cl[c].state = "RECV_DATA"
        BY <1>2, <3>3 DEF ClientPhase
      <4>2. ClientPhase(p.k) = "answering"
        BY <2>1, <2>5, <4>1, PollNext DEF ClientPhase
      <4>3. Service!BodyComplete(c)
        BY <1>5, <1>6, <1>7, <3>1, <3>3, <4>2
           DEF Service!BodyComplete, Service!Move, phases
      <4> QED BY <4>3 DEF Service!Next
    <3>4. CASE ClientPhase(cl[c]) = "answering"
      <4>1. ClientPhase(p.k) \in {"idle", "answering"}
        BY <2>2, <2>5, ControlPhase DEF Answered
      <4>2. CASE ClientPhase(p.k) = "idle"
        <5>1. Service!Finish(c)
          BY <1>5, <1>6, <1>7, <3>1, <3>4, <4>2
             DEF Service!Finish, Service!Move, phases
        <5> QED BY <5>1 DEF Service!Next
      <4>3. CASE ClientPhase(p.k) = "answering"
        <5>1. phases' = phases
          BY <1>5, <1>6, <3>1, <3>4, <4>3
        <5> QED BY <3>1, <5>1 DEF Service!svars, phases
      <4> QED BY <4>1, <4>2, <4>3
    <3> QED BY <1>8, <3>2, <3>3, <3>4
  <2> QED BY <2>2, <2>3, <2>4, <2>5 DEF Answered
<1> QED BY <1>9, <1>10

(***************************************************************************)
(* A task takes the head of the queue.                                     *)
(***************************************************************************)
LEMMA RunTaskService ==
  ASSUME IInv, RunTask
  PROVE  Service!Next
<1>1. taskq # << >> /\ taskq' = Tail(taskq) /\ life' = life
  BY DEF RunTask
<1>a. PICK c \in {Head(taskq)} : \E cfg \in Configs :
        \E k \in {Process(Accept(cl[c]), cfg)} : cl' = [cl EXCEPT ![c] = k]
  BY DEF RunTask
<1>b. PICK cfg \in Configs :
        \E k \in {Process(Accept(cl[c]), cfg)} : cl' = [cl EXCEPT ![c] = k]
  BY <1>a
<1>2. PICK k \in {Process(Accept(cl[c]), cfg)} : cl' = [cl EXCEPT ![c] = k]
  BY <1>b
<1>3. /\ TypeOK /\ QueueExact /\ Controlled
  BY DEF IInv
<1>4. taskq \in Seq(Clients) /\ Len(taskq) \in Nat /\ Len(taskq) > 0
      /\ c = taskq[1] /\ c \in Clients
  BY <1>1, <1>a, <1>3, HeadTailProperties, EmptySeq, LenProperties DEF TypeOK
<1>5. life[c] = "open" /\ cl[c].sflags = {} /\ cl[c] \in Client
  <2>1. 1 \in 1..Len(taskq)
    BY <1>4
  <2> QED BY <1>3, <1>4, <2>1 DEF QueueExact, TypeOK
<1>6. Queues(cl[c])
  BY <1>3, <1>4, <1>5
     DEF Controlled, Open, Control, AwaitsRequest, AwaitsBody, Answers
<1>7. k \in Client /\ (AwaitsBody(k) \/ Answers(k))
  BY <1>2, <1>5, <1>6, AcceptType, ProcessType
<1>8. /\ cl' = [cl EXCEPT ![c] = k] /\ cl \in [Clients -> Client]
  BY <1>2, <1>3 DEF TypeOK
<1>9. \A d \in Clients \ {c} : cl'[d] = cl[d] /\ life'[d] = life[d]
  BY <1>1, <1>8
<1>10. phases' = [phases EXCEPT ![c] = ServicePhase(c)']
  BY <1>4, <1>9, OnePhase
<1>11. ServicePhase(c) = "queued"
  BY <1>4, <1>5, <1>6, ControlPhase, OpenPhase
<1>12. ServicePhase(c)' \in {"answering", "receiving"}
  <2>1. cl'[c] = k /\ life'[c] = "open"
    BY <1>1, <1>4, <1>5, <1>8
  <2>2. ServicePhase(c)' = ClientPhase(k)
    BY <2>1 DEF ServicePhase, ClientPhase
  <2> QED BY <1>7, <2>2, ControlPhase
<1>13. phases[c] = "queued"
  BY <1>4, <1>11 DEF phases
<1>14. Service!Take(c)
  BY <1>1, <1>a, <1>10, <1>12, <1>13 DEF Service!Take, Service!Move, phases
<1> QED BY <1>4, <1>14 DEF Service!Next

(***************************************************************************)
(* Every step of the loop and of the remote ends.                          *)
(***************************************************************************)
LEMMA StepService ==
  ASSUME IInv, [Next]_vars
  PROVE  [Service!Next]_(Service!svars)
<1>0. /\ TypeOK /\ BatchAlive /\ Controlled
  BY DEF IInv
<1>1. ASSUME NEW c \in Clients, HandleRecv(c)
      PROVE  [Service!Next]_(Service!svars)
  <2>1. c \in events /\ c # Listener
    BY <1>1, ClientsAssumption DEF HandleRecv
  <2>2. PICK o : Handled(cl[c], o) /\ Dispatch(c, o)
    BY <1>1, RecvHandled
  <2> QED BY <2>1, <2>2, DispatchService
<1>2. ASSUME NEW c \in Clients, HandleSend(c)
      PROVE  [Service!Next]_(Service!svars)
  <2>1. c \in events /\ c # Listener
    BY <1>2, ClientsAssumption DEF HandleSend
  <2>2. PICK o : Handled(cl[c], o) /\ Dispatch(c, o)
    BY <1>2, SendHandled
  <2> QED BY <2>1, <2>2, DispatchService
<1>3. ASSUME NEW c \in Clients, NEW to,
             life' = [life EXCEPT ![c] = to], taskq' = taskq,
             \A d \in Clients \ {c} : cl'[d] = cl[d]
      PROVE  /\ phases' = [phases EXCEPT ![c] = ServicePhase(c)']
             /\ phases[c] = ServicePhase(c) /\ life'[c] = to
  <2>1. \A d \in Clients \ {c} : cl'[d] = cl[d] /\ life'[d] = life[d]
    BY <1>0, <1>3 DEF TypeOK
  <2> QED BY <1>0, <1>3, <2>1, OnePhase DEF phases, TypeOK
<1>4. ASSUME NEW c \in Clients, AcceptClient(c)
      PROVE  Service!Next
  <2>1. PICK postl \in Garbage, datac \in Garbage, datal \in Garbage :
          cl' = [cl EXCEPT ![c] = NewClient(postl, datac, datal)]
    BY <1>4 DEF AcceptClient
  <2>2. /\ life[c] = "backlog" /\ life' = [life EXCEPT ![c] = "open"]
        /\ taskq' = taskq
    BY <1>4 DEF AcceptClient
  <2> DEFINE k == NewClient(postl, datac, datal)
  <2>3. k \in Client /\ AwaitsRequest(k)
    BY GarbageAssumption, NewClientType
  <2>4. ClientPhase(k) = "idle"
    BY <2>3, ControlPhase
  <2> HIDE DEF k
  <2>5. cl' = [cl EXCEPT ![c] = k] /\ cl \in [Clients -> Client]
    BY <1>0, <2>1 DEF k, TypeOK
  <2>6. /\ phases' = [phases EXCEPT ![c] = ServicePhase(c)']
        /\ phases[c] = ServicePhase(c) /\ life'[c] = "open"
    BY <1>3, <2>2, <2>5
  <2>7. cl'[c] = k
    BY <2>5
  <2>8. ServicePhase(c) = "backlog" /\ ServicePhase(c)' = "idle"
    BY <2>2, <2>4, <2>6, <2>7 DEF ServicePhase, ClientPhase
  <2>9. Service!Admit(c)
    BY <2>2, <2>6, <2>8 DEF Service!Admit, Service!Move, phases
  <2> QED BY <2>9 DEF Service!Next
<1>5. ASSUME NEW c \in Clients, AcceptRefused(c)
      PROVE  Service!Next
  <2>1. /\ life[c] = "backlog" /\ life' = [life EXCEPT ![c] = "closed"]
        /\ taskq' = taskq /\ cl' = cl
    BY <1>5 DEF AcceptRefused
  <2>2. /\ phases' = [phases EXCEPT ![c] = ServicePhase(c)']
        /\ phases[c] = ServicePhase(c) /\ life'[c] = "closed"
    BY <1>3, <2>1
  <2>3. ServicePhase(c) = "backlog" /\ ServicePhase(c)' = "closed"
    BY <2>1, <2>2 DEF ServicePhase
  <2>4. Service!Close(c)
    BY <2>1, <2>2, <2>3 DEF Service!Close, Service!Move, phases
  <2> QED BY <2>4 DEF Service!Next
<1>6. ASSUME NEW c \in Clients, Connect(c)
      PROVE  Service!Next
  <2>1. /\ life[c] = "remote" /\ life' = [life EXCEPT ![c] = "backlog"]
        /\ taskq' = taskq /\ cl' = cl
    BY <1>6 DEF Connect
  <2>2. /\ phases' = [phases EXCEPT ![c] = ServicePhase(c)']
        /\ phases[c] = ServicePhase(c) /\ life'[c] = "backlog"
    BY <1>3, <2>1
  <2>3. ServicePhase(c) = "remote" /\ ServicePhase(c)' = "backlog"
    BY <2>1, <2>2 DEF ServicePhase
  <2>4. Service!Connect(c)
    BY <2>1, <2>2, <2>3 DEF Service!Connect, Service!Move, phases
  <2> QED BY <2>4 DEF Service!Next
<1>7. ASSUME UNCHANGED <<cl, life, taskq>>
      PROVE  UNCHANGED Service!svars
  BY <1>7 DEF Service!svars, ServicePhase
<1>8. CASE RunTask
  BY <1>8, RunTaskService
<1>9. CASE AcceptDone \/ EventsDone \/ TasksDone \/ EpollWait
  BY <1>7, <1>9 DEF AcceptDone, EventsDone, TasksDone, EpollWait
<1>10. ASSUME NEW c \in Clients, PeerClose(c)
       PROVE  UNCHANGED Service!svars
  BY <1>7, <1>10 DEF PeerClose
<1>11. CASE UNCHANGED vars
  BY <1>7, <1>11 DEF vars
<1> QED
  BY <1>1, <1>2, <1>4, <1>5, <1>6, <1>8, <1>9, <1>10, <1>11 DEF Next, Loop

(***************************************************************************)
(* The loop, the task queue and the HTTP state machine implement Service,  *)
(* for any number of connections (main.cpp:260-420, protocol.cpp:546-619). *)
(***************************************************************************)
THEOREM LoopImplementsService == Spec => ImplementsService
<1>1. Init => Service!Init
  <2> SUFFICES ASSUME Init PROVE Service!Init
    OBVIOUS
  <2>1. \A c \in Clients : ServicePhase(c) = "remote"
    BY DEF Init, ServicePhase
  <2> QED BY <2>1 DEF Init, Service!Init
<1>2. IInv /\ [Next]_vars => [Service!Next]_(Service!svars)
  BY StepService
<1> QED BY <1>1, <1>2, Invariant, PTL DEF Spec, ImplementsService, Service!Spec

=============================================================================
