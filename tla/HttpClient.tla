----------------------------- MODULE HttpClient -----------------------------
(***************************************************************************)
(* ClientProtocolHTTP of protocol.cpp: the object that serves one          *)
(* connection.  A client is a record with the members of the class that    *)
(* decide what it does next, the five streams it owns, and four history    *)
(* fields the code does not have:                                          *)
(*                                                                         *)
(*   owed    units announced for the current response and not yet accepted *)
(*           by the kernel (negative when more was sent than announced)    *)
(*   lost    units of it that a stream dropped                             *)
(*   drift   announced length of the file minus its length when opened     *)
(*   failed  a send for it reported an error                               *)
(*                                                                         *)
(* fault names the undefined operation the object ran into, if any.        *)
(* Methods are operators from the client to the client; Poll() also        *)
(* answers what the event loop is to do with it.                           *)
(***************************************************************************)
EXTENDS CgiStream

CONSTANTS
  HeaderSize,  \* units in a generated response header
  Configs      \* what Process() may find: see Config below

ASSUME HeaderAssumption == HeaderSize \in Nat \ {0}

Method     == {"HEAD", "GET", "POST"}
ErrorCode  == {400, 403, 404, 405, 411, 413, 500, 501, 505}
StatusCode == {200, 303, 304} \cup ErrorCode

(***************************************************************************)
(* What Accept() finds in a request: the status its checks end with and,   *)
(* where the checks get that far, the method, whether a Connection: close  *)
(* header is absent, and the Content-Length.                               *)
(***************************************************************************)
Request == [status : {200, 400, 501, 505}, method : Method, keep : BOOLEAN,
            length : BOOLEAN, clen : Nat]

\* A piece of the byte stream of a connection: a request line, header fields,
\* the CRLF CRLF that ends them, or a part of the body.
Token == [kind : {"line", "field", "end", "body"}, brk : BOOLEAN, req : Request]

(***************************************************************************)
(* What the configuration script and the file system answer to Process():  *)
(* the settings of ClientInterface; what stat(), opendir() and fopen()     *)
(* say; st_size and the length the open file turns out to have; the size   *)
(* of the generated page; the output of the script.                        *)
(***************************************************************************)
Config == [cgi : BOOLEAN, deny : BOOLEAN, index : BOOLEAN, listing : BOOLEAN,
           exists : BOOLEAN, dir : BOOLEAN, slash : BOOLEAN, page : BOOLEAN,
           opens : BOOLEAN, fresh : BOOLEAN, st_size : Nat, length : Nat,
           pageSize : Nat \ {0}, script : Seq(CgiUnit)]

ASSUME ConfigAssumption == Configs \subseteq Config

\* The client record.
Client ==
  [psp : {"req", "res", "data", "file", "cgi"},
   state : {"RECV_REQUEST", "RECV_DATA", "SEND_RESPONSE", "SEND_DATA"},
   sflags : {{}, {"RECV"}, {"SEND"}},
   method : Method, content : {"NONE", "DATA", "FILE", "CGI"},
   connection : {"CLOSE", "KEEPALIVE"}, status : StatusCode,
   clen : Nat, length : BOOLEAN,
   req : RequestStream(Token), res : BufferStream, data : BufferStream,
   file : FileStream, cgi : CgiStream,
   owed : Int, lost : Nat, drift : Int, failed : BOOLEAN,
   fault : StreamFault]

-----------------------------------------------------------------------------

\* Reset(): the state of a client that was just accepted.
Reset(k) ==
  [k EXCEPT !.psp = "req", !.state = "RECV_REQUEST", !.sflags = {"RECV"},
            !.method = "GET", !.content = "NONE", !.connection = "CLOSE"]

(***************************************************************************)
(* The constructor.  spreq.postl, spcgi.datac and spcgi.datal keep what    *)
(* the allocator's memory held.                                            *)
(***************************************************************************)
NewClient(postl, datac, datal) ==
  Reset([psp |-> "req", state |-> "RECV_REQUEST", sflags |-> {"RECV"},
         method |-> "GET", content |-> "NONE", connection |-> "CLOSE",
         status |-> 200, clen |-> 0, length |-> FALSE,
         req |-> NewRequestStream(postl), res |-> EmptyBuffer,
         data |-> EmptyBuffer, file |-> ClosedFile,
         cgi |-> NewCgi(datac, datal),
         owed |-> 0, lost |-> 0, drift |-> 0, failed |-> FALSE,
         fault |-> "none"])

\* Slip: the file is not closed.
Clear_ForgetsFile(k) ==
  LET req == RequestReset(k.req)
  IN [k EXCEPT !.req = req.s, !.fault = req.fault,
               !.res = EmptyBuffer, !.data = EmptyBuffer, !.cgi = CgiReset(k.cgi)]

\* Clear(): reset every stream; closes the file and ends the script.
Clear(k) ==
  LET req == RequestReset(k.req)
  IN [k EXCEPT !.req = req.s, !.fault = req.fault,
               !.res = EmptyBuffer, !.data = EmptyBuffer,
               !.file = FileReset(k.file), !.cgi = CgiReset(k.cgi)]

-----------------------------------------------------------------------------
(* Poll(): a state means that its operation has just been completed.       *)

Polled(k, poll) == [k |-> k, poll |-> poll]

\* Slip: the flags still ask for input when the next request was complete.
Finished_KeepsFlags(k) ==
  LET cleared == Clear(k)
      again   == Reset(cleared)
      next    == CheckPipeline(again.req)
  IN IF cleared.fault # "none" THEN Polled(cleared, "SKIP")
     ELSE IF k.connection = "CLOSE" THEN Polled(cleared, "CLOSE")
     ELSE Polled([again EXCEPT !.req = next.s], IF next.ret THEN "RUN" ELSE "SKIP")

\* Slip: the streams are reset once more.
Finished_ClearsTwice(k) ==
  LET cleared == Clear(Clear(k))
      again   == Reset(cleared)
      next    == CheckPipeline(again.req)
  IN IF cleared.fault # "none" THEN Polled(cleared, "SKIP")
     ELSE IF k.connection = "CLOSE" THEN Polled(cleared, "CLOSE")
     ELSE IF next.ret
          THEN Polled([again EXCEPT !.req = next.s, !.sflags = {}], "RUN")
     ELSE Polled(again, "SKIP")

\* The response has gone out: close, or serve the next request.
Finished(k) ==
  LET cleared == Clear(k)
      again   == Reset(cleared)
      next    == CheckPipeline(again.req)
  IN IF cleared.fault # "none" THEN Polled(cleared, "SKIP")
     ELSE IF k.connection = "CLOSE" THEN Polled(cleared, "CLOSE")
     ELSE IF next.ret
          THEN Polled([again EXCEPT !.req = next.s, !.sflags = {}], "RUN")
     ELSE Polled(again, "SKIP")

StreamOf(content) ==
  CASE content = "DATA" -> "data"
    [] content = "FILE" -> "file"
    [] content = "CGI"  -> "cgi"

\* Slip: output is enabled without disabling input.
Poll_BothFlags(k) ==
  CASE k.state = "RECV_REQUEST" ->
         IF k.req.state = "CLOSED" THEN Polled(k, "CLOSE")
         ELSE Polled([k EXCEPT !.sflags = {}], "RUN")
    [] k.state = "RECV_DATA" ->
         Polled([k EXCEPT !.psp = "cgi", !.state = "SEND_DATA",
                          !.sflags = {"RECV", "SEND"}], "SKIP")
    [] k.state = "SEND_RESPONSE" ->
         IF k.content = "NONE" THEN Finished(k)
         ELSE Polled([k EXCEPT !.psp = StreamOf(k.content),
                               !.state = "SEND_DATA"], "SKIP")
    [] k.state = "SEND_DATA" -> Finished(k)

Poll(k) ==
  CASE k.state = "RECV_REQUEST" ->
         IF k.req.state = "CLOSED" THEN Polled(k, "CLOSE")
         ELSE Polled([k EXCEPT !.sflags = {}], "RUN")
    [] k.state = "RECV_DATA" ->
         IF k.cgi.state = "CLOSED" THEN Polled(k, "CLOSE")
         ELSE Polled([k EXCEPT !.psp = "cgi", !.state = "SEND_DATA",
                               !.sflags = {"SEND"}], "SKIP")
    [] k.state = "SEND_RESPONSE" ->
         IF k.content = "NONE" THEN Finished(k)
         ELSE Polled([k EXCEPT !.psp = StreamOf(k.content),
                               !.state = "SEND_DATA"], "SKIP")
    [] k.state = "SEND_DATA" -> Finished(k)

-----------------------------------------------------------------------------
(* Accept(), Configure() and Process() run once the request is complete.   *)

(***************************************************************************)
(* Accept(): parse the request line and the headers.  The method is known  *)
(* unless it is the method that is refused; the connection is kept only    *)
(* when every check passed.                                                *)
(***************************************************************************)
Accept(k) ==
  LET first == Head(k.req.buffer)
      r     == first.req
  IN IF k.req.state = "CORRUPTED" THEN [k EXCEPT !.status = 413]
     ELSE IF first.kind # "line" \/ r.status = 501
          THEN [k EXCEPT !.status = 501]
     ELSE [k EXCEPT !.status = r.status, !.method = r.method,
                    !.clen = r.clen, !.length = r.length,
                    !.connection = IF r.status = 200 /\ r.keep
                                   THEN "KEEPALIVE" ELSE "CLOSE"]

\* A response of n units is owed to the client.
Promise(k, n) ==
  [k EXCEPT !.owed = n, !.lost = 0, !.drift = 0, !.failed = FALSE]

\* Generate() completes the header that the response stream will send.
Generate(k, body) == [Promise(k, HeaderSize + body) EXCEPT !.res.size = HeaderSize]

Sending(k) ==
  [k EXCEPT !.psp = "res", !.state = "SEND_RESPONSE", !.sflags = {"SEND"}]

\* The catch block of Process(): an error page, or a bare 303.
Refuse(k, status, c) ==
  LET paged == status >= 400 /\ k.method # "HEAD"
      page  == IF status >= 400 THEN c.pageSize ELSE 0
      made  == [k EXCEPT !.data.size = page,
                         !.content = IF paged THEN "DATA" ELSE k.content]
  IN Sending(Generate(made, IF paged THEN page ELSE 0))

\* Where the response comes from decides which stream is driven next.
Route(k, c) ==
  IF k.method = "POST" /\ k.cgi.datac < k.cgi.datal
  THEN [k EXCEPT !.psp = "cgi", !.state = "RECV_DATA", !.sflags = {"RECV"}]
  ELSE IF c.cgi
       THEN [k EXCEPT !.psp = "cgi", !.state = "SEND_DATA", !.sflags = {"SEND"}]
  ELSE Sending(k)

\* A listing of a directory without an index page.
ListDir(k, c) ==
  IF k.method = "HEAD" THEN Generate(k, 0)
  ELSE Generate([k EXCEPT !.data.size = c.pageSize, !.content = "DATA"],
                c.pageSize)

\* Slip: a HEAD selects the file it did not open.
SendFile_HeadToo(k, c) ==
  [Generate([k EXCEPT !.file = IF k.method = "HEAD" THEN k.file
                               ELSE OpenFile(c.length),
                      !.content = "FILE"], c.st_size)
     EXCEPT !.drift = c.st_size - c.length]

\* Content-Length announces st_size, whatever the file holds when it is read.
SendFile(k, c) ==
  IF k.method = "HEAD" THEN Generate(k, 0)
  ELSE [Generate([k EXCEPT !.file = OpenFile(c.length), !.content = "FILE"],
                 c.st_size) EXCEPT !.drift = c.st_size - c.length]

\* The script is owed no header: it sends its own, after a status line.
RunCgi(k, c) ==
  LET open == CgiOpen(k.cgi, c.script,
                      IF k.method = "POST" THEN k.clen ELSE 0, k.req)
  IN Promise([k EXCEPT !.cgi = open.s, !.req = open.req, !.content = "CGI"],
             1 + Len(c.script))

\* Nothing but an index page that is no directory replaces a directory.
IsListing(c) == c.dir /\ ~(c.index /\ c.page)

\* The first check that fails, in the order of the code; 200 when none does.
Verdict(k, c) ==
  IF ~c.cgi /\ k.method = "POST" THEN 405
  ELSE IF ~c.exists THEN 404
  ELSE IF c.deny THEN 403
  ELSE IF c.dir /\ ~c.slash THEN 303
  ELSE IF IsListing(c) /\ ~c.listing THEN 404
  ELSE IF IsListing(c)
       THEN IF k.method # "HEAD" /\ ~c.opens THEN 500 ELSE 200
  ELSE IF c.cgi THEN IF k.method = "POST" /\ ~k.length THEN 411 ELSE 200
  ELSE IF c.fresh THEN 304
  ELSE IF k.method # "HEAD" /\ ~c.opens THEN 500
  ELSE 200

Process(k, c) ==
  LET a == IF c.cgi THEN [k EXCEPT !.connection = "CLOSE"] ELSE k
      verdict == Verdict(k, c)
  IN IF k.status # 200 THEN Refuse(k, k.status, c)
     ELSE IF verdict = 304 THEN Route(Generate(a, 0), c)
     ELSE IF verdict # 200 THEN Refuse(a, verdict, c)
     ELSE IF IsListing(c) THEN Route(ListDir(a, c), c)
     ELSE IF c.cgi THEN Route(RunCgi(a, c), c)
     ELSE Route(SendFile(a, c), c)

=============================================================================
