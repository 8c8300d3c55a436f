---------------------------- MODULE ExchangeProofs ----------------------------
(***************************************************************************)
(* What holds of a connection across its exchanges of a request and a      *)
(* response: where requests begin and end, what is left of one for the     *)
(* next, which stream is driven, and what becomes of every unit that a     *)
(* response announced.  Each part is an invariant of one client, proved    *)
(* beside IInv.                                                            *)
(***************************************************************************)
EXTENDS EventLoopProofs

-----------------------------------------------------------------------------
(* What the methods of a client leave alone.                               *)

\* What only Poll() and Process() change.
Same(n, k) ==
  /\ n.psp = k.psp /\ n.state = k.state /\ n.sflags = k.sflags
  /\ n.method = k.method /\ n.content = k.content /\ n.status = k.status
  /\ n.connection = k.connection /\ n.drift = k.drift

(***************************************************************************)
(* Driving a stream changes the history of a client and its fault only.    *)
(***************************************************************************)
LEMMA DrivenParts ==
  ASSUME NEW k \in Client, NEW o
  PROVE  LET d == Driven(k, o)
         IN /\ d.ret = o.ret /\ Same(d.k, k) /\ d.k.failed = k.failed
            /\ d.k.req = k.req /\ d.k.res = k.res /\ d.k.data = k.data
            /\ d.k.file = k.file /\ d.k.cgi = k.cgi
            /\ d.k.owed = k.owed - o.sent /\ d.k.lost = k.lost + o.lost
            /\ d.k.fault = o.fault
<1> DEFINE owed == k.owed - o.sent
           lost == k.lost + o.lost
           fault == o.fault
           n == [k EXCEPT !.owed = owed, !.lost = lost, !.fault = fault]
<1>1. Driven(k, o).k = n /\ Driven(k, o).ret = o.ret
  BY DEF Driven
<1> HIDE DEF owed, lost, fault
<1>2. /\ Same(n, k) /\ n.failed = k.failed
      /\ n.req = k.req /\ n.res = k.res /\ n.data = k.data
      /\ n.file = k.file /\ n.cgi = k.cgi
      /\ n.owed = owed /\ n.lost = lost /\ n.fault = fault
  BY DEF Client, Same
<1> HIDE DEF n
<1> QED BY <1>1, <1>2 DEF owed, lost, fault

(***************************************************************************)
(* A read of a request changes the request stream (protocol.cpp:80-112).   *)
(***************************************************************************)
LEMMA RequestReadOf ==
  ASSUME NEW k \in Client, k.psp = "req", NEW r \in SystemResult,
         NEW data \in Seq(Token)
  PROVE  LET o == RequestRead(k.req, r, data)
             d == StreamRead(k, r, data)
         IN /\ d.ret = o.ret /\ Same(d.k, k) /\ d.k.failed = k.failed
            /\ d.k.req = o.s /\ d.k.res = k.res /\ d.k.data = k.data
            /\ d.k.file = k.file /\ d.k.cgi = k.cgi
            /\ d.k.owed = k.owed /\ d.k.lost = k.lost /\ d.k.fault = o.fault
<1> DEFINE o == RequestRead(k.req, r, data)
           n == [k EXCEPT !.req = o.s]
<1>1. k.req \in RequestStream(Token) /\ k.owed \in Int /\ k.lost \in Nat
  BY DEF Client
<1>2. o.s \in RequestStream(Token) /\ o.sent = 0 /\ o.lost = 0
  BY <1>1, RequestReadType, RequestReadParts DEF IsOutcome
<1>3. StreamRead(k, r, data) = Driven(n, o)
  BY DEF StreamRead
<1> HIDE DEF o
<1>4. /\ n \in Client /\ Same(n, k) /\ n.failed = k.failed
      /\ n.req = o.s /\ n.res = k.res /\ n.data = k.data
      /\ n.file = k.file /\ n.cgi = k.cgi
      /\ n.owed = k.owed /\ n.lost = k.lost
  BY <1>2 DEF Client, Same
<1> HIDE DEF n
<1>5. k.owed - 0 = k.owed /\ k.lost + 0 = k.lost
  BY <1>1
<1>6. /\ Driven(n, o).ret = o.ret /\ Same(Driven(n, o).k, n)
      /\ Driven(n, o).k.failed = n.failed /\ Driven(n, o).k.req = n.req
      /\ Driven(n, o).k.res = n.res /\ Driven(n, o).k.data = n.data
      /\ Driven(n, o).k.file = n.file /\ Driven(n, o).k.cgi = n.cgi
      /\ Driven(n, o).k.owed = n.owed - o.sent
      /\ Driven(n, o).k.lost = n.lost + o.lost /\ Driven(n, o).k.fault = o.fault
  BY <1>4, DrivenParts
<1> QED BY <1>2, <1>3, <1>4, <1>5, <1>6 DEF Same, o

(***************************************************************************)
(* A read of a body changes the script's stream, and may return units to   *)
(* the request buffer (protocol.cpp:428-458).                              *)
(***************************************************************************)
LEMMA BodyReadOf ==
  ASSUME NEW k \in Client, AwaitsBody(k), NEW r \in SystemResult,
         NEW data \in Seq(Token)
  PROVE  LET o == CgiRead(k.cgi, r)
             d == StreamRead(k, r, data)
         IN /\ d.ret = o.ret /\ Same(d.k, k) /\ d.k.failed = k.failed
            /\ d.k.cgi = o.s /\ d.k.res = k.res /\ d.k.data = k.data
            /\ d.k.file = k.file
            /\ d.k.req.state = k.req.state /\ d.k.req.postl = k.req.postl
            /\ Len(d.k.req.buffer) >= Len(k.req.buffer)
            /\ d.k.owed = k.owed /\ d.k.lost = k.lost /\ d.k.fault = o.fault
<1> DEFINE o == CgiRead(k.cgi, r)
           excess == IF r.len > 0 THEN CgiExcess(k.cgi, data) ELSE << >>
           buffer == k.req.buffer \o excess
           n == [k EXCEPT !.cgi = o.s, !.req.buffer = buffer]
<1>1. /\ k.cgi \in CgiStream /\ k.req \in RequestStream(Token)
      /\ k.cgi.datac < k.cgi.datal /\ k.psp = "cgi"
      /\ k.owed \in Int /\ k.lost \in Nat
  BY DEF Client, AwaitsBody
<1>2. o.s \in CgiStream /\ o.sent = 0 /\ o.lost = 0
  BY <1>1, CgiReadType, CgiReadParts DEF IsOutcome
<1>3. excess \in Seq(Token)
  BY <1>1, CgiExcessType, EmptySeq
<1>4. k.req.buffer \in Seq(Token)
  BY <1>1 DEF RequestStream
<1>5. StreamRead(k, r, data) = Driven(n, o)
  BY <1>1 DEF StreamRead
<1> HIDE DEF o, excess
<1>6. buffer \in Seq(Token) /\ Len(buffer) >= Len(k.req.buffer)
  BY <1>3, <1>4, ConcatType, LenProperties
<1> HIDE DEF buffer
<1> DEFINE q == [k.req EXCEPT !.buffer = buffer]
<1>7. /\ q \in RequestStream(Token) /\ q.buffer = buffer
      /\ q.state = k.req.state /\ q.postl = k.req.postl
  BY <1>1, <1>6 DEF RequestStream
<1>8. n = [k EXCEPT !.cgi = o.s, !.req = q]
  BY DEF Client
<1> HIDE DEF q, n
<1>9. /\ n \in Client /\ Same(n, k) /\ n.failed = k.failed
      /\ n.req = q /\ n.res = k.res /\ n.data = k.data
      /\ n.file = k.file /\ n.cgi = o.s
      /\ n.owed = k.owed /\ n.lost = k.lost
  BY <1>2, <1>7, <1>8 DEF Client, Same
<1>10. k.owed - 0 = k.owed /\ k.lost + 0 = k.lost
  BY <1>1
<1>11. /\ Driven(n, o).ret = o.ret /\ Same(Driven(n, o).k, n)
      /\ Driven(n, o).k.failed = n.failed /\ Driven(n, o).k.req = n.req
      /\ Driven(n, o).k.res = n.res /\ Driven(n, o).k.data = n.data
      /\ Driven(n, o).k.file = n.file /\ Driven(n, o).k.cgi = n.cgi
      /\ Driven(n, o).k.owed = n.owed - o.sent
      /\ Driven(n, o).k.lost = n.lost + o.lost /\ Driven(n, o).k.fault = o.fault
  BY <1>9, DrivenParts
<1> QED BY <1>2, <1>5, <1>6, <1>7, <1>9, <1>10, <1>11 DEF Same, o

\* d is what is left of the client n when a stream was driven with outcome o.
Drove(d, n, o) ==
  /\ d.ret = o.ret /\ Same(d.k, n) /\ d.k.failed = n.failed /\ d.k.req = n.req
  /\ d.k.res = n.res /\ d.k.data = n.data /\ d.k.file = n.file /\ d.k.cgi = n.cgi
  /\ d.k.owed = n.owed - o.sent /\ d.k.lost = n.lost + o.lost /\ d.k.fault = o.fault

\* The same for a client k of which one of the streams was written.
WroteAny(d, k, o) ==
  /\ d.ret = o.ret /\ Same(d.k, k) /\ d.k.req = k.req
  /\ d.k.owed = k.owed - o.sent /\ d.k.lost = k.lost + o.lost /\ d.k.fault = o.fault
WroteRes(d, k, o) ==
  /\ WroteAny(d, k, o)
  /\ d.k.res = o.s /\ d.k.data = k.data /\ d.k.file = k.file /\ d.k.cgi = k.cgi
WroteData(d, k, o) ==
  /\ WroteAny(d, k, o)
  /\ d.k.data = o.s /\ d.k.res = k.res /\ d.k.file = k.file /\ d.k.cgi = k.cgi
WroteFile(d, k, o) ==
  /\ WroteAny(d, k, o)
  /\ d.k.file = o.s /\ d.k.res = k.res /\ d.k.data = k.data /\ d.k.cgi = k.cgi
WroteCgi(d, k, o) ==
  /\ WroteAny(d, k, o)
  /\ d.k.cgi = o.s /\ d.k.res = k.res /\ d.k.data = k.data /\ d.k.file = k.file

\* Which of them psp selects.
Written(d, k, p, r) ==
  /\ k.psp = "res"  => WroteRes(d, k, ResponseWrite(k.res, r))
  /\ k.psp = "data" => WroteData(d, k, DataWrite(k.data, r))
  /\ k.psp = "file" => WroteFile(d, k, FileWrite(k.file, r))
  /\ k.psp = "cgi"  => WroteCgi(d, k, CgiWrite(k.cgi, p, r))

(***************************************************************************)
(* A write changes the stream that psp selects and no other part of the    *)
(* client (main.cpp:328-333).                                              *)
(***************************************************************************)
LEMMA WriteByOf ==
  ASSUME NEW k \in Client, Answers(k), NEW p, PipeRead(k.cgi, p),
         NEW r \in SystemResult, -1 <= r.len, r.len <= StreamOffer(k, p)
  PROVE  /\ Written(WriteBy(k, p, r), k, p, r)
         /\ WriteBy(k, p, r).k.failed = k.failed
<1>1. /\ k.res \in BufferStream /\ k.data \in BufferStream
      /\ k.file \in FileStream /\ k.cgi \in CgiStream
  BY DEF Client
<1>2. CASE k.psp = "res"
  <2> DEFINE o == ResponseWrite(k.res, r)
             n == [k EXCEPT !.res = o.s]
  <2>1. o.s \in BufferStream
    BY <1>1, <1>2, ResponseWriteType DEF StreamOffer, IsOutcome
  <2>2. WriteBy(k, p, r) = Driven(n, o)
    BY <1>2 DEF WriteBy
  <2> HIDE DEF o
  <2>3. /\ n \in Client /\ Same(n, k) /\ n.failed = k.failed /\ n.req = k.req
        /\ n.res = o.s /\ n.data = k.data /\ n.file = k.file /\ n.cgi = k.cgi
        /\ n.owed = k.owed /\ n.lost = k.lost
    BY <2>1 DEF Client, Same
  <2> HIDE DEF n
  <2>4. Drove(WriteBy(k, p, r), n, o)
    BY <2>2, <2>3, DrivenParts DEF Drove
  <2>5. WroteRes(WriteBy(k, p, r), k, o) /\ WriteBy(k, p, r).k.failed = k.failed
    BY <2>3, <2>4 DEF Drove, WroteRes, WroteAny, Same
  <2> QED BY <1>2, <2>5 DEF o, Written
<1>3. CASE k.psp = "data"
  <2> DEFINE o == DataWrite(k.data, r)
             n == [k EXCEPT !.data = o.s]
  <2>1. o.s \in BufferStream
    BY <1>1, <1>3, ResponseWriteType DEF StreamOffer, DataWrite, IsOutcome
  <2>2. WriteBy(k, p, r) = Driven(n, o)
    BY <1>3 DEF WriteBy
  <2> HIDE DEF o
  <2>3. /\ n \in Client /\ Same(n, k) /\ n.failed = k.failed /\ n.req = k.req
        /\ n.data = o.s /\ n.res = k.res /\ n.file = k.file /\ n.cgi = k.cgi
        /\ n.owed = k.owed /\ n.lost = k.lost
    BY <2>1 DEF Client, Same
  <2> HIDE DEF n
  <2>4. Drove(WriteBy(k, p, r), n, o)
    BY <2>2, <2>3, DrivenParts DEF Drove
  <2>5. WroteData(WriteBy(k, p, r), k, o) /\ WriteBy(k, p, r).k.failed = k.failed
    BY <2>3, <2>4 DEF Drove, WroteData, WroteAny, Same
  <2> QED BY <1>3, <2>5 DEF o, Written
<1>4. CASE k.psp = "file"
  <2> DEFINE o == FileWrite(k.file, r)
             n == [k EXCEPT !.file = o.s]
  <2>1. o.s \in FileStream
    BY <1>1, <1>4, FileWriteType DEF StreamOffer, IsOutcome
  <2>2. WriteBy(k, p, r) = Driven(n, o)
    BY <1>4 DEF WriteBy
  <2> HIDE DEF o
  <2>3. /\ n \in Client /\ Same(n, k) /\ n.failed = k.failed /\ n.req = k.req
        /\ n.file = o.s /\ n.res = k.res /\ n.data = k.data /\ n.cgi = k.cgi
        /\ n.owed = k.owed /\ n.lost = k.lost
    BY <2>1 DEF Client, Same
  <2> HIDE DEF n
  <2>4. Drove(WriteBy(k, p, r), n, o)
    BY <2>2, <2>3, DrivenParts DEF Drove
  <2>5. WroteFile(WriteBy(k, p, r), k, o) /\ WriteBy(k, p, r).k.failed = k.failed
    BY <2>3, <2>4 DEF Drove, WroteFile, WroteAny, Same
  <2> QED BY <1>4, <2>5 DEF o, Written
<1>5. CASE k.psp = "cgi"
  <2> DEFINE o == CgiWrite(k.cgi, p, r)
             n == [k EXCEPT !.cgi = o.s]
  <2>1. o.s \in CgiStream
    BY <1>1, <1>5, CgiWriteType DEF IsOutcome
  <2>2. WriteBy(k, p, r) = Driven(n, o)
    BY <1>5 DEF WriteBy
  <2> HIDE DEF o
  <2>3. /\ n \in Client /\ Same(n, k) /\ n.failed = k.failed /\ n.req = k.req
        /\ n.cgi = o.s /\ n.res = k.res /\ n.data = k.data /\ n.file = k.file
        /\ n.owed = k.owed /\ n.lost = k.lost
    BY <2>1 DEF Client, Same
  <2> HIDE DEF n
  <2>4. Drove(WriteBy(k, p, r), n, o)
    BY <2>2, <2>3, DrivenParts DEF Drove
  <2>5. WroteCgi(WriteBy(k, p, r), k, o) /\ WriteBy(k, p, r).k.failed = k.failed
    BY <2>3, <2>4 DEF Drove, WroteCgi, WroteAny, Same
  <2> QED BY <1>5, <2>5 DEF o, Written
<1> QED BY <1>2, <1>3, <1>4, <1>5 DEF Client, Answers

(***************************************************************************)
(* The same with the history of failed sends.                              *)
(***************************************************************************)
LEMMA StreamWriteOf ==
  ASSUME NEW k \in Client, Answers(k), NEW p, PipeRead(k.cgi, p),
         NEW r \in SystemResult, -1 <= r.len, r.len <= StreamOffer(k, p)
  PROVE  LET d == StreamWrite(k, p, r)
         IN /\ Written(d, k, p, r)
            /\ d.k.failed = (k.failed \/ (r = Broken /\ d.ret))
<1> DEFINE b == (k.failed \/ (r = Broken /\ WriteBy(k, p, r).ret))
           n == [k EXCEPT !.failed = b]
           d == StreamWrite(k, p, r)
<1>1. b \in BOOLEAN
  BY DEF Client
<1>2. d = WriteBy(n, p, r)
  BY DEF StreamWrite
<1> HIDE DEF b, d
<1>3. /\ n \in Client /\ Answers(n) /\ Same(n, k) /\ n.failed = b
      /\ n.req = k.req /\ n.res = k.res /\ n.data = k.data
      /\ n.file = k.file /\ n.cgi = k.cgi /\ n.owed = k.owed /\ n.lost = k.lost
  BY <1>1 DEF Client, Answers, Same
<1>4. StreamOffer(n, p) = StreamOffer(k, p)
  BY <1>3 DEF StreamOffer, Same
<1> HIDE DEF n
<1>5. Written(d, n, p, r) /\ d.k.failed = b
  BY <1>2, <1>3, <1>4, WriteByOf
<1>6. Written(WriteBy(k, p, r), k, p, r)
  BY WriteByOf
<1>7. k.psp \in {"res", "data", "file", "cgi"}
  BY DEF Client, Answers
<1>8. Written(d, k, p, r)
  BY <1>3, <1>5
     DEF Written, WroteRes, WroteData, WroteFile, WroteCgi, WroteAny, Same
<1>9. d.ret = WriteBy(k, p, r).ret
  BY <1>6, <1>7, <1>8
     DEF Written, WroteRes, WroteData, WroteFile, WroteCgi, WroteAny
<1> QED BY <1>5, <1>8, <1>9 DEF b, d

-----------------------------------------------------------------------------
(* Between two requests.                                                   *)

\* Nothing is left of an earlier exchange.
Idle(k) ==
  /\ k.psp = "req" /\ k.content = "NONE" /\ k.connection = "CLOSE"
  /\ ~k.file.open /\ ~k.cgi.child
  /\ k.cgi.buffer = << >> /\ ~k.cgi.feedback
  /\ k.res.size = 0 /\ k.data.size = 0

\* How far the request of an idle client is.
Requesting(k) ==
  IF k.sflags = {}
  THEN k.req.state = "CORRUPTED" \/ (k.req.state = "SUCCESS" /\ Cut(k.req))
  ELSE k.req.state = "PENDING"

\* The end of a response: an erase outside the buffer, a connection that is
\* closed, or one that is kept.
Overran(p, k) ==
  /\ p.poll = "SKIP" /\ p.k.fault = "Erase" /\ Same(p.k, k)
  /\ k.req.postl > Len(k.req.buffer)
  /\ p.k.req.postl = k.req.postl /\ p.k.cgi.datal = k.cgi.datal
Closes(p, k) ==
  /\ p.poll = "CLOSE" /\ p.k.fault = "none" /\ k.connection = "CLOSE"
  /\ ~p.k.file.open
Restarts(p, k) ==
  /\ p.poll # "CLOSE" /\ p.k.fault = "none" /\ k.connection = "KEEPALIVE"
  /\ k.req.postl <= Len(k.req.buffer)
  /\ p.k.req.buffer = Dropped(k.req.buffer, k.req.postl)
  /\ p.k.state = "RECV_REQUEST" /\ Idle(p.k) /\ Requesting(p.k)
  /\ p.k.file.eof => p.k.file.pos = p.k.file.size
  /\ p.k.owed = k.owed /\ p.k.lost = k.lost /\ p.k.drift = k.drift
  /\ p.k.failed = k.failed

(***************************************************************************)
(* Clear() leaves every stream as the constructor made it, but for what    *)
(* follows the request in its buffer, and what a script's stream keeps     *)
(* (protocol.cpp:117-122, 460-480, 632-639).                               *)
(***************************************************************************)
LEMMA ClearParts ==
  ASSUME NEW k \in Client
  PROVE  LET n == Clear(k)
         IN /\ n \in Client /\ Same(n, k) /\ n.failed = k.failed
            /\ n.owed = k.owed /\ n.lost = k.lost
            /\ n.req.state = "PENDING" /\ n.req.postl = k.req.postl
            /\ n.file = ClosedFile /\ n.res = EmptyBuffer /\ n.data = EmptyBuffer
            /\ ~n.cgi.child /\ n.cgi.buffer = << >> /\ ~n.cgi.feedback
            /\ n.cgi.datal = k.cgi.datal
            /\ IF k.req.postl > Len(k.req.buffer) THEN n.fault = "Erase"
               ELSE /\ n.fault = "none"
                    /\ n.req.buffer = Dropped(k.req.buffer, k.req.postl)
<1> DEFINE reset == RequestReset(k.req)
           cgi == CgiReset(k.cgi)
           n == [k EXCEPT !.req = reset.s, !.fault = reset.fault,
                          !.res = EmptyBuffer, !.data = EmptyBuffer,
                          !.file = ClosedFile, !.cgi = cgi]
<1>1. k.req \in RequestStream(Token) /\ k.cgi \in CgiStream
  BY DEF Client
<1>2. n = Clear(k)
  BY DEF Clear, FileReset
<1>3. /\ reset.s.state = "PENDING" /\ reset.s.postl = k.req.postl
      /\ IF k.req.postl > Len(k.req.buffer) THEN reset.fault = "Erase"
         ELSE /\ reset.fault = "none"
              /\ reset.s.buffer = Dropped(k.req.buffer, k.req.postl)
  BY <1>1 DEF RequestReset, RequestStream, Outcome, Undefined
<1>4. /\ ~cgi.child /\ cgi.buffer = << >> /\ ~cgi.feedback
      /\ cgi.datal = k.cgi.datal
  BY <1>1 DEF CgiReset, CgiStream
<1> HIDE DEF reset, cgi
<1>5. /\ Same(n, k) /\ n.failed = k.failed
      /\ n.owed = k.owed /\ n.lost = k.lost
      /\ n.req = reset.s /\ n.fault = reset.fault /\ n.cgi = cgi
      /\ n.file = ClosedFile /\ n.res = EmptyBuffer /\ n.data = EmptyBuffer
  BY DEF Client, Same
<1> HIDE DEF n
<1> QED BY <1>2, <1>3, <1>4, <1>5, ClearType

(***************************************************************************)
(* Reset() changes the control state only (protocol.cpp:621-630).          *)
(***************************************************************************)
LEMMA ResetParts ==
  ASSUME NEW k \in Client
  PROVE  LET n == Reset(k)
         IN /\ n.psp = "req" /\ n.state = "RECV_REQUEST" /\ n.sflags = {"RECV"}
            /\ n.content = "NONE" /\ n.connection = "CLOSE" /\ n.drift = k.drift
            /\ n.req = k.req /\ n.res = k.res /\ n.data = k.data
            /\ n.file = k.file /\ n.cgi = k.cgi /\ n.owed = k.owed
            /\ n.lost = k.lost /\ n.failed = k.failed /\ n.fault = k.fault
BY DEF Client, Reset

(***************************************************************************)
(* When a response is out the connection is closed, or the next request of *)
(* the buffer is taken (protocol.cpp:602-614).                             *)
(***************************************************************************)
LEMMA FinishedParts ==
  ASSUME NEW k \in Client
  PROVE  LET p == Finished(k)
         IN Overran(p, k) \/ Closes(p, k) \/ Restarts(p, k)
<1> DEFINE cleared == Clear(k)
           again   == Reset(cleared)
           next    == CheckPipeline(again.req)
           queued  == [again EXCEPT !.req = next.s, !.sflags = {}]
<1>1. /\ cleared \in Client /\ Same(cleared, k) /\ cleared.failed = k.failed
      /\ cleared.owed = k.owed /\ cleared.lost = k.lost
      /\ cleared.req.state = "PENDING" /\ cleared.req.postl = k.req.postl
      /\ cleared.file = ClosedFile
      /\ cleared.res = EmptyBuffer /\ cleared.data = EmptyBuffer
      /\ ~cleared.cgi.child /\ cleared.cgi.buffer = << >>
      /\ ~cleared.cgi.feedback /\ cleared.cgi.datal = k.cgi.datal
      /\ IF k.req.postl > Len(k.req.buffer) THEN cleared.fault = "Erase"
         ELSE /\ cleared.fault = "none"
              /\ cleared.req.buffer = Dropped(k.req.buffer, k.req.postl)
  BY ClearParts
<1>2. k.req.postl \in Nat /\ Len(k.req.buffer) \in Nat
  BY LenProperties DEF Client, RequestStream
<1>3. CASE cleared.fault # "none"
  <2>1. Finished(k) = Polled(cleared, "SKIP")
    BY <1>3 DEF Finished
  <2> HIDE DEF cleared
  <2>2. Overran(Polled(cleared, "SKIP"), k)
    BY <1>1, <1>2, <1>3, PolledType DEF Overran
  <2> QED BY <2>1, <2>2
<1>4. CASE cleared.fault = "none" /\ k.connection = "CLOSE"
  <2>1. Finished(k) = Polled(cleared, "CLOSE")
    BY <1>4 DEF Finished
  <2> HIDE DEF cleared
  <2>2. Closes(Polled(cleared, "CLOSE"), k)
    BY <1>1, <1>4, PolledType DEF Closes, ClosedFile
  <2> QED BY <2>1, <2>2
<1>5. CASE cleared.fault = "none" /\ k.connection # "CLOSE"
  <2>1. Finished(k) = IF next.ret THEN Polled(queued, "RUN")
                      ELSE Polled(again, "SKIP")
    BY <1>5 DEF Finished
  <2>2. /\ again.psp = "req" /\ again.state = "RECV_REQUEST"
        /\ again.sflags = {"RECV"} /\ again.content = "NONE"
        /\ again.connection = "CLOSE" /\ again.drift = cleared.drift
        /\ again.req = cleared.req /\ again.res = cleared.res
        /\ again.data = cleared.data /\ again.file = cleared.file
        /\ again.cgi = cleared.cgi /\ again.owed = cleared.owed
        /\ again.lost = cleared.lost /\ again.failed = cleared.failed
        /\ again.fault = cleared.fault /\ again \in Client
    <3> HIDE DEF cleared
    <3>1. cleared \in Client
      BY <1>1
    <3> QED BY <3>1, ResetParts, ResetType
  <2>3. k.connection = "KEEPALIVE"
    BY <1>5 DEF Client
  <2> HIDE DEF cleared, again
  <2>4. again.req \in RequestStream(Token)
    BY <2>2 DEF Client
  <2>5. next.ret => /\ Cut(next.s) /\ next.s.state = "SUCCESS"
                    /\ next.s.buffer = again.req.buffer
    BY <2>4 DEF CheckPipeline, RequestStream, Cut
  <2> HIDE DEF next
  <2>6. Idle(again) /\ (again.file.eof => again.file.pos = again.file.size)
    BY <1>1, <2>2 DEF Idle, ClosedFile, EmptyBuffer
  <2>7. Restarts(Polled(again, "SKIP"), k)
    <3>1. Requesting(again)
      BY <1>1, <2>2 DEF Requesting
    <3>2. k.req.postl <= Len(k.req.buffer)
          /\ again.req.buffer = Dropped(k.req.buffer, k.req.postl)
      BY <1>1, <1>2, <1>5, <2>2
    <3> QED BY <1>1, <1>5, <2>2, <2>3, <2>6, <3>1, <3>2, PolledType DEF Restarts, Same
  <2>8. next.ret => Restarts(Polled(queued, "RUN"), k)
    <3>1. /\ queued.psp = "req" /\ queued.state = "RECV_REQUEST"
          /\ queued.sflags = {} /\ queued.content = again.content
          /\ queued.connection = again.connection /\ queued.drift = again.drift
          /\ queued.req = next.s /\ queued.res = again.res
          /\ queued.data = again.data /\ queued.file = again.file
          /\ queued.cgi = again.cgi /\ queued.owed = again.owed
          /\ queued.lost = again.lost /\ queued.failed = again.failed
          /\ queued.fault = again.fault
      BY <2>2 DEF Client
    <3> HIDE DEF queued
    <3>2. Idle(queued) /\ (queued.file.eof => queued.file.pos = queued.file.size)
      BY <2>2, <2>6, <3>1 DEF Idle
    <3> QED
      BY <1>1, <1>2, <1>5, <2>2, <2>3, <2>5, <3>1, <3>2, PolledType
         DEF Restarts, Same, Requesting
  <2> QED BY <2>1, <2>7, <2>8
<1> QED BY <1>3, <1>4, <1>5

-----------------------------------------------------------------------------
(* From one operation to the next.                                         *)

\* Poll() after the read of a request, of a body, and of a response of which
\* the body is still to be sent.
Requested(p, k) ==
  IF k.req.state = "CLOSED" THEN p.poll = "CLOSE" /\ p.k = k
  ELSE /\ p.poll = "RUN" /\ p.k = [k EXCEPT !.sflags = {}]
Received(p, k) ==
  IF k.cgi.state = "CLOSED" THEN p.poll = "CLOSE" /\ p.k = k
  ELSE /\ p.poll = "SKIP"
       /\ p.k = [k EXCEPT !.psp = "cgi", !.state = "SEND_DATA", !.sflags = {"SEND"}]
Turned(p, k) ==
  /\ p.poll = "SKIP"
  /\ p.k = [k EXCEPT !.psp = StreamOf(k.content), !.state = "SEND_DATA"]

(***************************************************************************)
(* Poll() decides from the state and, behind a header, from the kind of    *)
(* response (protocol.cpp:546-619).                                        *)
(***************************************************************************)
LEMMA PollParts ==
  ASSUME NEW k \in Client
  PROVE  LET p == Poll(k)
         IN /\ k.state = "RECV_REQUEST" => Requested(p, k)
            /\ k.state = "RECV_DATA" => Received(p, k)
            /\ k.state = "SEND_RESPONSE" /\ k.content # "NONE" => Turned(p, k)
            /\ (k.state = "SEND_RESPONSE" /\ k.content = "NONE")
                 \/ k.state = "SEND_DATA"
                 => Overran(p, k) \/ Closes(p, k) \/ Restarts(p, k)
<1>1. CASE k.state = "RECV_REQUEST"
  <2>1. Poll(k) = IF k.req.state = "CLOSED" THEN Polled(k, "CLOSE")
                  ELSE Polled([k EXCEPT !.sflags = {}], "RUN")
    BY <1>1 DEF Poll
  <2> QED BY <1>1, <2>1, PolledType DEF Requested
<1>2. CASE k.state = "RECV_DATA"
  <2>1. Poll(k) = IF k.cgi.state = "CLOSED" THEN Polled(k, "CLOSE")
                  ELSE Polled([k EXCEPT !.psp = "cgi", !.state = "SEND_DATA",
                                        !.sflags = {"SEND"}], "SKIP")
    BY <1>2 DEF Poll
  <2> QED BY <1>2, <2>1, PolledType DEF Received
<1>3. CASE k.state = "SEND_RESPONSE" /\ k.content # "NONE"
  <2>1. Poll(k) = Polled([k EXCEPT !.psp = StreamOf(k.content),
                                   !.state = "SEND_DATA"], "SKIP")
    BY <1>3 DEF Poll
  <2> QED BY <1>3, <2>1, PolledType DEF Turned
<1>4. CASE \/ k.state = "SEND_RESPONSE" /\ k.content = "NONE"
           \/ k.state = "SEND_DATA"
  <2>1. Poll(k) = Finished(k)
    BY <1>4 DEF Poll
  <2> QED BY <1>4, <2>1, FinishedParts
<1> QED BY <1>1, <1>2, <1>3, <1>4 DEF Client

(***************************************************************************)
(* Accept() leaves the streams alone; a request that grew too long is      *)
(* refused with 413 and is the only one that is (protocol.cpp:641-700).    *)
(***************************************************************************)
LEMMA AcceptParts ==
  ASSUME NEW k \in Client, k.connection = "CLOSE"
  PROVE  LET n == Accept(k)
         IN /\ n.psp = k.psp /\ n.state = k.state /\ n.content = k.content
            /\ n.req = k.req /\ n.res = k.res /\ n.data = k.data
            /\ n.file = k.file /\ n.cgi = k.cgi /\ n.fault = k.fault
            /\ k.req.state = "CORRUPTED" => n.status = 413 /\ n.connection = "CLOSE"
            /\ n.connection = "KEEPALIVE" => n.status = 200
<1> DEFINE first == Head(k.req.buffer)
           r == first.req
           parsed == [k EXCEPT !.status = r.status, !.method = r.method,
                               !.clen = r.clen, !.length = r.length,
                               !.connection = IF r.status = 200 /\ r.keep
                                              THEN "KEEPALIVE" ELSE "CLOSE"]
           long == [k EXCEPT !.status = 413]
           unknown == [k EXCEPT !.status = 501]
           Kept(n) == /\ n.psp = k.psp /\ n.state = k.state /\ n.content = k.content
                      /\ n.req = k.req /\ n.res = k.res /\ n.data = k.data
                      /\ n.file = k.file /\ n.cgi = k.cgi /\ n.fault = k.fault
<1>1. Accept(k) = IF k.req.state = "CORRUPTED" THEN long
                  ELSE IF first.kind # "line" \/ r.status = 501 THEN unknown
                  ELSE parsed
  BY DEF Accept
<1>2. Kept(long) /\ long.status = 413 /\ long.connection = "CLOSE"
  BY DEF Client
<1>3. Kept(unknown) /\ unknown.connection = "CLOSE"
  BY DEF Client
<1>4. Kept(parsed) /\ (parsed.connection = "KEEPALIVE" => parsed.status = 200)
  <2> HIDE DEF r
  <2> QED BY DEF Client
<1> HIDE DEF long, unknown, parsed, first
<1> QED BY <1>1, <1>2, <1>3, <1>4

-----------------------------------------------------------------------------
(* What Process() starts.                                                  *)

\* Common to every response: nothing of it was sent or lost.
Begun(n, k) ==
  /\ n.fault = k.fault /\ n.status = k.status /\ n.method = k.method
  /\ n.req.buffer = k.req.buffer
  /\ ~n.failed /\ n.lost = 0
  /\ n.connection \in {k.connection, "CLOSE"}

\* A header, with the page that follows it unless there is none.
StartsPage(n, k) ==
  /\ n.req = k.req /\ n.cgi = k.cgi /\ n.file = k.file
  /\ n.state = "SEND_RESPONSE" /\ n.psp = "res" /\ n.res.size = HeaderSize
  /\ n.drift = 0
  /\ \/ n.content = k.content /\ n.owed = HeaderSize + 0
     \/ n.content = "DATA" /\ n.data.size > 0 /\ n.owed = HeaderSize + n.data.size

\* A file is sent: the request was not a HEAD, and no check failed.
SendsFile(c) ==
  /\ c.exists /\ ~c.deny /\ ~(c.dir /\ ~c.slash) /\ ~IsListing(c)
  /\ ~c.cgi /\ ~c.fresh /\ c.opens

StartsFile(n, k, c) ==
  /\ n.req = k.req /\ n.cgi = k.cgi /\ n.file = OpenFile(c.length)
  /\ n.state = "SEND_RESPONSE" /\ n.psp = "res" /\ n.res.size = HeaderSize
  /\ n.content = "FILE" /\ SendsFile(c)
  /\ n.owed = HeaderSize + c.st_size /\ n.drift = c.st_size - c.length

StartsScript(n, k, c) ==
  LET datal == IF k.method = "POST" THEN k.clen ELSE 0
      open  == CgiOpen(k.cgi, c.script, datal, k.req)
  IN /\ n.req = open.req /\ n.cgi = open.s /\ n.file = k.file
     /\ n.content = "CGI" /\ n.connection = "CLOSE" /\ n.psp = "cgi"
     /\ n.owed = 1 + Len(c.script) /\ n.drift = 0
     /\ IF k.method = "POST" /\ open.s.datac < open.s.datal
        THEN n.state = "RECV_DATA" ELSE n.state = "SEND_DATA"

\* A listing for which the configuration also asks for a script.
StartsBoth(n, k, c) ==
  /\ c.cgi /\ IsListing(c)
  /\ n.req = k.req /\ n.cgi = k.cgi /\ n.file = k.file /\ n.connection = "CLOSE"
  /\ n.state \in {"RECV_DATA", "SEND_DATA"} /\ n.content \in {k.content, "DATA"}
  /\ n.drift = 0

\* n differs from k in the stream it drives, its state and its flags only.
Switched(n, k) ==
  /\ n.method = k.method /\ n.content = k.content /\ n.status = k.status
  /\ n.connection = k.connection /\ n.drift = k.drift
  /\ n.req = k.req /\ n.res = k.res /\ n.data = k.data
  /\ n.file = k.file /\ n.cgi = k.cgi
  /\ n.owed = k.owed /\ n.lost = k.lost /\ n.failed = k.failed /\ n.fault = k.fault

\* A response of m units is announced for k.
Announced(n, k, m) ==
  /\ n.method = k.method /\ n.content = k.content /\ n.status = k.status
  /\ n.connection = k.connection
  /\ n.req = k.req /\ n.data = k.data /\ n.file = k.file /\ n.cgi = k.cgi
  /\ n.owed = m /\ n.lost = 0 /\ n.drift = 0 /\ ~n.failed /\ n.fault = k.fault

(***************************************************************************)
(* A promise is history; Generate() also fills the response stream         *)
(* (protocol.cpp:182-249).                                                 *)
(***************************************************************************)
LEMMA PromiseParts ==
  ASSUME NEW k \in Client, NEW m
  PROVE  Announced(Promise(k, m), k, m) /\ Promise(k, m).res = k.res
BY DEF Promise, Announced, Client

LEMMA GenerateParts ==
  ASSUME NEW k \in Client, NEW body \in Nat
  PROVE  /\ Announced(Generate(k, body), k, HeaderSize + body)
         /\ Generate(k, body).res.size = HeaderSize
<1> DEFINE m == HeaderSize + body
           j == Promise(k, m)
           n == [j EXCEPT !.res.size = HeaderSize]
<1>1. j \in Client /\ Announced(j, k, m)
  BY HeaderAssumption, PromiseType, PromiseParts
<1>2. Generate(k, body) = n
  BY DEF Generate
<1> HIDE DEF m, j
<1>3. Announced(n, k, m) /\ n.res.size = HeaderSize
  BY <1>1 DEF Announced, Client, BufferStream
<1> QED BY <1>2, <1>3 DEF m

(***************************************************************************)
(* The response stream, the script's input or its output is driven next    *)
(* (protocol.cpp:896-911).                                                 *)
(***************************************************************************)
LEMMA SendingParts ==
  ASSUME NEW k \in Client
  PROVE  /\ Switched(Sending(k), k)
         /\ Sending(k).state = "SEND_RESPONSE" /\ Sending(k).psp = "res"
BY DEF Sending, Switched, Client

LEMMA RouteParts ==
  ASSUME NEW k \in Client, NEW c
  PROVE  LET n == Route(k, c)
         IN /\ Switched(n, k)
            /\ IF k.method = "POST" /\ k.cgi.datac < k.cgi.datal
               THEN n.psp = "cgi" /\ n.state = "RECV_DATA"
               ELSE IF c.cgi THEN n.psp = "cgi" /\ n.state = "SEND_DATA"
               ELSE n.psp = "res" /\ n.state = "SEND_RESPONSE"
<1>1. CASE k.method = "POST" /\ k.cgi.datac < k.cgi.datal
  <2>1. Route(k, c) = [k EXCEPT !.psp = "cgi", !.state = "RECV_DATA", !.sflags = {"RECV"}]
    BY <1>1 DEF Route
  <2> QED BY <1>1, <2>1 DEF Switched, Client
<1>2. CASE ~(k.method = "POST" /\ k.cgi.datac < k.cgi.datal) /\ c.cgi
  <2>1. Route(k, c) = [k EXCEPT !.psp = "cgi", !.state = "SEND_DATA", !.sflags = {"SEND"}]
    BY <1>2 DEF Route
  <2> QED BY <1>2, <2>1 DEF Switched, Client
<1>3. CASE ~(k.method = "POST" /\ k.cgi.datac < k.cgi.datal) /\ ~c.cgi
  <2>1. Route(k, c) = Sending(k)
    BY <1>3 DEF Route
  <2> QED BY <1>3, <2>1, SendingParts
<1> QED BY <1>1, <1>2, <1>3

(***************************************************************************)
(* An error, a redirection: a page of its own or none                      *)
(* (protocol.cpp:913-936).                                                 *)
(***************************************************************************)
LEMMA RefuseParts ==
  ASSUME NEW k \in Client, NEW c \in Configs, NEW status \in StatusCode
  PROVE  LET n == Refuse(k, status, c)
         IN Begun(n, k) /\ StartsPage(n, k) /\ n.connection = k.connection
<1> DEFINE page == IF status >= 400 THEN c.pageSize ELSE 0
           paged == status >= 400 /\ k.method # "HEAD"
           made == [k EXCEPT !.data.size = page,
                             !.content = IF paged THEN "DATA" ELSE k.content]
           body == IF paged THEN page ELSE 0
           gen == Generate(made, body)
           n == Sending(gen)
<1>1. page \in Nat /\ body \in Nat /\ (paged => page > 0)
  BY ConfigAssumption DEF Config
<1>2. /\ made \in Client /\ made.method = k.method /\ made.status = k.status
      /\ made.connection = k.connection /\ made.req = k.req
      /\ made.file = k.file /\ made.cgi = k.cgi /\ made.fault = k.fault
      /\ made.data.size = page
      /\ made.content = IF paged THEN "DATA" ELSE k.content
  <2> HIDE DEF page, paged
  <2> QED BY <1>1 DEF Client, BufferStream
<1>3. Refuse(k, status, c) = n
  BY DEF Refuse
<1> HIDE DEF made, body
<1>4. /\ gen \in Client /\ Announced(gen, made, HeaderSize + body)
      /\ gen.res.size = HeaderSize
  BY <1>1, <1>2, GenerateType, GenerateParts
<1> HIDE DEF gen
<1>5. Switched(n, gen) /\ n.state = "SEND_RESPONSE" /\ n.psp = "res"
  BY <1>4, SendingParts
<1> HIDE DEF n, page, paged
<1>6. Begun(n, k) /\ n.connection = k.connection
  BY <1>2, <1>4, <1>5 DEF Begun, Switched, Announced
<1>7. StartsPage(n, k)
  <2>1. /\ n.req = k.req /\ n.cgi = k.cgi /\ n.file = k.file /\ n.drift = 0
        /\ n.res.size = HeaderSize /\ n.owed = HeaderSize + body
        /\ n.data.size = page /\ n.content = made.content
    BY <1>2, <1>4, <1>5 DEF Switched, Announced
  <2>2. CASE paged
    BY <1>1, <1>2, <1>5, <2>1, <2>2 DEF StartsPage, body
  <2>3. CASE ~paged
    BY <1>2, <1>5, <2>1, <2>3 DEF StartsPage, body
  <2> QED BY <2>2, <2>3
<1> QED BY <1>3, <1>6, <1>7

(***************************************************************************)
(* A listing, a file and a script (protocol.cpp:820-894).                  *)
(***************************************************************************)
LEMMA ListDirParts ==
  ASSUME NEW k \in Client, NEW c \in Configs
  PROVE  LET n == ListDir(k, c)
         IN /\ n \in Client /\ Begun(n, k) /\ n.connection = k.connection
            /\ n.req = k.req /\ n.cgi = k.cgi /\ n.file = k.file
            /\ n.res.size = HeaderSize /\ n.drift = 0
            /\ \/ n.content = k.content /\ n.owed = HeaderSize + 0
               \/ /\ n.content = "DATA" /\ n.data.size > 0
                  /\ n.owed = HeaderSize + n.data.size
<1> DEFINE made == [k EXCEPT !.data.size = c.pageSize, !.content = "DATA"]
<1>1. c.pageSize \in Nat /\ c.pageSize > 0
  BY ConfigAssumption DEF Config
<1>2. /\ made \in Client /\ made.method = k.method /\ made.status = k.status
      /\ made.connection = k.connection /\ made.req = k.req
      /\ made.file = k.file /\ made.cgi = k.cgi /\ made.fault = k.fault
      /\ made.data.size = c.pageSize /\ made.content = "DATA"
  BY <1>1 DEF Client, BufferStream
<1>3. ListDir(k, c) = IF k.method = "HEAD" THEN Generate(k, 0)
                      ELSE Generate(made, c.pageSize)
  BY DEF ListDir
<1> HIDE DEF made
<1>4. CASE k.method = "HEAD"
  BY <1>3, <1>4, GenerateType, GenerateParts DEF Announced, Begun
<1>5. CASE k.method # "HEAD"
  <2> DEFINE n == Generate(made, c.pageSize)
  <2>1. /\ n \in Client /\ Announced(n, made, HeaderSize + c.pageSize)
        /\ n.res.size = HeaderSize
    BY <1>1, <1>2, GenerateType, GenerateParts
  <2> HIDE DEF n
  <2>2. n.data.size = c.pageSize /\ n.owed = HeaderSize + n.data.size
    BY <1>2, <2>1 DEF Announced
  <2>3. ListDir(k, c) = n
    BY <1>3, <1>5 DEF n
  <2> QED BY <1>1, <1>2, <2>1, <2>2, <2>3 DEF Announced, Begun
<1> QED BY <1>4, <1>5

LEMMA SendFileParts ==
  ASSUME NEW k \in Client, NEW c \in Configs
  PROVE  LET n == SendFile(k, c)
         IN /\ n \in Client /\ Begun(n, k) /\ n.connection = k.connection
            /\ n.req = k.req /\ n.cgi = k.cgi /\ n.res.size = HeaderSize
            /\ IF k.method = "HEAD"
               THEN /\ n.file = k.file /\ n.content = k.content
                    /\ n.owed = HeaderSize + 0 /\ n.drift = 0
               ELSE /\ n.file = OpenFile(c.length) /\ n.content = "FILE"
                    /\ n.owed = HeaderSize + c.st_size
                    /\ n.drift = c.st_size - c.length
<1>0. SendFile(k, c) \in Client
  BY SendFileType
<1>1. CASE k.method = "HEAD"
  <2>1. SendFile(k, c) = Generate(k, 0)
    BY <1>1 DEF SendFile
  <2> QED BY <1>0, <1>1, <2>1, GenerateParts DEF Announced, Begun
<1>2. CASE k.method # "HEAD"
  <2> DEFINE file == OpenFile(c.length)
             made == [k EXCEPT !.file = file, !.content = "FILE"]
             gen == Generate(made, c.st_size)
             drift == c.st_size - c.length
             n == [gen EXCEPT !.drift = drift]
  <2>1. c.length \in Nat /\ c.st_size \in Nat
    BY ConfigAssumption DEF Config
  <2>2. SendFile(k, c) = n
    BY <1>2 DEF SendFile
  <2>3. file \in FileStream
    BY <2>1, OpenFileType
  <2> HIDE DEF file
  <2>4. /\ made \in Client /\ made.method = k.method /\ made.status = k.status
        /\ made.connection = k.connection /\ made.req = k.req
        /\ made.file = file /\ made.cgi = k.cgi /\ made.fault = k.fault
        /\ made.content = "FILE"
    BY <2>3 DEF Client
  <2> HIDE DEF made
  <2>5. /\ gen \in Client /\ Announced(gen, made, HeaderSize + c.st_size)
        /\ gen.res.size = HeaderSize
    BY <2>1, <2>4, GenerateType, GenerateParts
  <2> HIDE DEF gen, drift
  <2>6. /\ n.method = gen.method /\ n.status = gen.status
        /\ n.connection = gen.connection /\ n.req = gen.req
        /\ n.file = gen.file /\ n.cgi = gen.cgi /\ n.fault = gen.fault
        /\ n.content = gen.content /\ n.owed = gen.owed /\ n.lost = gen.lost
        /\ n.failed = gen.failed /\ n.res = gen.res /\ n.drift = drift
    BY <2>5 DEF Client
  <2> HIDE DEF n
  <2> QED BY <1>0, <1>2, <2>2, <2>4, <2>5, <2>6 DEF Announced, Begun, drift, file
<1> QED BY <1>1, <1>2

LEMMA RunCgiParts ==
  ASSUME NEW k \in Client, NEW c \in Configs, k.req.postl <= Len(k.req.buffer)
  PROVE  LET n == RunCgi(k, c)
             datal == IF k.method = "POST" THEN k.clen ELSE 0
             open == CgiOpen(k.cgi, c.script, datal, k.req)
         IN /\ n \in Client /\ Begun(n, k) /\ n.connection = k.connection
            /\ n.req = open.req /\ n.cgi = open.s /\ n.file = k.file
            /\ n.content = "CGI" /\ n.owed = 1 + Len(c.script) /\ n.drift = 0
<1> DEFINE datal == IF k.method = "POST" THEN k.clen ELSE 0
           open == CgiOpen(k.cgi, c.script, datal, k.req)
           made == [k EXCEPT !.cgi = open.s, !.req = open.req, !.content = "CGI"]
           n == Promise(made, 1 + Len(c.script))
<1>1. /\ k.cgi \in CgiStream /\ k.req \in RequestStream(Token)
      /\ datal \in Nat /\ c.script \in Seq(CgiUnit)
  BY ConfigAssumption DEF Config, Client
<1>2. open.s \in CgiStream /\ open.req \in RequestStream(Token)
  <2> HIDE DEF datal
  <2> QED BY <1>1, CgiOpenType
<1>3. open.req.buffer = k.req.buffer
  BY <1>1 DEF CgiOpen, RequestStream
<1>4. RunCgi(k, c) = n /\ RunCgi(k, c) \in Client
  BY RunCgiType DEF RunCgi
<1> HIDE DEF datal, open
<1>5. /\ made \in Client /\ made.method = k.method /\ made.status = k.status
      /\ made.connection = k.connection /\ made.req = open.req
      /\ made.file = k.file /\ made.cgi = open.s /\ made.fault = k.fault
      /\ made.content = "CGI"
  BY <1>2 DEF Client
<1> HIDE DEF made
<1>6. Announced(n, made, 1 + Len(c.script))
  BY <1>5, PromiseParts
<1> HIDE DEF n
<1> QED BY <1>3, <1>4, <1>5, <1>6 DEF Announced, Begun, open, datal

(***************************************************************************)
(* Process() starts a page, a file or a script, or, where a listing is     *)
(* asked for together with a script, neither (protocol.cpp:741-936).       *)
(***************************************************************************)
LEMMA ProcessParts ==
  ASSUME NEW k, Processed(k), NEW c \in Configs
  PROVE  LET n == Process(k, c)
         IN /\ Begun(n, k)
            /\ StartsPage(n, k) \/ StartsFile(n, k, c) \/ StartsScript(n, k, c)
               \/ StartsBoth(n, k, c)
            /\ k.status # 200 => StartsPage(n, k)
<1> DEFINE a == IF c.cgi THEN [k EXCEPT !.connection = "CLOSE"] ELSE k
           n == Process(k, c)
<1>1. k \in Client /\ k.status \in StatusCode
  BY DEF Processed, Client
<1>2. /\ a \in Client /\ a.status = k.status /\ a.method = k.method
      /\ a.req = k.req /\ a.cgi = k.cgi /\ a.file = k.file /\ a.clen = k.clen
      /\ a.content = k.content /\ a.fault = k.fault
      /\ a.connection \in {k.connection, "CLOSE"}
      /\ c.cgi => a.connection = "CLOSE"
  BY <1>1 DEF Client
<1>3. n = IF k.status # 200 THEN Refuse(k, k.status, c)
          ELSE IF Verdict(k, c) = 304 THEN Route(Generate(a, 0), c)
          ELSE IF Verdict(k, c) # 200 THEN Refuse(a, Verdict(k, c), c)
          ELSE IF IsListing(c) THEN Route(ListDir(a, c), c)
          ELSE IF c.cgi THEN Route(RunCgi(a, c), c)
          ELSE Route(SendFile(a, c), c)
  BY DEF Process
<1>4. /\ Verdict(k, c) \in StatusCode
      /\ Verdict(k, c) = 304 => ~c.cgi /\ k.method # "POST"
      /\ Verdict(k, c) = 200 => c.cgi \/ k.method # "POST"
      /\ Verdict(k, c) = 200 /\ ~IsListing(c) /\ ~c.cgi /\ k.method # "HEAD"
           => SendsFile(c)
  BY DEF Verdict, StatusCode, ErrorCode, SendsFile
<1> HIDE DEF a, n
<1>5. ASSUME Begun(n, a), StartsPage(n, a)
      PROVE  Begun(n, k) /\ StartsPage(n, k)
  BY <1>2, <1>5 DEF Begun, StartsPage
<1>6. CASE k.status # 200
  BY <1>1, <1>3, <1>6, RefuseParts DEF n
<1>7. CASE k.status = 200 /\ Verdict(k, c) = 304
  <2> DEFINE g == Generate(a, 0)
  <2>1. g \in Client /\ Announced(g, a, HeaderSize + 0) /\ g.res.size = HeaderSize
    BY <1>2, GenerateType, GenerateParts
  <2>2. n = Route(g, c)
    BY <1>3, <1>7
  <2> HIDE DEF g
  <2>3. Switched(n, g) /\ n.psp = "res" /\ n.state = "SEND_RESPONSE"
    BY <1>2, <1>4, <1>7, <2>1, <2>2, RouteParts DEF Announced
  <2>4. Begun(n, a) /\ StartsPage(n, a)
    BY <2>1, <2>3 DEF Begun, StartsPage, Switched, Announced
  <2> QED BY <1>5, <1>7, <2>4 DEF n
<1>8. CASE k.status = 200 /\ Verdict(k, c) \notin {200, 304}
  BY <1>2, <1>3, <1>4, <1>5, <1>8, RefuseParts DEF n
<1>9. CASE k.status = 200 /\ Verdict(k, c) = 200
  <2>1. CASE IsListing(c)
    <3> DEFINE g == ListDir(a, c)
    <3>1. /\ g \in Client /\ Begun(g, a) /\ g.connection = a.connection
          /\ g.req = a.req /\ g.cgi = a.cgi /\ g.file = a.file
          /\ g.res.size = HeaderSize /\ g.drift = 0
          /\ \/ g.content = a.content /\ g.owed = HeaderSize + 0
             \/ /\ g.content = "DATA" /\ g.data.size > 0
                /\ g.owed = HeaderSize + g.data.size
      BY <1>2, ListDirParts
    <3>2. n = Route(g, c)
      BY <1>3, <1>9, <2>1
    <3> HIDE DEF g
    <3>3. Switched(n, g)
      BY <3>1, <3>2, RouteParts
    <3>4. Begun(n, a)
      BY <3>1, <3>3 DEF Begun, Switched
    <3>5. CASE c.cgi
      <4>1. n.state \in {"RECV_DATA", "SEND_DATA"}
        BY <3>1, <3>2, <3>5, RouteParts
      <4>2. StartsBoth(n, k, c) /\ Begun(n, k)
        BY <1>2, <2>1, <3>1, <3>3, <3>4, <3>5, <4>1 DEF StartsBoth, Switched, Begun
      <4> QED BY <1>9, <4>2 DEF n
    <3>6. CASE ~c.cgi
      <4>1. n.psp = "res" /\ n.state = "SEND_RESPONSE"
        BY <1>2, <1>4, <1>9, <3>1, <3>2, <3>6, RouteParts DEF Begun
      <4>2. StartsPage(n, a)
        BY <3>1, <3>3, <4>1 DEF StartsPage, Switched
      <4> QED BY <1>5, <1>9, <3>4, <4>2 DEF n
    <3> QED BY <3>5, <3>6
  <2>2. CASE ~IsListing(c) /\ c.cgi
    <3> DEFINE g == RunCgi(a, c)
               datal == IF a.method = "POST" THEN a.clen ELSE 0
               open == CgiOpen(a.cgi, c.script, datal, a.req)
    <3>1. a.req.postl <= Len(a.req.buffer)
      BY <1>2, <1>9 DEF Processed
    <3>2. /\ g \in Client /\ Begun(g, a) /\ g.connection = a.connection
          /\ g.req = open.req /\ g.cgi = open.s /\ g.file = a.file
          /\ g.content = "CGI" /\ g.owed = 1 + Len(c.script) /\ g.drift = 0
      BY <1>2, <3>1, RunCgiParts
    <3>3. n = Route(g, c)
      BY <1>3, <1>9, <2>2
    <3> HIDE DEF g
    <3>4. /\ Switched(n, g) /\ n.psp = "cgi"
          /\ IF g.method = "POST" /\ g.cgi.datac < g.cgi.datal
             THEN n.state = "RECV_DATA" ELSE n.state = "SEND_DATA"
      BY <2>2, <3>2, <3>3, RouteParts
    <3>5. Begun(n, k)
      BY <1>2, <3>2, <3>4 DEF Begun, Switched
    <3>6. StartsScript(n, k, c)
      BY <1>2, <2>2, <3>2, <3>4 DEF StartsScript, Switched, Begun
    <3> QED BY <1>9, <3>5, <3>6 DEF n
  <2>3. CASE ~IsListing(c) /\ ~c.cgi
    <3> DEFINE g == SendFile(a, c)
    <3>1. /\ g \in Client /\ Begun(g, a) /\ g.connection = a.connection
          /\ g.req = a.req /\ g.cgi = a.cgi /\ g.res.size = HeaderSize
          /\ IF a.method = "HEAD"
             THEN /\ g.file = a.file /\ g.content = a.content
                  /\ g.owed = HeaderSize + 0 /\ g.drift = 0
             ELSE /\ g.file = OpenFile(c.length) /\ g.content = "FILE"
                  /\ g.owed = HeaderSize + c.st_size
                  /\ g.drift = c.st_size - c.length
      BY <1>2, SendFileParts
    <3>2. n = Route(g, c)
      BY <1>3, <1>9, <2>3
    <3> HIDE DEF g
    <3>3. Switched(n, g) /\ n.psp = "res" /\ n.state = "SEND_RESPONSE"
      BY <1>2, <1>4, <1>9, <2>3, <3>1, <3>2, RouteParts DEF Begun
    <3>4. Begun(n, k) /\ Begun(n, a)
      BY <1>2, <3>1, <3>3 DEF Begun, Switched
    <3>5. CASE k.method = "HEAD"
      <4>1. StartsPage(n, a)
        BY <1>2, <3>1, <3>3, <3>5 DEF StartsPage, Switched
      <4> QED BY <1>5, <1>9, <3>4, <4>1 DEF n
    <3>6. CASE k.method # "HEAD"
      <4>1. StartsFile(n, k, c)
        BY <1>2, <1>4, <1>9, <2>3, <3>1, <3>3, <3>6 DEF StartsFile, Switched
      <4> QED BY <1>9, <3>4, <4>1 DEF n
    <3> QED BY <3>5, <3>6
  <2> QED BY <2>1, <2>2, <2>3
<1> QED BY <1>6, <1>7, <1>8, <1>9

-----------------------------------------------------------------------------
(* What a step of the loop is for one client.                              *)

\* Nothing; or its connection is made, refused or accepted.
Stays(c) == cl'[c] = cl[c] /\ life'[c] = life[c] /\ wire'[c] = wire[c]
Joins(c) ==
  cl'[c] = cl[c] /\ life[c] = "remote" /\ life'[c] = "backlog" /\ wire'[c] \in Traffic
TurnedAway(c) ==
  /\ cl'[c] = cl[c] /\ life[c] = "backlog" /\ life'[c] = "closed"
  /\ wire'[c] = wire[c]
Made(c) ==
  /\ life[c] = "backlog" /\ life'[c] = "open" /\ wire'[c] = wire[c]
  /\ \E postl, datac, datal \in Garbage : cl'[c] = NewClient(postl, datac, datal)

\* What the loop makes of the outcome of a read or a write.
Left(o) == IF o.ret THEN Poll(o.k) ELSE Polled(o.k, "SKIP")

Follows(c, o) ==
  /\ life[c] = "open" /\ Handled(cl[c], o) /\ cl'[c] = Left(o).k
  /\ life'[c] = IF Left(o).poll = "CLOSE" THEN "closed" ELSE "open"
  /\ Continue(Left(o).k, "events")

Receives(c) ==
  /\ AwaitsRequest(cl[c]) \/ AwaitsBody(cl[c])
  /\ \E r \in SystemResult :
       /\ Moved(r) \in 0..Len(wire[c])
       /\ wire'[c] = Dropped(wire[c], Moved(r))
       /\ Follows(c, StreamRead(cl[c], r, SubSeq(wire[c], 1, Moved(r))))

Sends(c) ==
  /\ Answers(cl[c]) /\ wire'[c] = wire[c]
  /\ \E p, r :
       /\ PipeRead(cl[c].cgi, p)
       /\ r \in SendResults(c, StreamOffer(cl[c], p))
       /\ Follows(c, StreamWrite(cl[c], p, r))

Runs(c) ==
  /\ life[c] = "open" /\ life'[c] = "open" /\ wire'[c] = wire[c]
  /\ Queues(cl[c])
  /\ \E cfg \in Configs : cl'[c] = Process(Accept(cl[c]), cfg)

Happens(c) ==
  Stays(c) \/ Joins(c) \/ TurnedAway(c) \/ Made(c) \/ Receives(c) \/ Sends(c) \/ Runs(c)

(***************************************************************************)
(* An undefined operation ends the process.                                *)
(***************************************************************************)
LEMMA UndefinedEnds ==
  ASSUME [Next]_vars, pc = "undefined"
  PROVE  UNCHANGED vars
BY DEF Next, Loop, HandleRecv, HandleSend, AcceptClient, AcceptRefused, AcceptDone,
       EventsDone, RunTask, TasksDone, EpollWait, Connect, PeerClose

(***************************************************************************)
(* An event concerns the client it is for, and no other.                   *)
(***************************************************************************)
LEMMA DispatchFollows ==
  ASSUME IInv, NEW c \in Clients, c \in events, NEW o, Handled(cl[c], o),
         Dispatch(c, o)
  PROVE  /\ Follows(c, o)
         /\ \A d \in Clients \ {c} : cl'[d] = cl[d] /\ life'[d] = life[d]
<1> DEFINE q == Left(o)
<1>1. PICK p : /\ p = q
               /\ cl' = [cl EXCEPT ![c] = p.k]
               /\ life' = IF p.poll = "CLOSE" THEN [life EXCEPT ![c] = "closed"]
                          ELSE life
               /\ Continue(p.k, "events")
  BY DEF Dispatch, Left
<1> HIDE DEF q
<1>2. TypeOK /\ BatchAlive
  BY DEF IInv
<1>3. life[c] = "open"
  BY <1>2, ClientsAssumption DEF BatchAlive
<1>4. /\ cl'[c] = q.k /\ Continue(q.k, "events")
      /\ life'[c] = (IF q.poll = "CLOSE" THEN "closed" ELSE "open")
      /\ \A d \in Clients \ {c} : cl'[d] = cl[d] /\ life'[d] = life[d]
  BY <1>1, <1>2, <1>3 DEF TypeOK
<1> QED BY <1>3, <1>4 DEF Follows, q

LEMMA RecvHappens ==
  ASSUME IInv, NEW c \in Clients, HandleRecv(c)
  PROVE  Receives(c) /\ \A d \in Clients \ {c} : Stays(d)
<1>0. TypeOK /\ BatchAlive /\ Controlled
  BY DEF IInv
<1>1. c \in events /\ "RECV" \in cl[c].sflags
  BY DEF HandleRecv
<1>2. PICK r \in RecvResults(c) :
        /\ wire' = [wire EXCEPT ![c] = Dropped(wire[c], Moved(r))]
        /\ Dispatch(c, StreamRead(cl[c], r, SubSeq(wire[c], 1, Moved(r))))
  BY DEF HandleRecv
<1>3. wire[c] \in Seq(Token) /\ cl[c] \in Client
  BY <1>0 DEF TypeOK
<1>4. r \in SystemResult /\ Moved(r) \in 0..Len(wire[c]) /\ Moved(r) \in Nat
  BY <1>3, RecvResultsType
<1> DEFINE data == SubSeq(wire[c], 1, Moved(r))
           o == StreamRead(cl[c], r, data)
<1>5. data \in Seq(Token)
  BY <1>3, <1>4, PrefixType
<1>6. AwaitsRequest(cl[c]) \/ AwaitsBody(cl[c])
  <2>1. life[c] = "open"
    BY <1>0, <1>1, ClientsAssumption DEF BatchAlive
  <2> QED BY <1>0, <1>1, <2>1 DEF Controlled, Open, Control, Answers, Queues
<1> HIDE DEF data
<1>7. Handled(cl[c], o)
  BY <1>3, <1>4, <1>5, <1>6, StreamReadType
<1> HIDE DEF o
<1>8. Follows(c, o) /\ \A d \in Clients \ {c} : cl'[d] = cl[d] /\ life'[d] = life[d]
  BY <1>1, <1>2, <1>7, DispatchFollows DEF o, data
<1>9. /\ wire'[c] = Dropped(wire[c], Moved(r))
      /\ \A d \in Clients \ {c} : wire'[d] = wire[d]
  BY <1>0, <1>2 DEF TypeOK
<1>10. Receives(c)
  BY <1>4, <1>6, <1>8, <1>9 DEF Receives, o, data
<1> QED BY <1>8, <1>9, <1>10 DEF Stays

LEMMA SendHappens ==
  ASSUME IInv, NEW c \in Clients, HandleSend(c)
  PROVE  Sends(c) /\ \A d \in Clients \ {c} : Stays(d)
<1>0. TypeOK /\ BatchAlive /\ Controlled
  BY DEF IInv
<1>1. c \in events /\ "SEND" \in cl[c].sflags /\ wire' = wire
  BY DEF HandleSend
<1>2. PICK p \in IF cl[c].psp = "cgi" THEN PipeReads(cl[c].cgi)
                 ELSE Transferred({0}) :
      \E r \in SendResults(c, StreamOffer(cl[c], p)) :
        Dispatch(c, StreamWrite(cl[c], p, r))
  BY DEF HandleSend
<1>3. PICK r \in SendResults(c, StreamOffer(cl[c], p)) :
        Dispatch(c, StreamWrite(cl[c], p, r))
  BY <1>2
<1>4. cl[c] \in Client /\ cl[c].cgi \in CgiStream
  BY <1>0 DEF TypeOK, Client
<1>5. PipeRead(cl[c].cgi, p)
  <2>1. CASE cl[c].psp = "cgi"
    BY <1>2, <1>4, <2>1, PipeReadsType
  <2>2. CASE cl[c].psp # "cgi"
    <3>1. p = Result(0, "none")
      BY <1>2, <2>2 DEF Transferred
    <3>2. Len(cl[c].cgi.pipe) \in Nat
      BY <1>4, LenProperties DEF CgiStream
    <3> QED BY <3>1, <3>2 DEF Result, SystemResult, PipeRead
  <2> QED BY <2>1, <2>2
<1>6. Answers(cl[c])
  <2>1. life[c] = "open"
    BY <1>0, <1>1, ClientsAssumption DEF BatchAlive
  <2> QED
    BY <1>0, <1>1, <2>1 DEF Controlled, Open, Control, AwaitsRequest, AwaitsBody, Queues
<1>7. r \in SystemResult /\ -1 <= r.len /\ r.len <= StreamOffer(cl[c], p)
  <2>1. StreamOffer(cl[c], p) \in Nat
    BY <1>4, <1>5, <1>6, StreamOfferType
  <2> QED BY <2>1, SendResultsType
<1>8. Handled(cl[c], StreamWrite(cl[c], p, r))
  BY <1>4, <1>5, <1>6, <1>7, StreamWriteType
<1>9. /\ Follows(c, StreamWrite(cl[c], p, r))
      /\ \A d \in Clients \ {c} : cl'[d] = cl[d] /\ life'[d] = life[d]
  BY <1>1, <1>3, <1>8, DispatchFollows
<1>10. Sends(c)
  BY <1>1, <1>5, <1>6, <1>9 DEF Sends
<1> QED BY <1>1, <1>9, <1>10 DEF Stays

(***************************************************************************)
(* A task is of the client at the head of the queue.                       *)
(***************************************************************************)
LEMMA RunHappens ==
  ASSUME IInv, RunTask
  PROVE  \E c \in Clients : Runs(c) /\ \A d \in Clients \ {c} : Stays(d)
<1>0. TypeOK /\ QueueExact /\ Controlled
  BY DEF IInv
<1>1. taskq # << >> /\ UNCHANGED <<life, wire>>
  BY DEF RunTask
<1>2. PICK c \in {Head(taskq)} : \E cfg \in Configs :
        \E k \in {Process(Accept(cl[c]), cfg)} : cl' = [cl EXCEPT ![c] = k]
  BY DEF RunTask
<1>3. PICK cfg \in Configs : cl' = [cl EXCEPT ![c] = Process(Accept(cl[c]), cfg)]
  BY <1>2
<1>4. taskq \in Seq(Clients) /\ Len(taskq) \in Nat /\ Len(taskq) > 0
      /\ c = taskq[1] /\ c \in Clients
  BY <1>0, <1>1, <1>2, HeadTailProperties, EmptySeq, LenProperties DEF TypeOK
<1>5. life[c] = "open" /\ cl[c].sflags = {}
  <2>1. 1 \in 1..Len(taskq)
    BY <1>4
  <2> QED BY <1>0, <1>4, <2>1 DEF QueueExact
<1>6. Queues(cl[c])
  BY <1>0, <1>4, <1>5
     DEF Controlled, Open, Control, AwaitsRequest, AwaitsBody, Answers
<1>7. /\ cl'[c] = Process(Accept(cl[c]), cfg)
      /\ \A d \in Clients \ {c} : cl'[d] = cl[d]
  BY <1>0, <1>3, <1>4 DEF TypeOK
<1> QED BY <1>1, <1>4, <1>5, <1>6, <1>7 DEF Runs, Stays

(***************************************************************************)
(* Every step is one of these for every client.                            *)
(***************************************************************************)
LEMMA StepHappens ==
  ASSUME IInv, [Next]_vars, NEW c \in Clients
  PROVE  Happens(c)
<1>0. TypeOK
  BY DEF IInv
<1>1. CASE UNCHANGED vars
  BY <1>1 DEF vars, Happens, Stays
<1>2. ASSUME NEW d \in Clients, HandleRecv(d) PROVE Happens(c)
  BY <1>2, RecvHappens DEF Happens
<1>3. ASSUME NEW d \in Clients, HandleSend(d) PROVE Happens(c)
  BY <1>3, SendHappens DEF Happens
<1>4. ASSUME NEW d \in Clients, AcceptClient(d) PROVE Happens(c)
  <2>1. /\ life[d] = "backlog" /\ life' = [life EXCEPT ![d] = "open"] /\ wire' = wire
        /\ \E postl, datac, datal \in Garbage :
             cl' = [cl EXCEPT ![d] = NewClient(postl, datac, datal)]
    BY <1>4 DEF AcceptClient
  <2>2. PICK postl \in Garbage, datac \in Garbage, datal \in Garbage :
             cl' = [cl EXCEPT ![d] = NewClient(postl, datac, datal)]
    BY <2>1
  <2>3. CASE c = d
    BY <1>0, <2>1, <2>2, <2>3 DEF TypeOK, Happens, Made
  <2>4. CASE c # d
    BY <1>0, <2>1, <2>2, <2>4 DEF TypeOK, Happens, Stays
  <2> QED BY <2>3, <2>4
<1>5. ASSUME NEW d \in Clients, AcceptRefused(d) PROVE Happens(c)
  BY <1>0, <1>5 DEF AcceptRefused, TypeOK, Happens, Stays, TurnedAway
<1>6. ASSUME NEW d \in Clients, Connect(d) PROVE Happens(c)
  <2>1. /\ life[d] = "remote" /\ life' = [life EXCEPT ![d] = "backlog"] /\ cl' = cl
        /\ \E stream \in Traffic : wire' = [wire EXCEPT ![d] = stream]
    BY <1>6 DEF Connect
  <2>2. PICK stream \in Traffic : wire' = [wire EXCEPT ![d] = stream]
    BY <2>1
  <2> QED BY <1>0, <2>1, <2>2 DEF TypeOK, Happens, Stays, Joins
<1>7. ASSUME NEW d \in Clients, PeerClose(d) PROVE Happens(c)
  BY <1>7 DEF PeerClose, Happens, Stays
<1>8. CASE RunTask
  BY <1>8, RunHappens DEF Happens
<1>9. CASE AcceptDone \/ EventsDone \/ TasksDone \/ EpollWait
  BY <1>9 DEF AcceptDone, EventsDone, TasksDone, EpollWait, Happens, Stays
<1> QED
  BY <1>1, <1>2, <1>3, <1>4, <1>5, <1>6, <1>7, <1>8, <1>9 DEF Next, Loop

-----------------------------------------------------------------------------
(* Nothing of one exchange reaches the next, and Reset() erases inside its *)
(* buffer but for the two known cases.                                     *)

\* The two ways in which postl is not the end of a request.
Excused(k) ==
  \/ k.status = 413
  \/ k.content = "CGI" /\ k.method = "POST" /\ k.req.postl = k.cgi.datal

\* A client in the middle of an exchange.
Busy(k) ==
  /\ k.req.postl <= Len(k.req.buffer) \/ Excused(k)
  /\ k.connection = "KEEPALIVE" => Cut(k.req)
  /\ k.content = "CGI" \/ k.state = "RECV_DATA" => k.connection = "CLOSE"
  /\ k.file.open => k.state # "RECV_DATA"

Orderly(k) ==
  IF k.state = "RECV_REQUEST" THEN Idle(k) /\ Requesting(k) ELSE Busy(k)

\* What a client is after every step, open or not.
Tidy(k, open) ==
  /\ open /\ k.fault = "none" => Orderly(k)
  /\ ~open => ~k.file.open
  /\ k.fault = "Erase" => Excused(k)
  /\ k.fault # "none" /\ k.state = "RECV_REQUEST" => k.req.state # "SUCCESS"

\* No client that is driven further has met an undefined operation.
Defined == pc # "undefined" => \A c \in Clients : cl[c].fault = "none"

TidyInv == Defined /\ \A c \in Clients : Tidy(cl[c], life[c] = "open")

(***************************************************************************)
(* The client that the constructor makes is idle.                          *)
(***************************************************************************)
LEMMA NewClientParts ==
  ASSUME NEW postl \in Nat, NEW datac \in Nat, NEW datal \in Nat
  PROVE  LET k == NewClient(postl, datac, datal)
         IN /\ k.state = "RECV_REQUEST" /\ k.fault = "none" /\ ~k.failed
            /\ k.owed = 0 /\ k.lost = 0 /\ k.drift = 0
            /\ k.req.buffer = << >> /\ k.file = ClosedFile
            /\ Idle(k) /\ Requesting(k)
BY DEF NewClient, Reset, NewRequestStream, EmptyBuffer, ClosedFile, NewCgi,
       Idle, Requesting

(***************************************************************************)
(* The answer of Poll() to a completed response keeps a client tidy.       *)
(***************************************************************************)
LEMMA EndTidy ==
  ASSUME NEW p, NEW k \in Client, k.state # "RECV_REQUEST", Busy(k),
         Overran(p, k) \/ Closes(p, k) \/ Restarts(p, k)
  PROVE  Tidy(p.k, p.poll # "CLOSE")
<1>1. CASE Overran(p, k)
  <2>1. p.k.fault = "Erase" /\ p.k.state # "RECV_REQUEST" /\ p.poll = "SKIP"
    BY <1>1 DEF Overran, Same
  <2>2. Excused(k) => Excused(p.k)
    BY <1>1 DEF Overran, Same, Excused
  <2>3. k.req.postl \in Nat /\ Len(k.req.buffer) \in Nat
    BY LenProperties DEF Client, RequestStream
  <2>4. Excused(k)
    BY <1>1, <2>3 DEF Overran, Busy
  <2> QED BY <2>1, <2>2, <2>4 DEF Tidy
<1>2. CASE Closes(p, k)
  BY <1>2 DEF Closes, Tidy
<1>3. CASE Restarts(p, k)
  BY <1>3 DEF Restarts, Tidy, Orderly
<1> QED BY <1>1, <1>2, <1>3

(***************************************************************************)
(* A read keeps a client tidy (protocol.cpp:80-112, 428-458).              *)
(***************************************************************************)
LEMMA RequestTidy ==
  ASSUME NEW k \in Client, AwaitsRequest(k), Orderly(k), NEW r \in SystemResult,
         NEW data \in Seq(Token)
  PROVE  LET p == Left(StreamRead(k, r, data)) IN Tidy(p.k, p.poll # "CLOSE")
<1> DEFINE q == RequestRead(k.req, r, data)
           o == StreamRead(k, r, data)
           n == o.k
           p == Left(o)
<1>1. /\ k.psp = "req" /\ k.state = "RECV_REQUEST" /\ k.sflags = {"RECV"}
      /\ Idle(k) /\ k.req.state = "PENDING" /\ k.req \in RequestStream(Token)
  BY DEF AwaitsRequest, Orderly, Requesting, Client
<1>2. Handled(k, o)
  BY StreamReadType
<1>3. /\ o.ret = q.ret /\ Same(n, k) /\ n.req = q.s /\ n.res = k.res
      /\ n.data = k.data /\ n.file = k.file /\ n.cgi = k.cgi /\ n.fault = q.fault
  BY <1>1, RequestReadOf
<1>4. /\ q.fault # "Erase"
      /\ q.fault # "none" => q.s = k.req /\ ~q.ret
      /\ q.fault = "none" /\ ~q.ret => q.s.state = k.req.state
      /\ q.ret => \/ q.s.state \in {"CLOSED", "CORRUPTED"}
                  \/ q.s.state = "SUCCESS" /\ Cut(q.s)
  <2>1. q.fault # "Erase"
    BY FaultsOf
  <2>2. \A s \in RequestStream(Token) : s = k.req =>
          LET x == RequestRead(s, r, data)
          IN /\ x.fault # "none" => x.s = s /\ ~x.ret
             /\ x.fault = "none" /\ ~x.ret => x.s.state = s.state
             /\ x.ret => \/ x.s.state \in {"CLOSED", "CORRUPTED"}
                         \/ x.s.state = "SUCCESS" /\ Cut(x.s)
    BY RequestReadParts
  <2> QED BY <1>1, <2>1, <2>2
<1> HIDE DEF q, o
<1>5. Idle(n) /\ n.sflags = {"RECV"} /\ n.state = "RECV_REQUEST"
  BY <1>1, <1>3 DEF Idle, Same
<1> HIDE DEF n
<1>6. CASE ~o.ret
  <2>1. p = Polled(n, "SKIP")
    BY <1>6 DEF Left, n
  <2>2. Tidy(n, TRUE)
    <3>1. CASE n.fault = "none"
      BY <1>1, <1>3, <1>4, <1>5, <1>6, <3>1 DEF Tidy, Orderly, Requesting
    <3>2. CASE n.fault # "none"
      BY <1>1, <1>3, <1>4, <1>5, <1>6, <3>2 DEF Tidy
    <3> QED BY <3>1, <3>2
  <2>3. p.k = n /\ (p.poll # "CLOSE") = TRUE
    BY <2>1, PolledType
  <2> QED BY <2>2, <2>3 DEF o
<1>7. CASE o.ret
  <2>1. n \in Client /\ p = Poll(n)
    BY <1>2, <1>7 DEF Handled, Completed, Left, n
  <2>2. Requested(p, n)
    BY <1>5, <2>1, PollParts
  <2> HIDE DEF p
  <2>3. CASE n.req.state = "CLOSED"
    BY <1>3, <1>4, <1>5, <1>7, <2>2, <2>3 DEF Requested, Tidy, Idle, p, o
  <2>4. CASE n.req.state # "CLOSED"
    <3> DEFINE m == [n EXCEPT !.sflags = {}]
    <3>1. p.k = m /\ p.poll = "RUN"
      BY <2>2, <2>4 DEF Requested
    <3>2. /\ m.sflags = {} /\ m.psp = n.psp /\ m.state = n.state
          /\ m.content = n.content /\ m.connection = n.connection
          /\ m.req = n.req /\ m.res = n.res /\ m.data = n.data
          /\ m.file = n.file /\ m.cgi = n.cgi /\ m.fault = n.fault
      BY <2>1 DEF Client
    <3> HIDE DEF m
    <3>3. Idle(m)
      BY <1>5, <3>2 DEF Idle
    <3>4. Requesting(m)
      BY <1>3, <1>4, <1>7, <2>4, <3>2 DEF Requesting
    <3>5. Tidy(m, TRUE)
      BY <1>3, <1>4, <1>5, <1>7, <3>2, <3>3, <3>4 DEF Tidy, Orderly
    <3> QED BY <3>1, <3>5 DEF p, o
  <2> QED BY <2>3, <2>4
<1> QED BY <1>2, <1>6, <1>7 DEF Handled

LEMMA BodyTidy ==
  ASSUME NEW k \in Client, AwaitsBody(k), Orderly(k), NEW r \in SystemResult,
         NEW data \in Seq(Token)
  PROVE  LET p == Left(StreamRead(k, r, data)) IN Tidy(p.k, p.poll # "CLOSE")
<1> DEFINE q == CgiRead(k.cgi, r)
           o == StreamRead(k, r, data)
           n == o.k
           p == Left(o)
<1>1. /\ k.state = "RECV_DATA" /\ Busy(k) /\ k.cgi \in CgiStream
      /\ k.req.postl \in Nat /\ Len(k.req.buffer) \in Nat
  BY LenProperties DEF AwaitsBody, Orderly, Client, RequestStream
<1>2. Handled(k, o) /\ o.ret \in BOOLEAN /\ (o.ret => n \in Client)
  BY StreamReadType DEF Handled, Completed
<1>3. /\ o.ret = q.ret /\ Same(n, k) /\ n.cgi = q.s /\ n.file = k.file
      /\ n.req.postl = k.req.postl /\ n.fault = q.fault
      /\ Len(n.req.buffer) >= Len(k.req.buffer)
  BY BodyReadOf
<1>4. Len(n.req.buffer) \in Nat
  <2>1. n \in Client
    BY <1>2 DEF Handled
  <2>2. n.req.buffer \in Seq(Token)
    BY <2>1 DEF Client, RequestStream
  <2> QED BY <2>2, LenProperties
<1>5. q.fault # "Erase" /\ q.s.datal = k.cgi.datal /\ (q.fault # "none" => ~q.ret)
  BY <1>1, CgiReadParts, FaultsOf
<1> HIDE DEF q, o, n
<1>6. k.connection = "CLOSE" /\ ~k.file.open
  BY <1>1 DEF Busy
<1>7. n.req.postl <= Len(n.req.buffer) \/ Excused(n)
  <2>1. CASE k.req.postl <= Len(k.req.buffer)
    BY <1>1, <1>3, <1>4, <2>1
  <2>2. CASE Excused(k)
    BY <1>3, <1>5, <2>2 DEF Excused, Same
  <2> QED BY <1>1, <2>1, <2>2 DEF Busy
<1>8. Busy(n) /\ n.state = "RECV_DATA" /\ n.connection = "CLOSE" /\ ~n.file.open
  BY <1>1, <1>3, <1>6, <1>7 DEF Busy, Same
<1>9. CASE ~o.ret
  <2>1. p = Polled(n, "SKIP")
    BY <1>9 DEF Left, n
  <2>2. Tidy(n, TRUE)
    BY <1>3, <1>5, <1>8 DEF Tidy, Orderly
  <2>3. p.k = n /\ (p.poll # "CLOSE") = TRUE
    BY <2>1, PolledType
  <2> QED BY <2>2, <2>3 DEF o
<1>10. CASE o.ret
  <2>1. n \in Client /\ p = Poll(n) /\ n.fault = "none"
    BY <1>2, <1>3, <1>5, <1>10 DEF Left, n
  <2>2. Received(p, n)
    BY <1>8, <2>1, PollParts
  <2> HIDE DEF p
  <2>3. CASE n.cgi.state = "CLOSED"
    BY <1>8, <2>1, <2>2, <2>3 DEF Received, Tidy, p, o
  <2>4. CASE n.cgi.state # "CLOSED"
    <3> DEFINE m == [n EXCEPT !.psp = "cgi", !.state = "SEND_DATA", !.sflags = {"SEND"}]
    <3>1. p.k = m /\ p.poll = "SKIP"
      BY <2>2, <2>4 DEF Received
    <3>2. /\ m.state = "SEND_DATA" /\ m.status = n.status /\ m.method = n.method
          /\ m.content = n.content /\ m.connection = n.connection
          /\ m.req = n.req /\ m.file = n.file /\ m.cgi = n.cgi /\ m.fault = n.fault
      BY <2>1 DEF Client
    <3> HIDE DEF m
    <3>3. Busy(m)
      BY <1>7, <1>8, <3>2 DEF Busy, Excused
    <3>4. Tidy(m, TRUE)
      BY <2>1, <3>2, <3>3 DEF Tidy, Orderly
    <3> QED BY <3>1, <3>4 DEF p, o
  <2> QED BY <2>3, <2>4
<1> QED BY <1>2, <1>9, <1>10

(***************************************************************************)
(* A write leaves the request alone, and erases none (main.cpp:328-333).   *)
(***************************************************************************)
LEMMA WriteKeeps ==
  ASSUME NEW k \in Client, Answers(k), NEW p, PipeRead(k.cgi, p),
         NEW r, SendResult(StreamOffer(k, p), r)
  PROVE  LET d == StreamWrite(k, p, r)
         IN /\ Handled(k, d) /\ Written(d, k, p, r)
            /\ d.k.failed = (k.failed \/ (r = Broken /\ d.ret))
            /\ Same(d.k, k) /\ d.k.req = k.req /\ d.k.cgi.datal = k.cgi.datal
            /\ d.k.fault # "Erase" /\ (d.k.fault # "none" => ~d.ret)
<1> DEFINE d == StreamWrite(k, p, r)
<1>1. r \in SystemResult /\ -1 <= r.len /\ r.len <= StreamOffer(k, p)
  BY StreamOfferType DEF SendResult
<1>2. /\ Handled(k, d) /\ Written(d, k, p, r)
      /\ d.k.failed = (k.failed \/ (r = Broken /\ d.ret))
  BY <1>1, StreamWriteType, StreamWriteOf
<1> HIDE DEF d
<1>3. CASE k.psp = "res"
  <2> DEFINE o == ResponseWrite(k.res, r)
  <2>1. o.fault = "none" /\ WroteRes(d, k, o)
    BY <1>2, <1>3, FaultsOf DEF Written
  <2> QED BY <1>2, <2>1 DEF WroteRes, WroteAny, d
<1>4. CASE k.psp = "data"
  <2> DEFINE o == DataWrite(k.data, r)
  <2>1. o.fault = "none" /\ WroteData(d, k, o)
    BY <1>2, <1>4, FaultsOf DEF Written, DataWrite
  <2> QED BY <1>2, <2>1 DEF WroteData, WroteAny, d
<1>5. CASE k.psp = "file"
  <2> DEFINE o == FileWrite(k.file, r)
  <2>1. o.fault = "none" /\ WroteFile(d, k, o)
    BY <1>2, <1>5, FaultsOf DEF Written
  <2> QED BY <1>2, <2>1 DEF WroteFile, WroteAny, d
<1>6. CASE k.psp = "cgi"
  <2> DEFINE o == CgiWrite(k.cgi, p, r)
  <2>1. o.fault # "Erase" /\ WroteCgi(d, k, o)
    BY <1>2, <1>6, FaultsOf DEF Written
  <2>2. k.cgi \in CgiStream /\ StreamOffer(k, p) = CgiOffer(k.cgi, p)
    BY <1>6 DEF Client, StreamOffer
  <2>3. o.s.datal = k.cgi.datal /\ (o.fault # "none" => ~o.ret)
    BY <2>2, CgiAccount
  <2> HIDE DEF o
  <2> QED BY <1>2, <2>1, <2>3 DEF WroteCgi, WroteAny, d
<1> QED BY <1>3, <1>4, <1>5, <1>6 DEF Client, Answers

(***************************************************************************)
(* A write keeps a client tidy.                                            *)
(***************************************************************************)
LEMMA SendTidy ==
  ASSUME NEW k \in Client, Answers(k), Orderly(k), NEW p, PipeRead(k.cgi, p),
         NEW r, SendResult(StreamOffer(k, p), r)
  PROVE  LET q == Left(StreamWrite(k, p, r)) IN Tidy(q.k, q.poll # "CLOSE")
<1> DEFINE o == StreamWrite(k, p, r)
           n == o.k
           q == Left(o)
<1>1. k.state \in {"SEND_RESPONSE", "SEND_DATA"} /\ Busy(k)
  BY DEF Answers, Orderly
<1>2. /\ Handled(k, o) /\ Same(n, k) /\ n.req = k.req /\ n.cgi.datal = k.cgi.datal
      /\ n.fault # "Erase" /\ (n.fault # "none" => ~o.ret)
  BY WriteKeeps
<1>3. o.ret \in BOOLEAN /\ (o.ret => n \in Client)
  BY <1>2 DEF Handled, Completed
<1> HIDE DEF o, n
<1>4. Busy(n) /\ n.state = k.state
  BY <1>1, <1>2 DEF Busy, Same, Excused
<1>5. CASE ~o.ret
  <2>1. q = Polled(n, "SKIP")
    BY <1>5 DEF Left, n
  <2>2. Tidy(n, TRUE)
    BY <1>1, <1>2, <1>4 DEF Tidy, Orderly
  <2>3. q.k = n /\ (q.poll # "CLOSE") = TRUE
    BY <2>1, PolledType
  <2> QED BY <2>2, <2>3 DEF o
<1>6. CASE o.ret
  <2>1. n \in Client /\ q = Poll(n) /\ n.fault = "none"
    BY <1>2, <1>3, <1>6 DEF Left, n
  <2> HIDE DEF q
  <2>2. CASE n.state = "SEND_RESPONSE" /\ n.content # "NONE"
    <3> DEFINE psp == StreamOf(n.content)
               m == [n EXCEPT !.psp = psp, !.state = "SEND_DATA"]
    <3>1. Turned(q, n)
      BY <2>1, <2>2, PollParts
    <3>2. q.k = m /\ (q.poll # "CLOSE") = TRUE
      BY <3>1 DEF Turned
    <3> HIDE DEF psp
    <3>3. /\ m.state = "SEND_DATA" /\ m.status = n.status /\ m.method = n.method
          /\ m.content = n.content /\ m.connection = n.connection
          /\ m.req = n.req /\ m.file = n.file /\ m.cgi = n.cgi /\ m.fault = n.fault
      BY <2>1 DEF Client
    <3> HIDE DEF m
    <3>4. Busy(m)
      BY <1>4, <2>2, <3>3 DEF Busy, Excused
    <3>5. Tidy(m, TRUE)
      BY <2>1, <3>3, <3>4 DEF Tidy, Orderly
    <3> QED BY <3>2, <3>5 DEF q, o
  <2>3. CASE ~(n.state = "SEND_RESPONSE" /\ n.content # "NONE")
    <3>1. n.state # "RECV_REQUEST"
      BY <1>1, <1>4
    <3>2. Overran(q, n) \/ Closes(q, n) \/ Restarts(q, n)
      BY <1>1, <1>4, <2>1, <2>3, PollParts
    <3> QED BY <1>4, <2>1, <3>1, <3>2, EndTidy DEF q, o
  <2> QED BY <2>2, <2>3
<1> QED BY <1>3, <1>5, <1>6

(***************************************************************************)
(* So does the task that answers a request: the end of the request is      *)
(* where the stream found it, or the length of a body that Open() put      *)
(* there, or the request was too long (protocol.cpp:515-535, 643-646).     *)
(***************************************************************************)
LEMMA RunTidy ==
  ASSUME NEW k \in Client, Queues(k), Orderly(k), k.fault = "none", NEW c \in Configs
  PROVE  LET n == Process(Accept(k), c) IN Tidy(n, TRUE) /\ n.fault = "none"
<1> DEFINE a == Accept(k)
           n == Process(a, c)
<1>1. /\ Idle(k) /\ k.sflags = {} /\ k.connection = "CLOSE"
      /\ k.req.state = "CORRUPTED" \/ (k.req.state = "SUCCESS" /\ Cut(k.req))
  BY DEF Queues, Orderly, Requesting, Idle
<1>2. /\ a.content = "NONE" /\ a.req = k.req /\ a.file = k.file /\ a.cgi = k.cgi
      /\ a.fault = "none"
      /\ k.req.state = "CORRUPTED" => a.status = 413 /\ a.connection = "CLOSE"
  BY <1>1, AcceptParts DEF Idle
<1>3. Processed(a) /\ a \in Client
  BY AcceptType DEF Processed
<1> HIDE DEF a
<1>4. /\ Begun(n, a)
      /\ StartsPage(n, a) \/ StartsFile(n, a, c) \/ StartsScript(n, a, c)
         \/ StartsBoth(n, a, c)
      /\ a.status # 200 => StartsPage(n, a)
  BY <1>3, ProcessParts
<1> HIDE DEF n
<1>5. n.fault = "none" /\ n.status = a.status /\ n.method = a.method
      /\ n.req.buffer = k.req.buffer /\ n.connection \in {a.connection, "CLOSE"}
  BY <1>2, <1>4 DEF Begun
<1>6. k.req.postl \in Nat /\ k.req.buffer \in Seq(Token) /\ Len(k.req.buffer) \in Nat
  BY LenProperties DEF Client, RequestStream
<1>7. CASE k.req.state = "CORRUPTED"
  <2>1. n.status = 413 /\ n.connection = "CLOSE" /\ StartsPage(n, a)
    BY <1>2, <1>4, <1>5, <1>7
  <2>2. Busy(n) /\ n.state = "SEND_RESPONSE"
    BY <1>1, <1>2, <2>1 DEF StartsPage, Busy, Excused, Idle
  <2> QED BY <1>5, <2>2 DEF Tidy, Orderly, n, a
<1>8. CASE k.req.state = "SUCCESS" /\ Cut(k.req)
  <2>1. k.req.postl <= Len(k.req.buffer)
    BY <1>6, <1>8, FindBreakType DEF Cut
  <2>2. CASE StartsPage(n, a) \/ StartsFile(n, a, c)
    <3>1. n.req = k.req /\ n.state = "SEND_RESPONSE" /\ n.content # "CGI"
      BY <1>2, <2>2 DEF StartsPage, StartsFile
    <3>2. Busy(n)
      BY <1>8, <2>1, <3>1 DEF Busy
    <3> QED BY <1>5, <3>1, <3>2 DEF Tidy, Orderly, n, a
  <2>3. CASE StartsScript(n, a, c)
    <3> DEFINE datal == IF a.method = "POST" THEN a.clen ELSE 0
               open == CgiOpen(a.cgi, c.script, datal, a.req)
    <3>1. /\ n.req = open.req /\ n.cgi = open.s /\ n.file = k.file
          /\ n.content = "CGI" /\ n.connection = "CLOSE" /\ n.state # "RECV_REQUEST"
      BY <1>2, <2>3 DEF StartsScript
    <3>2. a.cgi \in CgiStream /\ a.req \in RequestStream(Token) /\ datal \in Nat
      BY <1>3 DEF Client
    <3>3. open.s.datal = datal /\ open.req.postl \in {a.req.postl, datal}
      BY <3>2 DEF CgiOpen, CgiStream, RequestStream
    <3>4. n.req.postl <= Len(n.req.buffer) \/ Excused(n)
      <4>1. CASE n.req.postl = k.req.postl
        BY <1>5, <2>1, <4>1
      <4>2. CASE n.req.postl = datal /\ a.method = "POST"
        BY <1>5, <3>1, <3>3, <4>2 DEF Excused
      <4>3. CASE n.req.postl = datal /\ a.method # "POST"
        BY <1>5, <1>6, <4>3
      <4> QED BY <1>2, <3>1, <3>3, <4>1, <4>2, <4>3
    <3>5. Busy(n)
      BY <1>1, <1>2, <3>1, <3>4 DEF Busy, Idle
    <3> QED BY <1>5, <3>1, <3>5 DEF Tidy, Orderly, n, a
  <2>4. CASE StartsBoth(n, a, c)
    <3>1. /\ n.req = k.req /\ n.file = k.file /\ n.connection = "CLOSE"
          /\ n.state # "RECV_REQUEST"
      BY <1>2, <2>4 DEF StartsBoth
    <3>2. Busy(n)
      BY <1>1, <2>1, <3>1 DEF Busy, Idle
    <3> QED BY <1>5, <3>1, <3>2 DEF Tidy, Orderly, n, a
  <2> QED BY <1>4, <2>2, <2>3, <2>4
<1> QED BY <1>1, <1>7, <1>8

(***************************************************************************)
(* What send() returns for n units, in the terms of the streams' lemmas.   *)
(***************************************************************************)
LEMMA SendResultOf ==
  ASSUME NEW c \in Clients, NEW n \in Nat, NEW r \in SendResults(c, n)
  PROVE  SendResult(n, r) /\ (~Spurious => r # WouldBlock)
<1>1. r \in SystemResult /\ -1 <= r.len /\ r.len <= n
  BY SendResultsType
<1>2. CASE n = 0
  <2>1. r \in Transferred({0}) \cup {Broken}
    BY <1>2 DEF SendResults
  <2> QED
    BY <1>1, <1>2, <2>1
       DEF SendResult, Transferred, Broken, WouldBlock, Result, SystemResult
<1>3. CASE n # 0 /\ r \in Transferred(1..n)
  BY <1>1, <1>3 DEF SendResult, Transferred, WouldBlock, Result, SystemResult
<1>4. CASE n # 0 /\ r \notin Transferred(1..n)
  <2>1. r \in Spuriously \cup {Broken}
    BY <1>4 DEF SendResults
  <2> QED
    BY <1>1, <1>4, <2>1
       DEF SendResult, Spuriously, Broken, WouldBlock, Result, SystemResult
<1> QED BY <1>2, <1>3, <1>4

(***************************************************************************)
(* TidyInv holds at the start and after every step.                        *)
(***************************************************************************)
LEMMA InitTidy == Init => TidyInv
<1> SUFFICES ASSUME Init PROVE TidyInv
  OBVIOUS
<1>1. NewClient(0, 0, 0).fault = "none" /\ ~NewClient(0, 0, 0).file.open
  BY NewClientParts DEF ClosedFile
<1> QED BY <1>1 DEF Init, TidyInv, Defined, Tidy

LEMMA NextTidy ==
  ASSUME IInv, TidyInv, [Next]_vars
  PROVE  TidyInv'
<1>0. TypeOK /\ Defined /\ TypeOK'
  BY NextIInv DEF IInv, TidyInv
<1>1. CASE pc = "undefined"
  <2>1. UNCHANGED <<pc, cl, life>>
    BY <1>1, UndefinedEnds DEF vars
  <2> QED BY <2>1 DEF TidyInv, Defined
<1>2. CASE pc # "undefined"
  <2> SUFFICES ASSUME NEW c \in Clients
               PROVE  /\ Tidy(cl'[c], life'[c] = "open")
                      /\ pc' # "undefined" => cl'[c].fault = "none"
    BY DEF TidyInv, Defined
  <2> DEFINE k == cl[c]
  <2>1. /\ k \in Client /\ k.fault = "none" /\ wire[c] \in Seq(Token)
        /\ Tidy(k, life[c] = "open")
    BY <1>0, <1>2 DEF TypeOK, Defined, TidyInv
  <2>2. Happens(c)
    BY StepHappens
  <2>3. life[c] = "open" => Orderly(k)
    BY <2>1 DEF Tidy
  <2>4. ASSUME NEW o, Follows(c, o), Tidy(Left(o).k, Left(o).poll # "CLOSE")
        PROVE  /\ Tidy(cl'[c], life'[c] = "open")
               /\ pc' # "undefined" => cl'[c].fault = "none"
    <3>1. (life'[c] = "open") <=> Left(o).poll # "CLOSE"
      BY <2>4 DEF Follows
    <3>2. cl'[c] = Left(o).k /\ Continue(cl'[c], "events")
      BY <2>4 DEF Follows
    <3> QED BY <2>4, <3>1, <3>2 DEF Tidy, Continue
  <2>5. CASE Stays(c)
    BY <2>1, <2>5 DEF Stays
  <2>6. CASE Joins(c) \/ TurnedAway(c)
    BY <2>1, <2>6 DEF Joins, TurnedAway, Tidy
  <2>7. CASE Made(c)
    <3>1. PICK postl \in Garbage, datac \in Garbage, datal \in Garbage :
            cl'[c] = NewClient(postl, datac, datal)
      BY <2>7 DEF Made
    <3> DEFINE n == NewClient(postl, datac, datal)
    <3>2. n.fault = "none" /\ Idle(n) /\ Requesting(n) /\ n.state = "RECV_REQUEST"
      BY GarbageAssumption, NewClientParts
    <3>3. life'[c] = "open"
      BY <2>7 DEF Made
    <3> QED BY <3>1, <3>2, <3>3 DEF Tidy, Orderly
  <2>8. CASE Receives(c)
    <3>1. PICK r \in SystemResult :
            /\ Moved(r) \in 0..Len(wire[c])
            /\ Follows(c, StreamRead(cl[c], r, SubSeq(wire[c], 1, Moved(r))))
      BY <2>8 DEF Receives
    <3>2. SubSeq(wire[c], 1, Moved(r)) \in Seq(Token)
      BY <2>1, <3>1, PrefixType
    <3>3. Orderly(k) /\ (AwaitsRequest(k) \/ AwaitsBody(k))
      BY <2>3, <2>8, <3>1 DEF Receives, Follows
    <3> QED BY <2>1, <2>4, <3>1, <3>2, <3>3, RequestTidy, BodyTidy
  <2>9. CASE Sends(c)
    <3>1. PICK p, r : /\ PipeRead(cl[c].cgi, p)
                      /\ r \in SendResults(c, StreamOffer(cl[c], p))
                      /\ Follows(c, StreamWrite(cl[c], p, r))
      BY <2>9 DEF Sends
    <3>2. Orderly(k) /\ Answers(k)
      BY <2>3, <2>9, <3>1 DEF Sends, Follows
    <3>3. SendResult(StreamOffer(k, p), r)
      BY <2>1, <3>1, <3>2, StreamOfferType, SendResultOf
    <3> QED BY <2>1, <2>4, <3>1, <3>2, <3>3, SendTidy
  <2>10. CASE Runs(c)
    <3>1. PICK cfg \in Configs : cl'[c] = Process(Accept(cl[c]), cfg)
      BY <2>10 DEF Runs
    <3>2. Queues(k) /\ Orderly(k) /\ (life'[c] = "open") = TRUE
      BY <2>3, <2>10 DEF Runs
    <3>3. Tidy(cl'[c], TRUE) /\ cl'[c].fault = "none"
      BY <2>1, <3>1, <3>2, RunTidy
    <3> QED BY <3>2, <3>3
  <2> QED BY <2>2, <2>5, <2>6, <2>7, <2>8, <2>9, <2>10 DEF Happens
<1> QED BY <1>1, <1>2

(***************************************************************************)
(* TidyInv holds in every reachable state.                                 *)
(***************************************************************************)
LEMMA TidyAlways == Spec => []TidyInv
<1>1. Spec => []IInv
  BY Invariant
<1> QED BY <1>1, InitTidy, NextTidy, PTL DEF Spec

(***************************************************************************)
(* Between two requests of a connection nothing is left of the first, and  *)
(* no deleted client leaves a file open (protocol.cpp:574, 605, 632-639).  *)
(***************************************************************************)
THEOREM IdleCorrect == Spec => []IdleClean
<1>1. TidyInv => IdleClean
  BY DEF TidyInv, Tidy, Orderly, Idle, IdleClean
<1> QED BY <1>1, TidyAlways, PTL

(***************************************************************************)
(* Reset() erases inside the request buffer, except after a request that   *)
(* grew too long and after a POST (protocol.cpp:121, 531).                 *)
(***************************************************************************)
THEOREM EraseCorrect == Spec => []ErasesInside
<1>1. TidyInv => ErasesInside
  BY DEF TidyInv, Tidy, Excused, ErasesInside
<1> QED BY <1>1, TidyAlways, PTL

-----------------------------------------------------------------------------
(* The stream that is driven is one that was prepared, and no unit of a    *)
(* response is unaccounted for.                                            *)

(***************************************************************************)
(* Process() does not look at cgi where it lists a directory, but where it *)
(* routes the response it does: the page would wait behind the output of a *)
(* script that was never started (protocol.cpp:820-848, 896-911).  What    *)
(* follows is about configurations that do not ask for both.               *)
(***************************************************************************)
NoScriptForListing == \A c \in Configs : c.cgi => ~IsListing(c)

\* psp selects the stream that the state calls for.
Steered(k) ==
  /\ k.state = "RECV_DATA" => k.content = "CGI" /\ k.cgi.rd /\ k.cgi.wr
  /\ k.state = "SEND_RESPONSE" => k.psp = "res" /\ k.res.size > 0 /\ k.content # "CGI"
  /\ k.state = "SEND_DATA" => k.content # "NONE" /\ k.psp = StreamOf(k.content)

\* The stream of the body has something to send, or knows that it has not.
Loaded(k) ==
  /\ k.content = "DATA" => k.data.size > 0
  /\ k.content = "FILE" => k.file.open
  /\ k.content = "CGI" => k.cgi.rd
  /\ k.file.eof => k.file.pos = k.file.size

\* Units that the stream of the body holds.
Held(k) ==
  CASE k.content = "NONE" -> 0
    [] k.content = "DATA" -> k.data.size
    [] k.content = "FILE" -> k.file.size - k.file.pos
    [] k.content = "CGI"  -> CgiHeld(k.cgi)

Accounted(k) == k.failed \/ k.owed = Pending(k) + k.lost + k.drift

Steady(k) == Steered(k) /\ Loaded(k) /\ Accounted(k)

SteadyInv == \A c \in Open : cl[c].fault = "none" => Steady(cl[c])

(***************************************************************************)
(* Pending() is what the two streams of a response hold.                   *)
(***************************************************************************)
LEMMA PendingParts ==
  ASSUME NEW k \in Client
  PROVE  /\ Held(k) \in Int
         /\ k.state = "RECV_REQUEST" => Pending(k) = 0
         /\ k.state = "SEND_RESPONSE" => Pending(k) = k.res.size + Held(k)
         /\ k.state \in {"RECV_DATA", "SEND_DATA"} => Pending(k) = Held(k)
<1>1. /\ k.content \in {"NONE", "DATA", "FILE", "CGI"} /\ k.data.size \in Nat
      /\ k.file.size \in Nat /\ k.file.pos \in Nat /\ CgiHeld(k.cgi) \in Int
  <2>1. /\ k.cgi.pipe \in Seq(CgiUnit) /\ k.cgi.buffer \in Seq(CgiUnit)
    BY DEF Client, CgiStream
  <2>2. Len(k.cgi.pipe) \in Nat /\ Len(k.cgi.buffer) \in Nat
    BY <2>1, LenProperties
  <2>3. CgiHeld(k.cgi) \in Int
    BY <2>2 DEF CgiHeld
  <2> QED BY <2>3 DEF Client, BufferStream, FileStream
<1>2. Held(k) \in Int
  BY <1>1 DEF Held
<1>3. Pending(k) = CASE k.state = "RECV_REQUEST"  -> 0
                     [] k.state = "SEND_RESPONSE" -> k.res.size + Held(k)
                     [] OTHER                     -> Held(k)
  BY DEF Pending, Held, CgiHeld
<1> QED BY <1>2, <1>3

(***************************************************************************)
(* A client between two requests is steady when nothing more is owed than  *)
(* was lost.                                                               *)
(***************************************************************************)
LEMMA IdleSteady ==
  ASSUME NEW k \in Client, k.state = "RECV_REQUEST", k.content = "NONE",
         k.file.eof => k.file.pos = k.file.size
  PROVE  Steady(k) <=> k.failed \/ k.owed = k.lost + k.drift
<1>1. Pending(k) = 0 /\ k.lost \in Int
  BY PendingParts DEF Client
<1>2. Accounted(k) <=> k.failed \/ k.owed = k.lost + k.drift
  BY <1>1 DEF Accounted
<1> QED BY <1>2 DEF Steady, Steered, Loaded

(***************************************************************************)
(* A read of a request moves no unit of a response.                        *)
(***************************************************************************)
LEMMA RequestSteady ==
  ASSUME NEW k \in Client, AwaitsRequest(k), Orderly(k), Steady(k),
         NEW r \in SystemResult, NEW data \in Seq(Token)
  PROVE  LET p == Left(StreamRead(k, r, data)) IN Steady(p.k)
<1> DEFINE o == StreamRead(k, r, data)
           n == o.k
           p == Left(o)
<1>1. /\ k.psp = "req" /\ k.state = "RECV_REQUEST" /\ k.content = "NONE"
      /\ k.file.eof => k.file.pos = k.file.size
  BY DEF AwaitsRequest, Orderly, Idle, Steady, Loaded
<1>2. k.failed \/ k.owed = k.lost + k.drift
  BY <1>1, IdleSteady
<1>3. Handled(k, o)
  BY StreamReadType
<1>4. Same(n, k) /\ n.failed = k.failed /\ n.file = k.file
      /\ n.owed = k.owed /\ n.lost = k.lost
  BY <1>1, RequestReadOf
<1> HIDE DEF o
<1>5. n \in Client /\ o.ret \in BOOLEAN
  BY <1>3 DEF Handled, Completed
<1> HIDE DEF n
<1>6. Steady(n)
  BY <1>1, <1>2, <1>4, <1>5, IdleSteady DEF Same
<1>7. CASE ~o.ret
  <2>1. p.k = n
    BY <1>7, PolledType DEF Left, n
  <2> QED BY <1>6, <2>1 DEF o
<1>8. CASE o.ret
  <2>1. p = Poll(n) /\ n.state = "RECV_REQUEST"
    BY <1>1, <1>4, <1>8 DEF Left, n, Same
  <2>2. Requested(p, n)
    BY <1>5, <2>1, PollParts
  <2> HIDE DEF p
  <2> DEFINE m == [n EXCEPT !.sflags = {}]
  <2>3. /\ m \in Client /\ m.state = n.state /\ m.content = n.content
        /\ m.file = n.file /\ m.owed = n.owed /\ m.lost = n.lost
        /\ m.drift = n.drift /\ m.failed = n.failed
    BY <1>5 DEF Client
  <2> HIDE DEF m
  <2>4. Steady(m)
    BY <1>1, <1>2, <1>4, <2>3, IdleSteady DEF Same
  <2>5. p.k \in {n, m}
    BY <2>2 DEF Requested, m
  <2> QED BY <1>6, <2>4, <2>5 DEF p, o
<1> QED BY <1>5, <1>7, <1>8

(***************************************************************************)
(* A read of a body leaves the output of the script where it is.           *)
(***************************************************************************)
LEMMA BodySteady ==
  ASSUME NEW k \in Client, AwaitsBody(k), Steady(k),
         NEW r \in SystemResult, NEW data \in Seq(Token)
  PROVE  LET p == Left(StreamRead(k, r, data))
         IN p.k.fault = "none" /\ p.poll # "CLOSE" => Steady(p.k)
<1> DEFINE q == CgiRead(k.cgi, r)
           o == StreamRead(k, r, data)
           n == o.k
           p == Left(o)
<1>1. /\ k.state = "RECV_DATA" /\ k.psp = "cgi" /\ k.cgi \in CgiStream
      /\ k.content = "CGI" /\ k.cgi.rd /\ k.cgi.wr
      /\ k.file.eof => k.file.pos = k.file.size
  BY DEF AwaitsBody, Steady, Steered, Loaded, Client
<1>2. Handled(k, o)
  BY StreamReadType
<1>3. /\ o.ret = q.ret /\ Same(n, k) /\ n.failed = k.failed /\ n.cgi = q.s
      /\ n.file = k.file /\ n.owed = k.owed /\ n.lost = k.lost /\ n.fault = q.fault
  BY BodyReadOf
<1>4. /\ q.s.rd /\ q.s.pipe = k.cgi.pipe /\ q.s.buffer = k.cgi.buffer
      /\ q.s.feedback = k.cgi.feedback
      /\ q.fault = "none" /\ ~q.ret => q.s.wr
  BY <1>1, CgiReadParts
<1> HIDE DEF q, o
<1>5. n \in Client /\ o.ret \in BOOLEAN
  BY <1>2 DEF Handled, Completed
<1> HIDE DEF n
<1>6. Held(n) = Held(k)
  <2>1. CgiHeld(n.cgi) = CgiHeld(k.cgi)
    BY <1>3, <1>4 DEF CgiHeld
  <2> QED BY <1>1, <1>3, <2>1 DEF Held, Same
<1>7. /\ n.state = "RECV_DATA" /\ n.content = "CGI" /\ Loaded(n)
      /\ n.failed \/ n.owed = Held(n) + n.lost + n.drift
  <2>1. Pending(k) = Held(k)
    BY <1>1, PendingParts
  <2> QED BY <1>1, <1>3, <1>4, <1>6, <2>1 DEF Steady, Accounted, Loaded, Same
<1>8. CASE ~o.ret
  <2>1. p.k = n
    BY <1>8, PolledType DEF Left, n
  <2>2. n.fault = "none" => Steered(n)
    BY <1>3, <1>4, <1>7, <1>8 DEF Steered
  <2>3. Accounted(n)
    BY <1>5, <1>7, PendingParts DEF Accounted
  <2> QED BY <1>7, <2>1, <2>2, <2>3 DEF o, Steady
<1>9. CASE o.ret
  <2>1. p = Poll(n)
    BY <1>9 DEF Left, n
  <2>2. Received(p, n)
    BY <1>5, <1>7, <2>1, PollParts
  <2> HIDE DEF p
  <2> DEFINE m == [n EXCEPT !.psp = "cgi", !.state = "SEND_DATA", !.sflags = {"SEND"}]
  <2>3. /\ m \in Client /\ m.state = "SEND_DATA" /\ m.psp = "cgi"
        /\ m.content = n.content /\ m.data = n.data /\ m.file = n.file
        /\ m.cgi = n.cgi /\ m.owed = n.owed /\ m.lost = n.lost
        /\ m.drift = n.drift /\ m.failed = n.failed
    BY <1>5 DEF Client
  <2> HIDE DEF m
  <2>4. Held(m) = Held(n)
    BY <2>3 DEF Held
  <2>5. Accounted(m)
    BY <1>7, <2>3, <2>4, PendingParts DEF Accounted
  <2>6. Steered(m) /\ Loaded(m)
    BY <1>7, <2>3 DEF Steered, Loaded, StreamOf
  <2>7. p.poll = "CLOSE" \/ p.k = m
    BY <2>2 DEF Received, m
  <2> QED BY <2>5, <2>6, <2>7 DEF p, o, Steady
<1> QED BY <1>5, <1>8, <1>9

\* All that was announced was sent, but for what was lost or never there.
Settled(k) == k.failed \/ k.owed = k.lost + k.drift

\* A write before the end of a response, and the last.
Continues(o) == ~o.ret => Steady(o.k)
Completes(o) == o.ret => Settled(o.k)

(***************************************************************************)
(* The header of a response (protocol.cpp:152-173).                        *)
(***************************************************************************)
LEMMA HeaderAccount ==
  ASSUME NEW k \in Client, Answers(k), Steady(k), k.state = "SEND_RESPONSE",
         NEW p, PipeRead(k.cgi, p), NEW r, SendResult(StreamOffer(k, p), r)
  PROVE  LET o == StreamWrite(k, p, r)
         IN /\ Continues(o)
            /\ o.ret => /\ Loaded(o.k) /\ Held(o.k) = Held(k)
                        /\ \/ o.k.failed
                           \/ o.k.owed = Held(o.k) + o.k.lost + o.k.drift
<1> DEFINE o == StreamWrite(k, p, r)
           n == o.k
           w == ResponseWrite(k.res, r)
<1>1. /\ k.psp = "res" /\ k.res.size > 0 /\ k.content # "CGI" /\ Loaded(k)
      /\ k.res \in BufferStream
  BY DEF Steady, Steered, Client
<1>2. /\ Handled(k, o) /\ WroteRes(o, k, w) /\ Same(n, k)
      /\ n.failed = (k.failed \/ (r = Broken /\ o.ret))
  BY <1>1, WriteKeeps DEF Written
<1>3. /\ r = Broken => w.ret
      /\ r # Broken /\ w.ret => w.sent + w.lost = k.res.size
      /\ ~w.ret => w.s.size > 0 /\ w.s.size + w.sent + w.lost = k.res.size
  <2>1. StreamOffer(k, p) = BufferOffer(k.res)
    BY <1>1 DEF StreamOffer
  <2> QED BY <1>1, <2>1, ResponseAccount
<1>4. w.sent \in Int /\ w.lost \in Int /\ w.s.size \in Int
  <2>1. r \in SystemResult /\ -1 <= r.len /\ r.len <= BufferOffer(k.res)
    BY <1>1, StreamOfferType DEF SendResult, StreamOffer
  <2>2. IsOutcome(w, BufferStream)
    BY <1>1, <2>1, ResponseWriteType
  <2> HIDE DEF w
  <2> QED BY <2>2 DEF IsOutcome, BufferStream
<1> HIDE DEF o, w
<1>5. /\ n.owed = k.owed - w.sent /\ n.lost = k.lost + w.lost /\ o.ret = w.ret
      /\ n.res = w.s /\ n.data = k.data /\ n.file = k.file /\ n.cgi = k.cgi
  BY <1>2 DEF WroteRes, WroteAny
<1>6. n \in Client /\ k.owed \in Int /\ k.lost \in Int /\ k.drift \in Int
      /\ k.res.size \in Int
  BY <1>1, <1>2 DEF Handled, Completed, Client, BufferStream
<1> HIDE DEF n
<1>7. Held(n) = Held(k) /\ Held(k) \in Int /\ Loaded(n)
  BY <1>1, <1>2, <1>5, PendingParts DEF Held, Loaded, Same
<1>8. k.failed \/ k.owed = k.res.size + Held(k) + k.lost + k.drift
  BY PendingParts DEF Steady, Accounted
<1>9. CASE ~o.ret
  <2>1. w.s.size > 0 /\ w.s.size + w.sent + w.lost = k.res.size
    BY <1>3, <1>5, <1>9
  <2>2. Pending(n) = w.s.size + Held(k)
    BY <1>2, <1>5, <1>6, <1>7, PendingParts DEF Same
  <2>3. n.drift = k.drift /\ (n.failed <=> k.failed)
    BY <1>2, <1>9 DEF Same
  <2>4. k.failed \/ k.owed - w.sent = w.s.size + Held(k) + (k.lost + w.lost) + k.drift
    BY <1>4, <1>6, <1>7, <1>8, <2>1
  <2>5. Accounted(n)
    BY <1>5, <2>2, <2>3, <2>4 DEF Accounted
  <2>6. Steered(n)
    BY <1>1, <1>2, <1>5, <2>1 DEF Steered, Same
  <2> QED BY <1>7, <1>9, <2>5, <2>6 DEF Steady, Continues, n, o
<1>10. CASE o.ret
  <2>1. r # Broken => w.sent + w.lost = k.res.size
    BY <1>3, <1>5, <1>10
  <2>2. n.drift = k.drift /\ (n.failed <=> k.failed \/ r = Broken)
    BY <1>2, <1>10 DEF Same
  <2>3. \/ k.failed \/ r = Broken
        \/ k.owed - w.sent = Held(k) + (k.lost + w.lost) + k.drift
    BY <1>4, <1>6, <1>7, <1>8, <2>1
  <2>4. n.failed \/ n.owed = Held(n) + n.lost + n.drift
    BY <1>5, <1>7, <2>2, <2>3
  <2> QED BY <1>7, <1>10, <2>4 DEF Continues, n, o
<1> QED BY <1>2, <1>9, <1>10 DEF Handled

(***************************************************************************)
(* A page (protocol.cpp:251-272).                                          *)
(***************************************************************************)
LEMMA PageAccount ==
  ASSUME NEW k \in Client, Answers(k), Steady(k), k.state = "SEND_DATA",
         k.content = "DATA",
         NEW p, PipeRead(k.cgi, p), NEW r, SendResult(StreamOffer(k, p), r)
  PROVE  LET o == StreamWrite(k, p, r) IN Continues(o) /\ Completes(o)
<1> DEFINE o == StreamWrite(k, p, r)
           n == o.k
           w == ResponseWrite(k.data, r)
<1>1. /\ k.psp = "data" /\ k.data.size > 0 /\ Loaded(k) /\ k.data \in BufferStream
  BY DEF Steady, Steered, Loaded, Client, StreamOf
<1>2. /\ Handled(k, o) /\ WroteData(o, k, w) /\ Same(n, k)
      /\ n.failed = (k.failed \/ (r = Broken /\ o.ret))
  BY <1>1, WriteKeeps DEF Written, DataWrite
<1>3. /\ r # Broken /\ w.ret => w.sent + w.lost = k.data.size
      /\ ~w.ret => w.s.size > 0 /\ w.s.size + w.sent + w.lost = k.data.size
  <2>1. StreamOffer(k, p) = BufferOffer(k.data)
    BY <1>1 DEF StreamOffer
  <2> QED BY <1>1, <2>1, ResponseAccount
<1>4. w.sent \in Int /\ w.lost \in Int /\ w.s.size \in Int
  <2>1. r \in SystemResult /\ -1 <= r.len /\ r.len <= BufferOffer(k.data)
    BY <1>1, StreamOfferType DEF SendResult, StreamOffer
  <2>2. IsOutcome(w, BufferStream)
    BY <1>1, <2>1, ResponseWriteType
  <2> HIDE DEF w
  <2> QED BY <2>2 DEF IsOutcome, BufferStream
<1> HIDE DEF o, w
<1>5. /\ n.owed = k.owed - w.sent /\ n.lost = k.lost + w.lost /\ o.ret = w.ret
      /\ n.data = w.s /\ n.res = k.res /\ n.file = k.file /\ n.cgi = k.cgi
  BY <1>2 DEF WroteData, WroteAny
<1>6. n \in Client /\ k.owed \in Int /\ k.lost \in Int /\ k.drift \in Int
      /\ k.data.size \in Int
  BY <1>1, <1>2 DEF Handled, Completed, Client, BufferStream
<1> HIDE DEF n
<1>7. Held(n) = w.s.size /\ Held(k) = k.data.size
  BY <1>2, <1>5 DEF Held, Same
<1>8. k.failed \/ k.owed = k.data.size + k.lost + k.drift
  BY <1>7, PendingParts DEF Steady, Accounted
<1>9. CASE ~o.ret
  <2>1. w.s.size > 0 /\ w.s.size + w.sent + w.lost = k.data.size
    BY <1>3, <1>5, <1>9
  <2>2. Pending(n) = w.s.size
    BY <1>2, <1>6, <1>7, PendingParts DEF Same
  <2>3. n.drift = k.drift /\ (n.failed <=> k.failed)
    BY <1>2, <1>9 DEF Same
  <2>4. k.failed \/ k.owed - w.sent = w.s.size + (k.lost + w.lost) + k.drift
    BY <1>4, <1>6, <1>8, <2>1
  <2>5. Accounted(n)
    BY <1>5, <2>2, <2>3, <2>4 DEF Accounted
  <2>6. Steered(n) /\ Loaded(n)
    BY <1>1, <1>2, <1>5, <2>1 DEF Steered, Loaded, Same, StreamOf
  <2> QED BY <1>9, <2>5, <2>6 DEF Steady, Continues, Completes, n, o
<1>10. CASE o.ret
  <2>1. r # Broken => w.sent + w.lost = k.data.size
    BY <1>3, <1>5, <1>10
  <2>2. n.drift = k.drift /\ (n.failed <=> k.failed \/ r = Broken)
    BY <1>2, <1>10 DEF Same
  <2>3. \/ k.failed \/ r = Broken
        \/ k.owed - w.sent = (k.lost + w.lost) + k.drift
    BY <1>4, <1>6, <1>8, <2>1
  <2>4. Settled(n)
    BY <1>5, <2>2, <2>3 DEF Settled
  <2> QED BY <1>10, <2>4 DEF Continues, Completes, n, o
<1> QED BY <1>2, <1>9, <1>10 DEF Handled

(***************************************************************************)
(* A file: what a short send leaves behind is lost (protocol.cpp:291-318). *)
(***************************************************************************)
LEMMA FileSendAccount ==
  ASSUME NEW k \in Client, Answers(k), Steady(k), k.state = "SEND_DATA",
         k.content = "FILE",
         NEW p, PipeRead(k.cgi, p), NEW r, SendResult(StreamOffer(k, p), r)
  PROVE  LET o == StreamWrite(k, p, r) IN Continues(o) /\ Completes(o)
<1> DEFINE o == StreamWrite(k, p, r)
           n == o.k
           w == FileWrite(k.file, r)
<1>1. /\ k.psp = "file" /\ k.file.open /\ k.file \in FileStream
      /\ k.file.eof => k.file.pos = k.file.size
  BY DEF Steady, Steered, Loaded, Client, StreamOf
<1>2. /\ Handled(k, o) /\ WroteFile(o, k, w) /\ Same(n, k)
      /\ n.failed = (k.failed \/ (r = Broken /\ o.ret))
  BY <1>1, WriteKeeps DEF Written
<1>3. /\ w.s.open = k.file.open /\ w.s.size = k.file.size
      /\ w.s.eof => w.s.pos = w.s.size
      /\ r = Broken => w.ret
      /\ r # Broken => w.sent + w.lost = w.s.pos - k.file.pos
      /\ r # Broken /\ w.ret => w.s.pos = w.s.size
  <2>1. StreamOffer(k, p) = FileOffer(k.file)
    BY <1>1 DEF StreamOffer
  <2> QED BY <1>1, <2>1, FileAccount
<1>4. /\ w.sent \in Int /\ w.lost \in Int /\ w.s.pos \in Int /\ w.s.size \in Int
      /\ k.file.pos \in Int /\ k.file.size \in Int
  <2>1. r \in SystemResult /\ -1 <= r.len /\ r.len <= FileOffer(k.file)
    BY <1>1, StreamOfferType DEF SendResult, StreamOffer
  <2>2. IsOutcome(w, FileStream)
    BY <1>1, <2>1, FileWriteType
  <2> HIDE DEF w
  <2> QED BY <1>1, <2>2 DEF IsOutcome, FileStream
<1> HIDE DEF o, w
<1>5. /\ n.owed = k.owed - w.sent /\ n.lost = k.lost + w.lost /\ o.ret = w.ret
      /\ n.file = w.s /\ n.data = k.data /\ n.res = k.res /\ n.cgi = k.cgi
  BY <1>2 DEF WroteFile, WroteAny
<1>6. n \in Client /\ k.owed \in Int /\ k.lost \in Int /\ k.drift \in Int
  BY <1>2 DEF Handled, Completed, Client
<1> HIDE DEF n
<1>7. Held(n) = w.s.size - w.s.pos /\ Held(k) = k.file.size - k.file.pos
  BY <1>2, <1>5 DEF Held, Same
<1>8. k.failed \/ k.owed = (k.file.size - k.file.pos) + k.lost + k.drift
  BY <1>7, PendingParts DEF Steady, Accounted
<1>9. n.drift = k.drift /\ n.state = k.state /\ n.content = k.content /\ n.psp = k.psp
  BY <1>2 DEF Same
<1>10. \/ k.failed \/ r = Broken
       \/ k.owed - w.sent = (w.s.size - w.s.pos) + (k.lost + w.lost) + k.drift
  <2>1. CASE k.failed \/ r = Broken
    BY <2>1
  <2>2. CASE ~k.failed /\ r # Broken
    <3>1. /\ w.sent + w.lost = w.s.pos - k.file.pos /\ w.s.size = k.file.size
          /\ k.owed = (k.file.size - k.file.pos) + k.lost + k.drift
      BY <1>3, <1>8, <2>2
    <3> DEFINE owed == k.owed
               sent == w.sent
               new == w.lost
               old == k.file.pos
               size == k.file.size
               kept == w.s.pos
               lost == k.lost
               drift == k.drift
    <3>2. /\ owed \in Int /\ sent \in Int /\ new \in Int /\ old \in Int
          /\ size \in Int /\ kept \in Int /\ lost \in Int /\ drift \in Int
      BY <1>4, <1>6
    <3>3. sent + new = kept - old /\ owed = (size - old) + lost + drift
      BY <3>1
    <3> HIDE DEF owed, sent, new, old, size, kept, lost, drift
    <3>4. owed - sent = (size - kept) + (lost + new) + drift
      BY <3>2, <3>3
    <3> QED BY <3>1, <3>4 DEF owed, sent, new, old, size, kept, lost, drift
  <2> QED BY <2>1, <2>2
<1>11. CASE ~o.ret
  <2>1. r # Broken /\ (n.failed <=> k.failed)
    BY <1>2, <1>3, <1>5, <1>11
  <2>2. Pending(n) = w.s.size - w.s.pos
    BY <1>6, <1>7, <1>9, PendingParts
  <2>3. Accounted(n)
    BY <1>5, <1>9, <1>10, <2>1, <2>2 DEF Accounted
  <2>4. Steered(n) /\ Loaded(n)
    BY <1>1, <1>3, <1>5, <1>9 DEF Steered, Loaded, StreamOf
  <2> QED BY <1>11, <2>3, <2>4 DEF Steady, Continues, Completes, n, o
<1>12. CASE o.ret
  <2>1. n.failed <=> k.failed \/ r = Broken
    BY <1>2, <1>12
  <2>2. r # Broken => w.s.size - w.s.pos = 0
    BY <1>3, <1>4, <1>5, <1>12
  <2>3. \/ k.failed \/ r = Broken
        \/ k.owed - w.sent = (k.lost + w.lost) + k.drift
    BY <1>4, <1>6, <1>10, <2>2
  <2>4. Settled(n)
    BY <1>5, <1>9, <2>1, <2>3 DEF Settled
  <2> QED BY <1>12, <2>4 DEF Continues, Completes, n, o
<1> QED BY <1>2, <1>11, <1>12 DEF Handled

(***************************************************************************)
(* The output of a script, of which Write() drops what it read while the   *)
(* buffer was not empty (protocol.cpp:366-426).                            *)
(***************************************************************************)
LEMMA ScriptAccount ==
  ASSUME NEW k \in Client, Answers(k), Steady(k), k.state = "SEND_DATA",
         k.content = "CGI",
         NEW p, PipeRead(k.cgi, p), NEW r, SendResult(StreamOffer(k, p), r)
  PROVE  LET o == StreamWrite(k, p, r) IN o.k.fault = "none" => Continues(o)
<1> DEFINE o == StreamWrite(k, p, r)
           n == o.k
           w == CgiWrite(k.cgi, p, r)
<1>1. /\ k.psp = "cgi" /\ k.cgi.rd /\ k.cgi \in CgiStream
      /\ k.file.eof => k.file.pos = k.file.size
  BY DEF Steady, Steered, Loaded, Client, StreamOf
<1>2. /\ Handled(k, o) /\ WroteCgi(o, k, w) /\ Same(n, k)
      /\ n.failed = (k.failed \/ (r = Broken /\ o.ret))
  BY <1>1, WriteKeeps DEF Written
<1>3. /\ w.s.rd = k.cgi.rd
      /\ w.fault = "none" /\ ~w.ret =>
           CgiHeld(w.s) + w.sent + w.lost = CgiHeld(k.cgi)
  <2>1. StreamOffer(k, p) = CgiOffer(k.cgi, p)
    BY <1>1 DEF StreamOffer
  <2>2. w.s.rd = k.cgi.rd
    BY <1>1, <2>1, CgiAccount
  <2>3. w.fault = "none" /\ ~w.ret => CgiHeld(w.s) + w.sent + w.lost = CgiHeld(k.cgi)
    BY <1>1, <2>1, CgiAccount
  <2> QED BY <2>2, <2>3
<1>4. w.sent \in Int /\ w.lost \in Int
  <2>1. r \in SystemResult /\ -1 <= r.len /\ r.len <= CgiOffer(k.cgi, p)
    BY <1>1, StreamOfferType DEF SendResult, StreamOffer
  <2>2. IsOutcome(w, CgiStream)
    BY <1>1, <2>1, CgiWriteType
  <2> HIDE DEF w
  <2> QED BY <2>2 DEF IsOutcome
<1> HIDE DEF o, w
<1>5. /\ n.owed = k.owed - w.sent /\ n.lost = k.lost + w.lost /\ o.ret = w.ret
      /\ n.cgi = w.s /\ n.data = k.data /\ n.res = k.res /\ n.file = k.file
      /\ n.fault = w.fault
  BY <1>2 DEF WroteCgi, WroteAny
<1>6. n \in Client /\ k.owed \in Int /\ k.lost \in Int /\ k.drift \in Int
  BY <1>2 DEF Handled, Completed, Client
<1> HIDE DEF n
<1>7. Held(n) = CgiHeld(w.s) /\ Held(k) = CgiHeld(k.cgi)
  BY <1>2, <1>5 DEF Held, Same
<1>8. k.failed \/ k.owed = Held(k) + k.lost + k.drift
  BY PendingParts DEF Steady, Accounted
<1>9. n.drift = k.drift /\ n.state = k.state /\ n.content = k.content /\ n.psp = k.psp
  BY <1>2 DEF Same
<1>10. CASE n.fault = "none" /\ ~o.ret
  <2>1. n.failed <=> k.failed
    BY <1>2, <1>10
  <2>2. Held(n) + w.sent + w.lost = Held(k) /\ Held(n) \in Int /\ Held(k) \in Int
    BY <1>3, <1>5, <1>6, <1>7, <1>10, PendingParts
  <2>3. k.failed \/ k.owed - w.sent = Held(n) + (k.lost + w.lost) + k.drift
    BY <1>4, <1>6, <1>8, <2>2
  <2>4. Pending(n) = Held(n)
    BY <1>6, <1>9, PendingParts
  <2>5. Accounted(n)
    BY <1>5, <1>9, <2>1, <2>3, <2>4 DEF Accounted
  <2>6. Steered(n) /\ Loaded(n)
    BY <1>1, <1>3, <1>5, <1>9 DEF Steered, Loaded, StreamOf
  <2> QED BY <2>5, <2>6 DEF Steady, Continues, n, o
<1> QED BY <1>2, <1>10 DEF Handled, Continues, n, o

(***************************************************************************)
(* A connection that is kept after a settled response is steady.           *)
(***************************************************************************)
LEMMA RestartSteady ==
  ASSUME NEW k \in Client, Settled(k), NEW p, p.k \in Client,
         Overran(p, k) \/ Closes(p, k) \/ Restarts(p, k)
  PROVE  p.k.fault = "none" /\ p.poll # "CLOSE" => Steady(p.k)
<1>1. CASE Overran(p, k) \/ Closes(p, k)
  BY <1>1 DEF Overran, Closes
<1>2. CASE Restarts(p, k)
  <2>1. /\ p.k.state = "RECV_REQUEST" /\ p.k.content = "NONE"
        /\ p.k.file.eof => p.k.file.pos = p.k.file.size
        /\ p.k.failed \/ p.k.owed = p.k.lost + p.k.drift
    BY <1>2 DEF Restarts, Idle, Settled
  <2> QED BY <2>1, IdleSteady
<1> QED BY <1>1, <1>2

(***************************************************************************)
(* So is a client whose response goes on, from the header to the body or   *)
(* from one chunk to the next (protocol.cpp:546-619).                      *)
(***************************************************************************)
LEMMA SendSteady ==
  ASSUME NEW k \in Client, Answers(k), Orderly(k), Steady(k),
         NEW p, PipeRead(k.cgi, p), NEW r, SendResult(StreamOffer(k, p), r)
  PROVE  LET q == Left(StreamWrite(k, p, r))
         IN q.k.fault = "none" /\ q.poll # "CLOSE" => Steady(q.k)
<1> DEFINE o == StreamWrite(k, p, r)
           n == o.k
           q == Left(o)
<1>1. /\ k.state \in {"SEND_RESPONSE", "SEND_DATA"}
      /\ k.content = "CGI" => k.connection = "CLOSE"
  BY DEF Answers, Orderly, Busy
<1>2. Handled(k, o) /\ Same(n, k)
  BY WriteKeeps
<1>3. k.state = "SEND_RESPONSE" =>
        /\ Continues(o)
        /\ o.ret => /\ Loaded(n) /\ Held(n) = Held(k)
                    /\ n.failed \/ n.owed = Held(n) + n.lost + n.drift
  BY HeaderAccount
<1>4. k.state = "SEND_DATA" =>
        /\ n.fault = "none" => Continues(o)
        /\ k.content = "CGI" \/ Completes(o)
  <2>1. CASE k.state = "SEND_DATA" /\ k.content = "DATA"
    BY <2>1, PageAccount
  <2>2. CASE k.state = "SEND_DATA" /\ k.content = "FILE"
    BY <2>2, FileSendAccount
  <2>3. CASE k.state = "SEND_DATA" /\ k.content = "CGI"
    BY <2>3, ScriptAccount
  <2>4. k.state = "SEND_DATA" => k.content \in {"DATA", "FILE", "CGI"}
    BY DEF Steady, Steered, Client
  <2> QED BY <2>1, <2>2, <2>3, <2>4
<1>5. /\ o.ret \in BOOLEAN /\ (o.ret => Completed(n) /\ n \in Client)
      /\ ~o.ret /\ n.fault = "none" => Steady(n)
      /\ o.ret /\ k.state = "SEND_DATA" => k.content = "CGI" \/ Settled(n)
  BY <1>1, <1>2, <1>3, <1>4 DEF Handled, Completed, Continues, Completes
<1>6. /\ n.state = k.state /\ n.content = k.content /\ n.connection = k.connection
  BY <1>2 DEF Same
<1> HIDE DEF o, n
<1>7. CASE ~o.ret
  <2>1. q.k = n
    BY <1>7, PolledType DEF Left, n
  <2> QED BY <1>5, <1>7, <2>1 DEF o
<1>8. CASE o.ret
  <2>1. n \in Client /\ q = Poll(n)
    BY <1>5, <1>8 DEF Left, n
  <2>2. q.poll # "CLOSE" => q.k \in Client
    BY <1>5, <1>8, <2>1, PollType DEF Answered
  <2> HIDE DEF q
  <2>3. CASE n.state = "SEND_RESPONSE" /\ n.content # "NONE"
    <3> DEFINE psp == StreamOf(n.content)
               m == [n EXCEPT !.psp = psp, !.state = "SEND_DATA"]
    <3>1. Turned(q, n)
      BY <2>1, <2>3, PollParts
    <3>2. q.k = m
      BY <3>1 DEF Turned
    <3>3. m \in Client
      BY <2>2, <3>1, <3>2 DEF Turned
    <3> HIDE DEF psp
    <3>4. /\ m.psp = psp /\ m.state = "SEND_DATA" /\ m.content = n.content
          /\ m.data = n.data /\ m.file = n.file /\ m.cgi = n.cgi
          /\ m.owed = n.owed /\ m.lost = n.lost /\ m.drift = n.drift
          /\ m.failed = n.failed
      BY <2>1 DEF Client
    <3> HIDE DEF m
    <3>5. Loaded(n) /\ (n.failed \/ n.owed = Held(n) + n.lost + n.drift)
      BY <1>3, <1>6, <1>8, <2>3 DEF o, n
    <3>6. Held(m) = Held(n) /\ Pending(m) = Held(m)
      BY <3>3, <3>4, PendingParts DEF Held
    <3>7. Accounted(m)
      BY <3>4, <3>5, <3>6 DEF Accounted
    <3>8. Steered(m) /\ Loaded(m)
      BY <2>3, <3>4, <3>5 DEF Steered, Loaded, psp
    <3> QED BY <3>2, <3>7, <3>8 DEF Steady, q, o
  <2>4. CASE ~(n.state = "SEND_RESPONSE" /\ n.content # "NONE")
    <3>1. Overran(q, n) \/ Closes(q, n) \/ Restarts(q, n)
      BY <1>1, <1>6, <2>1, <2>4, PollParts
    <3>2. CASE k.state = "SEND_DATA" /\ k.content = "CGI"
      <4>1. n.connection # "KEEPALIVE"
        BY <1>1, <1>6, <3>2
      <4>2. q.k.fault # "none" \/ q.poll = "CLOSE"
        BY <3>1, <4>1 DEF Overran, Closes, Restarts
      <4> QED BY <4>2 DEF q, o
    <3>3. CASE ~(k.state = "SEND_DATA" /\ k.content = "CGI")
      <4>1. Settled(n)
        <5>1. CASE k.state = "SEND_DATA"
          BY <1>5, <1>8, <3>3, <5>1
        <5>2. CASE k.state = "SEND_RESPONSE"
          <6>1. n.content = "NONE" /\ (n.failed \/ n.owed = Held(n) + n.lost + n.drift)
            BY <1>3, <1>6, <1>8, <2>4, <5>2 DEF o, n
          <6>2. Held(n) = 0 /\ n.lost \in Int
            BY <2>1, <6>1 DEF Held, Client
          <6> QED BY <6>1, <6>2 DEF Settled
        <5> QED BY <1>1, <5>1, <5>2
      <4>2. q.k \in Client \/ q.poll = "CLOSE"
        BY <2>2
      <4> QED BY <2>1, <3>1, <4>1, <4>2, RestartSteady DEF q, o
    <3> QED BY <3>2, <3>3
  <2> QED BY <2>3, <2>4
<1> QED BY <1>5, <1>7, <1>8

(***************************************************************************)
(* A request is answered with a header and the page or the file behind it, *)
(* or with a script, and what is announced is what these hold              *)
(* (protocol.cpp:182-249, 741-936).                                        *)
(***************************************************************************)
LEMMA RunSteady ==
  ASSUME NEW k \in Client, Queues(k), Orderly(k), Steady(k),
         NEW c \in Configs, c.cgi => ~IsListing(c)
  PROVE  Steady(Process(Accept(k), c))
<1> DEFINE a == Accept(k)
           n == Process(a, c)
<1>1. /\ k.connection = "CLOSE" /\ k.content = "NONE"
      /\ k.cgi.buffer = << >> /\ ~k.cgi.feedback
      /\ k.file.eof => k.file.pos = k.file.size
  BY DEF Queues, Orderly, Idle, Steady, Loaded
<1>2. a.content = "NONE" /\ a.req = k.req /\ a.file = k.file /\ a.cgi = k.cgi
  BY <1>1, AcceptParts
<1>3. Processed(a) /\ a \in Client
  BY AcceptType DEF Processed
<1> HIDE DEF a
<1>4. /\ Begun(n, a)
      /\ StartsPage(n, a) \/ StartsFile(n, a, c) \/ StartsScript(n, a, c)
  BY <1>3, ProcessParts DEF StartsBoth
<1>5. n \in Client
  BY <1>3, ProcessType
<1> HIDE DEF n
<1>6. n.lost = 0 /\ HeaderSize \in Nat /\ HeaderSize > 0
  BY <1>4, HeaderAssumption DEF Begun
<1>7. /\ c.st_size \in Nat /\ c.length \in Nat /\ c.script \in Seq(CgiUnit)
      /\ Len(c.script) \in Nat
  BY ConfigAssumption, LenProperties DEF Config
<1>8. CASE StartsPage(n, a)
  <2>1. /\ n.state = "SEND_RESPONSE" /\ n.psp = "res" /\ n.res.size = HeaderSize
        /\ n.file = k.file /\ n.drift = 0
        /\ \/ n.content = "NONE" /\ n.owed = HeaderSize + 0
           \/ n.content = "DATA" /\ n.data.size > 0 /\ n.owed = HeaderSize + n.data.size
    BY <1>2, <1>8 DEF StartsPage
  <2>2. Pending(n) = HeaderSize + Held(n)
    BY <1>5, <2>1, PendingParts
  <2>3. Held(n) = IF n.content = "NONE" THEN 0 ELSE n.data.size
    BY <2>1 DEF Held
  <2>4. n.data.size \in Nat
    BY <1>5 DEF Client, BufferStream
  <2>5. Accounted(n)
    BY <1>6, <2>1, <2>2, <2>3, <2>4 DEF Accounted
  <2>6. Steered(n) /\ Loaded(n)
    BY <1>1, <1>6, <2>1 DEF Steered, Loaded
  <2> QED BY <2>5, <2>6 DEF Steady, n, a
<1>9. CASE StartsFile(n, a, c)
  <2>1. /\ n.state = "SEND_RESPONSE" /\ n.psp = "res" /\ n.res.size = HeaderSize
        /\ n.file = OpenFile(c.length) /\ n.content = "FILE"
        /\ n.owed = HeaderSize + c.st_size /\ n.drift = c.st_size - c.length
    BY <1>9 DEF StartsFile
  <2>2. n.file.open /\ ~n.file.eof /\ n.file.pos = 0 /\ n.file.size = c.length
    BY <2>1 DEF OpenFile, ClosedFile
  <2>3. Pending(n) = HeaderSize + Held(n) /\ Held(n) = c.length - 0
    BY <1>5, <2>1, <2>2, PendingParts DEF Held
  <2>4. HeaderSize + c.st_size = (HeaderSize + (c.length - 0)) + 0 + (c.st_size - c.length)
    BY <1>6, <1>7
  <2>5. Accounted(n)
    BY <1>6, <2>1, <2>3, <2>4 DEF Accounted
  <2>6. Steered(n) /\ Loaded(n)
    BY <1>6, <2>1, <2>2 DEF Steered, Loaded
  <2> QED BY <2>5, <2>6 DEF Steady, n, a
<1>10. CASE StartsScript(n, a, c)
  <2> DEFINE datal == IF a.method = "POST" THEN a.clen ELSE 0
             open == CgiOpen(a.cgi, c.script, datal, a.req)
  <2>1. /\ n.cgi = open.s /\ n.file = k.file /\ n.content = "CGI" /\ n.psp = "cgi"
        /\ n.owed = 1 + Len(c.script) /\ n.drift = 0
        /\ \/ n.state = "RECV_DATA" /\ open.s.datac < open.s.datal
           \/ n.state = "SEND_DATA"
    BY <1>2, <1>10 DEF StartsScript
  <2>2. a.cgi \in CgiStream /\ a.req.postl \in Nat /\ Len(a.req.buffer) \in Nat
    BY <1>3, LenProperties DEF Client, RequestStream
  <2>3. datal \in Nat
    BY <1>3 DEF Client
  <2> HIDE DEF datal
  <2>4. /\ open.s.rd /\ open.s.buffer = << >> /\ ~open.s.feedback
        /\ open.s.pipe = c.script
    BY <1>1, <1>2, <2>2 DEF CgiOpen, CgiStream
  <2>5. open.s.datac < open.s.datal => open.s.wr
    <3> DEFINE early == Len(a.req.buffer) - a.req.postl
    <3>1. early \in Int
      BY <2>2
    <3> HIDE DEF early
    <3>2. /\ open.s.datac = early /\ open.s.datal = datal
          /\ open.s.wr <=> ~(early > 0 /\ early >= datal)
      BY <2>2 DEF CgiOpen, CgiStream, early
    <3> HIDE DEF open
    <3> QED BY <2>3, <3>1, <3>2
  <2> HIDE DEF open
  <2>6. Held(n) = Len(c.script) + 0 + 1
    <3>1. CgiHeld(open.s) = Len(c.script) + Len(<< >>) + 1
      BY <2>4 DEF CgiHeld
    <3>2. Len(<< >>) = 0
      OBVIOUS
    <3> QED BY <2>1, <3>1, <3>2 DEF Held
  <2>7. Pending(n) = Held(n)
    BY <1>5, <2>1, PendingParts
  <2>8. Accounted(n)
    BY <1>6, <1>7, <2>1, <2>6, <2>7 DEF Accounted
  <2>9. Steered(n) /\ Loaded(n)
    BY <1>1, <2>1, <2>4, <2>5 DEF Steered, Loaded, StreamOf
  <2> QED BY <2>8, <2>9 DEF Steady, n, a
<1> QED BY <1>4, <1>8, <1>9, <1>10

(***************************************************************************)
(* SteadyInv holds at the start and after every step.                      *)
(***************************************************************************)
LEMMA NextSteady ==
  ASSUME NoScriptForListing, IInv, TidyInv, SteadyInv, [Next]_vars
  PROVE  SteadyInv'
<1>0. TypeOK /\ TypeOK' /\ TidyInv
  BY NextIInv DEF IInv
<1>1. CASE pc = "undefined"
  <2>1. UNCHANGED <<cl, life>>
    BY <1>1, UndefinedEnds DEF vars
  <2> QED BY <2>1 DEF SteadyInv, Open
<1>2. CASE pc # "undefined"
  <2> SUFFICES ASSUME NEW c \in Clients, life'[c] = "open", cl'[c].fault = "none"
               PROVE  Steady(cl'[c])
    BY DEF SteadyInv, Open
  <2> DEFINE k == cl[c]
  <2>1. /\ k \in Client /\ cl'[c] \in Client /\ k.fault = "none"
        /\ wire[c] \in Seq(Token)
    BY <1>0, <1>2 DEF TypeOK, TidyInv, Defined
  <2>2. Happens(c)
    BY StepHappens
  <2>3. life[c] = "open" => Orderly(k) /\ Steady(k)
    BY <1>0, <2>1 DEF TidyInv, Tidy, SteadyInv, Open
  <2>4. ASSUME NEW o, Follows(c, o),
               Left(o).k.fault = "none" /\ Left(o).poll # "CLOSE" => Steady(Left(o).k)
        PROVE  Steady(cl'[c])
    BY <2>4 DEF Follows
  <2>5. CASE Stays(c)
    BY <2>3, <2>5 DEF Stays
  <2>6. CASE Joins(c) \/ TurnedAway(c)
    BY <2>6 DEF Joins, TurnedAway
  <2>7. CASE Made(c)
    <3>1. PICK postl \in Garbage, datac \in Garbage, datal \in Garbage :
            cl'[c] = NewClient(postl, datac, datal)
      BY <2>7 DEF Made
    <3> DEFINE n == NewClient(postl, datac, datal)
    <3>2. /\ n.state = "RECV_REQUEST" /\ n.content = "NONE" /\ n.file = ClosedFile
          /\ n.owed = 0 /\ n.lost = 0 /\ n.drift = 0
      BY GarbageAssumption, NewClientParts DEF Idle
    <3> HIDE DEF n
    <3>3. Steady(n)
      BY <2>1, <3>1, <3>2, IdleSteady DEF n, ClosedFile
    <3> QED BY <3>1, <3>3 DEF n
  <2>8. CASE Receives(c)
    <3>1. PICK r \in SystemResult :
            /\ Moved(r) \in 0..Len(wire[c])
            /\ Follows(c, StreamRead(cl[c], r, SubSeq(wire[c], 1, Moved(r))))
      BY <2>8 DEF Receives
    <3>2. SubSeq(wire[c], 1, Moved(r)) \in Seq(Token)
      BY <2>1, <3>1, PrefixType
    <3>3. Orderly(k) /\ Steady(k) /\ (AwaitsRequest(k) \/ AwaitsBody(k))
      BY <2>3, <2>8, <3>1 DEF Receives, Follows
    <3> QED BY <2>1, <2>4, <3>1, <3>2, <3>3, RequestSteady, BodySteady
  <2>9. CASE Sends(c)
    <3>1. PICK p, r : /\ PipeRead(cl[c].cgi, p)
                      /\ r \in SendResults(c, StreamOffer(cl[c], p))
                      /\ Follows(c, StreamWrite(cl[c], p, r))
      BY <2>9 DEF Sends
    <3>2. Orderly(k) /\ Steady(k) /\ Answers(k)
      BY <2>3, <2>9, <3>1 DEF Sends, Follows
    <3>3. SendResult(StreamOffer(k, p), r)
      BY <2>1, <3>1, <3>2, StreamOfferType, SendResultOf
    <3> QED BY <2>1, <2>4, <3>1, <3>2, <3>3, SendSteady
  <2>10. CASE Runs(c)
    <3>1. PICK cfg \in Configs : cl'[c] = Process(Accept(cl[c]), cfg)
      BY <2>10 DEF Runs
    <3>2. Queues(k) /\ Orderly(k) /\ Steady(k)
      BY <2>3, <2>10 DEF Runs
    <3> QED BY <2>1, <3>1, <3>2, RunSteady DEF NoScriptForListing
  <2> QED BY <2>2, <2>5, <2>6, <2>7, <2>8, <2>9, <2>10 DEF Happens
<1> QED BY <1>1, <1>2

LEMMA SteadyAlways ==
  ASSUME NoScriptForListing
  PROVE  Spec => []SteadyInv
<1>1. Init => SteadyInv
  BY DEF Init, SteadyInv, Open
<1>2. IInv /\ TidyInv /\ SteadyInv /\ [Next]_vars => SteadyInv'
  BY NextSteady
<1>3. Spec => []IInv
  BY Invariant
<1> QED BY <1>1, <1>2, <1>3, TidyAlways, PTL DEF Spec

(***************************************************************************)
(* The stream that psp selects is one that was prepared: fread() never     *)
(* sees a null FILE, no pipe is used that was not opened, and no empty     *)
(* buffer is sent (protocol.cpp:297, 546-619).                             *)
(***************************************************************************)
THEOREM StreamsReady ==
  ASSUME NoScriptForListing
  PROVE  Spec => []StreamReady
<1>1. IInv /\ TidyInv /\ SteadyInv => StreamReady
  <2> SUFFICES ASSUME IInv, TidyInv, SteadyInv,
                      NEW c \in {d \in Open : cl[d].fault = "none"}
               PROVE  LET k == cl[c]
                      IN /\ k.state = "RECV_REQUEST" => k.psp = "req"
                         /\ k.state = "RECV_DATA" =>
                              k.psp = "cgi" /\ k.cgi.rd /\ k.cgi.wr
                         /\ k.state = "SEND_RESPONSE" =>
                              k.psp = "res" /\ k.res.size > 0
                         /\ k.state = "SEND_DATA" =>
                              k.content # "NONE" /\ k.psp = StreamOf(k.content)
                         /\ k.psp = "file" => k.file.open
                         /\ k.psp = "data" => k.data.size > 0
                         /\ k.psp = "cgi" => k.cgi.rd
    BY DEF StreamReady
  <2> DEFINE k == cl[c]
  <2>1. /\ k \in Client /\ Control(k) /\ Orderly(k) /\ Steered(k) /\ Loaded(k)
    BY DEF IInv, TypeOK, Controlled, TidyInv, Tidy, SteadyInv, Steady, Open
  <2> HIDE DEF k
  <2>2. CASE k.state = "RECV_REQUEST"
    BY <2>1, <2>2 DEF Orderly, Idle, k
  <2>3. CASE k.state = "RECV_DATA"
    BY <2>1, <2>3 DEF Control, AwaitsRequest, AwaitsBody, Answers, Queues, Steered, k
  <2>4. CASE k.state = "SEND_RESPONSE"
    BY <2>1, <2>4 DEF Steered, k
  <2>5. CASE k.state = "SEND_DATA"
    <3>1. k.content \in {"DATA", "FILE", "CGI"} /\ k.psp = StreamOf(k.content)
      BY <2>1, <2>5 DEF Client, Steered
    <3> QED BY <2>1, <2>5, <3>1 DEF Loaded, StreamOf, k
  <2> QED BY <2>1, <2>2, <2>3, <2>4, <2>5 DEF Client
<1>2. Spec => []IInv
  BY Invariant
<1> QED BY <1>1, <1>2, TidyAlways, SteadyAlways, PTL

(***************************************************************************)
(* Every unit of a response that was announced was accepted by the kernel, *)
(* is still held by a stream, was dropped by one, or is the difference     *)
(* between st_size and the file (protocol.cpp:152-173, 251-318, 366-426).  *)
(***************************************************************************)
THEOREM UnitsConserved ==
  ASSUME NoScriptForListing
  PROVE  Spec => []Conservation
<1>1. SteadyInv => Conservation
  BY DEF SteadyInv, Steady, Accounted, Conservation, Open
<1> QED BY <1>1, SteadyAlways, PTL

-----------------------------------------------------------------------------
(* What is taken for a request is one.                                     *)

\* What may follow a token in the byte stream of a remote end.
Sequel(a, b) ==
  CASE a.kind = "end"  -> b.kind \in {"line", "body"}
    [] a.kind = "body" -> b.kind = "body"
    [] OTHER           -> b.kind \in {"field", "end"}

\* Whole requests and the start of one, and a body after the last.
WellFormed(s) ==
  /\ s # << >> => s[1].kind \in {"line", "body"}
  /\ \A i \in 1..Len(s) : s[i].brk <=> s[i].kind = "end"
  /\ \A i \in 1..Len(s) - 1 : Sequel(s[i], s[i + 1])

(***************************************************************************)
(* What is left of a body that no script takes is parsed as a request:     *)
(* nothing skips it (protocol.cpp:117-122).  What follows is about remote  *)
(* ends that send a body with the last request of a connection only.       *)
(***************************************************************************)
BodiesLast == \A s \in Traffic : WellFormed(s)

(***************************************************************************)
(* What a client has buffered, followed by what its remote end has still   *)
(* to send, begins where a request does.  A client that will close, or     *)
(* that dropped a part of its request, is not followed any further.        *)
(***************************************************************************)
Aligned(k, rest) ==
  k.fault = "none" /\ \/ k.connection = "KEEPALIVE"
                      \/ k.state = "RECV_REQUEST" /\ k.req.state # "CORRUPTED"
    => WellFormed(k.req.buffer \o rest)

AlignedInv ==
  \A c \in Clients : /\ life[c] = "backlog" => WellFormed(wire[c])
                     /\ life[c] = "open" => Aligned(cl[c], wire[c])

(***************************************************************************)
(* The front of a well-formed sequence is well formed.                     *)
(***************************************************************************)
LEMMA FrontWellFormed ==
  ASSUME NEW a \in Seq(Token), NEW w \in Seq(Token), WellFormed(a \o w)
  PROVE  WellFormed(a)
<1>1. /\ Len(a) \in Nat /\ Len(w) \in Nat /\ Len(a \o w) = Len(a) + Len(w)
      /\ \A i \in 1..Len(a) : (a \o w)[i] = a[i]
  BY ConcatProperties, LenProperties
<1>2. a # << >> => Len(a) >= 1 /\ a \o w # << >>
  <2>1. a # << >> => Len(a) # 0
    BY EmptySeq
  <2>2. Len(<< >>) = 0
    OBVIOUS
  <2> QED BY <1>1, <2>1, <2>2
<1> DEFINE v == a \o w
<1> HIDE DEF v
<1>3. WellFormed(v) /\ Len(v) >= Len(a) /\ Len(v) \in Nat
      /\ \A i \in 1..Len(a) : v[i] = a[i] /\ i \in 1..Len(v)
  BY <1>1 DEF v
<1>4. a # << >> => a[1].kind \in {"line", "body"}
  <2>1. a # << >> => v # << >> /\ v[1] = a[1]
    BY <1>1, <1>2, <1>3 DEF v
  <2> QED BY <1>3, <2>1 DEF WellFormed
<1>5. ASSUME NEW i \in 1..Len(a) PROVE a[i].brk <=> a[i].kind = "end"
  BY <1>3 DEF WellFormed
<1>6. ASSUME NEW i \in 1..Len(a) - 1 PROVE Sequel(a[i], a[i + 1])
  <2>1. i \in 1..Len(v) - 1 /\ i \in 1..Len(a) /\ i + 1 \in 1..Len(a)
    BY <1>1, <1>3
  <2>2. Sequel(v[i], v[i + 1])
    BY <1>3, <2>1 DEF WellFormed
  <2> QED BY <1>3, <2>1, <2>2
<1> QED BY <1>4, <1>5, <1>6 DEF WellFormed

(***************************************************************************)
(* So is what remains behind the end of a request (protocol.cpp:117-122).  *)
(***************************************************************************)
LEMMA RestWellFormed ==
  ASSUME NEW a \in Seq(Token), NEW w \in Seq(Token), WellFormed(a \o w),
         NEW n \in 1..Len(a), a[n].kind = "end"
  PROVE  WellFormed(Dropped(a, n) \o w)
<1> DEFINE v == a \o w
           d == Dropped(a, n)
           u == d \o w
<1>1. /\ Len(a) \in Nat /\ Len(w) \in Nat /\ n \in Nat
      /\ Len(v) = Len(a) + Len(w)
      /\ \A i \in 1..Len(a) + Len(w) :
           v[i] = IF i <= Len(a) THEN a[i] ELSE w[i - Len(a)]
  BY ConcatProperties, LenProperties
<1>2. /\ d \in Seq(Token) /\ Len(d) = Len(a) - n
      /\ \A i \in 1..Len(a) - n : d[i] = a[n + i]
  <2>1. \A i \in n + 1..Len(a) : a[i] \in Token
    BY <1>1, ElementOfSeq
  <2>2. /\ SubSeq(a, n + 1, Len(a)) \in Seq(Token)
        /\ Len(SubSeq(a, n + 1, Len(a))) = IF n + 1 <= Len(a) THEN Len(a) - (n + 1) + 1 ELSE 0
        /\ \A i \in 1..Len(a) - (n + 1) + 1 :
             SubSeq(a, n + 1, Len(a))[i] = a[(n + 1) + i - 1]
    BY <1>1, <2>1, SubSeqProperties
  <2> QED BY <1>1, <2>2 DEF Dropped
<1> HIDE DEF d
<1>3. /\ Len(u) = (Len(a) - n) + Len(w)
      /\ \A i \in 1..(Len(a) - n) + Len(w) :
           u[i] = IF i <= Len(a) - n THEN d[i] ELSE w[i - (Len(a) - n)]
      /\ u \in Seq(Token)
  <2>1. /\ d \o w \in Seq(Token) /\ Len(d \o w) = Len(d) + Len(w)
        /\ \A i \in 1..Len(d) + Len(w) :
             (d \o w)[i] = IF i <= Len(d) THEN d[i] ELSE w[i - Len(d)]
    BY <1>2, ConcatProperties
  <2> QED BY <1>2, <2>1
<1> HIDE DEF v, u
<1>4. ASSUME NEW i \in 1..Len(u)
      PROVE  u[i] = v[n + i] /\ n + i \in 1..Len(v) /\ i \in Nat
  <2>1. i \in Nat /\ n + i \in 1..Len(v) /\ i \in 1..(Len(a) - n) + Len(w)
    BY <1>1, <1>3
  <2>2. CASE i <= Len(a) - n
    BY <1>1, <1>2, <1>3, <2>1, <2>2
  <2>3. CASE ~(i <= Len(a) - n)
    <3>1. i - (Len(a) - n) = (n + i) - Len(a) /\ ~(n + i <= Len(a))
      BY <1>1, <2>1, <2>3
    <3> QED BY <1>1, <1>3, <2>1, <2>3, <3>1
  <2> QED BY <2>1, <2>2, <2>3
<1>5. WellFormed(v) /\ v[n].kind = "end" /\ Len(v) \in Nat /\ Len(u) \in Nat
  BY <1>1, <1>3 DEF v
<1>6. u # << >> => u[1].kind \in {"line", "body"}
  <2>1. u # << >> => 1 \in 1..Len(u)
    BY <1>3, <1>5, EmptySeq
  <2>2. 1 \in 1..Len(u) => n \in 1..Len(v) - 1 /\ u[1] = v[n + 1]
    BY <1>1, <1>4, <1>5
  <2>3. 1 \in 1..Len(u) => Sequel(v[n], u[1])
    BY <1>5, <2>2 DEF WellFormed
  <2> QED BY <1>5, <2>1, <2>3 DEF Sequel
<1>7. ASSUME NEW i \in 1..Len(u) PROVE u[i].brk <=> u[i].kind = "end"
  BY <1>4, <1>5 DEF WellFormed
<1>8. ASSUME NEW i \in 1..Len(u) - 1 PROVE Sequel(u[i], u[i + 1])
  <2>1. i \in 1..Len(u) /\ i + 1 \in 1..Len(u)
    BY <1>5
  <2>2. /\ u[i] = v[n + i] /\ n + i \in 1..Len(v)
        /\ u[i + 1] = v[n + (i + 1)] /\ n + (i + 1) \in 1..Len(v)
    BY <1>4, <2>1
  <2>3. n + (i + 1) = (n + i) + 1 /\ n + i \in 1..Len(v) - 1
    BY <1>1, <1>5, <2>1, <2>2
  <2>4. Sequel(v[n + i], v[(n + i) + 1])
    BY <1>5, <2>3 DEF WellFormed
  <2> QED BY <2>2, <2>3, <2>4
<1> QED BY <1>6, <1>7, <1>8 DEF WellFormed, u, d

(***************************************************************************)
(* The first break of a well-formed buffer ends the request it begins      *)
(* with, and everything before it is that request (protocol.cpp:100-107).  *)
(***************************************************************************)
LEMMA FirstRequest ==
  ASSUME NEW a \in Seq(Token), WellFormed(a), Breaks(a) # {}
  PROVE  LET n == FindBreak(a)
         IN /\ n \in 1..Len(a) /\ a[1].kind = "line" /\ a[n].kind = "end"
            /\ \A i \in 2..n - 1 : a[i].kind = "field"
<1> DEFINE n == FindBreak(a)
<1>1. n \in Breaks(a) /\ n \in 1..Len(a) /\ Len(a) \in Nat
  BY FindBreakType, LenProperties
<1>2. \A j \in Breaks(a) : n <= j
  <2>1. Breaks(a) \in SUBSET Nat
    BY DEF Breaks
  <2>2. \E i \in Breaks(a) : \A j \in Breaks(a) : i <= j
    BY <2>1, LeastNat
  <2> QED BY <2>2 DEF FindBreak
<1> HIDE DEF n
<1>3. \A i \in 1..Len(a) : a[i].kind \in {"line", "field", "end", "body"}
  <2>1. \A i \in 1..Len(a) : a[i] \in Token
    BY ElementOfSeq
  <2> QED BY <2>1 DEF Token
<1>4. a[n].kind = "end" /\ \A i \in 1..n - 1 : i \in 1..Len(a) /\ a[i].kind # "end"
  BY <1>1, <1>2 DEF Breaks, WellFormed
<1>5. ASSUME NEW i \in 1..n - 1 PROVE a[i].kind # "body"
  <2> SUFFICES ASSUME a[i].kind = "body" PROVE FALSE
    OBVIOUS
  <2> DEFINE T == {j \in i + 1..n : a[j].kind # "body"}
  <2>1. T \in SUBSET Nat /\ n \in T
    BY <1>1, <1>4
  <2>2. PICK j \in T : \A m \in T : j <= m
    BY <2>1, LeastNat
  <2>3. j - 1 \in 1..Len(a) - 1 /\ j \in Nat /\ j - 1 \in i..n - 1 /\ j = (j - 1) + 1
    BY <1>1, <2>2
  <2>4. a[j - 1].kind = "body"
    <3>1. CASE j - 1 = i
      BY <3>1
    <3>2. CASE j - 1 # i
      <4>1. j - 1 \in i + 1..n /\ ~(j <= j - 1)
        BY <1>1, <2>3, <3>2
      <4>2. j - 1 \notin T
        BY <2>2, <4>1
      <4> QED BY <4>1, <4>2
    <3> QED BY <3>1, <3>2
  <2>5. Sequel(a[j - 1], a[j])
    BY <2>3 DEF WellFormed
  <2> QED BY <2>2, <2>4, <2>5 DEF Sequel
<1>6. a[1].kind = "line"
  <2>1. a # << >> /\ 1 \in 1..Len(a)
    BY <1>1
  <2>2. a[1].kind \in {"line", "body"}
    BY <2>1 DEF WellFormed
  <2>3. n # 1
    BY <1>4, <2>2
  <2>4. 1 \in 1..n - 1
    BY <1>1, <2>3
  <2> QED BY <1>5, <2>2, <2>4
<1>7. ASSUME NEW i \in 2..n - 1 PROVE a[i].kind = "field"
  <2>1. /\ i - 1 \in 1..n - 1 /\ i \in 1..n - 1 /\ i = (i - 1) + 1
        /\ i - 1 \in 1..Len(a) - 1 /\ i \in 1..Len(a)
    BY <1>1
  <2>2. Sequel(a[i - 1], a[i])
    BY <2>1 DEF WellFormed
  <2> QED BY <1>4, <1>5, <2>1, <2>2 DEF Sequel
<1> QED BY <1>1, <1>4, <1>6, <1>7 DEF n

(***************************************************************************)
(* A read moves the boundary between what is buffered and what is still to *)
(* come (protocol.cpp:90-111).                                             *)
(***************************************************************************)
LEMMA RequestAligned ==
  ASSUME NEW k \in Client, AwaitsRequest(k), Orderly(k), k.fault = "none",
         NEW r \in SystemResult, NEW w \in Seq(Token), Moved(r) \in 0..Len(w),
         Aligned(k, w)
  PROVE  LET p == Left(StreamRead(k, r, SubSeq(w, 1, Moved(r))))
         IN p.poll # "CLOSE" => Aligned(p.k, Dropped(w, Moved(r)))
<1> DEFINE data == SubSeq(w, 1, Moved(r))
           rest == Dropped(w, Moved(r))
           q == RequestRead(k.req, r, data)
           o == StreamRead(k, r, data)
           n == o.k
           p == Left(o)
<1>1. /\ k.psp = "req" /\ k.state = "RECV_REQUEST" /\ k.connection = "CLOSE"
      /\ k.req.state = "PENDING" /\ k.req \in RequestStream(Token)
      /\ k.req.buffer \in Seq(Token)
  BY DEF AwaitsRequest, Orderly, Idle, Requesting, Client, RequestStream
<1>2. data \in Seq(Token)
  BY PrefixType
<1>3. WellFormed((k.req.buffer \o data) \o rest)
  <2>1. (k.req.buffer \o data) \o rest = k.req.buffer \o w
    BY <1>1, BoundaryMoves
  <2> QED BY <1>1, <2>1 DEF Aligned
<1>4. Handled(k, o)
  BY <1>1, <1>2, StreamReadType
<1>5. o.ret = q.ret /\ Same(n, k) /\ n.req = q.s /\ n.fault = q.fault
  BY <1>1, <1>2, RequestReadOf
<1>6. /\ q.fault = "none" /\ ~q.ret =>
           q.s.state = "PENDING" /\ q.s.buffer = k.req.buffer \o data
      /\ q.ret => \/ q.s.state \in {"CLOSED", "CORRUPTED"}
                  \/ q.s.buffer = k.req.buffer \o data
  <2>1. q.fault = "none" /\ ~q.ret => q.s.buffer = k.req.buffer \o data
    <3> HIDE DEF data
    <3>1. ASSUME NEW s \in RequestStream(Token)
          PROVE  LET x == RequestRead(s, r, data)
                 IN x.fault = "none" /\ ~x.ret => x.s.buffer = s.buffer \o data
      BY RequestReadParts
    <3> QED BY <1>1, <3>1
  <2>2. q.fault = "none" /\ ~q.ret => q.s.state = k.req.state
    BY <1>1, RequestReadParts
  <2>3. q.ret => \/ q.s.state \in {"CLOSED", "CORRUPTED"}
                 \/ q.s.buffer = k.req.buffer \o data
    BY <1>1, RequestReadParts
  <2> QED BY <1>1, <2>1, <2>2, <2>3
<1> HIDE DEF data, rest, q, o
<1>7. n \in Client /\ o.ret \in BOOLEAN
  BY <1>4 DEF Handled, Completed
<1> HIDE DEF n
<1>8. n.state = "RECV_REQUEST" /\ n.connection = "CLOSE"
  BY <1>1, <1>5 DEF Same
<1>9. CASE ~o.ret
  <2>1. p.k = n
    BY <1>9, PolledType DEF Left, n
  <2>2. Aligned(n, rest)
    BY <1>3, <1>5, <1>6, <1>9 DEF Aligned
  <2> QED BY <2>1, <2>2 DEF o, data, rest
<1>10. CASE o.ret
  <2>1. p = Poll(n)
    BY <1>10 DEF Left, n
  <2>2. Requested(p, n)
    BY <1>7, <1>8, <2>1, PollParts
  <2> HIDE DEF p
  <2>3. CASE n.req.state = "CLOSED"
    BY <2>2, <2>3 DEF Requested, p, o, data
  <2>4. CASE n.req.state # "CLOSED"
    <3> DEFINE m == [n EXCEPT !.sflags = {}]
    <3>1. p.k = m
      BY <2>2, <2>4 DEF Requested
    <3>2. /\ m.fault = n.fault /\ m.state = n.state /\ m.connection = n.connection
          /\ m.req = n.req
      BY <1>7 DEF Client
    <3> HIDE DEF m
    <3>3. Aligned(m, rest)
      BY <1>3, <1>5, <1>6, <1>8, <1>10, <2>4, <3>2 DEF Aligned
    <3> QED BY <3>1, <3>3 DEF p, o, data, rest
  <2> QED BY <2>3, <2>4
<1> QED BY <1>7, <1>9, <1>10

(***************************************************************************)
(* A connection that delivers a body is not kept (protocol.cpp:812-818).   *)
(***************************************************************************)
LEMMA BodyAligned ==
  ASSUME NEW k \in Client, AwaitsBody(k), Orderly(k), NEW r \in SystemResult,
         NEW data \in Seq(Token), NEW rest
  PROVE  Aligned(Left(StreamRead(k, r, data)).k, rest)
<1> DEFINE o == StreamRead(k, r, data)
           n == o.k
           p == Left(o)
<1>1. k.state = "RECV_DATA" /\ k.connection = "CLOSE"
  BY DEF AwaitsBody, Orderly, Busy
<1>2. Handled(k, o) /\ Same(n, k)
  BY StreamReadType, BodyReadOf
<1> HIDE DEF o
<1>3. o.ret \in BOOLEAN /\ n \in Client
  BY <1>2 DEF Handled, Completed
<1> HIDE DEF n
<1>4. n.state = "RECV_DATA" /\ n.connection = "CLOSE"
  BY <1>1, <1>2 DEF Same
<1>5. CASE ~o.ret
  <2>1. p.k = n
    BY <1>5, PolledType DEF Left, n
  <2> QED BY <1>4, <2>1 DEF Aligned, o
<1>6. CASE o.ret
  <2>1. p = Poll(n)
    BY <1>6 DEF Left, n
  <2>2. Received(p, n)
    BY <1>3, <1>4, <2>1, PollParts
  <2> HIDE DEF p
  <2> DEFINE m == [n EXCEPT !.psp = "cgi", !.state = "SEND_DATA", !.sflags = {"SEND"}]
  <2>3. m.state = "SEND_DATA" /\ m.connection = n.connection
    BY <1>3 DEF Client
  <2> HIDE DEF m
  <2>4. p.k \in {n, m}
    BY <2>2 DEF Received, m
  <2> QED BY <1>4, <2>3, <2>4 DEF Aligned, p, o
<1> QED BY <1>3, <1>5, <1>6

(***************************************************************************)
(* A write leaves the buffer alone until the response is out; then the     *)
(* request is erased, up to the end that was found for it                  *)
(* (protocol.cpp:117-122, 602-614).                                        *)
(***************************************************************************)
LEMMA SendAligned ==
  ASSUME NEW k \in Client, Answers(k), Orderly(k), k.fault = "none",
         NEW w \in Seq(Token), Aligned(k, w),
         NEW p, PipeRead(k.cgi, p), NEW r, SendResult(StreamOffer(k, p), r)
  PROVE  LET q == Left(StreamWrite(k, p, r))
         IN q.poll # "CLOSE" => Aligned(q.k, w)
<1> DEFINE o == StreamWrite(k, p, r)
           n == o.k
           q == Left(o)
<1>1. /\ k.state \in {"SEND_RESPONSE", "SEND_DATA"}
      /\ k.connection = "KEEPALIVE" => Cut(k.req) /\ WellFormed(k.req.buffer \o w)
  BY DEF Answers, Orderly, Busy, Aligned
<1>2. Handled(k, o) /\ Same(n, k) /\ n.req = k.req
  BY WriteKeeps
<1>3. o.ret \in BOOLEAN /\ (o.ret => n \in Client)
  BY <1>2 DEF Handled, Completed
<1>4. /\ n.state = k.state /\ n.connection = k.connection /\ n.content = k.content
  BY <1>2 DEF Same
<1> HIDE DEF o, n
<1>5. Aligned(n, w)
  BY <1>1, <1>2, <1>4 DEF Aligned
<1>6. CASE ~o.ret
  <2>1. q.k = n
    BY <1>6, PolledType DEF Left, n
  <2> QED BY <1>5, <2>1 DEF o
<1>7. CASE o.ret
  <2>1. n \in Client /\ q = Poll(n)
    BY <1>3, <1>7 DEF Left, n
  <2> HIDE DEF q
  <2>2. CASE n.state = "SEND_RESPONSE" /\ n.content # "NONE"
    <3> DEFINE psp == StreamOf(n.content)
               m == [n EXCEPT !.psp = psp, !.state = "SEND_DATA"]
    <3>1. Turned(q, n)
      BY <2>1, <2>2, PollParts
    <3>2. q.k = m
      BY <3>1 DEF Turned
    <3> HIDE DEF psp
    <3>3. /\ m.state = "SEND_DATA" /\ m.connection = n.connection /\ m.req = n.req
          /\ m.fault = n.fault
      BY <2>1 DEF Client
    <3> HIDE DEF m
    <3>4. Aligned(m, w)
      BY <1>1, <1>2, <1>4, <3>3 DEF Aligned
    <3> QED BY <3>2, <3>4 DEF q, o
  <2>3. CASE ~(n.state = "SEND_RESPONSE" /\ n.content # "NONE")
    <3>1. Overran(q, n) \/ Closes(q, n) \/ Restarts(q, n)
      BY <1>1, <1>4, <2>1, <2>3, PollParts
    <3>2. CASE Overran(q, n) \/ Closes(q, n)
      BY <3>2 DEF Overran, Closes, Aligned, q, o
    <3>3. CASE Restarts(q, n)
      <4> DEFINE a == k.req.buffer
                 end == FindBreak(a)
      <4>1. /\ Cut(k.req) /\ WellFormed(a \o w) /\ a \in Seq(Token)
            /\ q.k.req.buffer = Dropped(a, k.req.postl)
        BY <1>1, <1>2, <1>4, <3>3 DEF Restarts, Client, RequestStream
      <4>2. k.req.postl = end /\ Breaks(a) # {}
        BY <4>1 DEF Cut
      <4>3. WellFormed(a)
        BY <4>1, FrontWellFormed
      <4>4. end \in 1..Len(a) /\ a[end].kind = "end"
        BY <4>1, <4>2, <4>3, FirstRequest
      <4> HIDE DEF a, end
      <4>5. WellFormed(Dropped(a, end) \o w)
        BY <4>1, <4>4, RestWellFormed
      <4> QED BY <4>1, <4>2, <4>5 DEF Aligned, q, o
    <3> QED BY <3>1, <3>2, <3>3
  <2> QED BY <2>2, <2>3
<1> QED BY <1>3, <1>6, <1>7

(***************************************************************************)
(* A connection is kept only after a request that was read whole           *)
(* (protocol.cpp:643-700, 741-936).                                        *)
(***************************************************************************)
LEMMA RunAligned ==
  ASSUME NEW k \in Client, Queues(k), Orderly(k), k.fault = "none", NEW w,
         Aligned(k, w), NEW c \in Configs
  PROVE  Aligned(Process(Accept(k), c), w)
<1> DEFINE a == Accept(k)
           n == Process(a, c)
<1>1. k.connection = "CLOSE" /\ k.state = "RECV_REQUEST"
  BY DEF Queues, Orderly, Idle
<1>2. /\ a.req = k.req
      /\ k.req.state = "CORRUPTED" => a.connection = "CLOSE"
  BY <1>1, AcceptParts
<1>3. Processed(a)
  BY AcceptType
<1> HIDE DEF a
<1>4. /\ Begun(n, a)
      /\ StartsPage(n, a) \/ StartsFile(n, a, c) \/ StartsScript(n, a, c)
         \/ StartsBoth(n, a, c)
  BY <1>3, ProcessParts
<1> HIDE DEF n
<1>5. n.state # "RECV_REQUEST"
  BY <1>4 DEF StartsPage, StartsFile, StartsScript, StartsBoth
<1>6. n.req.buffer = k.req.buffer /\ n.connection \in {a.connection, "CLOSE"}
  BY <1>2, <1>4 DEF Begun
<1> QED BY <1>1, <1>2, <1>5, <1>6 DEF Aligned, n, a

(***************************************************************************)
(* AlignedInv holds at the start and after every step.                     *)
(***************************************************************************)
LEMMA NextAligned ==
  ASSUME BodiesLast, IInv, TidyInv, AlignedInv, [Next]_vars
  PROVE  AlignedInv'
<1>0. TypeOK /\ TypeOK' /\ TidyInv
  BY NextIInv DEF IInv
<1>1. CASE pc = "undefined"
  <2>1. UNCHANGED <<cl, life, wire>>
    BY <1>1, UndefinedEnds DEF vars
  <2> QED BY <2>1 DEF AlignedInv
<1>2. CASE pc # "undefined"
  <2> SUFFICES ASSUME NEW c \in Clients
               PROVE  /\ life'[c] = "backlog" => WellFormed(wire'[c])
                      /\ life'[c] = "open" => Aligned(cl'[c], wire'[c])
    BY DEF AlignedInv
  <2> DEFINE k == cl[c]
  <2>1. k \in Client /\ k.fault = "none" /\ wire[c] \in Seq(Token)
    BY <1>0, <1>2 DEF TypeOK, TidyInv, Defined
  <2>2. Happens(c)
    BY StepHappens
  <2>3. /\ life[c] = "open" => Orderly(k) /\ Aligned(k, wire[c])
        /\ life[c] = "backlog" => WellFormed(wire[c])
    BY <1>0, <2>1 DEF TidyInv, Tidy, AlignedInv
  <2>4. ASSUME NEW o, Follows(c, o), Left(o).poll # "CLOSE" => Aligned(Left(o).k, wire'[c])
        PROVE  /\ life'[c] = "backlog" => WellFormed(wire'[c])
               /\ life'[c] = "open" => Aligned(cl'[c], wire'[c])
    BY <2>4 DEF Follows
  <2>5. CASE Stays(c)
    BY <2>3, <2>5 DEF Stays
  <2>6. CASE Joins(c) \/ TurnedAway(c)
    BY <2>6 DEF Joins, TurnedAway, BodiesLast
  <2>7. CASE Made(c)
    <3>1. PICK postl \in Garbage, datac \in Garbage, datal \in Garbage :
            cl'[c] = NewClient(postl, datac, datal)
      BY <2>7 DEF Made
    <3>2. cl'[c].req.buffer = << >>
      BY <3>1, GarbageAssumption, NewClientParts
    <3>3. << >> \o wire[c] = wire[c]
      BY <2>1, ConcatEmptySeq
    <3>4. WellFormed(wire[c]) /\ wire'[c] = wire[c] /\ life'[c] = "open"
      BY <2>3, <2>7 DEF Made
    <3> QED BY <3>2, <3>3, <3>4 DEF Aligned
  <2>8. CASE Receives(c)
    <3>1. PICK r \in SystemResult :
            /\ Moved(r) \in 0..Len(wire[c])
            /\ wire'[c] = Dropped(wire[c], Moved(r))
            /\ Follows(c, StreamRead(cl[c], r, SubSeq(wire[c], 1, Moved(r))))
      BY <2>8 DEF Receives
    <3>2. SubSeq(wire[c], 1, Moved(r)) \in Seq(Token)
      BY <2>1, <3>1, PrefixType
    <3>3. Orderly(k) /\ Aligned(k, wire[c]) /\ (AwaitsRequest(k) \/ AwaitsBody(k))
      BY <2>3, <2>8, <3>1 DEF Receives, Follows
    <3>4. CASE AwaitsRequest(k)
      BY <2>1, <2>4, <3>1, <3>3, <3>4, RequestAligned
    <3>5. CASE AwaitsBody(k)
      BY <2>1, <2>4, <3>1, <3>2, <3>3, <3>5, BodyAligned
    <3> QED BY <3>3, <3>4, <3>5
  <2>9. CASE Sends(c)
    <3>1. PICK p, r : /\ PipeRead(cl[c].cgi, p)
                      /\ r \in SendResults(c, StreamOffer(cl[c], p))
                      /\ Follows(c, StreamWrite(cl[c], p, r))
      BY <2>9 DEF Sends
    <3>2. Orderly(k) /\ Aligned(k, wire[c]) /\ Answers(k) /\ wire'[c] = wire[c]
      BY <2>3, <2>9, <3>1 DEF Sends, Follows
    <3>3. SendResult(StreamOffer(k, p), r)
      BY <2>1, <3>1, <3>2, StreamOfferType, SendResultOf
    <3> QED BY <2>1, <2>4, <3>1, <3>2, <3>3, SendAligned
  <2>10. CASE Runs(c)
    <3>1. PICK cfg \in Configs : cl'[c] = Process(Accept(cl[c]), cfg)
      BY <2>10 DEF Runs
    <3>2. /\ Queues(k) /\ Orderly(k) /\ Aligned(k, wire[c])
          /\ wire'[c] = wire[c] /\ life'[c] = "open"
      BY <2>3, <2>10 DEF Runs
    <3> QED BY <2>1, <3>1, <3>2, RunAligned
  <2> QED BY <2>2, <2>5, <2>6, <2>7, <2>8, <2>9, <2>10 DEF Happens
<1> QED BY <1>1, <1>2

(***************************************************************************)
(* What is handed to Accept() as a request begins with a request line and  *)
(* ends with the end of that request's header, after any number of         *)
(* requests on the connection and however they were cut into reads         *)
(* (protocol.cpp:104-107, 117-132).                                        *)
(***************************************************************************)
THEOREM BoundaryCorrect ==
  ASSUME BodiesLast
  PROVE  Spec => []RequestBoundary
<1>1. Init => AlignedInv
  BY DEF Init, AlignedInv
<1>2. IInv /\ TidyInv /\ AlignedInv /\ [Next]_vars => AlignedInv'
  BY NextAligned
<1>3. IInv /\ TidyInv /\ AlignedInv => RequestBoundary
  <2> SUFFICES ASSUME IInv, TidyInv, AlignedInv, NEW c \in Open,
                      cl[c].req.state = "SUCCESS", cl[c].state = "RECV_REQUEST"
               PROVE  LET q == cl[c].req
                      IN /\ q.postl \in 1..Len(q.buffer)
                         /\ q.buffer[1].kind = "line"
                         /\ q.buffer[q.postl].kind = "end"
                         /\ \A i \in 2..q.postl - 1 : q.buffer[i].kind = "field"
    BY DEF RequestBoundary
  <2> DEFINE k == cl[c]
             a == k.req.buffer
  <2>1. /\ k \in Client /\ wire[c] \in Seq(Token) /\ a \in Seq(Token)
        /\ Tidy(k, TRUE) /\ Aligned(k, wire[c])
    BY DEF IInv, TypeOK, TidyInv, AlignedInv, Open, Client, RequestStream
  <2>2. k.fault = "none" /\ Requesting(k)
    BY <2>1 DEF Tidy, Orderly
  <2>3. Cut(k.req) /\ WellFormed(a \o wire[c])
    BY <2>1, <2>2 DEF Requesting, Aligned
  <2>4. WellFormed(a) /\ Breaks(a) # {} /\ k.req.postl = FindBreak(a)
    BY <2>1, <2>3, FrontWellFormed DEF Cut
  <2> QED BY <2>1, <2>4, FirstRequest
<1>4. Spec => []IInv
  BY Invariant
<1> QED BY <1>1, <1>2, <1>3, <1>4, TidyAlways, PTL DEF Spec

-----------------------------------------------------------------------------
(* A connection that is kept received exactly what was announced.          *)

(***************************************************************************)
(* A file is announced by its st_size and sent from what fread() finds,    *)
(* and units of it are lost where a send is short (protocol.cpp:296-319,   *)
(* 880-893).  What follows is about servers that send no files, and whose  *)
(* sends do not fail for want of buffer space where epoll reported some.   *)
(***************************************************************************)
NoFiles == \A c \in Configs : ~SendsFile(c)

\* A response that is not a script's, and of which no send failed, is whole.
Exact(k) ==
  ~k.failed /\ k.content # "CGI"
    => k.lost = 0 /\ k.drift = 0 /\ k.content # "FILE"

ExactInv == \A c \in Open : cl[c].fault = "none" => Exact(cl[c])

(***************************************************************************)
(* A read leaves the account of a response alone.                          *)
(***************************************************************************)
LEMMA ReadExact ==
  ASSUME NEW k \in Client, AwaitsRequest(k) \/ AwaitsBody(k), Exact(k),
         NEW r \in SystemResult, NEW data \in Seq(Token)
  PROVE  Exact(Left(StreamRead(k, r, data)).k)
<1> DEFINE o == StreamRead(k, r, data)
           n == o.k
           p == Left(o)
<1>1. Handled(k, o)
  BY StreamReadType
<1>2. Same(n, k) /\ n.failed = k.failed /\ n.lost = k.lost
  BY RequestReadOf, BodyReadOf DEF AwaitsRequest
<1> HIDE DEF o
<1>3. n \in Client /\ o.ret \in BOOLEAN
  BY <1>1 DEF Handled, Completed
<1> HIDE DEF n
<1>4. Exact(n)
  BY <1>2 DEF Exact, Same
<1>5. CASE ~o.ret
  <2>1. p.k = n
    BY <1>5, PolledType DEF Left, n
  <2> QED BY <1>4, <2>1 DEF o
<1>6. CASE o.ret
  <2>1. p = Poll(n) /\ n.state \in {"RECV_REQUEST", "RECV_DATA"}
    BY <1>2, <1>6 DEF Left, n, Same, AwaitsRequest, AwaitsBody
  <2>2. Requested(p, n) \/ Received(p, n)
    BY <1>3, <2>1, PollParts
  <2> HIDE DEF p
  <2> DEFINE m == [n EXCEPT !.sflags = {}]
             j == [n EXCEPT !.psp = "cgi", !.state = "SEND_DATA", !.sflags = {"SEND"}]
  <2>3. /\ m.failed = n.failed /\ m.content = n.content
        /\ m.lost = n.lost /\ m.drift = n.drift
        /\ j.failed = n.failed /\ j.content = n.content
        /\ j.lost = n.lost /\ j.drift = n.drift
    BY <1>3 DEF Client
  <2> HIDE DEF m, j
  <2>4. p.k \in {n, m, j}
    BY <2>2 DEF Requested, Received, m, j
  <2> QED BY <1>4, <2>3, <2>4 DEF Exact, p, o
<1> QED BY <1>3, <1>5, <1>6

(***************************************************************************)
(* A header or a page loses units only where a send that epoll announced   *)
(* finds no room (protocol.cpp:162-168, 261-267).                          *)
(***************************************************************************)
LEMMA SendExact ==
  ASSUME NEW k \in Client, Answers(k), Orderly(k), Steady(k), Exact(k),
         NEW p, PipeRead(k.cgi, p), NEW r, SendResult(StreamOffer(k, p), r),
         r # WouldBlock
  PROVE  LET q == Left(StreamWrite(k, p, r))
         IN q.k.fault = "none" /\ q.poll # "CLOSE" => Exact(q.k)
<1> DEFINE o == StreamWrite(k, p, r)
           n == o.k
           q == Left(o)
<1>1. /\ k.state \in {"SEND_RESPONSE", "SEND_DATA"}
      /\ k.content = "CGI" => k.connection = "CLOSE"
  BY DEF Answers, Orderly, Busy
<1>2. /\ Handled(k, o) /\ Same(n, k) /\ Written(o, k, p, r)
      /\ n.failed = (k.failed \/ (r = Broken /\ o.ret))
  BY WriteKeeps
<1>3. o.ret \in BOOLEAN /\ (o.ret => n \in Client)
  BY <1>2 DEF Handled, Completed
<1>4. /\ n.state = k.state /\ n.content = k.content
      /\ n.connection = k.connection /\ n.drift = k.drift
      /\ ~n.failed => ~k.failed
  BY <1>2 DEF Same
<1>5. Exact(n)
  <2> SUFFICES ASSUME ~k.failed, k.content # "CGI" PROVE n.lost = 0
    BY <1>4 DEF Exact
  <2>1. k.lost = 0 /\ k.content # "FILE"
    BY DEF Exact
  <2>2. CASE k.psp = "res" /\ k.res.size > 0
    <3> DEFINE w == ResponseWrite(k.res, r)
    <3>1. WroteRes(o, k, w) /\ k.res \in BufferStream
          /\ StreamOffer(k, p) = BufferOffer(k.res)
      BY <1>2, <2>2 DEF Written, Client, StreamOffer
    <3>2. w.lost = 0
      BY <2>2, <3>1, ResponseAccount
    <3> HIDE DEF w
    <3> QED BY <2>1, <3>1, <3>2 DEF WroteRes, WroteAny
  <2>3. CASE k.psp = "data" /\ k.data.size > 0
    <3> DEFINE w == ResponseWrite(k.data, r)
    <3>1. WroteData(o, k, w) /\ k.data \in BufferStream
          /\ StreamOffer(k, p) = BufferOffer(k.data)
      BY <1>2, <2>3 DEF Written, DataWrite, Client, StreamOffer
    <3>2. w.lost = 0
      BY <2>3, <3>1, ResponseAccount
    <3> HIDE DEF w
    <3> QED BY <2>1, <3>1, <3>2 DEF WroteData, WroteAny
  <2>4. CASE k.state = "SEND_RESPONSE"
    BY <2>2, <2>4 DEF Steady, Steered
  <2>5. CASE k.state = "SEND_DATA"
    <3>1. k.content = "DATA" /\ k.psp = StreamOf(k.content)
      BY <2>1, <2>5 DEF Steady, Steered, Client
    <3> QED BY <2>3, <3>1 DEF Steady, Loaded, StreamOf
  <2> QED BY <1>1, <2>4, <2>5
<1> HIDE DEF o, n
<1>6. CASE ~o.ret
  <2>1. q.k = n
    BY <1>6, PolledType DEF Left, n
  <2> QED BY <1>5, <2>1 DEF o
<1>7. CASE o.ret
  <2>1. n \in Client /\ q = Poll(n)
    BY <1>3, <1>7 DEF Left, n
  <2> HIDE DEF q
  <2>2. CASE n.state = "SEND_RESPONSE" /\ n.content # "NONE"
    <3> DEFINE psp == StreamOf(n.content)
               m == [n EXCEPT !.psp = psp, !.state = "SEND_DATA"]
    <3>1. Turned(q, n)
      BY <2>1, <2>2, PollParts
    <3>2. q.k = m
      BY <3>1 DEF Turned
    <3> HIDE DEF psp
    <3>3. /\ m.failed = n.failed /\ m.content = n.content
          /\ m.lost = n.lost /\ m.drift = n.drift
      BY <2>1 DEF Client
    <3> HIDE DEF m
    <3> QED BY <1>5, <3>2, <3>3 DEF Exact, q, o
  <2>3. CASE ~(n.state = "SEND_RESPONSE" /\ n.content # "NONE")
    <3>1. Overran(q, n) \/ Closes(q, n) \/ Restarts(q, n)
      BY <1>1, <1>4, <2>1, <2>3, PollParts
    <3>2. CASE Overran(q, n) \/ Closes(q, n)
      BY <3>2 DEF Overran, Closes, q, o
    <3>3. CASE Restarts(q, n)
      <4>1. n.content # "CGI"
        BY <1>1, <1>4, <3>3 DEF Restarts
      <4>2. /\ q.k.content = "NONE" /\ q.k.failed = n.failed
            /\ q.k.lost = n.lost /\ q.k.drift = n.drift
        BY <3>3 DEF Restarts, Idle
      <4> QED BY <1>5, <4>1, <4>2 DEF Exact, q, o
    <3> QED BY <3>1, <3>2, <3>3
  <2> QED BY <2>2, <2>3
<1> QED BY <1>3, <1>6, <1>7

(***************************************************************************)
(* ExactInv holds at the start and after every step.                       *)
(***************************************************************************)
LEMMA NextExact ==
  ASSUME ~Spurious, NoFiles, NoScriptForListing,
         IInv, TidyInv, SteadyInv, ExactInv, [Next]_vars
  PROVE  ExactInv'
<1>0. TypeOK /\ TypeOK' /\ TidyInv
  BY NextIInv DEF IInv
<1>1. CASE pc = "undefined"
  <2>1. UNCHANGED <<cl, life>>
    BY <1>1, UndefinedEnds DEF vars
  <2> QED BY <2>1 DEF ExactInv, Open
<1>2. CASE pc # "undefined"
  <2> SUFFICES ASSUME NEW c \in Clients, life'[c] = "open", cl'[c].fault = "none"
               PROVE  Exact(cl'[c])
    BY DEF ExactInv, Open
  <2> DEFINE k == cl[c]
  <2>1. k \in Client /\ k.fault = "none" /\ wire[c] \in Seq(Token)
    BY <1>0, <1>2 DEF TypeOK, TidyInv, Defined
  <2>2. Happens(c)
    BY StepHappens
  <2>3. life[c] = "open" => Orderly(k) /\ Steady(k) /\ Exact(k)
    BY <1>0, <2>1 DEF TidyInv, Tidy, SteadyInv, ExactInv, Open
  <2>4. ASSUME NEW o, Follows(c, o),
               Left(o).k.fault = "none" /\ Left(o).poll # "CLOSE" => Exact(Left(o).k)
        PROVE  Exact(cl'[c])
    BY <2>4 DEF Follows
  <2>5. CASE Stays(c)
    BY <2>3, <2>5 DEF Stays
  <2>6. CASE Joins(c) \/ TurnedAway(c)
    BY <2>6 DEF Joins, TurnedAway
  <2>7. CASE Made(c)
    <3>1. PICK postl \in Garbage, datac \in Garbage, datal \in Garbage :
            cl'[c] = NewClient(postl, datac, datal)
      BY <2>7 DEF Made
    <3>2. cl'[c].lost = 0 /\ cl'[c].drift = 0 /\ cl'[c].content = "NONE"
      BY <3>1, GarbageAssumption, NewClientParts DEF Idle
    <3> QED BY <3>2 DEF Exact
  <2>8. CASE Receives(c)
    <3>1. PICK r \in SystemResult :
            /\ Moved(r) \in 0..Len(wire[c])
            /\ Follows(c, StreamRead(cl[c], r, SubSeq(wire[c], 1, Moved(r))))
      BY <2>8 DEF Receives
    <3>2. SubSeq(wire[c], 1, Moved(r)) \in Seq(Token)
      BY <2>1, <3>1, PrefixType
    <3>3. Exact(k) /\ (AwaitsRequest(k) \/ AwaitsBody(k))
      BY <2>3, <2>8, <3>1 DEF Receives, Follows
    <3> QED BY <2>1, <2>4, <3>1, <3>2, <3>3, ReadExact
  <2>9. CASE Sends(c)
    <3>1. PICK p, r : /\ PipeRead(cl[c].cgi, p)
                      /\ r \in SendResults(c, StreamOffer(cl[c], p))
                      /\ Follows(c, StreamWrite(cl[c], p, r))
      BY <2>9 DEF Sends
    <3>2. Orderly(k) /\ Steady(k) /\ Exact(k) /\ Answers(k)
      BY <2>3, <2>9, <3>1 DEF Sends, Follows
    <3>3. SendResult(StreamOffer(k, p), r) /\ r # WouldBlock
      BY <2>1, <3>1, <3>2, StreamOfferType, SendResultOf
    <3> QED BY <2>1, <2>4, <3>1, <3>2, <3>3, SendExact
  <2>10. CASE Runs(c)
    <3>1. PICK cfg \in Configs : cl'[c] = Process(Accept(cl[c]), cfg)
      BY <2>10 DEF Runs
    <3> DEFINE a == Accept(k)
               n == Process(a, cfg)
    <3>2. k.connection = "CLOSE" /\ k.content = "NONE" /\ Queues(k)
      BY <2>3, <2>10 DEF Runs, Queues, Orderly, Idle
    <3>3. a.content = "NONE" /\ Processed(a)
      BY <2>1, <3>2, AcceptParts, AcceptType
    <3> HIDE DEF a
    <3>4. /\ Begun(n, a)
          /\ StartsPage(n, a) \/ StartsScript(n, a, cfg)
      BY <3>3, ProcessParts DEF NoScriptForListing, NoFiles, StartsFile, StartsBoth
    <3> HIDE DEF n
    <3>5. Exact(n)
      BY <3>3, <3>4 DEF Exact, Begun, StartsPage, StartsScript
    <3> QED BY <3>1, <3>5 DEF n, a
  <2> QED BY <2>2, <2>5, <2>6, <2>7, <2>8, <2>9, <2>10 DEF Happens
<1> QED BY <1>1, <1>2

(***************************************************************************)
(* A connection that is kept has received its whole response, no more and  *)
(* no less, where only generated pages and scripts are sent and a socket   *)
(* that is reported as writable accepts something (protocol.cpp:165, 264). *)
(***************************************************************************)
THEOREM FramingCorrect ==
  ASSUME ~Spurious, NoFiles, NoScriptForListing
  PROVE  Spec => []FramingKept
<1>1. Init => ExactInv
  BY DEF Init, ExactInv, Open
<1>2. IInv /\ TidyInv /\ SteadyInv /\ ExactInv /\ [Next]_vars => ExactInv'
  BY NextExact
<1>3. TidyInv /\ SteadyInv /\ ExactInv => FramingKept
  <2> SUFFICES ASSUME TidyInv, SteadyInv, ExactInv, NEW c \in Open,
                      cl[c].state = "RECV_REQUEST", cl[c].fault = "none",
                      ~cl[c].failed
               PROVE  cl[c].owed = 0
    BY DEF FramingKept
  <2> DEFINE k == cl[c]
  <2>1. Orderly(k) /\ Steady(k) /\ Exact(k)
    BY DEF TidyInv, Tidy, SteadyInv, ExactInv, Open
  <2>2. k.content = "NONE" /\ Pending(k) = 0
    BY <2>1 DEF Orderly, Idle, Pending
  <2>3. k.lost = 0 /\ k.drift = 0 /\ k.owed = Pending(k) + k.lost + k.drift
    BY <2>1, <2>2 DEF Exact, Steady, Accounted
  <2> QED BY <2>2, <2>3
<1>4. Spec => []IInv
  BY Invariant
<1> QED BY <1>1, <1>2, <1>3, <1>4, TidyAlways, SteadyAlways, PTL DEF Spec

=============================================================================
