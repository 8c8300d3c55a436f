---------------------------- MODULE RequestText ----------------------------
(***************************************************************************)
(* The way of a request from the socket through the settings that the      *)
(* configuration script sees to the text of the response, byte by byte:    *)
(* Read() of the request stream, Accept(), Process(), and Reset() and      *)
(* CheckPipeline() for the next request of the connection.                 *)
(*                                                                         *)
(* The remote end sends the requests of one element of Requests, rendered  *)
(* to bytes; recv() cuts them anywhere.  Bodies of requests and the way of *)
(* the response to the socket are left to HttpClient and Transfer.         *)
(***************************************************************************)
EXTENDS ResponseText

CONSTANTS
  Requests,  \* sequences of requests a remote end may send
  Answers,   \* of the configuration script and the file system
  Reads,     \* lengths recv() may return
  RequestLimit  \* 50000, the bytes a buffered request may take

ASSUME LimitAssumption == RequestLimit \in Nat /\ RequestLimit < SizeModulus - 1
\* A read brings no more than its buffer holds, 4096 bytes.
ASSUME ReadsAssumption == Reads \subseteq 1..RequestLimit
\* The words Accept() looks for.
ASSUME TokensAssumption == {"GET", "HEAD", "POST", "Host", "Referer"} \subseteq Byte

VARIABLES
  asked,   \* the requests of this remote end
  wire,    \* bytes not yet received
  spreq,   \* the request stream: buffer, postl, state
  pci,     \* the settings of the client (ClientInterface)
  stage,   \* what the connection does next
  taken,   \* history: what was made of each request
  undef    \* an operation without defined behaviour was reached

vars == <<asked, wire, spreq, pci, stage, taken, undef>>

-----------------------------------------------------------------------------
(* Requests as their sender means them: a method, the pieces of a uri, a   *)
(* version and header fields with some blanks before their content.        *)

RenderField(h) ==
  <<h.name, ":">> \o [i \in 1..h.blanks |-> " "] \o h.content \o CRLF

Render(r) ==
  <<r.method, " ">> \o FlattenSeq(r.uri) \o <<" ", r.version>> \o CRLF
    \o FlattenSeq([i \in 1..Len(r.fields) |-> RenderField(r.fields[i])]) \o CRLF

RenderAll(rs) == FlattenSeq([i \in 1..Len(rs) |-> Render(rs[i])])

ASSUME RequestsAssumption ==
  \A rs \in Requests : Len(rs) \in Nat /\ RenderAll(rs) \in Seq(Byte)

\* A request that keeps to the grammar as far as the code goes by it: no line
\* end within a line, no blank in the uri, none that begins a content.
Regular(r) ==
  LET InLine == Byte \ {"CR", "LF"}
      Word   == InLine \ {" "}
  IN /\ r.method \in Word /\ r.version \in Word
     /\ r.uri \in Seq(Seq(Byte))
     /\ FlattenSeq(r.uri) \in Seq(Word) /\ Starts(FlattenSeq(r.uri), <<"/">>)
     /\ r.fields \in Seq([name : InLine, blanks : Nat, content : Seq(InLine)])
     /\ \A i \in 1..Len(r.fields) : ~Starts(r.fields[i].content, <<" ">>)

RegularRequests == \A rs \in Requests : \A k \in 1..Len(rs) : Regular(rs[k])

-----------------------------------------------------------------------------
(* Accept() and Process().                                                 *)

MethodLength(text) ==
  IF \E m \in {"HEAD", "GET", "POST"} : Starts(text, <<m, " ">>) THEN 2 ELSE 0

\* The request line: its status, and the uri where that is 200.
RequestLine(text) ==
  LET request == Substr(text, 0, Find(text, CRLF, 0))
      at(i)   == request[i + 1]
      ml == MethodLength(text)
      ru == FindNot(request, " ", ml)
      rl == Find(request, <<" ">>, ru + 1)
      hv == FindNot(request, " ", rl + 1)
      fail(status) == [status |-> status, uri |-> << >>]
  IN IF ml = 0 THEN fail(501)
     ELSE IF ru = NPos \/ at(ru) # "/" \/ rl = NPos THEN fail(400)
     ELSE IF hv = NPos \/ at(hv) # "HTTP/1.1" THEN fail(505)
     ELSE [status |-> 200, uri |-> Substr(request, ru, rl - ru)]

\* The content of a header, or what the setting was before.
Setting(text, header, old) ==
  LET content == ParseHeader(Find(text, CRLF, 0), text, header)
  IN IF content = << >> THEN old ELSE content

\* Slip: dot segments are removed before the uri is decoded.
Resource_DecodedLast(uri) == Decode(ParseSegments(Substr(uri, 0, QueryAt(uri))))

Resource(uri) == ParseSegments(Decode(uri))

\* The bytes of the request that Read() or CheckPipeline() found.
Text(s) == Substr(s.buffer, 0, s.postl)

\* The status, the settings and whether the connection is kept.
Accept(s, p) ==
  LET text  == Text(s)
      line  == RequestLine(text)
      lf    == Find(text, CRLF, 0)
      host  == ParseHeader(lf, text, "Host")
      where == [p EXCEPT !.resource = Resource(line.uri)]
      refuse(status) == [status |-> status, pci |-> p, keep |-> FALSE]
  IN IF s.state = "CORRUPTED" THEN refuse(413)
     ELSE IF line.status # 200 THEN refuse(line.status)
     ELSE IF host = << >> THEN [status |-> 400, pci |-> where, keep |-> FALSE]
     ELSE [status |-> 200,
           pci |-> [where EXCEPT !.host = host,
                                 !.referer = Setting(text, "Referer", p.referer),
                                 !.uri = line.uri],
           keep |-> ~Starts(ParseHeader(lf, text, "Connection"), <<"close">>)]

\* Process() where the resource is a script: 411, or the length of the body.
BodyLength(text) ==
  StrToUl(ParseHeader(Find(text, CRLF, 0), text, "Content-Length"))

-----------------------------------------------------------------------------
(* The connection.                                                         *)

Init ==
  /\ asked \in Requests
  /\ wire = RenderAll(asked)
  /\ spreq = [state |-> "PENDING", buffer |-> << >>, postl |-> 0]
  /\ pci = [resource |-> << >>, host |-> << >>, referer |-> << >>, uri |-> << >>]
  /\ stage = "receive"
  /\ taken = << >>
  /\ undef = FALSE

\* Read() and, where it returns true, Poll().
Receive(n) ==
  LET buffer == spreq.buffer \o SubSeq(wire, 1, n)
      break  == FindBreak(buffer)
      long   == Len(buffer) > RequestLimit
  IN /\ stage = "receive" /\ ~undef
     /\ n <= Len(wire)
     /\ wire' = SubSeq(wire, n + 1, Len(wire))
     /\ undef' = (~long /\ break.past)
     /\ spreq' = IF long THEN [spreq EXCEPT !.state = "CORRUPTED"]
                 ELSE IF break.found
                 THEN [state |-> "SUCCESS", buffer |-> buffer, postl |-> break.pp]
                 ELSE [spreq EXCEPT !.buffer = buffer]
     /\ stage' = IF long \/ break.found THEN "run" ELSE stage
     /\ UNCHANGED <<asked, pci, taken>>

\* Accept() and Process() of a queued client.
RunTask ==
  LET a == Accept(spreq, pci)
      q == [status |-> a.status, keep |-> a.keep, uri |-> a.pci.uri,
            method |-> IF a.status \in {413, 501} THEN "GET" ELSE Text(spreq)[1],
            resource |-> a.pci.resource, length |-> BodyLength(Text(spreq))]
  IN /\ stage = "run"
     /\ pci' = a.pci
     /\ \E c \in Answers :
          taken' = Append(taken, [accepted |-> a.status, method |-> q.method,
                                  pci |-> a.pci, answer |-> c,
                                  length |-> q.length.ul, reply |-> Process(q, c)])
     /\ stage' = "send"
     /\ UNCHANGED <<asked, wire, spreq, undef>>

\* Slip: the first byte behind the request goes with it.
Erased_OffByOne(s) == From(s.buffer, s.postl + 1)

Erased(s) == From(s.buffer, s.postl)

\* The response was sent: Clear(), Reset() and CheckPipeline(), or delete.
Finish ==
  LET buffer == Erased(spreq)
      break  == FindBreak(buffer)
      next   == Len(buffer) >= 4 /\ break.found
  IN /\ stage = "send"
     /\ stage' = IF ~Last(taken).reply.keep THEN "closed"
                ELSE IF next THEN "run" ELSE "receive"
     /\ spreq' = [state |-> IF next THEN "SUCCESS" ELSE "PENDING", buffer |-> buffer,
                  postl |-> IF next THEN break.pp ELSE spreq.postl]
     /\ undef' = (Len(buffer) >= 4 /\ break.past)
     /\ UNCHANGED <<asked, wire, pci, taken>>

Next == (\E n \in Reads : Receive(n)) \/ RunTask \/ Finish

Spec == Init /\ [][Next]_vars

-----------------------------------------------------------------------------
(* What a request means, from its structure and not from its bytes.        *)

\* The segment behind the slash at i.
Segment(path, i) ==
  LET ends == {j \in i + 1..Len(path) + 1 : j = Len(path) + 1 \/ path[j] = "/"}
  IN SubSeq(path, i + 1, Min(ends) - 1)

Dots == {<<".">>, <<".", ".">>}

\* RFC 3986, 5.2.4, on segments: "." adds none, ".." takes one away if there is one.
AddSegment(segments, s) ==
  CASE s = <<".">> -> segments
    [] s = <<".", ".">> -> Front(segments)
    [] OTHER -> Append(segments, s)

\* The segments that are left of each beginning of a path.
Left(path) ==
  LET left[i \in 0..Len(path)] ==
        IF i = 0 THEN << >>
        ELSE IF path[i] = "/" THEN AddSegment(left[i - 1], Segment(path, i))
        ELSE left[i - 1]
  IN left

Rejoined(segments) == FlattenSeq([k \in 1..Len(segments) |-> <<"/">> \o segments[k]])

\* Where the path ends in a dot segment it names a directory.
RemoveDots(path) ==
  LET last == Segment(path, Max({i \in 1..Len(path) : path[i] = "/"}))
      left == Left(path)[Len(path)]
  IN Rejoined(IF last \in Dots THEN Append(left, << >>) ELSE left)

\* The bytes a piece of a uri stands for.
PieceMeans(piece) ==
  CASE piece = <<"%", "2", "e">> -> <<".">>
    [] piece = <<"%", "2", "f">> -> <<"/">>
    [] OTHER -> piece

\* The pieces before the query string.
PathOf(uri) ==
  LET q == {i \in 1..Len(uri) : uri[i] = <<"?">>}
  IN IF q = {} THEN uri ELSE SubSeq(uri, 1, Min(q) - 1)

\* A uri of escapes, marks of a query string and pieces without either.
WellFormed(r) ==
  \A i \in 1..Len(r.uri) :
    LET piece == r.uri[i]
    IN \/ piece \in {<<"%", "2", "e">>, <<"%", "2", "f">>, <<"?">>}
       \/ \A j \in 1..Len(piece) : piece[j] \notin {"%", "?"}

ResourceOf(r) ==
  LET path == PathOf(r.uri)
  IN RemoveDots(FlattenSeq([i \in 1..Len(path) |-> PieceMeans(path[i])]))

\* The content of the first field of that name, "Name: " with a blank.
FieldOf(r, name) ==
  LET named == {i \in 1..Len(r.fields) :
                  r.fields[i].name = name /\ r.fields[i].blanks > 0}
  IN IF named = {} THEN << >> ELSE r.fields[Min(named)].content

StatusOf(r) ==
  CASE r.method \notin {"GET", "HEAD", "POST"} -> 501
    [] r.method \in {"GET", "HEAD", "POST"} /\ r.version # "HTTP/1.1" -> 505
    [] OTHER -> IF FieldOf(r, "Host") = << >> THEN 400 ELSE 200

\* Digits, as RFC 7230 asks of a length.
Numeral(text) == text # << >> /\ \A i \in 1..Len(text) : text[i] \in {"0", "1", "2"}

\* White space, one sign at most, and digits, which give n.
States(text, n) ==
  \E i \in 0..Len(text) :
    LET digits == From(text, i)
        signed == i > 0 /\ text[i] \in {"plus", "-"}
    IN /\ Numeral(digits) /\ DigitsValue(digits) < SizeModulus
       /\ \A j \in 1..(IF signed THEN i - 1 ELSE i) : text[j] \in Spaces
       /\ n = IF signed /\ text[i] = "-"
              THEN (-DigitsValue(digits)) % SizeModulus
              ELSE DigitsValue(digits)

PlainLength(r) == Numeral(FieldOf(r, "Content-Length"))

\* A request that comes to the script of its resource.
Runs(t) == t.accepted = 200 /\ t.answer.cgi /\ t.answer.exists /\ ~t.answer.deny
           /\ ~t.answer.dir

\* Where the fields of a name begin in a head, and what such a field says.
FieldsAt(head, name) ==
  {i \in 0..(Len(head) - 1) : Starts(From(head, i), CRLF \o <<name, ":", " ">>)}

Value(head, i) == Substr(head, i + 5, Find(head, CRLF, i + 2) - (i + 5))

Only(head, name) == Value(head, Min(FieldsAt(head, name)))

\* "Location: uri/" and the line end are shorter than the buffer.
Fits(t) == Len(t.pci.uri) + 6 < BufferSize

-----------------------------------------------------------------------------
(* What ResponseFramed and ConnectionAgrees are proved from.               *)

\* The header of a script's output, as ParseHeader() is given it.
ScriptHeader(c) == CRLF \o Substr(c.out, 0, FindBreak(c.out).pp)

\* A script that begins with a header field and ends its header, leaves the
\* connection to the server and has a status that is shorter than the buffer.
ScriptSound(c) ==
  /\ c.out \in Seq(Byte) /\ Len(c.out) < NPos
  /\ FindBreak(c.out).found /\ ~Starts(c.out, CRLF)
  /\ FieldsAt(ScriptHeader(c), "Connection") = {}
  /\ Len(ParseHeader(0, ScriptHeader(c), "Status")) + 7 < BufferSize

\* Sizes that a ulong holds, and a script that is sound.
Tellable(resource, c) ==
  /\ c.st_size \in 0..SizeModulus - 1
  /\ Len(ListDir(resource, c.entries)) \in 0..SizeModulus - 1
  /\ c.cgi => ScriptSound(c)

SoundAnswers ==
  \A c \in Answers : \A resource \in Seq(Byte) :
    Len(resource) <= RequestLimit => Tellable(resource, c)

-----------------------------------------------------------------------------
(* Properties.                                                             *)

\* The k-th request the server takes from a connection is the k-th the remote
\* end sent, whatever the cuts: status, method, uri, host and persistence are
\* those of that request alone.  A request above the limit is refused for it,
\* and none that is a whole read below it.
RequestsTaken ==
  \A k \in 1..Len(taken) :
    LET r == asked[k]
        t == taken[k]
    IN /\ Len(taken) <= Len(asked)
       /\ \/ t.accepted = StatusOf(r) /\ Len(Render(r)) <= RequestLimit
          \/ t.accepted = 413 /\ Len(Render(r)) + Max(Reads) > RequestLimit
       /\ t.accepted = 200 =>
            /\ t.method = r.method
            /\ t.pci.host = FieldOf(r, "Host")
            /\ t.pci.uri = FlattenSeq(r.uri)
            /\ t.reply.keep <=>
                 ~Starts(FieldOf(r, "Connection"), <<"close">>) /\ ~t.answer.cgi

\* The resource is what RFC 3986 makes of the uri, where its escapes are whole.
ResourceMeant ==
  \A k \in 1..Len(taken) :
    (taken[k].accepted = 200 /\ WellFormed(asked[k])) =>
      taken[k].pci.resource = ResourceOf(asked[k])

\* The script that is given a body knows its length, the one its header states.
\* Where the header states none the request is refused: what is not refused is
\* white space, one sign at most, and digits.  A minus sign is the exception,
\* strtoul() takes the number from 2^w.
LengthRead ==
  \A k \in 1..Len(taken) :
    LET r == asked[k]
        content == FieldOf(r, "Content-Length")
        n == DigitsValue(content)
        refused == taken[k].reply.status = 411
    IN (r.method = "POST" /\ Runs(taken[k])) =>
         /\ PlainLength(r) /\ n < SizeModulus => ~refused /\ taken[k].length = n
         /\ ~refused => States(content, taken[k].length)

\* The resource, which Process() appends to the root, begins with a slash and
\* has no dot segment, for malformed uris too and however they are escaped.
Contained ==
  \A k \in 1..Len(taken) : taken[k].accepted = 200 =>
    LET path == taken[k].pci.resource
        none(s) == Find(path \o <<"/">>, s, 0) = NPos
    IN path[1] = "/" /\ none(<<"/", ".", "/">>) /\ none(<<"/", ".", ".", "/">>)

\* A remote end that follows the redirection of a directory names the same
\* directory and is not redirected again, where the uri has no escapes.
RedirectEnds ==
  \A k \in 1..Len(taken) :
    LET t        == taken[k]
        location == Only(t.reply.head, "Location")
        q        == [status |-> 200, keep |-> TRUE, uri |-> location, method |-> "GET",
                     resource |-> Resource(location)]
    IN (t.reply.status = 303 /\ Fits(t) /\ location # <<"undefined">>) =>
         /\ Resource(location) = IF Last(t.pci.resource) = "/" THEN t.pci.resource
                                 ELSE Append(t.pci.resource, "/")
         /\ Process(q, t.answer).status # 303

\* The remote end finds the end of every response: the head begins with the
\* status line and ends at its first double CRLF; on a connection that is kept
\* it says once how long the body is, and says so rightly where one is sent; all
\* that provided that no piece of it was too long for the buffer it is made in.
ResponseFramed ==
  \A k \in 1..Len(taken) :
    LET t == taken[k]
        h == t.reply.head
    IN Fits(t) =>
         /\ Starts(h, <<"HTTP/1.1", " ">>)
         /\ Find(h, CRLF \o CRLF, 0) = Len(h) - 4
         /\ (t.reply.keep /\ t.reply.status # 304) =>
              /\ Cardinality(FieldsAt(h, "Content-Length")) = 1
              /\ t.method # "HEAD" =>
                   Only(h, "Content-Length") = Number(t.reply.body)

\* What a response says of the connection is what the server then does, also
\* where the header comes twice ("warning: possible double", protocol.cpp:927).
ConnectionAgrees ==
  \A k \in 1..Len(taken) :
    LET t == taken[k]
        h == t.reply.head
    IN Fits(t) =>
         /\ FieldsAt(h, "Connection") # {}
         /\ \A i \in FieldsAt(h, "Connection") :
              Value(h, i) = Persistence(t.reply.keep)

\* FindBreak() leaves its buffer only where fewer than three bytes are there,
\* which is after the first bytes of a request and never in CheckPipeline().
ScanInBounds == undef => stage = "receive" /\ Len(spreq.buffer) < 3

\* What the script is told of the sender of a request comes from that request:
\* "initialize or restore the default settings" (protocol.cpp:710).
RefererOwn ==
  \A k \in 1..Len(taken) :
    taken[k].accepted = 200 => taken[k].pci.referer = FieldOf(asked[k], "Referer")

=============================================================================
