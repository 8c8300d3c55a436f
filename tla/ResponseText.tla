---------------------------- MODULE ResponseText ----------------------------
(***************************************************************************)
(* The text of a response: the headers that Process() collects in the      *)
(* response stream, Generate(), and the pages of pagegen.cpp, all written  *)
(* by way of snprintf() to a buffer of fixed size.  Texts are those of     *)
(* Parsing; of a page or a file only the length matters to the client.     *)
(***************************************************************************)
EXTENDS Parsing

CONSTANT BufferSize  \* the 4096 bytes of buffer1

\* A buffer takes every line but those with a uri or a script's words in it.
ASSUME BufferAssumption == BufferSize \in Nat /\ BufferSize > 8 /\ BufferSize < NPos

Statuses == {200, 303, 304, 400, 403, 404, 405, 411, 413, 500, 501, 505}

\* The words and numbers of a head are made of bytes too, none a line end.
ASSUME WordsAssumption ==
  {"HTTP/1.1", ":", "Server: tighttpd/0.1", "Date: now", "Connection", "keep-alive",
   "close", "Content-Type", "text/html", "type", "Content-Length", "Last-Modified",
   "then", "Allow", "GET,HEAD", "Location", "undefined", "Status"} \subseteq Byte
ASSUME NumberAssumption ==
  /\ \A n \in (0..SizeModulus - 1) \cup Statuses :
       ToString(n) \in Byte \ {"CR", "LF"}
  /\ ToString(0) = "0"

(***************************************************************************)
(* snprintf(buffer1,...) followed by an insert up to buffer1+len.  len is  *)
(* the length of the whole text, also where that does not fit: what lies   *)
(* past the buffer is then inserted.                                       *)
(***************************************************************************)
Printed(text) ==
  IF Len(text) < BufferSize THEN text
  ELSE SubSeq(text, 1, BufferSize - 1) \o <<"NUL">>
         \o [i \in 1..(Len(text) - BufferSize) |-> "past"]

Number(n) == <<ToString(n)>>

AddHeader(buffer, name, field) ==
  buffer \o Printed(<<name, ":", " ">> \o field \o CRLF)

\* vsnprintf() cuts the field, and AddHeader() prints it once more.
FormatHeader(buffer, name, field) ==
  AddHeader(buffer, name, Substr(field, 0, BufferSize - 1))

\* The first lines go to the front: the status and the server, then the date.
Generate(buffer, status, crlf) ==
  Printed(<<"HTTP/1.1", " ">> \o status \o CRLF \o <<"Server: tighttpd/0.1">> \o CRLF)
    \o <<"Date: now">> \o CRLF \o buffer \o (IF crlf THEN CRLF ELSE << >>)

-----------------------------------------------------------------------------
(* The pages, of a server called "name".                                   *)

ErrorPage(status) ==
  Printed(<<"<title>">> \o Number(status) \o <<"<h1>">> \o Number(status) \o <<"name">>)

Entry(name) == Printed(<<"<a>">> \o name \o name)

ListDir(resource, entries) ==
  Printed(<<"<title>">> \o resource \o <<"<h1>">> \o resource)
    \o FlattenSeq([i \in 1..Len(entries) |-> Entry(entries[i])])
    \o Printed(<<"<hr>", "name">>)

-----------------------------------------------------------------------------
(* Process(): from the request q and what the configuration script and the *)
(* file system answer, c, to the status, the head, the length of the body  *)
(* that follows, and whether the connection is kept.                       *)

\* Slip: the slash goes behind the query string.
Location_AtEnd(uri) == uri \o <<"/">>

\* requri_enc.insert(qv,"/")
Location(uri) ==
  Substr(uri, 0, QueryAt(uri)) \o <<"/">> \o From(uri, QueryAt(uri))

\* The uri is the format, and no arguments come with it: what a conversion
\* writes is not defined.
Formatted(uri) == IF \E i \in 1..Len(uri) : uri[i] = "%" THEN <<"undefined">> ELSE uri

Reply(status, head, body, keep) ==
  [status |-> status, head |-> head, body |-> body, keep |-> keep]

Persistence(keep) == IF keep THEN <<"keep-alive">> ELSE <<"close">>

\* The catch block.
Refuse(buffer, status, q, keep) ==
  LET page  == IF status >= 400 THEN ErrorPage(status) ELSE << >>
      typed == IF status >= 400
               THEN FormatHeader(AddHeader(buffer, "Content-Type", <<"text/html">>),
                                 "Content-Length", Number(Len(page)))
               ELSE AddHeader(buffer, "Content-Length", <<"0">>)
      head  == Generate(AddHeader(typed, "Connection", Persistence(keep)),
                        Number(status), TRUE)
  IN Reply(status, head, IF q.method = "HEAD" THEN 0 ELSE Len(page), keep)

\* Slip: the length is taken before the page is made.
SendPage_Before(buffer, page, keep) ==
  Reply(200, Generate(FormatHeader(AddHeader(buffer, "Content-Type", <<"text/html">>),
                                   "Content-Length", Number(0)), Number(200), TRUE),
        Len(page), keep)

\* A listing; for HEAD the page is not generated and empty.
SendPage(buffer, page, keep) ==
  Reply(200, Generate(FormatHeader(AddHeader(buffer, "Content-Type", <<"text/html">>),
                                   "Content-Length", Number(Len(page))), Number(200), TRUE),
        Len(page), keep)

SendFile(buffer, q, c, keep) ==
  LET typed == FormatHeader(AddHeader(buffer, "Content-Type", <<"type">>),
                            "Content-Length", Number(c.st_size))
  IN Reply(200, Generate(AddHeader(typed, "Last-Modified", <<"then">>), Number(200), TRUE),
           IF q.method = "HEAD" THEN 0 ELSE c.st_size, keep)

\* The head a script's output is given, once the end of its own was found.
SendOutput(buffer, out) ==
  LET header == Substr(out, 0, FindBreak(out).pp)
      told   == ParseHeader(0, CRLF \o header, "Status")
      status == IF told = << >> THEN Number(200) ELSE told
  IN Reply(200, Generate(buffer, status, FALSE) \o header, Len(out) - Len(header), FALSE)

\* Slip: the header is made before the connection is set to close.
Kept_First(q, c) == q.keep

\* After a script the connection is closed.
Kept(q, c) == q.keep /\ ~c.cgi

\* The index files of 790-806 are left out: where one is found the answer is
\* that of a file.
Process(q, c) ==
  LET keep   == Kept(q, c)
      buffer == AddHeader(<< >>, "Connection", Persistence(keep))
      refuse(b, status) == Refuse(b, status, q, keep)
      get == q.method # "HEAD"
  IN IF q.status # 200 THEN refuse(<< >>, q.status)
     ELSE IF ~c.cgi /\ q.method = "POST"
          THEN refuse(AddHeader(<< >>, "Allow", <<"GET,HEAD">>), 405)
     ELSE IF ~c.exists THEN refuse(<< >>, 404)
     ELSE IF c.deny THEN refuse(<< >>, 403)
     ELSE IF c.dir /\ q.uri[QueryAt(q.uri)] # "/"
          THEN refuse(FormatHeader(<< >>, "Location", Formatted(Location(q.uri))), 303)
     ELSE IF c.dir /\ ~c.listing THEN refuse(buffer, 404)
     ELSE IF c.dir
          THEN IF get /\ ~c.opens THEN refuse(buffer, 500)
               ELSE SendPage(buffer, IF get THEN ListDir(q.resource, c.entries) ELSE << >>, keep)
     ELSE IF c.cgi
          THEN IF q.method = "POST" /\ ~q.length.ok THEN refuse(buffer, 411)
               ELSE SendOutput(buffer, c.out)
     ELSE IF c.fresh THEN Reply(304, Generate(buffer, Number(304), TRUE), 0, keep)
     ELSE IF get /\ ~c.opens THEN refuse(buffer, 500)
     ELSE SendFile(buffer, q, c, keep)

=============================================================================
