--------------------------- MODULE MCRequestText ---------------------------
(***************************************************************************)
(* Instances of RequestText for TLC: requests with every short uri made of *)
(* a few pieces, with headers of every kind, and several in a row.         *)
(***************************************************************************)
EXTENDS RequestText

Field(name, blanks, content) == [name |-> name, blanks |-> blanks, content |-> content]

Host == Field("Host", 1, <<"a">>)

Get == [method |-> "GET", uri |-> <<<<"/">>>>, version |-> "HTTP/1.1",
        fields |-> <<Host>>]

Pieces == {<<"/">>, <<"/", ".">>, <<"/", ".", ".">>, <<".">>, <<"/", "a">>,
           <<"%", "2", "e">>, <<"%", "2", "f">>, <<"%">>, <<"?">>}

Uris == {<<<<"/">>>> \o s : s \in UNION {[1..n -> Pieces] : n \in 0..2}}
          \cup {<<<<"/", "a">>>> \o s : s \in [1..3 -> Pieces]}
          \cup {<<<<"/">>, <<"%">> \o e, <<"/", ".", ".">>>> :
                 e \in {<<"plus", "2">>, <<"-", "2">>, <<"0", "0">>, <<"0", "a">>, <<"1", "/">>}}

UriRequests == {<<[Get EXCEPT !.uri = u]>> : u \in Uris}

Headers ==
  {<< >>, <<Host>>, <<Field("Host", 0, <<"a">>)>>, <<Field("Host", 2, <<"a">>)>>,
   <<Field("Host", 1, << >>), Host>>, <<Host, Field("Host", 1, <<"b">>)>>,
   <<Field("X", 1, <<"Host", ":", " ", "b">>), Host>>,
   <<Host, Field("Referer", 3, <<"a", " ">>)>>,
   <<Field("Connection", 1, <<"close">>), Host>>,
   <<Host, Field("Connection", 1, <<"keep-alive">>)>>}

HeaderRequests == {<<[Get EXCEPT !.fields = h]>> : h \in Headers}

Length(content) == Field("Content-Length", 1, content)

Post(fields) == [Get EXCEPT !.method = "POST", !.fields = fields]

PostRequests ==
  {<<Post(<<Host>> \o l)>> :
     l \in {<< >>, <<Length(<<"1">>)>>, <<Length(<<"1", "2">>)>>, <<Length(<<"0">>)>>,
            <<Length(<<"1", "a">>)>>, <<Length(<<"a">>)>>, <<Length(<<"-", "1">>)>>,
            <<Length(<<"-">>)>>, <<Length(<<"2", "0", "0", "0">>)>>,
            <<Length(<<"plus", "1">>)>>, <<Length(<<"plus", "-", "1">>)>>,
            <<Length(<<"TAB", "1">>)>>, <<Length(<<"TAB", "-", "1">>)>>,
            <<Length(<<"TAB">>)>>, <<Length(<<"plus", " ", "1">>)>>,
            <<Length(<<"1", " ">>)>>}}

Named(r) == [r EXCEPT !.fields = @ \o <<Field("Referer", 1, <<"a">>)>>]
Query == [Get EXCEPT !.method = "HEAD", !.uri = <<<<"/", "a">>, <<"?">>, <<"a">>>>]
Old   == [Get EXCEPT !.version = "HTTP/1.0"]
Odd   == [Get EXCEPT !.method = "PUT"]
Close == [Get EXCEPT !.fields = <<Field("Connection", 1, <<"close">>)>> \o @]

Long  == [Get EXCEPT !.uri = <<[i \in 1..40 |-> IF i = 1 THEN "/" ELSE "a"]>>]

PipelinedRequests ==
  {<<Get, Named(Query), Get>>, <<Get, Long, Get>>, <<Named(Get), Close, Get>>, <<Query, Old, Get>>,
   <<Query, Odd, Get>>}

AllRequests == UriRequests \cup HeaderRequests \cup PostRequests \cup PipelinedRequests

\* What Process() may find.
File == [cgi |-> FALSE, deny |-> FALSE, exists |-> TRUE, dir |-> FALSE, listing |-> FALSE,
         opens |-> TRUE, fresh |-> FALSE, st_size |-> 3, entries |-> << >>, out |-> << >>]

Directory == [File EXCEPT !.dir = TRUE, !.listing = TRUE, !.entries = <<<<"a">>, <<"b">>>>]

Header(name, content) == <<name, ":", " ">> \o content \o CRLF

Script == [File EXCEPT !.cgi = TRUE, !.out = Header("Type", <<"a">>) \o CRLF \o <<"b", "b">>]

AllAnswers ==
  {File, [File EXCEPT !.opens = FALSE], [File EXCEPT !.fresh = TRUE],
   [File EXCEPT !.exists = FALSE], [File EXCEPT !.deny = TRUE],
   Directory, [Directory EXCEPT !.opens = FALSE], [Directory EXCEPT !.listing = FALSE],
   Script, [Script EXCEPT !.out = Header("Status", <<"404">>) \o Script.out]}

OnlyFile == {File}

ASSUME RegularAssumption == RegularRequests

\* SoundAnswers of these answers: the length of a listing depends on the resource
\* by its length alone.
ASSUME AnswersAssumption ==
  \A c \in Answers : \A n \in 0..RequestLimit : Tellable([i \in 1..n |-> "/"], c)

Bytes ==
  {"CR", "LF", " ", ":", "/", ".", "%", "?", "-", "plus", "TAB", "0", "1", "2", "a", "b", "e", "f",
   "other", "GET", "HEAD", "POST", "PUT", "HTTP/1.1", "HTTP/1.0", "Host", "Referer",
   "Connection", "close", "keep-alive", "Content-Length", "X",
   "Server: tighttpd/0.1", "Date: now", "Content-Type", "text/html", "type",
   "Last-Modified", "then", "Allow", "GET,HEAD", "Location", "undefined", "Type", "Status"}
    \cup {ToString(n) : n \in (0..SizeModulus - 1) \cup Statuses}

\* header_stale: a Referer in the first request and none in the second.
StaleRequests == {<<Named(Get), Get>>}

=============================================================================
