---------------------------- MODULE MCEventLoop ----------------------------
(***************************************************************************)
(* Small instances of EventLoop for TLC: what remote ends send, and what   *)
(* the configuration script and the file system answer.  Each .cfg picks   *)
(* one definition of each kind.                                            *)
(***************************************************************************)
EXTENDS EventLoop, TLC

Symmetry == Permutations(Clients)

-----------------------------------------------------------------------------
(* Requests and the byte streams made of them.                             *)

Plain == [status |-> 200, method |-> "GET", keep |-> TRUE, length |-> FALSE,
          clen |-> 0]

Get       == Plain
GetClose  == [Plain EXCEPT !.keep = FALSE]
HeadOf    == [Plain EXCEPT !.method = "HEAD"]
NoVersion == [Plain EXCEPT !.status = 505]
Unknown   == [Plain EXCEPT !.status = 501]
Post(n)   == [Plain EXCEPT !.method = "POST", !.length = TRUE, !.clen = n]
PostBare  == [Plain EXCEPT !.method = "POST"]

Tok(kind, req) == [kind |-> kind, brk |-> kind = "end", req |-> req]

Line(req) == Tok("line", req)
Field     == Tok("field", Get)
End       == Tok("end", Get)
Body      == Tok("body", Get)

\* A request whose header is a request line and the CRLF CRLF.
Bare(req) == <<Line(req), End>>

\* Long enough to pass RequestLimit before its header ends.
Oversized == <<Line(Get), Field, Field, Field, Field, End>>

-----------------------------------------------------------------------------
(* Answers of the configuration script and the file system.                *)

File == [cgi |-> FALSE, deny |-> FALSE, index |-> FALSE, listing |-> FALSE,
         exists |-> TRUE, dir |-> FALSE, slash |-> TRUE, page |-> FALSE,
         opens |-> TRUE, fresh |-> FALSE, st_size |-> 3, length |-> 3,
         pageSize |-> 3, script |-> << >>]

EvenFile   == [File EXCEPT !.st_size = 2, !.length = 2]
EmptyFile  == [File EXCEPT !.st_size = 0, !.length = 0]
Grown      == [File EXCEPT !.st_size = 2]
Truncated  == [File EXCEPT !.length = 1]
Unreadable == [File EXCEPT !.opens = FALSE]
Fresh      == [File EXCEPT !.fresh = TRUE]
Missing    == [File EXCEPT !.exists = FALSE]
Denied     == [File EXCEPT !.deny = TRUE]
NoSlash    == [File EXCEPT !.dir = TRUE, !.slash = FALSE]
Listing    == [File EXCEPT !.dir = TRUE, !.listing = TRUE]
Unlisted   == [File EXCEPT !.dir = TRUE]
IndexPage  == [File EXCEPT !.dir = TRUE, !.index = TRUE, !.page = TRUE]

Unit(brk) == [brk |-> brk]

\* A script whose header ends in its first unit of output, or its second.
Script     == [File EXCEPT !.cgi = TRUE,
                 !.script = <<Unit(TRUE), Unit(FALSE), Unit(FALSE)>>]
LateScript == [File EXCEPT !.cgi = TRUE,
                 !.script = <<Unit(FALSE), Unit(TRUE), Unit(FALSE)>>]
\* A script that never ends its header, and one without output.
NoBreak    == [Script EXCEPT !.script = <<Unit(FALSE)>>]
Silent     == [Script EXCEPT !.script = << >>]

Files  == {File, EvenFile, EmptyFile, Grown, Truncated, Unreadable, IndexPage}
Pages  == {Fresh, Missing, Denied, NoSlash, Listing, Unlisted}
Scripts == {Script, LateScript}

-----------------------------------------------------------------------------
(* Instances.                                                              *)

\* connections: one client, every kind of request, every kind of answer.
AllTraffic ==
  {Bare(Get) \o Bare(GetClose), Bare(HeadOf) \o Bare(Get), Bare(NoVersion),
   Bare(Unknown), Bare(Post(1)) \o <<Body>>, Bare(Post(2)) \o <<Body, Body>>,
   Bare(Post(4)) \o <<Body, Body, Body, Body>>,
   Bare(PostBare), Bare(Post(1)) \o <<Body>> \o Bare(Get), Oversized}
AllAnswers == Files \cup Pages \cup Scripts \cup {NoBreak, Silent}

\* event_loop: two clients and batches of two, few requests and answers.
LoopTraffic == {Bare(Get) \o Bare(GetClose), Bare(Post(1)) \o <<Body>>}
LoopAnswers == {Fresh, Script}

\* pipelining: responses made of generated buffers only.
PipelinedTraffic ==
  {Bare(Get) \o Bare(HeadOf) \o Bare(Get),
   <<Line(Get), Field, End>> \o Bare(Get) \o Bare(NoVersion),
   Bare(HeadOf) \o Bare(GetClose) \o Bare(Get),
   Bare(Post(1)) \o <<Body>>, Bare(Get) \o <<Line(Get), Field>>}

\* Bodies cut off and sent in full, and a script among the answers.
ProgressTraffic ==
  {Bare(Get) \o Bare(GetClose), Bare(Post(2)) \o <<Body, Body>>,
   Bare(Post(2)) \o <<Body>>, Bare(HeadOf) \o Bare(NoVersion)}
MixedTraffic == PipelinedTraffic \cup ProgressTraffic
MixedAnswers == Pages \cup {LateScript}

\* turns: two clients that compete for batches of one event.
TurnsTraffic == {Bare(GetClose)}
TurnsAnswers == {[Script EXCEPT !.script = <<Unit(TRUE)>>], Truncated}

\* The instances of the findings.
RefusedPost  == {Bare(Post(1)) \o <<Body>> \o Bare(Get)}
ScriptGet    == {Bare(GetClose)}
OnlyFile     == {File}
OnlyScript   == {Script}

=============================================================================
