------------------------------ MODULE CgiPipes ------------------------------
(***************************************************************************)
(* The server and its scripts as processes: the pipes of each script with  *)
(* the little they hold, the write of a body that blocks the only thread,  *)
(* the descriptors a child inherits from all other connections, children   *)
(* that are killed and never waited for, and a fork() that fails.          *)
(*                                                                         *)
(* What a request is about is left to HttpClient, the bytes of a script's  *)
(* output to CgiStream.  Bodies, output and pipes are counted in units;    *)
(* the first unit of a script's output ends its header, before which the   *)
(* server sends a status line that is not counted.                         *)
(***************************************************************************)
EXTENDS Integers, FiniteSets

CONSTANTS
  Clients,
  Shapes,    \* requests: how long the body is, how much comes early, what runs
  InCap,     \* units the pipe to a script holds
  OutCap,    \* units the pipe from a script holds
  Limits,    \* processes the system may allow
  Nobody

\* What a script does with its input, and when it writes its output: reads to
\* the end and then writes, reads the length it was told and then writes,
\* writes and then reads to the end, or never reads.
Programs == {"reads_to_end", "reads_length", "writes_first", "never_reads"}

ASSUME ShapesAssumption ==
  Shapes \subseteq [post : BOOLEAN, body : Nat, early : Nat, out : Nat,
                    program : Programs]
\* Content-Length is looked at for a POST only.
ASSUME BodiesAssumption == \A s \in Shapes : ~s.post => s.body = 0
ASSUME PipesAssumption == InCap \in Nat \ {0} /\ OutCap \in Nat \ {0}
ASSUME NobodyAssumption == Nobody \notin Clients

VARIABLES
  conn,     \* the connection and its StreamProtocolCgi, whose buffer holds
            \* held units of output; history: units sent, units lost, and
            \* whether a send was short of what was offered
  script,   \* the child process of a connection
  inpipe,   \* units in the pipe to the script
  outpipe,  \* units in the pipe from the script
  inends,   \* connections whose pipefdo[1] is open in the server
  outends,  \* connections whose pipefdi[0] is open in the server
  sockets,  \* connections whose socket is open in the server
  writing,  \* the write() to a script the server is in
  remote,   \* units of body each remote end still sends, and whether it left
  limit,    \* processes the system allows
  undef     \* an operation without defined behaviour was reached; the behaviour
            \* ends there

ends == <<inends, outends, sockets>>
vars == <<conn, script, inpipe, outpipe, ends, writing, remote, limit, undef>>

Stages == {"new", "request", "receive", "send", "closed"}

NoWrite == [client |-> Nobody, left |-> 0]

Blank == [post |-> FALSE, body |-> 0, early |-> 0, out |-> 0, program |-> "never_reads"]

NoScript == [state |-> "none", got |-> 0, wrote |-> 0, eof |-> FALSE,
             inputs |-> {}, sockets |-> {}]

Init ==
  /\ conn = [c \in Clients |-> [stage |-> "new", shape |-> Blank, pid |-> "none",
                                datac |-> 0, feedback |-> FALSE, held |-> 0,
                                sent |-> 0, lost |-> 0, short |-> FALSE]]
  /\ script = [c \in Clients |-> NoScript]
  /\ inpipe = [c \in Clients |-> 0] /\ outpipe = [c \in Clients |-> 0]
  /\ inends = {} /\ outends = {} /\ sockets = {}
  /\ writing = NoWrite
  /\ remote = [c \in Clients |-> [rest |-> 0, gone |-> FALSE]]
  /\ limit \in Limits
  /\ undef = FALSE

\* The thread is not inside a write().
Free == writing = NoWrite /\ ~undef

Running(c) == script[c].state = "running"

-----------------------------------------------------------------------------
(* Remote ends.                                                            *)

Connect(c, s) ==
  /\ conn[c].stage = "new" /\ Free
  /\ conn' = [conn EXCEPT ![c].stage = "request", ![c].shape = s]
  /\ sockets' = sockets \cup {c}
  /\ remote' = [remote EXCEPT ![c].rest = IF s.early < s.body THEN s.body - s.early ELSE 0]
  /\ UNCHANGED <<script, inpipe, outpipe, inends, outends, writing, limit, undef>>

Leave(c) ==
  /\ conn[c].stage # "new" /\ ~remote[c].gone /\ ~undef
  /\ remote' = [remote EXCEPT ![c].gone = TRUE]
  /\ UNCHANGED <<conn, script, inpipe, outpipe, ends, writing, limit, undef>>

-----------------------------------------------------------------------------
(* The server.                                                             *)

\* The child: it closes its own ends, and keeps what others have open.
Forked(c) ==
  [NoScript EXCEPT !.state = "running", !.inputs = inends, !.sockets = sockets]

\* Processes, those that ended and were not waited for included.
Processes == {c \in Clients : script[c].state # "none"}

\* Open(): the pipes, fork(), and the write of what came with the request.
Open(c) ==
  LET s     == conn[c].shape
      forks == Cardinality(Processes) < limit
  IN /\ conn[c].stage = "request" /\ Free
     /\ script' = IF forks THEN [script EXCEPT ![c] = Forked(c)] ELSE script
     /\ inends' = inends \cup {c} /\ outends' = outends \cup {c}
     /\ conn' = [conn EXCEPT
          ![c].pid = IF forks THEN "child" ELSE "failed",
          ![c].datac = s.early,
          ![c].stage = IF s.post /\ s.early < s.body THEN "receive" ELSE "send"]
     /\ writing' = IF s.early = 0 THEN NoWrite
                   ELSE [client |-> c, left |-> IF s.early > s.body THEN s.body ELSE s.early]
     /\ UNCHANGED <<inpipe, outpipe, sockets, remote, limit, undef>>

\* Read() of n units of the body, up to the write to the script.
Receive(c, n) ==
  LET datac == conn[c].datac + n
  IN /\ conn[c].stage = "receive" /\ Free
     /\ n <= remote[c].rest
     /\ remote' = [remote EXCEPT ![c].rest = @ - n]
     /\ conn' = [conn EXCEPT ![c].datac = datac,
          ![c].stage = IF datac >= conn[c].shape.body THEN "send" ELSE "receive"]
     /\ writing' = [client |-> c, left |-> n]
     /\ UNCHANGED <<script, inpipe, outpipe, ends, limit, undef>>

\* The pipe to the script has a reader and is not full.
Room(c) == Running(c) /\ inpipe[c] < InCap

\* The pipe takes one more unit.
WriteOn ==
  LET c == writing.client
  IN /\ writing.left > 0 /\ Room(c)
     /\ inpipe' = [inpipe EXCEPT ![c] = @ + 1]
     /\ writing' = [writing EXCEPT !.left = @ - 1]
     /\ UNCHANGED <<conn, script, outpipe, ends, remote, limit, undef>>

\* Slip: the pipe is closed after the first part of the body.
BodyWritten_First(c) == conn[c].datac > 0

\* Slip: the body has to be exceeded.
BodyWritten_Exceeded(c) == conn[c].datac > conn[c].shape.body

\* datac >= datal
BodyWritten(c) == conn[c].datac >= conn[c].shape.body

\* Slip: a script that ended is not noticed.
WriteOver_All == writing.left = 0

\* All is written, or nobody is left to read it.
WriteOver == writing.left = 0 \/ ~Running(writing.client)

\* write() returns; its result is not looked at.
WriteDone ==
  /\ writing # NoWrite /\ WriteOver
  /\ writing' = NoWrite
  /\ inends' = IF BodyWritten(writing.client) THEN inends \ {writing.client} ELSE inends
  /\ UNCHANGED <<conn, script, inpipe, outpipe, outends, sockets, remote, limit, undef>>

\* Read() finds the connection at its end: Poll() closes it without Clear().
Aborted(c) ==
  /\ conn[c].stage = "receive" /\ Free
  /\ remote[c].gone /\ remote[c].rest > 0
  /\ inends' = inends \ {c}
  /\ conn' = [conn EXCEPT ![c].stage = "closed"]
  /\ sockets' = sockets \ {c}
  /\ UNCHANGED <<script, inpipe, outpipe, outends, writing, remote, limit, undef>>

\* Slip: every script is told to stop.
Killed_All(c) == {d \in Clients : Running(d)}

\* kill(pid,SIGINT): the child, or after a failed fork() every process.
Killed(c) == {d \in Clients : Running(d) /\ (d = c \/ conn[c].pid = "failed")}

\* Clear() and POLL_CLOSE: the script is killed, its output closed.
Close(c) ==
  /\ script' = [d \in Clients |-> IF d \in Killed(c)
                                  THEN [script[d] EXCEPT !.state = "zombie"] ELSE script[d]]
  /\ outends' = outends \ {c}
  /\ sockets' = sockets \ {c}

\* Slip: an empty pipe is taken for a closed one.
OutputEnded_Empty(c) == outpipe[c] = 0

\* read() gives 0; only the script itself holds the other end.
OutputEnded(c) == outpipe[c] = 0 /\ ~Running(c)

\* send() takes k of n units and the buffer keeps the rest; dropped units were
\* read and go nowhere.  It may take none as long as it is at the status line.
Send(c, n, k, dropped) ==
  /\ conn[c].stage = "send" /\ Free
  /\ k <= n /\ (k = 0 => conn[c].sent = 0)
  /\ conn' = [conn EXCEPT ![c].feedback = TRUE, ![c].held = n - k,
                          ![c].sent = @ + k, ![c].lost = @ + dropped,
                          ![c].short = @ \/ k < n]

\* Write() reads n units.  While the buffer holds output of an earlier call
\* only that is sent.
Forward(c, n, k) ==
  /\ n <= outpipe[c]
  /\ IF conn[c].held > 0 THEN Send(c, conn[c].held, k, n) ELSE Send(c, n, k, 0)
  /\ outpipe' = [outpipe EXCEPT ![c] = @ - n]
  /\ UNCHANGED <<script, inpipe, ends, writing, remote, limit, undef>>

\* Write() behind the end of the output, with output in the buffer.
Flush(c, k) ==
  /\ OutputEnded(c) /\ conn[c].held > 0
  /\ Send(c, conn[c].held, k, 0)
  /\ UNCHANGED <<script, inpipe, outpipe, ends, writing, remote, limit, undef>>

\* Write() comes to a send of something.
Sending(c) ==
  /\ conn[c].stage = "send" /\ Free
  /\ outpipe[c] > 0 \/ (OutputEnded(c) /\ conn[c].held > 0)

\* EAGAIN, although epoll reported the socket: the length of -1 is used to
\* erase from the buffer, or to insert into it.
SendAgain(c) ==
  /\ Sending(c) /\ undef' = TRUE
  /\ UNCHANGED <<conn, script, inpipe, outpipe, ends, writing, remote, limit>>

\* The remote end takes nothing any more.
SendFails(c) ==
  /\ Sending(c) /\ remote[c].gone
  /\ outpipe' = [outpipe EXCEPT ![c] = 0]
  /\ Close(c)
  /\ conn' = [conn EXCEPT ![c].stage = "closed", ![c].pid = "none"]
  /\ UNCHANGED <<inpipe, inends, writing, remote, limit, undef>>

\* Write() behind the end of the output and with an empty buffer: a send of no
\* bytes gives 0.
Finish(c) ==
  /\ conn[c].stage = "send" /\ Free
  /\ OutputEnded(c) /\ conn[c].feedback /\ conn[c].held = 0
  /\ Close(c)
  /\ conn' = [conn EXCEPT ![c].stage = "closed", ![c].pid = "none"]
  /\ UNCHANGED <<inpipe, outpipe, inends, writing, remote, limit, undef>>

\* Without any output FindBreak() scans an empty buffer: the server ends, or
\* finds what memory still holds of another request.
ScanNothing(c) ==
  /\ conn[c].stage = "send" /\ Free
  /\ OutputEnded(c) /\ ~conn[c].feedback
  /\ \/ undef' = TRUE /\ conn' = conn
     \/ undef' = FALSE /\ conn' = [conn EXCEPT ![c].feedback = TRUE]
  /\ UNCHANGED <<script, inpipe, outpipe, ends, writing, remote, limit>>

-----------------------------------------------------------------------------
(* Scripts.                                                                *)

Wrote(c) == script[c].wrote = conn[c].shape.out

\* The script reads next.
Hungry(c) ==
  /\ Running(c) /\ ~script[c].eof
  /\ CASE conn[c].shape.program = "reads_to_end" -> TRUE
       [] conn[c].shape.program = "reads_length" -> script[c].got < conn[c].shape.body
       [] conn[c].shape.program = "writes_first" -> Wrote(c)
       [] OTHER -> FALSE

\* The script writes next.
Talks(c) ==
  Running(c) /\ ~Wrote(c) /\ ~Hungry(c)

\* Somebody may still write to the script: the server, or a script that was
\* forked while the server could.
Feeders(c) == (IF c \in inends THEN {Nobody} ELSE {})
                \cup {d \in Clients : Running(d) /\ c \in script[d].inputs}

ScriptReads(c) ==
  /\ Hungry(c) /\ inpipe[c] > 0
  /\ inpipe' = [inpipe EXCEPT ![c] = @ - 1]
  /\ script' = [script EXCEPT ![c].got = @ + 1]
  /\ UNCHANGED <<conn, outpipe, ends, writing, remote, limit, undef>>

ScriptSeesEnd(c) ==
  /\ Hungry(c) /\ inpipe[c] = 0 /\ Feeders(c) = {}
  /\ script' = [script EXCEPT ![c].eof = TRUE]
  /\ UNCHANGED <<conn, inpipe, outpipe, ends, writing, remote, limit, undef>>

ScriptWrites(c) ==
  /\ Talks(c) /\ outpipe[c] < OutCap
  /\ outpipe' = [outpipe EXCEPT ![c] = @ + 1]
  /\ script' = [script EXCEPT ![c].wrote = @ + 1]
  /\ UNCHANGED <<conn, inpipe, ends, writing, remote, limit, undef>>

ScriptExits(c) ==
  /\ Running(c) /\ ~Hungry(c) /\ ~Talks(c)
  /\ script' = [script EXCEPT ![c].state = "zombie"]
  /\ UNCHANGED <<conn, inpipe, outpipe, ends, writing, remote, limit, undef>>

Script(c) ==
  ~undef /\ (ScriptReads(c) \/ ScriptSeesEnd(c) \/ ScriptWrites(c) \/ ScriptExits(c))

Units == 1..8  \* lengths of one recv(), read() or send(), in units

Serve(c) ==
  \/ Open(c) \/ Aborted(c) \/ SendAgain(c) \/ SendFails(c) \/ Finish(c)
  \/ ScanNothing(c)
  \/ \E n \in Units, k \in Units \cup {0} : Forward(c, n, k)
  \/ \E k \in Units : Flush(c, k)

Next ==
  \/ WriteOn \/ WriteDone
  \/ \E c \in Clients : Serve(c) \/ Script(c) \/ Leave(c)
  \/ \E c \in Clients, n \in Units : Receive(c, n)
  \/ \E c \in Clients, s \in Shapes : Connect(c, s)

Spec == Init /\ [][Next]_vars

\* The server runs and comes to every connection; every script runs.  Nothing
\* is assumed of a remote end that has to send a body.
FairSpec ==
  /\ Spec
  /\ WF_vars(WriteOn) /\ WF_vars(WriteDone)
  /\ \A c \in Clients : WF_vars(Serve(c)) /\ WF_vars(Script(c))

-----------------------------------------------------------------------------
(* Properties.                                                             *)

TypeOK ==
  /\ conn \in [Clients -> [stage : Stages, shape : Shapes \cup {Blank},
                            pid : {"none", "child", "failed"}, datac : Nat,
                            feedback : BOOLEAN, held : Nat, sent : Nat, lost : Nat,
                            short : BOOLEAN]]
  /\ script \in [Clients -> [state : {"none", "running", "zombie"}, got : Nat,
                              wrote : Nat, eof : BOOLEAN, inputs : SUBSET Clients,
                              sockets : SUBSET Clients]]
  /\ inpipe \in [Clients -> 0..InCap] /\ outpipe \in [Clients -> 0..OutCap]
  /\ inends \subseteq Clients /\ outends \subseteq Clients /\ sockets \subseteq Clients
  /\ writing \in [client : Clients \cup {Nobody}, left : Nat]
  /\ remote \in [Clients -> [rest : Nat, gone : BOOLEAN]]
  /\ limit \in Limits /\ undef \in BOOLEAN

\* A script that came to the end of its input has all of the body, unless the
\* remote end left before it had sent it; and none gets more than the body.
InputWhole ==
  \A c \in Clients :
    /\ script[c].got <= conn[c].shape.body
    /\ script[c].eof => script[c].got = conn[c].shape.body \/ remote[c].gone

\* A remote end that stays until the connection is closed has the whole output
\* of its script, unless a send was short or a fork() failed.  After a short
\* send it is without exactly what Write() read while the rest was held: "Before
\* reading any new content from the pipe, empty the buffer" (protocol.cpp:394)
\* is not what 356 and 396-406 do.
ResponseWhole ==
  \A c \in Clients :
    conn[c].stage = "closed" /\ ~remote[c].gone =>
      \/ conn[c].sent = conn[c].shape.out
      \/ conn[c].short /\ conn[c].sent + conn[c].lost = conn[c].shape.out
      \/ \E d \in Clients : /\ conn[d].stage \notin {"new", "request"}
                             /\ script[d].state = "none"

\* A connection that is closed leaves no pipe open in the server, but for the
\* input of a script with no body (closed by nobody: 460 says "in case they're
\* still hanging"), and the output of one whose remote end left in the middle
\* of the body.
PipesClosed ==
  \A c \in Clients :
    conn[c].stage = "closed" =>
      /\ c \in inends => conn[c].shape.body = 0 /\ conn[c].shape.early = 0
      /\ c \in outends => remote[c].gone /\ conn[c].datac < conn[c].shape.body

\* A script ends of itself, or by the end of its own connection; another one
\* ends it only where fork() failed for that other.
OwnKill ==
  [][\A c \in Clients :
       Running(c) /\ script'[c].state = "zombie" =>
         \/ ~Hungry(c) /\ ~Talks(c)
         \/ conn'[c].stage = "closed" /\ conn[c].stage = "send"
         \/ \E d \in Clients : conn[d].pid = "failed" /\ conn'[d].stage = "closed"]_vars

\* The script writes more than its pipe holds before it reads, if ever.
Overruns(c) ==
  /\ conn[c].shape.program \in {"writes_first", "never_reads"}
  /\ conn[c].shape.out > OutCap /\ conn[c].shape.body > InCap

\* The write of a body returns, except to a script that fills its output pipe
\* before it reads: the server and the script then wait for each other.
WriteReturns ==
  \A c \in Clients :
    (writing.client = c /\ ~Overruns(c)) ~> (writing.client # c)

\* What keeps a script from its end: a full pipe on both sides, an input that
\* is never closed because nothing came with the request and no body follows,
\* a remote end that neither sends the body nor leaves, or one that left a
\* script whose output nobody reads.
Stuck(c) ==
  \/ Overruns(c)
  \/ /\ c \in inends /\ conn[c].shape.body = 0 /\ conn[c].shape.early = 0
     /\ conn[c].shape.program \in {"reads_to_end", "writes_first"}
  \/ conn[c].stage = "receive"
  \/ conn[c].stage = "closed" /\ c \in outends /\ conn[c].shape.out > OutCap

\* Every script ends and every remote end sees its connection closed, by the
\* server and by the scripts that inherited it, where no script is stuck.
Released ==
  (<>[](~undef /\ \A d \in Clients : ~Stuck(d))) =>
    \A c \in Clients :
      (conn[c].stage # "new") ~>
        /\ ~Running(c)
        /\ c \notin sockets /\ \A d \in Clients : Running(d) => c \notin script[d].sockets

=============================================================================
