-------------------------- MODULE CgiPipesProofs ---------------------------
(***************************************************************************)
(* What goes into a script and what comes out of it, for any number of     *)
(* connections, any requests, any pipes and any limit of processes.        *)
(***************************************************************************)
EXTENDS CgiPipes, TLAPS

Opened(c) == conn[c].stage \notin {"new", "request"}

\* Units the server still has to write to the script.
Left(c) == IF writing.client = c THEN writing.left ELSE 0

\* Units of the body the server has got and does not cut off.
Due(c) == IF conn[c].datac < conn[c].shape.body THEN conn[c].datac ELSE conn[c].shape.body

\* Before Open() there is no script and nothing of one.
Fresh(c) ==
  ~Opened(c) =>
    /\ script[c] = NoScript /\ inpipe[c] = 0 /\ outpipe[c] = 0
    /\ conn[c].sent = 0 /\ conn[c].held = 0 /\ conn[c].lost = 0
    /\ conn[c].pid = "none" /\ writing.client # c

\* The body is on its way: what is not sent yet, and what the script has got,
\* its pipe holds and the server writes.
Supplied(c) ==
  LET s == conn[c].shape
  IN /\ conn[c].stage = "request" =>
          remote[c].rest = IF s.early < s.body THEN s.body - s.early ELSE 0
     /\ conn[c].stage = "receive" =>
          conn[c].datac < s.body /\ conn[c].datac + remote[c].rest = s.body
     /\ Opened(c) => script[c].got + inpipe[c] + Left(c) <= Due(c)
     /\ Opened(c) /\ Running(c) => script[c].got + inpipe[c] + Left(c) = Due(c)

\* The input of a script is closed when the body is written, or cut short.
InputClosed(c) ==
  Running(c) /\ c \notin inends =>
    remote[c].gone \/ (BodyWritten(c) /\ writing.client # c)

\* A script that saw the end of its input got the body.
SawEnd(c) ==
  script[c].eof => script[c].got = conn[c].shape.body \/ remote[c].gone

\* What a script wrote is sent on, held, lost or in the pipe.
Drained(c) ==
  \/ conn[c].sent + conn[c].held + conn[c].lost + outpipe[c] = script[c].wrote
  \/ remote[c].gone

\* Only a short send leaves something to hold, and to lose.
Shorted(c) == conn[c].held > 0 \/ conn[c].lost > 0 => conn[c].short

\* The process of a connection.
Forks(c) == conn[c].pid = "failed" => Opened(c) /\ script[c].state = "none"

\* What is open in the server: the input of a script during its write, until
\* the body has come, or for good where there is none; the output until the
\* connection is closed, or for good after an end in the middle of the body.
PipesKept(c) ==
  LET s == conn[c].shape
  IN /\ writing.client = c => conn[c].stage \in {"receive", "send"}
     /\ conn[c].stage = "send" => BodyWritten(c)
     /\ Opened(c) /\ c \in inends /\ writing.client # c =>
          conn[c].stage = "receive" \/ (s.body = 0 /\ s.early = 0)
     /\ conn[c].stage = "closed" /\ c \in outends => remote[c].gone /\ ~BodyWritten(c)

Local(c) ==
  /\ Fresh(c) /\ Supplied(c) /\ InputClosed(c) /\ SawEnd(c) /\ Drained(c) /\ Forks(c)
  /\ Shorted(c) /\ PipesKept(c)

\* A fork() failed.
ForkFailed == \E d \in Clients : Opened(d) /\ script[d].state = "none"

\* A script that ended had written all, and a connection that was closed had
\* sent or lost it.
Whole(c) ==
  \/ ForkFailed
  \/ /\ script[c].state = "zombie" /\ conn[c].stage # "closed" => Wrote(c)
     /\ conn[c].stage = "closed" =>
          \/ remote[c].gone
          \/ ~Running(c) /\ conn[c].sent + conn[c].lost = conn[c].shape.out

\* A write is to somebody.
Addressed == writing.client = Nobody => writing = NoWrite

IInv == TypeOK /\ Addressed /\ \A c \in Clients : Local(c) /\ Whole(c)

-----------------------------------------------------------------------------
(* Steps of one connection.                                                *)

\* Nothing of connection d changes.
Same(d) ==
  /\ conn'[d] = conn[d] /\ script'[d] = script[d] /\ remote'[d] = remote[d]
  /\ inpipe'[d] = inpipe[d] /\ outpipe'[d] = outpipe[d]
  /\ d \in inends' <=> d \in inends
  /\ d \in outends' <=> d \in outends
  /\ writing.client = d \/ writing'.client = d => writing' = writing

\* What is open stays open, and no process comes after a fork() that failed.
Onward(d) ==
  /\ Opened(d) => Opened(d)'
  /\ Opened(d) /\ script[d].state = "none" => script'[d].state = "none"

\* The records of the state.
Connection ==
  [stage : Stages, shape : Shapes \cup {Blank}, pid : {"none", "child", "failed"},
   datac : Nat, feedback : BOOLEAN, held : Nat, sent : Nat, lost : Nat,
   short : BOOLEAN]
Process ==
  [state : {"none", "running", "zombie"}, got : Nat, wrote : Nat, eof : BOOLEAN,
   inputs : SUBSET Clients, sockets : SUBSET Clients]

(***************************************************************************)
(* The fields of a connection have their types.                            *)
(***************************************************************************)
LEMMA FieldTypes ==
  ASSUME TypeOK, NEW c \in Clients
  PROVE  /\ conn[c].stage \in Stages /\ conn[c].shape \in Shapes \cup {Blank}
         /\ conn[c].pid \in {"none", "child", "failed"} /\ conn[c].datac \in Nat
         /\ conn[c].feedback \in BOOLEAN /\ conn[c].sent \in Nat
         /\ conn[c].held \in Nat /\ conn[c].lost \in Nat /\ conn[c].short \in BOOLEAN
         /\ conn[c].shape.body \in Nat /\ conn[c].shape.early \in Nat
         /\ conn[c].shape.out \in Nat /\ conn[c].shape.post \in BOOLEAN
         /\ script[c].state \in {"none", "running", "zombie"}
         /\ script[c].got \in Nat /\ script[c].wrote \in Nat /\ script[c].eof \in BOOLEAN
         /\ inpipe[c] \in 0..InCap /\ outpipe[c] \in 0..OutCap
         /\ remote[c].rest \in Nat /\ remote[c].gone \in BOOLEAN
         /\ writing.left \in Nat /\ Left(c) \in Nat /\ Due(c) \in Nat
<1>1. /\ conn[c].stage \in Stages /\ conn[c].shape \in Shapes \cup {Blank}
      /\ conn[c].pid \in {"none", "child", "failed"} /\ conn[c].datac \in Nat
      /\ conn[c].feedback \in BOOLEAN /\ conn[c].sent \in Nat
      /\ conn[c].held \in Nat /\ conn[c].lost \in Nat /\ conn[c].short \in BOOLEAN
  BY DEF TypeOK
<1>2. /\ conn[c].shape.body \in Nat /\ conn[c].shape.early \in Nat
      /\ conn[c].shape.out \in Nat /\ conn[c].shape.post \in BOOLEAN
  <2>1. Blank \in [post : BOOLEAN, body : Nat, early : Nat, out : Nat, program : Programs]
    BY DEF Blank, Programs
  <2>2. conn[c].shape \in [post : BOOLEAN, body : Nat, early : Nat, out : Nat,
                           program : Programs]
    BY <1>1, <2>1, ShapesAssumption
  <2> QED BY <2>2
<1>3. /\ script[c].state \in {"none", "running", "zombie"}
      /\ script[c].got \in Nat /\ script[c].wrote \in Nat /\ script[c].eof \in BOOLEAN
      /\ inpipe[c] \in 0..InCap /\ outpipe[c] \in 0..OutCap
      /\ remote[c].rest \in Nat /\ remote[c].gone \in BOOLEAN /\ writing.left \in Nat
  BY DEF TypeOK
<1>4. Left(c) \in Nat /\ Due(c) \in Nat
  BY <1>1, <1>2, <1>3 DEF Left, Due
<1> QED BY <1>1, <1>2, <1>3, <1>4

(***************************************************************************)
(* One connection may be replaced by another of the type.                  *)
(***************************************************************************)
LEMMA Replaced ==
  ASSUME TypeOK, NEW c \in Clients, NEW k \in Connection
  PROVE  [conn EXCEPT ![c] = k] \in [Clients -> Connection]
<1>1. conn \in [Clients -> Connection]
  BY DEF TypeOK, Connection
<1> QED BY <1>1

(***************************************************************************)
(* So may one process.                                                     *)
(***************************************************************************)
LEMMA ReplacedProcess ==
  ASSUME TypeOK, NEW c \in Clients, NEW p \in Process
  PROVE  [script EXCEPT ![c] = p] \in [Clients -> Process]
<1>1. script \in [Clients -> Process]
  BY DEF TypeOK, Process
<1> QED BY <1>1

(***************************************************************************)
(* A connection nothing of which changes keeps its part of the invariant.  *)
(***************************************************************************)
LEMMA SameLocal ==
  ASSUME NEW d \in Clients, Local(d), Same(d)
  PROVE  Local(d)'
<1>1. /\ Left(d)' = Left(d) /\ Due(d)' = Due(d)
      /\ writing'.client = d <=> writing.client = d
  BY DEF Same, Left, Due
<1>2. Fresh(d)'
  BY <1>1 DEF Local, Fresh, Same, Opened
<1>3. Supplied(d)'
  BY <1>1 DEF Local, Supplied, Same, Opened, Running
<1>4. InputClosed(d)'
  BY <1>1 DEF Local, InputClosed, Same, Running, BodyWritten
<1>5. SawEnd(d)' /\ Drained(d)' /\ Forks(d)' /\ Shorted(d)'
  BY DEF Local, SawEnd, Drained, Forks, Shorted, Same, Opened
<1>6. PipesKept(d)'
  BY <1>1 DEF Local, PipesKept, Same, Opened, BodyWritten
<1> QED BY <1>2, <1>3, <1>4, <1>5, <1>6 DEF Local

(***************************************************************************)
(* A step of one connection disturbs the invariant of that one only.       *)
(***************************************************************************)
LEMMA OneConnection ==
  ASSUME IInv, TypeOK', Addressed', NEW c \in Clients,
         \A d \in Clients \ {c} : Same(d),
         Onward(c), Local(c)', Whole(c)' \/ ForkFailed
  PROVE  IInv'
<1>1. ASSUME ForkFailed PROVE ForkFailed'
  <2>1. PICK d \in Clients : Opened(d) /\ script[d].state = "none"
    BY <1>1 DEF ForkFailed
  <2>2. Opened(d)' /\ script'[d].state = "none"
    BY <2>1 DEF Same, Onward, Opened
  <2> QED BY <2>2 DEF ForkFailed
<1>2. ASSUME NEW d \in Clients \ {c} PROVE Local(d)' /\ Whole(d)'
  <2>1. Local(d)' BY SameLocal DEF IInv
  <2>2. Whole(d)'
    BY <1>1 DEF IInv, Whole, Same, Wrote, Running
  <2> QED BY <2>1, <2>2
<1>3. Whole(c)' BY <1>1 DEF Whole
<1> QED BY <1>2, <1>3 DEF IInv

-----------------------------------------------------------------------------
(* Remote ends.                                                            *)

(***************************************************************************)
(* Before the first connection there is nothing in any pipe.               *)
(***************************************************************************)
LEMMA InitInvariant == Init => IInv
<1> SUFFICES ASSUME Init PROVE IInv OBVIOUS
<1>1. TypeOK
  <2>1. conn \in [Clients -> Connection]
    BY DEF Init, Stages, Connection
  <2>2. script \in [Clients -> Process]
    BY DEF Init, NoScript, Process
  <2>3. inpipe \in [Clients -> 0..InCap] /\ outpipe \in [Clients -> 0..OutCap]
    BY PipesAssumption DEF Init
  <2>4. writing \in [client : Clients \cup {Nobody}, left : Nat]
    BY DEF Init, NoWrite
  <2>5. remote \in [Clients -> [rest : Nat, gone : BOOLEAN]]
    BY DEF Init
  <2> QED BY <2>1, <2>2, <2>3, <2>4, <2>5 DEF Init, TypeOK, Connection, Process
<1>2. Addressed
  BY DEF Init, Addressed
<1>3. ASSUME NEW c \in Clients PROVE Local(c) /\ Whole(c)
  <2>1. /\ conn[c].stage = "new" /\ conn[c].pid = "none" /\ conn[c].sent = 0
        /\ conn[c].held = 0 /\ conn[c].lost = 0
        /\ script[c] = NoScript /\ inpipe[c] = 0 /\ outpipe[c] = 0
        /\ writing.client # c
    BY NobodyAssumption DEF Init, NoWrite
  <2> QED BY <2>1 DEF Local, Whole, Fresh, Supplied, InputClosed, SawEnd, Drained, Forks,
                      Shorted, PipesKept, Opened, Running, NoScript
<1> QED BY <1>1, <1>2, <1>3 DEF IInv

(***************************************************************************)
(* A request arrives on a new connection.                                  *)
(***************************************************************************)
LEMMA ConnectInvariant ==
  ASSUME IInv, NEW c \in Clients, NEW s \in Shapes, Connect(c, s)
  PROVE  IInv'
<1>1. /\ conn[c].stage = "new" /\ writing = NoWrite
      /\ conn' = [conn EXCEPT ![c].stage = "request", ![c].shape = s]
      /\ remote' = [remote EXCEPT ![c].rest = IF s.early < s.body THEN s.body - s.early ELSE 0]
      /\ sockets' = sockets \cup {c}
      /\ UNCHANGED <<script, inpipe, outpipe, inends, outends, writing, limit, undef>>
  BY DEF Connect, Free
<1>2. s.body \in Nat /\ s.early \in Nat /\ (s.early < s.body => s.body - s.early \in Nat)
  BY ShapesAssumption
<1>3. TypeOK'
  <2>1. conn' \in [Clients -> Connection]
    <3> DEFINE k == [conn[c] EXCEPT !.stage = "request", !.shape = s]
    <3>1. k \in Connection
      <4>1. conn[c] \in Connection
        BY DEF IInv, TypeOK, Connection
      <4> QED BY <4>1 DEF Connection, Stages
    <3>2. conn' = [conn EXCEPT ![c] = k]
      BY <1>1 DEF IInv, TypeOK
    <3> HIDE DEF k
    <3> QED BY <3>1, <3>2, Replaced DEF IInv
  <2>2. remote' \in [Clients -> [rest : Nat, gone : BOOLEAN]]
    BY <1>1, <1>2 DEF IInv, TypeOK
  <2> QED BY <1>1, <2>1, <2>2 DEF IInv, TypeOK, Connection
<1>4. /\ conn'[c].stage = "request" /\ conn'[c].shape = s /\ conn'[c].sent = conn[c].sent
      /\ conn'[c].held = conn[c].held /\ conn'[c].lost = conn[c].lost
      /\ conn'[c].pid = conn[c].pid
      /\ remote'[c].rest = IF s.early < s.body THEN s.body - s.early ELSE 0
  BY <1>1 DEF IInv, TypeOK
<1>5. /\ script[c] = NoScript /\ inpipe[c] = 0 /\ outpipe[c] = 0 /\ conn[c].sent = 0
      /\ conn[c].held = 0 /\ conn[c].lost = 0
      /\ conn[c].pid = "none" /\ writing.client # c
  BY <1>1 DEF IInv, Local, Fresh, Opened
<1>6. Local(c)'
  BY <1>1, <1>4, <1>5 DEF Local, Fresh, Supplied, InputClosed, SawEnd, Drained, Forks,
                          Shorted, PipesKept, Opened, Running, NoScript
<1>7. Whole(c)' /\ Onward(c)
  BY <1>1, <1>4, <1>5 DEF Whole, Onward, Opened, NoScript
<1>8. \A d \in Clients \ {c} : Same(d)
  BY <1>1 DEF Same, IInv, TypeOK
<1> QED BY <1>1, <1>3, <1>6, <1>7, <1>8, OneConnection DEF IInv, Addressed

(***************************************************************************)
(* A remote end leaves.                                                    *)
(***************************************************************************)
LEMMA LeaveInvariant == ASSUME IInv, NEW c \in Clients, Leave(c) PROVE IInv'
<1>1. /\ remote' = [remote EXCEPT ![c].gone = TRUE]
      /\ UNCHANGED <<conn, script, inpipe, outpipe, inends, outends, sockets, writing, limit,
                     undef>>
  BY DEF Leave, ends
<1>2. TypeOK'
  BY <1>1 DEF IInv, TypeOK
<1>3. remote'[c].gone /\ remote'[c].rest = remote[c].rest
  BY <1>1 DEF IInv, TypeOK
<1>4. Left(c)' = Left(c) /\ Due(c)' = Due(c)
  BY <1>1 DEF Left, Due
<1>5. Local(c)'
  <2>1. PipesKept(c)'
    BY <1>1, <1>3 DEF IInv, Local, PipesKept, Opened, BodyWritten
  <2> QED
    BY <1>1, <1>3, <1>4, <2>1 DEF IInv, Local, Fresh, Supplied, InputClosed, SawEnd, Drained,
                                  Forks, Shorted, Opened, Running, BodyWritten
<1>6. (Whole(c)' \/ ForkFailed) /\ Onward(c)
  BY <1>1, <1>3 DEF IInv, Whole, Onward, Opened, Wrote, Running
<1>7. \A d \in Clients \ {c} : Same(d)
  BY <1>1 DEF Same, IInv, TypeOK
<1> QED BY <1>1, <1>2, <1>5, <1>6, <1>7, OneConnection DEF IInv, Addressed

-----------------------------------------------------------------------------
(* The server.                                                             *)

(***************************************************************************)
(* Open() starts the script, or does not, and writes what came early.      *)
(***************************************************************************)
LEMMA OpenInvariant == ASSUME IInv, NEW c \in Clients, Open(c) PROVE IInv'
<1> DEFINE s == conn[c].shape
           cut == IF s.early > s.body THEN s.body ELSE s.early
           forks == Cardinality(Processes) < limit
<1>1. /\ conn[c].stage = "request" /\ writing = NoWrite
      /\ script' = IF forks THEN [script EXCEPT ![c] = Forked(c)] ELSE script
      /\ inends' = inends \cup {c} /\ outends' = outends \cup {c}
      /\ conn' = [conn EXCEPT
           ![c].pid = IF forks THEN "child" ELSE "failed",
           ![c].datac = s.early,
           ![c].stage = IF s.post /\ s.early < s.body THEN "receive" ELSE "send"]
      /\ writing' = IF s.early = 0 THEN NoWrite ELSE [client |-> c, left |-> cut]
      /\ UNCHANGED <<inpipe, outpipe, sockets, remote, limit, undef>>
  BY DEF Open, Free
<1>2. s.body \in Nat /\ s.early \in Nat /\ s.post \in BOOLEAN /\ s.out \in Nat
  BY FieldTypes DEF IInv
<1>3. cut \in Nat /\ (s.early = 0 => cut = 0)
  BY <1>2
<1>4. /\ script[c] = NoScript /\ inpipe[c] = 0 /\ outpipe[c] = 0 /\ conn[c].sent = 0
      /\ conn[c].held = 0 /\ conn[c].lost = 0
      /\ remote[c].rest = IF s.early < s.body THEN s.body - s.early ELSE 0
  BY <1>1 DEF IInv, Local, Fresh, Supplied, Opened
<1>5. /\ conn'[c].stage = (IF s.post /\ s.early < s.body THEN "receive" ELSE "send")
      /\ conn'[c].shape = s /\ conn'[c].datac = s.early /\ conn'[c].sent = 0
      /\ conn'[c].pid = (IF forks THEN "child" ELSE "failed")
      /\ conn'[c].feedback = conn[c].feedback
      /\ conn'[c].held = 0 /\ conn'[c].lost = 0
  BY <1>1, <1>4 DEF IInv, TypeOK
<1>6. /\ script'[c].state = (IF forks THEN "running" ELSE "none")
      /\ script'[c].got = 0 /\ script'[c].wrote = 0 /\ script'[c].eof = FALSE
  BY <1>1, <1>4 DEF IInv, TypeOK, Forked, NoScript
<1>7. Due(c)' = cut /\ Left(c)' = cut
  BY <1>1, <1>2, <1>3, <1>5, NobodyAssumption DEF Due, Left, NoWrite
<1>8. TypeOK'
  <2>1. conn' \in [Clients -> Connection]
    BY <1>1, <1>2 DEF IInv, TypeOK, Stages, Connection
  <2>2. Forked(c) \in Process
    BY DEF IInv, TypeOK, Forked, NoScript, Process
  <2>3. script' \in [Clients -> Process]
    BY <1>1, <2>2 DEF IInv, TypeOK, Process
  <2>4. writing' \in [client : Clients \cup {Nobody}, left : Nat]
    BY <1>1, <1>3 DEF NoWrite
  <2> QED BY <1>1, <2>1, <2>3, <2>4 DEF IInv, TypeOK, Connection, Process
<1> HIDE DEF cut, forks
<1>9. Opened(c)' /\ Onward(c)
  BY <1>1, <1>5 DEF Opened, Onward
<1>10. Local(c)'
  <2>1. /\ Fresh(c)' /\ InputClosed(c)' /\ SawEnd(c)' /\ Drained(c)' /\ Forks(c)'
        /\ Shorted(c)'
    BY <1>1, <1>4, <1>5, <1>6, <1>9 DEF Fresh, InputClosed, SawEnd, Drained, Forks, Shorted
  <2>2. Supplied(c)'
    <3>1. /\ conn'[c].stage \in {"receive", "send"} /\ conn'[c].shape = s
          /\ conn'[c].datac = s.early /\ remote' = remote /\ inpipe'[c] = 0
          /\ conn'[c].stage = "receive" => s.early < s.body
      BY <1>1, <1>4, <1>5
    <3>2. script'[c].got + inpipe'[c] + Left(c)' = Due(c)'
      BY <1>3, <1>6, <1>7, <3>1
    <3>3. script'[c].got + inpipe'[c] + Left(c)' <= Due(c)'
      BY <1>3, <1>6, <1>7, <3>1
    <3>4. conn'[c].stage = "receive" => s.early + remote[c].rest = s.body
      BY <1>2, <1>4, <3>1
    <3> QED BY <3>1, <3>2, <3>3, <3>4 DEF Supplied
  <2>3. PipesKept(c)'
    <3>1. ~s.post => s.body = 0
      BY BodiesAssumption DEF IInv, TypeOK, Blank
    <3>2. writing'.client = c \/ s.early = 0
      BY <1>1
    <3>3. conn'[c].stage = "send" => s.early >= s.body
      BY <1>2, <1>5, <3>1
    <3>4. s.early = 0 => conn'[c].stage = "receive" \/ s.body = 0
      BY <1>2, <1>5, <3>1
    <3> QED BY <1>2, <1>5, <3>2, <3>3, <3>4 DEF PipesKept, BodyWritten
  <2> QED BY <2>1, <2>2, <2>3 DEF Local
<1>11. Whole(c)'
  BY <1>5, <1>6 DEF Whole
<1>12. \A d \in Clients \ {c} : Same(d)
  BY <1>1, NobodyAssumption DEF Same, IInv, TypeOK, NoWrite
<1>13. Addressed'
  BY <1>1, NobodyAssumption DEF Addressed, NoWrite
<1> QED BY <1>8, <1>9, <1>10, <1>11, <1>12, <1>13, OneConnection

(***************************************************************************)
(* Read() takes a part of the body and starts to write it.                 *)
(***************************************************************************)
LEMMA ReceiveInvariant ==
  ASSUME IInv, NEW c \in Clients, NEW n \in Units, Receive(c, n)
  PROVE  IInv'
<1> DEFINE datac == conn[c].datac + n
           body == conn[c].shape.body
<1>1. /\ conn[c].stage = "receive" /\ writing = NoWrite /\ n <= remote[c].rest
      /\ remote' = [remote EXCEPT ![c].rest = remote[c].rest - n]
      /\ conn' = [conn EXCEPT ![c].datac = datac,
                              ![c].stage = IF datac >= body THEN "send" ELSE "receive"]
      /\ writing' = [client |-> c, left |-> n]
      /\ UNCHANGED <<script, inpipe, outpipe, inends, outends, sockets, limit, undef>>
  BY DEF Receive, Free, ends
<1>2. /\ conn[c].datac \in Nat /\ body \in Nat /\ remote[c].rest \in Nat /\ n \in Nat
      /\ script[c].got \in Nat /\ inpipe[c] \in Nat
  BY FieldTypes DEF IInv, Units
<1>3. /\ conn[c].datac < body /\ conn[c].datac + remote[c].rest = body
      /\ script[c].got + inpipe[c] <= conn[c].datac
      /\ Running(c) => script[c].got + inpipe[c] = conn[c].datac
  <2>1. Left(c) = 0 /\ Opened(c) /\ Supplied(c)
    BY <1>1, NobodyAssumption DEF Left, NoWrite, Opened, IInv, Local
  <2> QED BY <1>1, <1>2, <2>1 DEF Supplied, Due
<1>4. /\ conn'[c].stage = (IF datac >= body THEN "send" ELSE "receive")
      /\ conn'[c].shape = conn[c].shape /\ conn'[c].datac = datac
      /\ conn'[c].sent = conn[c].sent /\ conn'[c].pid = conn[c].pid
      /\ conn'[c].held = conn[c].held /\ conn'[c].lost = conn[c].lost
      /\ conn'[c].short = conn[c].short
      /\ remote'[c].rest = remote[c].rest - n /\ remote'[c].gone = remote[c].gone
  BY <1>1 DEF IInv, TypeOK
<1>5. Due(c)' = datac /\ Left(c)' = n
  BY <1>1, <1>2, <1>3, <1>4 DEF Due, Left
<1>6. TypeOK'
  <2>1. datac \in Nat /\ remote[c].rest - n \in Nat
    BY <1>1, <1>2
  <2> HIDE DEF datac
  <2>2. conn' \in [Clients -> Connection]
    <3> DEFINE stage == IF datac >= body THEN "send" ELSE "receive"
               k == [conn[c] EXCEPT !.datac = datac, !.stage = stage]
    <3>1. stage \in Stages
      BY DEF Stages
    <3>2. conn' = [conn EXCEPT ![c] = k]
      BY <1>1 DEF IInv, TypeOK
    <3> HIDE DEF stage
    <3>3. k \in Connection
      <4>1. conn[c] \in Connection
        BY DEF IInv, TypeOK, Connection
      <4> QED BY <2>1, <3>1, <4>1 DEF Connection
    <3> HIDE DEF k
    <3> QED BY <3>2, <3>3, Replaced DEF IInv
  <2>3. remote' \in [Clients -> [rest : Nat, gone : BOOLEAN]]
    BY <1>1, <2>1 DEF IInv, TypeOK
  <2> QED BY <1>1, <1>2, <2>2, <2>3 DEF IInv, TypeOK, Connection
<1>7. Opened(c) /\ Opened(c)' /\ Onward(c)
  BY <1>1, <1>4 DEF Opened, Onward
<1>8. Local(c)'
  <2>1. Fresh(c)' /\ SawEnd(c)' /\ Drained(c)' /\ Forks(c)' /\ Shorted(c)'
    BY <1>1, <1>4, <1>7 DEF IInv, Local, Fresh, SawEnd, Drained, Forks, Shorted
  <2>2. InputClosed(c)'
    BY <1>1, <1>2, <1>3, <1>4 DEF IInv, Local, InputClosed, BodyWritten, Running
  <2>3. Supplied(c)'
    BY <1>1, <1>2, <1>3, <1>4, <1>5 DEF Supplied, Running
  <2>4. PipesKept(c)'
    BY <1>1, <1>4 DEF PipesKept, BodyWritten
  <2> QED BY <2>1, <2>2, <2>3, <2>4 DEF Local
<1>9. Whole(c)' \/ ForkFailed
  BY <1>1, <1>4 DEF IInv, Whole, Wrote
<1>10. \A d \in Clients \ {c} : Same(d)
  BY <1>1, NobodyAssumption DEF Same, IInv, TypeOK, NoWrite
<1>11. Addressed'
  BY <1>1, NobodyAssumption DEF Addressed
<1> QED BY <1>6, <1>7, <1>8, <1>9, <1>10, <1>11, OneConnection

(***************************************************************************)
(* The pipe takes one unit of what is written.                             *)
(***************************************************************************)
LEMMA WriteOnInvariant == ASSUME IInv, WriteOn PROVE IInv'
<1>a. PICK c \in Clients : c = writing.client
  BY DEF WriteOn, IInv, TypeOK, Addressed, NoWrite
<1>1. /\ writing.left > 0 /\ Running(c) /\ inpipe[c] < InCap
      /\ inpipe' = [inpipe EXCEPT ![c] = inpipe[c] + 1]
      /\ writing' = [writing EXCEPT !.left = writing.left - 1]
      /\ UNCHANGED <<conn, script, outpipe, inends, outends, sockets, remote, limit, undef>>
  BY <1>a DEF WriteOn, Room, ends
<1>2. c = writing.client /\ writing.left \in Nat
  BY <1>a DEF IInv, TypeOK
<1>3. inpipe[c] \in 0..InCap /\ inpipe[c] + 1 \in 0..InCap /\ writing.left - 1 \in Nat
  BY <1>1, <1>2, PipesAssumption DEF IInv, TypeOK
<1>4. writing'.client = c /\ writing'.left = writing.left - 1 /\ inpipe'[c] = inpipe[c] + 1
      /\ writing' \in [client : Clients \cup {Nobody}, left : Nat]
  BY <1>1, <1>2, <1>3 DEF IInv, TypeOK
<1>5. TypeOK'
  BY <1>1, <1>2, <1>3, <1>4 DEF IInv, TypeOK
<1>6. Left(c) = writing.left /\ Left(c)' = writing.left - 1 /\ Due(c)' = Due(c)
  BY <1>1, <1>2, <1>4 DEF Left, Due
<1>7. /\ script[c].got \in Nat /\ Due(c) \in Nat /\ inpipe[c] \in Nat
      /\ Local(c) /\ (Whole(c) \/ ForkFailed)
  BY <1>2, <1>3, FieldTypes DEF IInv
<1>8. Opened(c) /\ Onward(c)
  BY <1>1, <1>2, <1>7 DEF Local, Fresh, Onward, Opened
<1>9. Local(c)'
  <2>1. Supplied(c)'
    <3>1. script[c].got + inpipe[c] + Left(c) = Due(c)
      BY <1>1, <1>7, <1>8 DEF Local, Supplied
    <3> QED
      BY <1>1, <1>2, <1>4, <1>6, <1>7, <3>1 DEF Local, Supplied
  <2>2. /\ Fresh(c)' /\ InputClosed(c)' /\ SawEnd(c)' /\ Drained(c)' /\ Forks(c)'
        /\ Shorted(c)'
    BY <1>1, <1>4, <1>7, <1>8 DEF Local, Fresh, InputClosed, SawEnd, Drained, Forks, Shorted,
                                  Opened, Running, BodyWritten
  <2>3. PipesKept(c)'
    BY <1>1, <1>2, <1>4, <1>7 DEF Local, PipesKept, BodyWritten, Opened
  <2> QED BY <2>1, <2>2, <2>3 DEF Local
<1>10. Whole(c)' \/ ForkFailed
  BY <1>1, <1>7 DEF Whole, Wrote, Running
<1>11. \A d \in Clients \ {c} : Same(d)
  BY <1>1, <1>2, <1>4 DEF Same, IInv, TypeOK
<1>12. Addressed'
  BY <1>2, <1>4, NobodyAssumption DEF Addressed
<1> QED BY <1>2, <1>5, <1>8, <1>9, <1>10, <1>11, <1>12, OneConnection

(***************************************************************************)
(* write() returns, and the input is closed behind the body.               *)
(***************************************************************************)
LEMMA WriteDoneInvariant == ASSUME IInv, WriteDone PROVE IInv'
<1>a. PICK c \in Clients : c = writing.client
  BY DEF WriteDone, IInv, TypeOK, Addressed
<1>1. /\ writing # NoWrite /\ writing' = NoWrite
      /\ writing.left = 0 \/ ~Running(c)
      /\ inends' = IF BodyWritten(c) THEN inends \ {c} ELSE inends
      /\ UNCHANGED <<conn, script, inpipe, outpipe, outends, sockets, remote, limit, undef>>
  BY <1>a DEF WriteDone, WriteOver
<1>2. c = writing.client
  BY <1>a
<1>3. Left(c) = writing.left
  BY <1>a DEF Left
<1>4. TypeOK'
  BY <1>1 DEF IInv, TypeOK, NoWrite
<1>5. writing'.client # c /\ Left(c)' = 0 /\ Due(c)' = Due(c)
  BY <1>1, <1>2, NobodyAssumption DEF NoWrite, Left, Due
<1>6. /\ script[c].got \in Nat /\ Due(c) \in Nat /\ inpipe[c] \in Nat /\ writing.left \in Nat
      /\ Local(c) /\ (Whole(c) \/ ForkFailed)
  BY <1>2, FieldTypes DEF IInv
<1>7. Opened(c) /\ Onward(c)
  BY <1>1, <1>2, <1>6 DEF Local, Fresh, Onward, Opened
<1>8. Local(c)'
  <2>1. Supplied(c)'
    BY <1>1, <1>3, <1>5, <1>6, <1>7 DEF Local, Supplied, Opened, Running
  <2>2. /\ Fresh(c)' /\ InputClosed(c)' /\ SawEnd(c)' /\ Drained(c)' /\ Forks(c)'
        /\ Shorted(c)'
    BY <1>1, <1>2, <1>5, <1>6, <1>7 DEF Local, Fresh, InputClosed, SawEnd, Drained, Forks,
                                        Shorted, Opened, Running, BodyWritten
  <2>3. PipesKept(c)'
    <3>1. conn[c].stage \in {"receive", "send"} /\ (conn[c].stage = "send" => BodyWritten(c))
      BY <1>2, <1>6 DEF Local, PipesKept
    <3>2. c \in inends' => ~BodyWritten(c)
      BY <1>1
    <3> QED BY <1>1, <1>5, <3>1, <3>2 DEF PipesKept, BodyWritten, Opened
  <2> QED BY <2>1, <2>2, <2>3 DEF Local
<1>9. Whole(c)' \/ ForkFailed
  BY <1>1, <1>6 DEF Whole, Wrote, Running
<1>10. \A d \in Clients \ {c} : Same(d)
  BY <1>1, <1>2, NobodyAssumption DEF Same, NoWrite
<1> QED BY <1>1, <1>2, <1>4, <1>7, <1>8, <1>9, <1>10, OneConnection DEF Addressed

(***************************************************************************)
(* Read() fails: the input is closed, the script goes on.                  *)
(***************************************************************************)
LEMMA AbortedInvariant == ASSUME IInv, NEW c \in Clients, Aborted(c) PROVE IInv'
<1>1. /\ conn[c].stage = "receive" /\ remote[c].gone /\ writing = NoWrite
      /\ conn' = [conn EXCEPT ![c].stage = "closed"]
      /\ inends' = inends \ {c} /\ sockets' = sockets \ {c}
      /\ UNCHANGED <<script, inpipe, outpipe, outends, writing, remote, limit, undef>>
  BY DEF Aborted, Free
<1>2. TypeOK'
  <2>1. [conn[c] EXCEPT !.stage = "closed"] \in Connection
    <3>1. conn[c] \in Connection
      BY DEF IInv, TypeOK, Connection
    <3> QED BY <3>1 DEF Connection, Stages
  <2>2. conn' \in [Clients -> Connection]
    BY <1>1, <2>1, Replaced DEF IInv, TypeOK
  <2> QED BY <1>1, <2>2 DEF IInv, TypeOK, Connection
<1>3. /\ conn'[c].stage = "closed" /\ conn'[c].shape = conn[c].shape
      /\ conn'[c].datac = conn[c].datac /\ conn'[c].sent = conn[c].sent
      /\ conn'[c].held = conn[c].held /\ conn'[c].lost = conn[c].lost
      /\ conn'[c].short = conn[c].short /\ conn'[c].pid = conn[c].pid
  BY <1>1 DEF IInv, TypeOK
<1>4. Left(c)' = Left(c) /\ Due(c)' = Due(c)
  BY <1>1, <1>3 DEF Left, Due
<1>5. Opened(c) /\ Opened(c)' /\ Onward(c)
  BY <1>1, <1>3 DEF Opened, Onward
<1>6. Local(c)'
  <2>1. PipesKept(c)'
    <3>1. conn[c].datac \in Nat /\ conn[c].shape.body \in Nat /\ ~BodyWritten(c)
      BY <1>1, FieldTypes DEF IInv, Local, Supplied, BodyWritten
    <3> QED BY <1>1, <1>3, <3>1, NobodyAssumption DEF PipesKept, NoWrite, BodyWritten
  <2> QED
    BY <1>1, <1>3, <1>4, <1>5, <2>1 DEF IInv, Local, Fresh, Supplied, InputClosed, SawEnd,
                                        Drained, Forks, Shorted, Running
<1>7. Whole(c)'
  BY <1>1, <1>3 DEF Whole
<1>8. \A d \in Clients \ {c} : Same(d)
  BY <1>1 DEF Same, IInv, TypeOK
<1> QED BY <1>1, <1>2, <1>5, <1>6, <1>7, <1>8, OneConnection DEF IInv, Addressed

(***************************************************************************)
(* Write() reads m units of output, sends k of those it has to send and    *)
(* holds the rest; what it loses is what it read beside a full buffer.     *)
(***************************************************************************)
LEMMA SendInvariant ==
  ASSUME IInv, NEW c \in Clients, NEW n \in Nat, NEW k \in Nat, NEW dropped \in Nat,
         NEW m \in Nat, m <= outpipe[c], Send(c, n, k, dropped),
         n + dropped = conn[c].held + m, dropped > 0 => conn[c].short,
         outpipe' = [outpipe EXCEPT ![c] = outpipe[c] - m],
         UNCHANGED <<script, inpipe, inends, outends, sockets, writing, remote, limit, undef>>
  PROVE  IInv'
<1>1. /\ conn[c].stage = "send" /\ k <= n
      /\ conn' = [conn EXCEPT ![c].feedback = TRUE, ![c].held = n - k,
                              ![c].sent = conn[c].sent + k,
                              ![c].lost = conn[c].lost + dropped,
                              ![c].short = conn[c].short \/ k < n]
  BY DEF Send
<1>2. /\ outpipe[c] \in 0..OutCap /\ conn[c].sent \in Nat /\ OutCap \in Nat
      /\ conn[c].held \in Nat /\ conn[c].lost \in Nat /\ conn[c].short \in BOOLEAN
      /\ script[c].wrote \in Nat
  BY FieldTypes, PipesAssumption DEF IInv
<1>3. /\ outpipe[c] - m \in 0..OutCap /\ conn[c].sent + k \in Nat /\ n - k \in Nat
      /\ conn[c].lost + dropped \in Nat
  <2>1. \A a \in 0..OutCap : m <= a => a - m \in 0..OutCap
    BY <1>2
  <2>2. \A a, b \in Nat : a + b \in Nat /\ (b <= a => a - b \in Nat)
    OBVIOUS
  <2> QED BY <1>1, <1>2, <2>1, <2>2
<1>4. TypeOK'
  <2> DEFINE sent == conn[c].sent + k
             held == n - k
             lost == conn[c].lost + dropped
             short == conn[c].short \/ k < n
             q == [conn[c] EXCEPT !.feedback = TRUE, !.held = held, !.sent = sent,
                                  !.lost = lost, !.short = short]
  <2>1. sent \in Nat /\ held \in Nat /\ lost \in Nat /\ short \in BOOLEAN
    BY <1>3
  <2>2. conn' = [conn EXCEPT ![c] = q]
    BY <1>1 DEF IInv, TypeOK
  <2> HIDE DEF sent, held, lost, short
  <2>3. q \in Connection
    <3>1. conn[c] \in Connection
      BY DEF IInv, TypeOK, Connection
    <3> QED BY <2>1, <3>1 DEF Connection
  <2> HIDE DEF q
  <2>4. conn' \in [Clients -> Connection]
    BY <2>2, <2>3, Replaced DEF IInv
  <2> QED BY <1>3, <2>4 DEF IInv, TypeOK, Connection
<1>5. /\ conn'[c].stage = "send" /\ conn'[c].shape = conn[c].shape
      /\ conn'[c].datac = conn[c].datac /\ conn'[c].sent = conn[c].sent + k
      /\ conn'[c].held = n - k /\ conn'[c].lost = conn[c].lost + dropped
      /\ conn'[c].short = (conn[c].short \/ k < n)
      /\ conn'[c].pid = conn[c].pid /\ outpipe'[c] = outpipe[c] - m
  BY <1>1 DEF IInv, TypeOK
<1>6. Left(c)' = Left(c) /\ Due(c)' = Due(c)
  BY <1>5 DEF Left, Due
<1>7. Opened(c) /\ Opened(c)' /\ Onward(c)
  BY <1>1, <1>5 DEF Opened, Onward
<1>8. Local(c)'
  <2>1. Drained(c)'
    <3>1. conn'[c].sent + conn'[c].held + conn'[c].lost + outpipe'[c]
            = conn[c].sent + conn[c].held + conn[c].lost + outpipe[c]
      BY <1>2, <1>5
    <3> QED BY <3>1 DEF IInv, Local, Drained
  <2>2. Shorted(c)'
    <3>1. conn[c].held > 0 \/ conn[c].lost > 0 => conn[c].short
      BY DEF IInv, Local, Shorted
    <3>2. n - k > 0 => k < n
      BY <1>1
    <3>3. conn[c].lost + dropped > 0 => conn[c].lost > 0 \/ dropped > 0
      BY <1>2
    <3>4. conn'[c].held > 0 => conn'[c].short
      BY <1>5, <3>2, Zenon
    <3>5. conn'[c].lost > 0 => conn'[c].short
      BY <1>5, <3>1, <3>3, Zenon
    <3> QED BY <3>4, <3>5 DEF Shorted
  <2>3. PipesKept(c)'
    BY <1>1, <1>5 DEF IInv, Local, PipesKept, Opened, BodyWritten
  <2> QED
    BY <1>1, <1>5, <1>6, <1>7, <2>1, <2>2, <2>3
       DEF IInv, Local, Fresh, Supplied, InputClosed, SawEnd, Forks, Running, BodyWritten
<1>9. Whole(c)' \/ ForkFailed
  BY <1>1, <1>5 DEF IInv, Whole, Wrote, Running
<1>10. \A d \in Clients \ {c} : Same(d)
  BY <1>1 DEF Same, IInv, TypeOK
<1> QED BY <1>4, <1>7, <1>8, <1>9, <1>10, OneConnection DEF IInv, Addressed

(***************************************************************************)
(* Write() sends on what it read from the script, or what it held.         *)
(***************************************************************************)
LEMMA ForwardInvariant ==
  ASSUME IInv, NEW c \in Clients, NEW n \in Units, NEW k \in Units \cup {0},
         Forward(c, n, k) \/ Flush(c, k)
  PROVE  IInv'
<1>1. /\ n \in Nat /\ k \in Nat /\ conn[c].held \in Nat /\ outpipe[c] \in Nat
      /\ Shorted(c)
  BY FieldTypes DEF IInv, Local, Units
<1>2. CASE Forward(c, n, k)
  <2>1. /\ n <= outpipe[c] /\ outpipe' = [outpipe EXCEPT ![c] = outpipe[c] - n]
        /\ UNCHANGED <<script, inpipe, inends, outends, sockets, writing, remote, limit, undef>>
    BY <1>2 DEF Forward, ends
  <2>2. CASE conn[c].held > 0
    <3>1. Send(c, conn[c].held, k, n)
      BY <1>2, <2>2 DEF Forward
    <3>2. conn[c].short
      BY <1>1, <2>2 DEF Shorted
    <3> QED BY <1>1, <2>1, <3>1, <3>2, SendInvariant
  <2>3. CASE ~(conn[c].held > 0)
    <3>1. Send(c, n, k, 0) /\ conn[c].held = 0
      BY <1>1, <1>2, <2>3 DEF Forward
    <3>2. n + 0 = conn[c].held + n /\ ~(0 > 0)
      BY <1>1, <3>1
    <3> QED BY <1>1, <2>1, <3>1, <3>2, SendInvariant
  <2> QED BY <2>2, <2>3
<1>3. CASE Flush(c, k)
  <2>1. /\ Send(c, conn[c].held, k, 0)
        /\ UNCHANGED <<script, inpipe, outpipe, inends, outends, sockets, writing, remote, limit,
                       undef>>
    BY <1>3 DEF Flush, ends
  <2>2. outpipe' = [outpipe EXCEPT ![c] = outpipe[c] - 0] /\ 0 <= outpipe[c]
    BY <1>1, <2>1 DEF IInv, TypeOK
  <2>3. conn[c].held + 0 = conn[c].held + 0 /\ ~(0 > 0)
    BY <1>1
  <2> QED BY <1>1, <2>1, <2>2, <2>3, SendInvariant
<1> QED BY <1>2, <1>3

(***************************************************************************)
(* Write() goes on without output, or is undefined.                        *)
(***************************************************************************)
LEMMA ScanNothingInvariant ==
  ASSUME IInv, NEW c \in Clients, ScanNothing(c) \/ SendAgain(c)
  PROVE  IInv'
<1>1. /\ conn[c].stage = "send" /\ undef' \in BOOLEAN
      /\ conn' = conn \/ conn' = [conn EXCEPT ![c].feedback = TRUE]
      /\ UNCHANGED <<script, inpipe, outpipe, inends, outends, sockets, writing, remote, limit>>
  BY DEF ScanNothing, SendAgain, Sending, ends
<1>2. TypeOK'
  <2>1. [conn[c] EXCEPT !.feedback = TRUE] \in Connection
    <3>1. conn[c] \in Connection
      BY DEF IInv, TypeOK, Connection
    <3> QED BY <3>1 DEF Connection
  <2>2. [conn EXCEPT ![c].feedback = TRUE] \in [Clients -> Connection]
    BY <2>1, Replaced DEF IInv
  <2> QED BY <1>1, <2>2 DEF IInv, TypeOK, Connection
<1>3. /\ conn'[c].stage = conn[c].stage /\ conn'[c].shape = conn[c].shape
      /\ conn'[c].datac = conn[c].datac /\ conn'[c].sent = conn[c].sent
      /\ conn'[c].held = conn[c].held /\ conn'[c].lost = conn[c].lost
      /\ conn'[c].short = conn[c].short /\ conn'[c].pid = conn[c].pid
  BY <1>1 DEF IInv, TypeOK
<1>4. Left(c)' = Left(c) /\ Due(c)' = Due(c)
  BY <1>1, <1>3 DEF Left, Due
<1>5. Local(c)'
  <2>1. PipesKept(c)'
    BY <1>1, <1>3 DEF IInv, Local, PipesKept, Opened, BodyWritten
  <2> QED
    BY <1>1, <1>3, <1>4, <2>1 DEF IInv, Local, Fresh, Supplied, InputClosed, SawEnd, Drained,
                                  Forks, Shorted, Opened, Running, BodyWritten
<1>6. (Whole(c)' \/ ForkFailed) /\ Onward(c)
  BY <1>1, <1>3 DEF IInv, Whole, Onward, Opened, Wrote, Running
<1>7. \A d \in Clients \ {c} : Same(d)
  BY <1>1 DEF Same, IInv, TypeOK
<1> QED BY <1>1, <1>2, <1>5, <1>6, <1>7, OneConnection DEF IInv, Addressed

(***************************************************************************)
(* Clear(): scripts are killed, and the connection of one of them closed.  *)
(***************************************************************************)
LEMMA CloseInvariant ==
  ASSUME IInv, NEW c \in Clients, conn[c].stage = "send", Close(c),
         outpipe' = [outpipe EXCEPT ![c] = 0],
         conn' = [conn EXCEPT ![c].stage = "closed", ![c].pid = "none"],
         UNCHANGED <<inpipe, inends, writing, remote, limit, undef>>,
         writing = NoWrite,
         remote[c].gone \/ (OutputEnded(c) /\ conn[c].held = 0)
  PROVE  IInv'
<1>1. script' = [d \in Clients |-> IF d \in Killed(c)
                                   THEN [script[d] EXCEPT !.state = "zombie"] ELSE script[d]]
      /\ outends' = outends \ {c} /\ sockets' = sockets \ {c}
  BY DEF Close
<1>2. ASSUME NEW d \in Clients
      PROVE  /\ script'[d] \in Process
             /\ script'[d].got = script[d].got /\ script'[d].wrote = script[d].wrote
             /\ script'[d].eof = script[d].eof
             /\ script'[d].state = IF d \in Killed(c) THEN "zombie" ELSE script[d].state
             /\ d \notin Killed(c) => script'[d] = script[d]
  <2>1. script[d] \in Process
    BY DEF IInv, TypeOK, Process
  <2> QED BY <1>1, <2>1 DEF Process
<1>3. TypeOK'
  <2>1. [conn[c] EXCEPT !.stage = "closed", !.pid = "none"] \in Connection
    <3>1. conn[c] \in Connection
      BY DEF IInv, TypeOK, Connection
    <3> QED BY <3>1 DEF Connection, Stages
  <2>2. conn' = [conn EXCEPT ![c] = [conn[c] EXCEPT !.stage = "closed", !.pid = "none"]]
    BY DEF IInv, TypeOK
  <2>3. conn' \in [Clients -> Connection]
    BY <2>1, <2>2, Replaced DEF IInv
  <2>4. script' \in [Clients -> Process]
    BY <1>1, <1>2
  <2>5. outpipe' \in [Clients -> 0..OutCap]
    BY PipesAssumption DEF IInv, TypeOK
  <2> QED BY <1>1, <2>3, <2>4, <2>5 DEF IInv, TypeOK, Connection, Process
<1>4. /\ conn'[c].stage = "closed" /\ conn'[c].shape = conn[c].shape
      /\ conn'[c].datac = conn[c].datac /\ conn'[c].sent = conn[c].sent
      /\ conn'[c].held = conn[c].held /\ conn'[c].lost = conn[c].lost
      /\ conn'[c].short = conn[c].short
      /\ conn'[c].pid = "none" /\ outpipe'[c] = 0
  BY DEF IInv, TypeOK
<1>5. \A d \in Clients \ {c} : conn'[d] = conn[d] /\ outpipe'[d] = outpipe[d]
  BY DEF IInv, TypeOK
<1>6. Opened(c) /\ \A d \in Clients : Opened(d)' <=> Opened(d)
  BY <1>4, <1>5 DEF Opened
<1>7. \A d \in Clients : d \in Killed(c) => Running(d) /\ (d = c \/ conn[c].pid = "failed")
  BY DEF Killed
<1>8. ASSUME ForkFailed PROVE ForkFailed'
  BY <1>2, <1>6, <1>7, <1>8 DEF ForkFailed, Running
<1>9. ASSUME NEW d \in Clients PROVE Local(d)'
  <2>1. Left(d)' = Left(d) /\ Due(d)' = Due(d) /\ (Running(d)' => Running(d))
    <3>1. Left(d)' = Left(d)
      BY DEF Left
    <3>2. Due(d)' = Due(d)
      <4>1. conn'[d].shape = conn[d].shape /\ conn'[d].datac = conn[d].datac
        BY <1>4, <1>5
      <4> QED BY <4>1 DEF Due
    <3>3. Running(d)' => Running(d)
      BY <1>2 DEF Running
    <3> QED BY <3>1, <3>2, <3>3
  <2>2. Local(d)
    BY DEF IInv
  <2>3. Fresh(d)'
    <3>1. ~Opened(d) => d # c /\ d \notin Killed(c)
      BY <1>6, <1>7, <2>2 DEF Local, Fresh, Running, NoScript
    <3> QED BY <1>2, <1>5, <1>6, <2>2, <3>1 DEF Local, Fresh
  <2>4. Supplied(d)'
    BY <1>2, <1>4, <1>5, <1>6, <2>1, <2>2 DEF Local, Supplied
  <2>5. InputClosed(d)'
    BY <1>4, <1>5, <2>1, <2>2 DEF Local, InputClosed, BodyWritten
  <2>6. SawEnd(d)'
    <3>1. script'[d].eof = script[d].eof /\ script'[d].got = script[d].got
      BY <1>2
    <3>2. conn'[d].shape = conn[d].shape
      BY <1>4, <1>5
    <3>3. SawEnd(d)
      BY <2>2 DEF Local
    <3> QED BY <3>1, <3>2, <3>3 DEF SawEnd
  <2>7. Drained(d)'
    <3>1. CASE d = c
      BY <1>2, <1>4, <2>2, <3>1 DEF Local, Drained, OutputEnded
    <3>2. CASE d # c
      BY <1>2, <1>5, <2>2, <3>2 DEF Local, Drained
    <3> QED BY <3>1, <3>2
  <2>8. Forks(d)'
    BY <1>2, <1>4, <1>5, <1>6, <1>7, <2>2 DEF Local, Forks, Running
  <2>9. Shorted(d)'
    BY <1>4, <1>5, <2>2 DEF Local, Shorted
  <2>10. PipesKept(d)'
    <3>1. CASE d = c
      <4>1. /\ writing'.client # c /\ c \notin outends'
            /\ c \in inends' => conn[c].shape.body = 0 /\ conn[c].shape.early = 0
        BY <1>1, <1>6, <2>2, <3>1, NobodyAssumption DEF Local, PipesKept, NoWrite
      <4> QED BY <1>4, <3>1, <4>1 DEF PipesKept
    <3>2. CASE d # c
      <4>1. conn'[d] = conn[d] /\ (d \in outends' <=> d \in outends)
        BY <1>1, <1>5, <3>2
      <4> QED BY <2>2, <4>1 DEF Local, PipesKept, Opened, BodyWritten
    <3> QED BY <3>1, <3>2
  <2> QED BY <2>3, <2>4, <2>5, <2>6, <2>7, <2>8, <2>9, <2>10 DEF Local
<1>10. ASSUME NEW d \in Clients PROVE Whole(d)'
  <2>1. CASE ForkFailed
    BY <1>8, <2>1 DEF Whole
  <2>2. CASE ~ForkFailed /\ d # c
    <3>1. conn[c].pid # "failed"
      BY <2>2 DEF IInv, Local, Forks, ForkFailed
    <3>2. script'[d] = script[d]
      BY <1>2, <1>7, <2>2, <3>1
    <3> QED BY <1>5, <2>2, <3>2 DEF IInv, Whole, Wrote, Running
  <2>3. CASE ~ForkFailed /\ d = c
    <3>1. remote[c].gone \/ (~Running(c) /\ outpipe[c] = 0 /\ conn[c].held = 0)
      BY DEF OutputEnded
    <3>2. CASE ~Running(c) /\ outpipe[c] = 0 /\ conn[c].held = 0 /\ ~remote[c].gone
      <4>1. script[c].state = "zombie"
        BY <1>6, <2>3, <3>2, FieldTypes DEF IInv, ForkFailed, Running
      <4>2. Wrote(c)
        BY <2>3, <4>1 DEF IInv, Whole
      <4>3. /\ conn[c].sent \in Nat /\ conn[c].lost \in Nat
            /\ conn[c].sent + conn[c].held + conn[c].lost + outpipe[c] = script[c].wrote
        BY <3>2, FieldTypes DEF IInv, Local, Drained
      <4>4. conn'[c].sent + conn'[c].lost = conn'[c].shape.out
        BY <1>4, <3>2, <4>2, <4>3 DEF Wrote
      <4> QED BY <1>2, <1>4, <1>7, <2>3, <3>2, <4>4 DEF Whole, Running
    <3>3. CASE remote[c].gone
      BY <1>4, <2>3, <3>3 DEF Whole
    <3> QED BY <3>1, <3>2, <3>3 DEF IInv, TypeOK
  <2> QED BY <2>1, <2>2, <2>3
<1> QED BY <1>3, <1>9, <1>10 DEF IInv, Addressed

(***************************************************************************)
(* A response ends because the remote end left, or behind all output.      *)
(***************************************************************************)
LEMMA EndInvariant ==
  ASSUME IInv, NEW c \in Clients, SendFails(c) \/ Finish(c)
  PROVE  IInv'
<1>1. CASE SendFails(c)
  BY <1>1, CloseInvariant DEF SendFails, Sending, Free
<1>2. CASE Finish(c)
  <2>1. outpipe' = [outpipe EXCEPT ![c] = 0]
    BY <1>2 DEF Finish, OutputEnded, IInv, TypeOK
  <2> QED BY <1>2, <2>1, CloseInvariant DEF Finish, Free
<1> QED BY <1>1, <1>2

-----------------------------------------------------------------------------
(* Scripts.                                                                *)

(***************************************************************************)
(* A script reads a unit of its input.                                     *)
(***************************************************************************)
LEMMA ScriptReadsInvariant == ASSUME IInv, NEW c \in Clients, ScriptReads(c) PROVE IInv'
<1>1. /\ Running(c) /\ ~script[c].eof /\ inpipe[c] > 0
      /\ inpipe' = [inpipe EXCEPT ![c] = inpipe[c] - 1]
      /\ script' = [script EXCEPT ![c].got = script[c].got + 1]
      /\ UNCHANGED <<conn, outpipe, inends, outends, sockets, writing, remote, limit, undef>>
  BY DEF ScriptReads, Hungry, ends
<1>2. /\ inpipe[c] \in 0..InCap /\ InCap \in Nat /\ inpipe[c] - 1 \in 0..InCap
      /\ script[c].got \in Nat /\ script[c].got + 1 \in Nat
      /\ Left(c) \in Nat /\ Due(c) \in Nat
  BY <1>1, FieldTypes, PipesAssumption DEF IInv
<1>3. TypeOK'
  <2>1. [script[c] EXCEPT !.got = script[c].got + 1] \in Process
    <3>1. script[c] \in Process
      BY DEF IInv, TypeOK, Process
    <3> QED BY <1>2, <3>1 DEF Process
  <2>2. script' \in [Clients -> Process]
    BY <1>1, <2>1, ReplacedProcess DEF IInv
  <2> QED BY <1>1, <1>2, <2>2 DEF IInv, TypeOK, Process
<1>4. /\ script'[c].state = "running" /\ script'[c].got = script[c].got + 1
      /\ script'[c].wrote = script[c].wrote /\ script'[c].eof = script[c].eof
      /\ inpipe'[c] = inpipe[c] - 1
  BY <1>1 DEF IInv, TypeOK, Running
<1>5. Left(c)' = Left(c) /\ Due(c)' = Due(c)
  BY <1>1 DEF Left, Due
<1>6. Opened(c) /\ Opened(c)' /\ Onward(c)
  BY <1>1 DEF IInv, Local, Fresh, Opened, Onward, Running, NoScript
<1>7. Local(c)'
  <2>1. Supplied(c)'
    BY <1>1, <1>2, <1>4, <1>5, <1>6 DEF IInv, Local, Supplied
  <2> QED
    BY <1>1, <1>4, <1>6, <2>1 DEF IInv, Local, Fresh, InputClosed, SawEnd, Drained, Forks,
                                  Shorted, PipesKept, Opened, Running, BodyWritten
<1>8. Whole(c)' \/ ForkFailed
  BY <1>1, <1>4 DEF IInv, Whole, Wrote, Running
<1>9. \A d \in Clients \ {c} : Same(d)
  BY <1>1 DEF Same, IInv, TypeOK
<1> QED BY <1>1, <1>3, <1>6, <1>7, <1>8, <1>9, OneConnection DEF IInv, Addressed

(***************************************************************************)
(* A script meets the end of its input: the server has closed it, and      *)
(* whatever was written before was read.                                   *)
(***************************************************************************)
LEMMA ScriptSeesEndInvariant == ASSUME IInv, NEW c \in Clients, ScriptSeesEnd(c) PROVE IInv'
<1>1. /\ Running(c) /\ ~script[c].eof /\ inpipe[c] = 0 /\ c \notin inends
      /\ script' = [script EXCEPT ![c].eof = TRUE]
      /\ UNCHANGED <<conn, inpipe, outpipe, inends, outends, sockets, writing, remote, limit,
                     undef>>
  BY DEF ScriptSeesEnd, Hungry, Feeders, ends
<1>2. TypeOK'
  <2>1. [script[c] EXCEPT !.eof = TRUE] \in Process
    <3>1. script[c] \in Process
      BY DEF IInv, TypeOK, Process
    <3> QED BY <3>1 DEF Process
  <2>2. script' \in [Clients -> Process]
    BY <1>1, <2>1, ReplacedProcess DEF IInv
  <2> QED BY <1>1, <2>2 DEF IInv, TypeOK, Process
<1>3. /\ script'[c].state = "running" /\ script'[c].got = script[c].got
      /\ script'[c].wrote = script[c].wrote
  BY <1>1 DEF IInv, TypeOK, Running
<1>4. Left(c)' = Left(c) /\ Due(c)' = Due(c)
  BY <1>1 DEF Left, Due
<1>5. Opened(c) /\ Opened(c)' /\ Onward(c)
  BY <1>1 DEF IInv, Local, Fresh, Opened, Onward, Running, NoScript
<1>6. SawEnd(c)'
  <2>1. CASE remote[c].gone
    BY <1>1, <2>1 DEF SawEnd
  <2>2. CASE ~remote[c].gone
    <3>1. BodyWritten(c) /\ writing.client # c
      BY <1>1, <2>2 DEF IInv, Local, InputClosed
    <3>2. /\ conn[c].datac \in Nat /\ conn[c].shape.body \in Nat /\ script[c].got \in Nat
          /\ script[c].got + inpipe[c] + Left(c) = Due(c)
      BY <1>1, <1>5, FieldTypes DEF IInv, Local, Supplied
    <3>3. Left(c) = 0 /\ Due(c) = conn[c].shape.body
      BY <3>1, <3>2 DEF Left, Due, BodyWritten
    <3>4. script[c].got = conn[c].shape.body
      BY <1>1, <3>2, <3>3
    <3> QED BY <1>1, <1>3, <3>4 DEF SawEnd
  <2> QED BY <2>1, <2>2
<1>7. Local(c)'
  BY <1>1, <1>3, <1>4, <1>5, <1>6 DEF IInv, Local, Fresh, Supplied, InputClosed, Drained,
                                      Forks, Shorted, PipesKept, Opened, Running, BodyWritten
<1>8. Whole(c)' \/ ForkFailed
  BY <1>1, <1>3 DEF IInv, Whole, Wrote, Running
<1>9. \A d \in Clients \ {c} : Same(d)
  BY <1>1 DEF Same, IInv, TypeOK
<1> QED BY <1>1, <1>2, <1>5, <1>7, <1>8, <1>9, OneConnection DEF IInv, Addressed

(***************************************************************************)
(* A script writes a unit of its output.                                   *)
(***************************************************************************)
LEMMA ScriptWritesInvariant == ASSUME IInv, NEW c \in Clients, ScriptWrites(c) PROVE IInv'
<1>1. /\ Running(c) /\ outpipe[c] < OutCap
      /\ outpipe' = [outpipe EXCEPT ![c] = outpipe[c] + 1]
      /\ script' = [script EXCEPT ![c].wrote = script[c].wrote + 1]
      /\ UNCHANGED <<conn, inpipe, inends, outends, sockets, writing, remote, limit, undef>>
  BY DEF ScriptWrites, Talks, ends
<1>2. /\ outpipe[c] \in 0..OutCap /\ OutCap \in Nat /\ outpipe[c] + 1 \in 0..OutCap
      /\ script[c].wrote \in Nat /\ script[c].wrote + 1 \in Nat /\ conn[c].sent \in Nat
      /\ conn[c].held \in Nat /\ conn[c].lost \in Nat
  BY <1>1, FieldTypes, PipesAssumption DEF IInv
<1>3. TypeOK'
  <2>1. [script[c] EXCEPT !.wrote = script[c].wrote + 1] \in Process
    <3>1. script[c] \in Process
      BY DEF IInv, TypeOK, Process
    <3> QED BY <1>2, <3>1 DEF Process
  <2>2. script' \in [Clients -> Process]
    BY <1>1, <2>1, ReplacedProcess DEF IInv
  <2> QED BY <1>1, <1>2, <2>2 DEF IInv, TypeOK, Process
<1>4. /\ script'[c].state = "running" /\ script'[c].got = script[c].got
      /\ script'[c].wrote = script[c].wrote + 1 /\ script'[c].eof = script[c].eof
      /\ outpipe'[c] = outpipe[c] + 1
  BY <1>1 DEF IInv, TypeOK, Running
<1>5. Left(c)' = Left(c) /\ Due(c)' = Due(c)
  BY <1>1 DEF Left, Due
<1>6. Opened(c) /\ Opened(c)' /\ Onward(c)
  BY <1>1 DEF IInv, Local, Fresh, Opened, Onward, Running, NoScript
<1>7. Local(c)'
  <2>1. Drained(c)'
    BY <1>1, <1>2, <1>4 DEF IInv, Local, Drained
  <2> QED
    BY <1>1, <1>4, <1>5, <1>6, <2>1 DEF IInv, Local, Fresh, Supplied, InputClosed, SawEnd,
                                        Forks, Shorted, PipesKept, Opened, Running, BodyWritten
<1>8. Whole(c)' \/ ForkFailed
  BY <1>1, <1>4 DEF IInv, Whole, Running
<1>9. \A d \in Clients \ {c} : Same(d)
  BY <1>1 DEF Same, IInv, TypeOK
<1> QED BY <1>1, <1>3, <1>6, <1>7, <1>8, <1>9, OneConnection DEF IInv, Addressed

(***************************************************************************)
(* A script ends when it has written all.                                  *)
(***************************************************************************)
LEMMA ScriptExitsInvariant == ASSUME IInv, NEW c \in Clients, ScriptExits(c) PROVE IInv'
<1>1. /\ Running(c) /\ Wrote(c)
      /\ script' = [script EXCEPT ![c].state = "zombie"]
      /\ UNCHANGED <<conn, inpipe, outpipe, inends, outends, sockets, writing, remote, limit,
                     undef>>
  BY DEF ScriptExits, Talks, ends
<1>2. TypeOK'
  <2>1. [script[c] EXCEPT !.state = "zombie"] \in Process
    <3>1. script[c] \in Process
      BY DEF IInv, TypeOK, Process
    <3> QED BY <3>1 DEF Process
  <2>2. script' \in [Clients -> Process]
    BY <1>1, <2>1, ReplacedProcess DEF IInv
  <2> QED BY <1>1, <2>2 DEF IInv, TypeOK, Process
<1>3. /\ script'[c].state = "zombie" /\ script'[c].got = script[c].got
      /\ script'[c].wrote = script[c].wrote /\ script'[c].eof = script[c].eof
  BY <1>1 DEF IInv, TypeOK
<1>4. Left(c)' = Left(c) /\ Due(c)' = Due(c)
  BY <1>1 DEF Left, Due
<1>5. Opened(c) /\ Opened(c)' /\ Onward(c)
  BY <1>1 DEF IInv, Local, Fresh, Opened, Onward, Running, NoScript
<1>6. Local(c)'
  BY <1>1, <1>3, <1>4, <1>5 DEF IInv, Local, Fresh, Supplied, InputClosed, SawEnd, Drained,
                                Forks, Shorted, PipesKept, Opened, Running, BodyWritten
<1>7. Whole(c)' \/ ForkFailed
  BY <1>1, <1>3 DEF IInv, Whole, Wrote, Running
<1>8. \A d \in Clients \ {c} : Same(d)
  BY <1>1 DEF Same, IInv, TypeOK
<1> QED BY <1>1, <1>2, <1>5, <1>6, <1>7, <1>8, OneConnection DEF IInv, Addressed

-----------------------------------------------------------------------------
(* The results.                                                            *)

(***************************************************************************)
(* The invariant holds whatever the server, the scripts and the remote     *)
(* ends do.                                                                *)
(***************************************************************************)
THEOREM Invariant == Spec => []IInv
<1>1. IInv /\ [Next]_vars => IInv'
  <2> SUFFICES ASSUME IInv, [Next]_vars PROVE IInv' OBVIOUS
  <2>1. CASE WriteOn BY <2>1, WriteOnInvariant
  <2>2. CASE WriteDone BY <2>2, WriteDoneInvariant
  <2>3. ASSUME NEW c \in Clients, Serve(c) PROVE IInv'
    <3>1. 1 \in Units
      BY DEF Units
    <3>2. ASSUME NEW n \in Units, NEW k \in Units \cup {0}, Forward(c, n, k) PROVE IInv'
      BY <3>2, ForwardInvariant
    <3>3. ASSUME NEW k \in Units, Flush(c, k) PROVE IInv'
      BY <3>1, <3>3, ForwardInvariant
    <3> QED BY <2>3, <3>2, <3>3, OpenInvariant, AbortedInvariant, EndInvariant,
               ScanNothingInvariant DEF Serve
  <2>4. ASSUME NEW c \in Clients, Script(c) PROVE IInv'
    BY <2>4, ScriptReadsInvariant, ScriptSeesEndInvariant, ScriptWritesInvariant,
       ScriptExitsInvariant DEF Script
  <2>5. ASSUME NEW c \in Clients, Leave(c) PROVE IInv'
    BY <2>5, LeaveInvariant
  <2>6. ASSUME NEW c \in Clients, NEW n \in Units, Receive(c, n) PROVE IInv'
    BY <2>6, ReceiveInvariant
  <2>7. ASSUME NEW c \in Clients, NEW s \in Shapes, Connect(c, s) PROVE IInv'
    BY <2>7, ConnectInvariant
  <2>8. CASE UNCHANGED vars
    <3>1. TypeOK' /\ Addressed'
      BY <2>8 DEF vars, ends, IInv, TypeOK, Addressed
    <3>2. ASSUME NEW c \in Clients PROVE Local(c)' /\ Whole(c)'
      <4>1. Same(c) BY <2>8 DEF vars, ends, Same
      <4>2. ForkFailed' <=> ForkFailed BY <2>8 DEF vars, ForkFailed, Opened
      <4>3. Whole(c)' BY <4>1, <4>2 DEF IInv, Whole, Same, Wrote, Running
      <4> QED BY <4>1, <4>3, SameLocal DEF IInv
    <3> QED BY <3>1, <3>2 DEF IInv
  <2> QED BY <2>1, <2>2, <2>3, <2>4, <2>5, <2>6, <2>7, <2>8 DEF Next
<1> QED BY InitInvariant, <1>1, PTL DEF Spec

(***************************************************************************)
(* A script that saw the end of its input got the body and nothing else,   *)
(* unless the remote end left (protocol.cpp:520-544, 437-457).             *)
(***************************************************************************)
THEOREM InputsWhole == Spec => []InputWhole
<1>1. IInv => InputWhole
  <2> SUFFICES ASSUME IInv, NEW c \in Clients
               PROVE  /\ script[c].got <= conn[c].shape.body
                      /\ script[c].eof =>
                           script[c].got = conn[c].shape.body \/ remote[c].gone
    BY DEF InputWhole
  <2>1. /\ script[c].got \in Nat /\ inpipe[c] \in Nat /\ Left(c) \in Nat
        /\ conn[c].datac \in Nat /\ conn[c].shape.body \in Nat /\ Local(c)
    BY FieldTypes DEF IInv
  <2>2. CASE Opened(c)
    <3>1. script[c].got + inpipe[c] + Left(c) <= Due(c)
      BY <2>1, <2>2 DEF Local, Supplied
    <3>2. Due(c) \in Nat /\ Due(c) <= conn[c].shape.body
      BY <2>1 DEF Due
    <3> QED BY <2>1, <3>1, <3>2 DEF Local, SawEnd
  <2>3. CASE ~Opened(c)
    BY <2>1, <2>3 DEF Local, Fresh, NoScript
  <2> QED BY <2>2, <2>3
<1> QED BY Invariant, <1>1, PTL

(***************************************************************************)
(* A remote end that stays has the whole output of its script, unless a    *)
(* fork() failed or a send was short; then it lacks what was read while    *)
(* the rest of a send was held, and nothing else (protocol.cpp:351-420).   *)
(***************************************************************************)
THEOREM ResponsesWhole == Spec => []ResponseWhole
<1>1. IInv => ResponseWhole
  <2> SUFFICES ASSUME IInv, NEW c \in Clients, conn[c].stage = "closed", ~remote[c].gone,
                      ~ForkFailed
               PROVE  \/ conn[c].sent = conn[c].shape.out
                      \/ conn[c].short /\ conn[c].sent + conn[c].lost = conn[c].shape.out
    BY DEF ResponseWhole, ForkFailed, Opened
  <2>1. conn[c].sent + conn[c].lost = conn[c].shape.out
    BY DEF IInv, Whole
  <2>2. /\ conn[c].sent \in Nat /\ conn[c].lost \in Nat
        /\ conn[c].lost > 0 => conn[c].short
    BY FieldTypes DEF IInv, Local, Shorted
  <2> QED BY <2>1, <2>2
<1> QED BY Invariant, <1>1, PTL

(***************************************************************************)
(* A closed connection has left no pipe open in the server, but for the    *)
(* input of a script without a body and the output of one whose remote end *)
(* left in the middle of it (protocol.cpp:429-432, 448-449, 468-471,       *)
(* 528-529, 562-565).                                                      *)
(***************************************************************************)
THEOREM PipesAreClosed == Spec => []PipesClosed
<1>1. IInv => PipesClosed
  <2> SUFFICES ASSUME IInv, NEW c \in Clients, conn[c].stage = "closed"
               PROVE  /\ c \in inends => conn[c].shape.body = 0 /\ conn[c].shape.early = 0
                      /\ c \in outends =>
                           remote[c].gone /\ conn[c].datac < conn[c].shape.body
    BY DEF PipesClosed
  <2>1. conn[c].datac \in Nat /\ conn[c].shape.body \in Nat /\ PipesKept(c)
    BY FieldTypes DEF IInv, Local
  <2> QED BY <2>1 DEF PipesKept, Opened, BodyWritten
<1> QED BY Invariant, <1>1, PTL

(***************************************************************************)
(* A script is ended by itself or by its own connection, unless a fork()   *)
(* failed for another one (protocol.cpp:468-470, 489, 605).                *)
(***************************************************************************)
THEOREM OwnKills == Spec => OwnKill
<1> DEFINE Ends(c) == Running(c) /\ script'[c].state = "zombie"
           Excused(c) ==
             \/ ~Hungry(c) /\ ~Talks(c)
             \/ conn'[c].stage = "closed" /\ conn[c].stage = "send"
             \/ \E d \in Clients : conn[d].pid = "failed" /\ conn'[d].stage = "closed"
<1>1. ASSUME IInv, [Next]_vars, NEW c \in Clients, Ends(c)
      PROVE  Excused(c)
  <2>1. script' # script
    BY <1>1 DEF Running
  <2>2. ASSUME NEW d \in Clients, Open(d) PROVE Excused(c)
    <3>1. Forked(d).state = "running" /\ script[d].state # "running"
      BY <1>1, <2>2 DEF Forked, NoScript, Open, IInv, Local, Fresh, Opened
    <3>2. script' = script \/ script' = [script EXCEPT ![d] = Forked(d)]
      BY <2>2 DEF Open
    <3> QED BY <1>1, <3>1, <3>2 DEF IInv, TypeOK, Running
  <2>3. ASSUME NEW d \in Clients, SendFails(d) \/ Finish(d) PROVE Excused(c)
    <3>1. /\ conn[d].stage = "send" /\ Close(d)
          /\ conn' = [conn EXCEPT ![d].stage = "closed", ![d].pid = "none"]
      BY <2>3 DEF SendFails, Finish, Sending
    <3>2. conn'[d].stage = "closed"
      BY <1>1, <3>1 DEF IInv, TypeOK
    <3>3. c \in Killed(d)
      BY <1>1, <3>1 DEF Close, Running
    <3> QED BY <3>1, <3>2, <3>3 DEF Killed
  <2>4. ASSUME NEW d \in Clients, Script(d) PROVE Excused(c)
    <3>1. CASE ScriptExits(d)
      BY <1>1, <3>1 DEF ScriptExits, Running, IInv, TypeOK
    <3>2. CASE ScriptReads(d) \/ ScriptSeesEnd(d) \/ ScriptWrites(d)
      <4>1. script'[c].state = script[c].state
        <5>1. script \in [Clients -> Process]
          BY <1>1 DEF IInv, TypeOK, Process
        <5>2. CASE ScriptReads(d)
          BY <5>1, <5>2 DEF ScriptReads, Process
        <5>3. CASE ScriptSeesEnd(d)
          BY <5>1, <5>3 DEF ScriptSeesEnd, Process
        <5>4. CASE ScriptWrites(d)
          BY <5>1, <5>4 DEF ScriptWrites, Process
        <5> QED BY <3>2, <5>2, <5>3, <5>4
      <4> QED BY <1>1, <4>1 DEF Running
    <3> QED BY <2>4, <3>1, <3>2 DEF Script
  <2>5. ASSUME NEW d \in Clients, Serve(d) PROVE Excused(c)
    <3>1. /\ Aborted(d) \/ ScanNothing(d) \/ SendAgain(d) => script' = script
          /\ \A n \in Units, k \in Units \cup {0} : Forward(d, n, k) => script' = script
          /\ \A k \in Units : Flush(d, k) => script' = script
      BY DEF Aborted, ScanNothing, SendAgain, Forward, Flush
    <3> QED BY <2>1, <2>2, <2>3, <2>5, <3>1 DEF Serve
  <2>6. /\ WriteOn \/ WriteDone => script' = script
        /\ UNCHANGED vars => script' = script
        /\ \A d \in Clients : Leave(d) => script' = script
        /\ \A d \in Clients, n \in Units : Receive(d, n) => script' = script
        /\ \A d \in Clients, s \in Shapes : Connect(d, s) => script' = script
    BY DEF WriteOn, WriteDone, Leave, Receive, Connect, vars
  <2> QED BY <1>1, <2>1, <2>4, <2>5, <2>6 DEF Next
<1>2. IInv /\ [Next]_vars => [\A c \in Clients : Ends(c) => Excused(c)]_vars
  BY <1>1
<1> QED BY Invariant, <1>2, PTL DEF Spec, OwnKill

=============================================================================
