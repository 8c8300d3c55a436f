----------------------------- MODULE CgiStream -----------------------------
(***************************************************************************)
(* StreamProtocolCgi: one child process, a pipe that carries the body of a *)
(* POST to it (pipefdo) and a non-blocking pipe that carries its output    *)
(* back (pipefdi).  The record keeps                                       *)
(*                                                                         *)
(*   child           pid # 0                                               *)
(*   rd, wr          pipefdi[0] and pipefdo[1] are open                    *)
(*   buffer          output read and not sent                              *)
(*   feedback        the double CRLF ending the script's header was found  *)
(*   empty           the output pipe was read to its end                   *)
(*   datac, datal    body units received, Content-Length                   *)
(*   pipe            output the child has still to deliver                 *)
(*                                                                         *)
(* fork() and pipe() succeed, and a write to pipefdo[1] completes: the     *)
(* code checks none of them.                                               *)
(***************************************************************************)
EXTENDS Streams

\* A unit of child output: does a double CRLF end in it?
CgiUnit == [brk : BOOLEAN]

\* The status line that pres->Generate() puts before the script's header.
StatusLine == [brk |-> FALSE]

CgiStream ==
  [state : StreamState, child : BOOLEAN, rd : BOOLEAN, wr : BOOLEAN,
   buffer : Seq(CgiUnit), feedback : BOOLEAN, empty : BOOLEAN,
   datac : Nat, datal : Nat, pipe : Seq(CgiUnit)]

\* datac and datal are not initialised by the constructor.
NewCgi(datac, datal) ==
  [state |-> "PENDING", child |-> FALSE, rd |-> FALSE, wr |-> FALSE,
   buffer |-> << >>, feedback |-> FALSE, empty |-> FALSE,
   datac |-> datac, datal |-> datal, pipe |-> << >>]

(***************************************************************************)
(* The timeout test subtracts the tv_nsec fields of two clock readings and *)
(* leaves tv_sec out.  In tenths of a second, tv_nsec is below 10 and the  *)
(* limit, 5e9 ns, is 50.                                                   *)
(***************************************************************************)
NsecField == 0..9
CgiTimeout == 50
TimedOut == {ts1 - ts >= CgiTimeout : ts1 \in NsecField, ts \in NsecField}

Expired == Result(-1, "ETIME")

\* read(pipefdi[0]): some output, nothing yet, or the end once all was read.
PipeReads(s) ==
  IF s.empty THEN Transferred({0})
  ELSE (IF s.pipe = << >> THEN Transferred({0})
        ELSE Transferred(1..Min2(Chunk, Len(s.pipe))))
       \cup {IF late THEN Expired ELSE WouldBlock : late \in TimedOut}

\* Slip: what was read stays in the pipe.
CgiIntake_Rereads(s, p) ==
  LET taken  == [s EXCEPT !.empty = s.empty \/ p.len <= 0]
      buffer == s.buffer \o SubSeq(s.pipe, 1, Moved(p))
  IN IF s.feedback THEN taken
     ELSE IF Breaks(buffer) = {} THEN [taken EXCEPT !.buffer = buffer]
     ELSE [taken EXCEPT !.buffer = <<StatusLine>> \o buffer, !.feedback = TRUE]

\* The first half of Write(): take the output in, look for the script's header.
CgiIntake(s, p) ==
  LET taken == [s EXCEPT !.pipe = Dropped(s.pipe, Moved(p)),
                         !.empty = s.empty \/ p.len <= 0]
      buffer == s.buffer \o SubSeq(s.pipe, 1, Moved(p))
  IN IF s.feedback THEN taken
     ELSE IF Breaks(buffer) = {} THEN [taken EXCEPT !.buffer = buffer]
     ELSE [taken EXCEPT !.buffer = <<StatusLine>> \o buffer, !.feedback = TRUE]

\* Units handed to send(), zero where there is no send.
CgiOffer(s, p) ==
  LET a == CgiIntake(s, p)
  IN IF p = WouldBlock \/ ~a.feedback THEN 0
     ELSE IF a.buffer # << >> THEN Len(a.buffer)
     ELSE Moved(p)

(***************************************************************************)
(* Write().  Output read in this call is dropped when the header was found *)
(* in an earlier call and the buffer still holds output: only the buffer   *)
(* is sent.                                                                *)
(***************************************************************************)
CgiWrite(s, p, r) ==
  LET a   == CgiIntake(s, p)
      got == SubSeq(s.pipe, 1, Moved(p))
      kept(buffer) == [a EXCEPT !.buffer = buffer]
  IN IF ~s.rd THEN Undefined(s, "BadPipe")
     ELSE IF p = WouldBlock THEN Outcome(s, FALSE, 0, 0)
     ELSE IF ~s.feedback /\ p.len < 0 THEN Undefined(a, "Range")
     ELSE IF ~s.feedback /\ a.buffer = << >> THEN Undefined(a, "FindBreak")
     ELSE IF ~a.feedback THEN Outcome(a, FALSE, 0, 0)
     ELSE IF Failed(r) THEN Outcome([a EXCEPT !.state = "CLOSED"], TRUE, 0, 0)
     ELSE IF a.buffer # << >> /\ r.len < 0 THEN Undefined(a, "EraseOutput")
     ELSE IF r.len < 0 THEN Undefined(a, "Range")
     ELSE IF a.buffer # << >>
          THEN Outcome(kept(Dropped(a.buffer, r.len)), FALSE, r.len,
                       IF s.feedback THEN Len(got) ELSE 0)
     ELSE Outcome(kept(Dropped(got, r.len)), FALSE, r.len, 0)

\* Read(): body units beyond Content-Length go back to the request buffer.
CgiExcess(s, data) ==
  IF s.datac + Len(data) > s.datal THEN Dropped(data, s.datal - s.datac)
  ELSE << >>

CgiRead(s, r) ==
  LET got == [s EXCEPT !.datac = s.datac + r.len]
      done(state) == [got EXCEPT !.state = state, !.wr = FALSE]
  IN IF ~s.wr THEN Undefined(s, "BadPipe")
     ELSE IF Failed(r)
          THEN Outcome([s EXCEPT !.state = "CLOSED", !.wr = FALSE], TRUE, 0, 0)
     ELSE IF r.len < 0 THEN Undefined(s, "Range")
     ELSE IF got.datac >= got.datal THEN Outcome(done("SUCCESS"), TRUE, 0, 0)
     ELSE Outcome(got, FALSE, 0, 0)

(***************************************************************************)
(* Open(): start the child and hand it the body that came with the         *)
(* request.  Only when there is such a body is pipefdo[1] closed, and      *)
(* preq->postl becomes the Content-Length.                                 *)
(***************************************************************************)
CgiOpen(s, script, datal, req) ==
  LET early == Len(req.buffer) - req.postl
  IN [s   |-> [s EXCEPT !.child = TRUE, !.rd = TRUE,
                        !.wr = ~(early > 0 /\ early >= datal),
                        !.datac = early, !.datal = datal, !.pipe = script],
      req |-> IF early > 0 THEN [req EXCEPT !.postl = datal] ELSE req]

\* Reset(): pipefdo[1] is left as it is.
CgiReset(s) ==
  [s EXCEPT !.state = "PENDING", !.feedback = FALSE, !.empty = FALSE,
            !.buffer = << >>, !.child = FALSE,
            !.rd = s.rd /\ ~s.child, !.pipe = << >>]

=============================================================================
