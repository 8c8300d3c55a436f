--------------------------- MODULE TransferProofs ---------------------------
(***************************************************************************)
(* A transfer by one stream, of any size and through any chunk: nothing is *)
(* sent that was not there, and under a kernel that takes all it is        *)
(* offered of files and of scripts' output every transfer is a Delivery.   *)
(***************************************************************************)
EXTENDS Transfer, StreamProofs

-----------------------------------------------------------------------------
(* The inductive invariant.                                                *)

\* Units stream q, of kind k, has still to send.
Held(k, q) ==
  CASE k = "file" -> q.size - q.pos
    [] k = "cgi"  -> CgiHeld(q)
    [] OTHER      -> q.size

\* Stream q, of kind k, is in the middle of a transfer: a buffer is not yet
\* empty, a file ends where its position is, and a script's output has ended
\* when its pipe is empty.
Readied(k, q) ==
  /\ k \in {"response", "data"} => q \in BufferStream /\ q.size > 0
  /\ k = "file" => q \in FileStream /\ (q.eof => q.pos = q.size)
  /\ k = "cgi" => q \in CgiStream /\ q.rd /\ (q.empty => q.pipe = << >>)

\* Until Write() is done every unit is held, sent or dropped.
Balanced == Driven => Readied(kind, s) /\ total = Held(kind, s) + sent + lost

\* When it is done without an error none is held.
Emptied == done /\ ~failed => sent + lost = total

\* The stream is in STATE_PENDING until Write() is done; then it reports
\* success or the end of the connection, and after an error never success.
Reported ==
  /\ ~done => s.state = "PENDING" /\ ~failed
  /\ failed => s.state = "CLOSED"

IInv == TypeOK /\ Balanced /\ Emptied /\ Reported

\* What one Write() has to do to a stream q of kind k, for IInv to hold after
\* it: o is its outcome, r what send() gave.
Accounts(k, q, o, r) ==
  /\ o.ret \in BOOLEAN /\ o.fault \in StreamFault /\ o.s.state \in StreamState
  /\ o.sent \in Nat /\ o.lost \in Nat
  /\ o.fault # "none" => ~o.ret
  /\ o.fault # "none" \/ (o.ret /\ r = Broken) => o.sent = 0 /\ o.lost = 0
  /\ o.ret /\ r # Broken => o.sent + o.lost = Held(k, q)
  /\ o.fault = "none" /\ ~o.ret =>
       Readied(k, o.s) /\ Held(k, o.s) + o.sent + o.lost = Held(k, q)

\* What the state says after an outcome o whose send gave r: a stream that
\* reports the end of the connection sent nothing in that call.
Signs(o, r) ==
  /\ o.ret \in BOOLEAN
  /\ ~o.ret => o.s.state = "PENDING"
  /\ o.ret => o.s.state \in {"SUCCESS", "CLOSED"}
  /\ o.ret /\ r = Broken => o.s.state = "CLOSED"
  /\ o.ret /\ o.s.state = "CLOSED" => o.sent = 0

-----------------------------------------------------------------------------
(* The three kinds of stream.                                              *)

(***************************************************************************)
(* What the kernel does in this model is what a send() can do, EAGAIN      *)
(* aside; where it takes all, it takes exactly what was offered.           *)
(***************************************************************************)
LEMMA SendsAre ==
  ASSUME kind \in Kinds, NEW n \in Nat, NEW r \in SendResults(n)
  PROVE  /\ SendResult(n, r) /\ r # WouldBlock
         /\ r = Broken \/ r.len \in 0..n
         /\ Sends[kind] = "whole" => r = Broken \/ r.len = n
<1>1. Sends[kind] \in {"whole", "short"}
  BY SendsAssumption
<1>2. Broken \in SystemResult /\ Broken.len = -1 /\ Broken # WouldBlock
  BY DEF Broken, WouldBlock, Result, SystemResult
<1>3. CASE r = Broken
  BY <1>2, <1>3 DEF SendResult
<1>4. CASE r # Broken
  <2>1. PICK m \in 0..n : /\ r = Result(m, "none")
                          /\ m = 0 => n = 0
                          /\ Sends[kind] = "whole" => m = n
    <3>1. CASE n = 0
      BY <1>4, <3>1 DEF SendResults, Transferred
    <3>2. CASE n > 0 /\ Sends[kind] = "whole"
      BY <1>4, <3>2 DEF SendResults, Transferred
    <3>3. CASE n > 0 /\ Sends[kind] = "short"
      BY <1>4, <3>3 DEF SendResults, Transferred
    <3> QED BY <1>1, <3>1, <3>2, <3>3
  <2>2. /\ r \in SystemResult /\ r.len = m /\ r # WouldBlock
    BY <2>1 DEF Result, SystemResult, WouldBlock
  <2> QED BY <2>1, <2>2 DEF SendResult
<1> QED BY <1>3, <1>4

(***************************************************************************)
(* Write() of a page or of a header (protocol.cpp:152-173, 251-272).       *)
(***************************************************************************)
LEMMA BufferAccounts ==
  ASSUME NEW k \in {"response", "data"}, NEW q, Readied(k, q),
         NEW r, SendResult(BufferOffer(q), r), r # WouldBlock
  PROVE  LET o == ResponseWrite(q, r) IN Accounts(k, q, o, r) /\ o.lost = 0
<1> DEFINE o == ResponseWrite(q, r)
<1>1. q \in BufferStream /\ q.size > 0
  BY DEF Readied
<1>2. r \in SystemResult /\ -1 <= r.len /\ r.len <= BufferOffer(q) /\ r.len \in Int
  BY <1>1, BufferOfferType DEF SendResult, SystemResult
<1>3. IsOutcome(o, BufferStream)
  BY <1>1, <1>2, ResponseWriteType
<1>4. /\ o.fault = "none" /\ o.lost = 0
      /\ r # Broken /\ o.ret => o.sent + o.lost = q.size
      /\ ~o.ret => o.s.size > 0 /\ o.s.size + o.sent + o.lost = q.size
  BY <1>1, ResponseAccount
<1>5. /\ o.sent \in Nat
      /\ r = Broken /\ o.ret => o.sent = 0
  <2>1. ~Failed(r) => r.len \in Nat
    BY <1>2 DEF Failed, SendResult, WouldBlock, Broken, Result
  <2>2. Moved(r) \in Nat
    BY <1>2 DEF Moved
  <2>3. r = Broken => Failed(r)
    BY DEF Failed, Broken, Result
  <2> QED BY <2>1, <2>2, <2>3 DEF ResponseWrite, Outcome
<1>6. Held(k, q) = q.size /\ Held(k, o.s) = o.s.size
  BY DEF Held
<1>7. ~o.ret => Readied(k, o.s)
  BY <1>3, <1>4 DEF Readied, IsOutcome
<1>8. o.s.state \in StreamState
  BY <1>3 DEF IsOutcome, BufferStream
<1> HIDE DEF o
<1>9. Accounts(k, q, o, r)
  BY <1>3, <1>4, <1>5, <1>6, <1>7, <1>8 DEF Accounts, IsOutcome
<1> QED BY <1>4, <1>9 DEF o

(***************************************************************************)
(* Write() of a file; a send that takes all it is offered drops nothing    *)
(* (protocol.cpp:294-319).                                                 *)
(***************************************************************************)
LEMMA FileAccounts ==
  ASSUME NEW q, Readied("file", q), NEW r, SendResult(FileOffer(q), r)
  PROVE  LET o == FileWrite(q, r)
         IN /\ Accounts("file", q, o, r)
            /\ r = Broken \/ r.len = FileOffer(q) => o.lost = 0
<1> DEFINE o == FileWrite(q, r)
<1>1. q \in FileStream /\ (q.eof => q.pos = q.size)
  BY DEF Readied
<1>2. r \in SystemResult /\ -1 <= r.len /\ r.len <= FileOffer(q) /\ r.len \in Int
      /\ FileOffer(q) \in Nat
  BY <1>1, FileOfferType DEF SendResult, SystemResult
<1>3. IsOutcome(o, FileStream)
  BY <1>1, <1>2, FileWriteType
<1>4. /\ o.fault = "none" /\ o.s.size = q.size
      /\ o.s.eof => o.s.pos = o.s.size
      /\ r = Broken => o.ret
      /\ r # Broken => o.sent + o.lost = o.s.pos - q.pos
      /\ r # Broken /\ o.ret => o.s.pos = o.s.size
  BY <1>1, FileAccount
<1>5. /\ o.sent \in Nat
      /\ r = Broken => o.sent = 0 /\ o.lost = 0
      /\ r.len = FileOffer(q) => o.lost = 0
  <2>1. Moved(r) \in Nat
    BY <1>2 DEF Moved
  <2>2. r = Broken => Failed(r)
    BY DEF Failed, Broken, Result
  <2>3. ~(r.len < FileOffer(q)) => r.len \in Nat
    BY <1>2
  <2>4. r.len = FileOffer(q) => ~(r.len < FileOffer(q))
    BY <1>2
  <2> QED BY <2>1, <2>2, <2>3, <2>4 DEF FileWrite, Outcome
<1>6. /\ Held("file", q) = q.size - q.pos
      /\ Held("file", o.s) = o.s.size - o.s.pos
  BY DEF Held
<1>7. /\ q.size \in Nat /\ q.pos \in Nat
      /\ o.s.size \in Nat /\ o.s.pos \in Nat /\ o.s.state \in StreamState
      /\ o.sent \in Int /\ o.lost \in Int
  BY <1>1, <1>3 DEF IsOutcome, FileStream
<1>8. Readied("file", o.s)
  BY <1>3, <1>4 DEF Readied, IsOutcome
<1> HIDE DEF o
<1>9. Accounts("file", q, o, r)
  BY <1>3, <1>4, <1>5, <1>6, <1>7, <1>8 DEF Accounts, IsOutcome
<1> QED BY <1>5, <1>9 DEF o

(***************************************************************************)
(* The timeout of a script never fires: it compares the nanoseconds of two *)
(* clock readings, which differ by less than a second, with five seconds   *)
(* (protocol.cpp:353-367).  What Write() reads is output, the end of it    *)
(* when there is no more, or nothing for now.                              *)
(***************************************************************************)
LEMMA NeverExpires ==
  ASSUME NEW q \in CgiStream, q.empty => q.pipe = << >>, NEW p \in PipeReads(q)
  PROVE  /\ p # Expired
         /\ \/ p = WouldBlock
            \/ p.len > 0 /\ ~q.empty
            \/ p.len = 0 /\ q.pipe = << >>
<1>1. TimedOut = {FALSE}
  <2>1. \A x, y \in NsecField : ~(x - y >= CgiTimeout)
    BY DEF NsecField, CgiTimeout
  <2>2. 0 \in NsecField
    BY DEF NsecField
  <2>3. ASSUME NEW late \in TimedOut PROVE late = FALSE
    <3>1. PICK x \in NsecField, y \in NsecField : late = (x - y >= CgiTimeout)
      BY DEF TimedOut
    <3>2. (x - y >= CgiTimeout) = FALSE
      BY <2>1
    <3> QED BY <3>1, <3>2
  <2>4. FALSE \in TimedOut
    <3>1. (0 - 0 >= CgiTimeout) = FALSE
      BY <2>1, <2>2
    <3>2. (0 - 0 >= CgiTimeout) \in TimedOut
      BY <2>2 DEF TimedOut
    <3> QED BY <3>1, <3>2
  <2> QED BY <2>3, <2>4, Zenon
<1>2. {IF late THEN Expired ELSE WouldBlock : late \in TimedOut} = {WouldBlock}
  BY <1>1
<1>3. Min2(Chunk, Len(q.pipe)) \in Int
  BY ChunkAssumption, LenProperties DEF Min2, CgiStream
<1>4. \/ p = Result(0, "none") /\ (q.empty \/ q.pipe = << >>)
      \/ \E n \in 1..Min2(Chunk, Len(q.pipe)) : p = Result(n, "none") /\ ~q.empty
      \/ p = WouldBlock
  BY <1>2 DEF PipeReads, Transferred
<1> QED BY <1>3, <1>4 DEF Result, Expired, WouldBlock

(***************************************************************************)
(* Taking in output: the end is noted when a read gives no more, and the   *)
(* status line is in the buffer once the header was found                  *)
(* (protocol.cpp:371-391).                                                 *)
(***************************************************************************)
LEMMA CgiIntakeEnd ==
  ASSUME NEW q \in CgiStream, NEW p, PipeRead(q, p)
  PROVE  LET a == CgiIntake(q, p)
         IN /\ a.empty <=> q.empty \/ p.len <= 0
            /\ a.pipe = Dropped(q.pipe, Moved(p))
            /\ ~q.feedback /\ a.feedback => a.buffer # << >>
<1> DEFINE taken == [q EXCEPT !.pipe = Dropped(q.pipe, Moved(p)),
                              !.empty = q.empty \/ p.len <= 0]
           buffer == q.buffer \o SubSeq(q.pipe, 1, Moved(p))
           line == <<StatusLine>> \o buffer
           a == CgiIntake(q, p)
<1>1. /\ taken.pipe = Dropped(q.pipe, Moved(p)) /\ taken.feedback = q.feedback
      /\ taken.empty <=> q.empty \/ p.len <= 0
  BY DEF CgiStream
<1>2. line # << >>
  <2>1. q.buffer \in Seq(CgiUnit) /\ SubSeq(q.pipe, 1, Moved(p)) \in Seq(CgiUnit)
    BY CgiIntakeType DEF CgiStream
  <2>2. buffer \in Seq(CgiUnit)
    <3> DEFINE got == SubSeq(q.pipe, 1, Moved(p))
    <3> HIDE DEF got
    <3> QED BY <2>1, ConcatType DEF got
  <2>3. <<StatusLine>> \in Seq(CgiUnit) /\ Len(<<StatusLine>>) = 1
    BY DEF StatusLine, CgiUnit
  <2> HIDE DEF buffer
  <2>4. Len(line) = 1 + Len(buffer) /\ Len(buffer) \in Nat
    BY <2>2, <2>3, ConcatType, LenProperties
  <2> QED BY <2>4, EmptySeq
<1>3. ASSUME NEW b
      PROVE  LET n == [taken EXCEPT !.buffer = b]
                 m == [taken EXCEPT !.buffer = b, !.feedback = TRUE]
             IN /\ n.empty = taken.empty /\ n.pipe = taken.pipe
                /\ n.feedback = q.feedback
                /\ m.empty = taken.empty /\ m.pipe = taken.pipe /\ m.buffer = b
  BY DEF CgiStream
<1>4. a = IF q.feedback THEN taken
          ELSE IF Breaks(buffer) = {} THEN [taken EXCEPT !.buffer = buffer]
          ELSE [taken EXCEPT !.buffer = line, !.feedback = TRUE]
  BY DEF CgiIntake
<1> HIDE DEF taken, buffer, line, a
<1>5. CASE q.feedback
  BY <1>1, <1>4, <1>5 DEF a
<1>6. CASE ~q.feedback /\ Breaks(buffer) = {}
  <2>1. a = [taken EXCEPT !.buffer = buffer]
    BY <1>4, <1>6
  <2> QED BY <1>1, <1>3, <1>6, <2>1 DEF a
<1>7. CASE ~q.feedback /\ Breaks(buffer) # {}
  <2>1. a = [taken EXCEPT !.buffer = line, !.feedback = TRUE]
    BY <1>4, <1>7
  <2> QED BY <1>1, <1>2, <1>3, <2>1 DEF a
<1> QED BY <1>5, <1>6, <1>7

(***************************************************************************)
(* Write() of a script's output is done, without an error, when pipe and   *)
(* buffer are empty and the header was sent; where every send takes all it *)
(* is offered the buffer is empty between two calls, and nothing is        *)
(* dropped (protocol.cpp:350-426).                                         *)
(***************************************************************************)
LEMMA CgiWriteEnds ==
  ASSUME NEW q \in CgiStream, q.rd, q.empty => q.pipe = << >>,
         NEW p \in PipeReads(q),
         NEW r, SendResult(CgiOffer(q, p), r), r # WouldBlock
  PROVE  LET o == CgiWrite(q, p, r)
         IN /\ o.sent \in Nat
            /\ o.ret \/ o.fault # "none" => o.sent = 0 /\ o.lost = 0
            /\ o.ret /\ r # Broken => CgiHeld(q) = 0
            /\ o.fault = "none" /\ ~o.ret => (o.s.empty => o.s.pipe = << >>)
            /\ /\ q.feedback => q.buffer = << >>
               /\ r = Broken \/ r.len = CgiOffer(q, p)
               => /\ o.lost = 0
                  /\ o.fault = "none" /\ ~o.ret =>
                       (o.s.feedback => o.s.buffer = << >>)
<1> DEFINE a == CgiIntake(q, p)
           got == SubSeq(q.pipe, 1, Moved(p))
           m == CgiOffer(q, p)
           o == CgiWrite(q, p, r)
           whole == /\ q.feedback => q.buffer = << >>
                    /\ r = Broken \/ r.len = m
<1>1. PipeRead(q, p)
  BY PipeReadsType
<1>2. /\ a \in CgiStream /\ got \in Seq(CgiUnit) /\ Len(got) = Moved(p)
      /\ Moved(p) \in Nat
  BY <1>1, CgiIntakeType
<1>3. /\ a.empty <=> q.empty \/ p.len <= 0
      /\ a.pipe = Dropped(q.pipe, Moved(p))
      /\ ~q.feedback /\ a.feedback => a.buffer # << >>
  BY <1>1, CgiIntakeEnd
<1>4. q.feedback => a.feedback /\ a.buffer = q.buffer
  BY <1>1, CgiIntakeAccount
<1>5. \/ p = WouldBlock
      \/ p.len > 0 /\ ~q.empty
      \/ p.len = 0 /\ q.pipe = << >>
  BY NeverExpires
<1>6. /\ a.buffer \in Seq(CgiUnit) /\ Len(a.buffer) \in Nat
      /\ a.feedback \in BOOLEAN /\ q.feedback \in BOOLEAN
  BY <1>2, LenProperties DEF CgiStream
<1>7. m = IF p = WouldBlock \/ ~a.feedback THEN 0
          ELSE IF a.buffer # << >> THEN Len(a.buffer) ELSE Moved(p)
  BY DEF CgiOffer
<1>8. /\ m \in Nat /\ r.len \in Int
      /\ r.len < 0 <=> r = Broken
      /\ Failed(r) <=> r = Broken \/ r.len = 0
      /\ r.len = 0 => m = 0
  BY <1>1, CgiOfferType
     DEF SendResult, SystemResult, Failed, WouldBlock, Broken, Result
<1>9. p # WouldBlock => (a.empty => a.pipe = << >>)
  <2> SUFFICES ASSUME p # WouldBlock, a.empty PROVE a.pipe = << >>
    OBVIOUS
  <2>1. p.len = 0 /\ q.pipe = << >>
    <3>1. p.len > 0 => ~(p.len <= 0)
      BY <1>1 DEF PipeRead, SystemResult
    <3> QED BY <1>3, <1>5, <3>1
  <2>2. Moved(p) = 0
    BY <2>1 DEF Moved
  <2>3. Dropped(<< >>, 0) = << >>
    BY DEF Dropped
  <2> QED BY <1>3, <2>1, <2>2, <2>3
<1>10. ASSUME NEW b
       PROVE  LET n == [a EXCEPT !.buffer = b]
              IN n.empty = a.empty /\ n.pipe = a.pipe /\ n.buffer = b
  BY <1>2 DEF CgiStream
<1>11. ASSUME NEW b \in Seq(CgiUnit) PROVE Dropped(b, Len(b)) = << >>
  BY <1>11, LenProperties, SubSeqProperties, EmptySeq DEF Dropped
<1>12. o = IF p = WouldBlock THEN Outcome(q, FALSE, 0, 0)
           ELSE IF ~q.feedback /\ p.len < 0 THEN Undefined(a, "Range")
           ELSE IF ~q.feedback /\ a.buffer = << >> THEN Undefined(a, "FindBreak")
           ELSE IF ~a.feedback THEN Outcome(a, FALSE, 0, 0)
           ELSE IF Failed(r) THEN Outcome([a EXCEPT !.state = "CLOSED"], TRUE, 0, 0)
           ELSE IF a.buffer # << >> /\ r.len < 0 THEN Undefined(a, "EraseOutput")
           ELSE IF r.len < 0 THEN Undefined(a, "Range")
           ELSE IF a.buffer # << >>
                THEN Outcome([a EXCEPT !.buffer = Dropped(a.buffer, r.len)], FALSE,
                             r.len, IF q.feedback THEN Len(got) ELSE 0)
           ELSE Outcome([a EXCEPT !.buffer = Dropped(got, r.len)], FALSE, r.len, 0)
  BY DEF CgiWrite
<1> HIDE DEF a, got, m, o
<1> SUFFICES /\ o.sent \in Nat
             /\ o.ret \/ o.fault # "none" => o.sent = 0 /\ o.lost = 0
             /\ o.ret /\ r # Broken => CgiHeld(q) = 0
             /\ o.fault = "none" /\ ~o.ret => (o.s.empty => o.s.pipe = << >>)
             /\ whole => /\ o.lost = 0
                         /\ o.fault = "none" /\ ~o.ret =>
                              (o.s.feedback => o.s.buffer = << >>)
  BY DEF o, m
<1>13. CASE p = WouldBlock
  <2>1. o = Outcome(q, FALSE, 0, 0)
    BY <1>12, <1>13
  <2> QED BY <2>1 DEF Outcome
<1>14. CASE /\ p # WouldBlock
            /\ \/ ~q.feedback /\ (p.len < 0 \/ a.buffer = << >>)
               \/ ~a.feedback
  <2>1. \/ o = Undefined(a, "Range") \/ o = Undefined(a, "FindBreak")
        \/ o = Outcome(a, FALSE, 0, 0) /\ ~a.feedback
    BY <1>12, <1>14
  <2> QED BY <1>9, <1>14, <2>1 DEF Outcome, Undefined
<1>15. CASE /\ p # WouldBlock /\ a.feedback
            /\ ~(~q.feedback /\ (p.len < 0 \/ a.buffer = << >>))
            /\ Failed(r)
  <2>1. o = Outcome([a EXCEPT !.state = "CLOSED"], TRUE, 0, 0)
    BY <1>12, <1>15
  <2>2. /\ o.sent = 0 /\ o.lost = 0 /\ o.ret /\ o.fault = "none"
    BY <2>1 DEF Outcome
  <2>3. ASSUME r # Broken PROVE CgiHeld(q) = 0
    <3>1. m = 0
      BY <1>8, <1>15, <2>3
    <3>2. a.buffer = << >> /\ Moved(p) = 0
      <4>1. a.buffer # << >> => Len(a.buffer) # 0
        BY <1>6, EmptySeq
      <4> QED BY <1>7, <1>15, <3>1, <4>1
    <3>3. q.feedback /\ q.buffer = << >>
      BY <1>3, <1>4, <1>15, <3>2
    <3>4. q.pipe = << >>
      <4>1. p.len > 0 => Moved(p) # 0
        BY <1>1 DEF Moved, PipeRead, SystemResult
      <4> QED BY <1>5, <1>15, <3>2, <4>1
    <3> QED BY <3>3, <3>4, EmptySeq DEF CgiHeld
  <2> QED BY <2>2, <2>3
<1>16. CASE /\ p # WouldBlock /\ a.feedback
            /\ ~(~q.feedback /\ (p.len < 0 \/ a.buffer = << >>))
            /\ ~Failed(r)
  <2>1. ~(r.len < 0) /\ r.len \in Nat /\ (whole => r.len = m)
    BY <1>8, <1>16
  <2>2. CASE a.buffer # << >>
    <3> DEFINE n == [a EXCEPT !.buffer = Dropped(a.buffer, r.len)]
    <3>1. o = Outcome(n, FALSE, r.len, IF q.feedback THEN Len(got) ELSE 0)
      BY <1>12, <1>16, <2>1, <2>2
    <3>2. n.empty = a.empty /\ n.pipe = a.pipe /\ n.buffer = Dropped(a.buffer, r.len)
      BY <1>10
    <3>3. whole => ~q.feedback /\ Dropped(a.buffer, r.len) = << >>
      BY <1>4, <1>6, <1>7, <1>11, <1>16, <2>1, <2>2
    <3> HIDE DEF n
    <3> QED BY <1>9, <1>16, <2>1, <3>1, <3>2, <3>3 DEF Outcome
  <2>3. CASE a.buffer = << >>
    <3> DEFINE n == [a EXCEPT !.buffer = Dropped(got, r.len)]
    <3>1. o = Outcome(n, FALSE, r.len, 0)
      BY <1>12, <1>16, <2>1, <2>3
    <3>2. n.empty = a.empty /\ n.pipe = a.pipe /\ n.buffer = Dropped(got, r.len)
      BY <1>10
    <3>3. whole => Dropped(got, r.len) = << >>
      BY <1>2, <1>7, <1>11, <1>16, <2>1, <2>3 DEF got
    <3> HIDE DEF n
    <3> QED BY <1>9, <1>16, <2>1, <3>1, <3>2, <3>3 DEF Outcome
  <2> QED BY <2>2, <2>3
<1> QED BY <1>13, <1>14, <1>15, <1>16

(***************************************************************************)
(* Write() of the CGI stream (protocol.cpp:350-426).                       *)
(***************************************************************************)
LEMMA CgiAccounts ==
  ASSUME NEW q, Readied("cgi", q), NEW p \in PipeReads(q),
         NEW r, SendResult(CgiOffer(q, p), r), r # WouldBlock
  PROVE  LET o == CgiWrite(q, p, r) IN Accounts("cgi", q, o, r)
<1> DEFINE o == CgiWrite(q, p, r)
<1>1. q \in CgiStream /\ q.rd /\ (q.empty => q.pipe = << >>)
  BY DEF Readied
<1>2. PipeRead(q, p) /\ r \in SystemResult
  BY <1>1, PipeReadsType DEF SendResult
<1>3. IsOutcome(o, CgiStream)
  BY <1>1, <1>2, CgiWriteType
<1>4. /\ o.s.rd = q.rd
      /\ o.fault = "none" /\ ~o.ret => CgiHeld(o.s) + o.sent + o.lost = CgiHeld(q)
      /\ o.fault # "none" => ~o.ret
  BY <1>1, <1>2, CgiAccount
<1>5. /\ o.sent \in Nat
      /\ o.ret \/ o.fault # "none" => o.sent = 0 /\ o.lost = 0
      /\ o.ret /\ r # Broken => CgiHeld(q) = 0
      /\ o.fault = "none" /\ ~o.ret => (o.s.empty => o.s.pipe = << >>)
  BY <1>1, CgiWriteEnds
<1>6. Held("cgi", q) = CgiHeld(q) /\ Held("cgi", o.s) = CgiHeld(o.s)
  BY DEF Held
<1>7. o.s \in CgiStream /\ o.s.state \in StreamState
  BY <1>3 DEF IsOutcome, CgiStream
<1>8. o.fault = "none" /\ ~o.ret => Readied("cgi", o.s)
  BY <1>1, <1>4, <1>5, <1>7 DEF Readied
<1> HIDE DEF o
<1>9. o.ret /\ r # Broken => o.sent + o.lost = Held("cgi", q)
  BY <1>5, <1>6
<1>10. Accounts("cgi", q, o, r)
  BY <1>3, <1>4, <1>5, <1>6, <1>7, <1>8, <1>9 DEF Accounts, IsOutcome
<1> QED BY <1>10 DEF o

-----------------------------------------------------------------------------
(* What the streams report.                                                *)

(***************************************************************************)
(* The three ways a call can go that Signs allows.                         *)
(***************************************************************************)
LEMMA SignsOf ==
  ASSUME NEW n, NEW r, NEW x, NEW l
  PROVE  /\ n.state = "PENDING" => Signs(Outcome(n, FALSE, x, l), r)
         /\ n.state = "CLOSED" => Signs(Outcome(n, TRUE, 0, l), r)
         /\ n.state = "SUCCESS" /\ r # Broken => Signs(Outcome(n, TRUE, x, l), r)
<1>1. ASSUME NEW b, NEW y
      PROVE  LET o == Outcome(n, b, y, l) IN o.s = n /\ o.ret = b /\ o.sent = y
  BY DEF Outcome
<1> QED BY <1>1 DEF Signs

(***************************************************************************)
(* Write() of a page or of a header (protocol.cpp:160-170).                *)
(***************************************************************************)
LEMMA BufferSigns ==
  ASSUME NEW q \in BufferStream, q.state = "PENDING", NEW r
  PROVE  Signs(ResponseWrite(q, r), r)
<1>1. r = Broken => Failed(r)
  BY DEF Failed, Broken, Result
<1>2. ASSUME NEW x
      PROVE  /\ [q EXCEPT !.state = x].state = x
             /\ [q EXCEPT !.size = x].state = "PENDING"
  BY DEF BufferStream
<1>3. CASE Failed(r)
  <2> DEFINE n == [q EXCEPT !.state = "CLOSED"]
  <2>1. ResponseWrite(q, r) = Outcome(n, TRUE, 0, 0) /\ n.state = "CLOSED"
    BY <1>2, <1>3 DEF ResponseWrite
  <2> HIDE DEF n
  <2> QED BY <2>1, SignsOf
<1>4. CASE ~Failed(r) /\ SizeT(r.len) >= q.size
  <2> DEFINE n == [q EXCEPT !.state = "SUCCESS"]
  <2>1. ResponseWrite(q, r) = Outcome(n, TRUE, Moved(r), q.size - Moved(r))
    BY <1>4 DEF ResponseWrite
  <2>2. n.state = "SUCCESS"
    BY <1>2
  <2> HIDE DEF n
  <2> QED BY <1>1, <1>4, <2>1, <2>2, SignsOf
<1>5. CASE ~Failed(r) /\ ~(SizeT(r.len) >= q.size)
  <2> DEFINE n == [q EXCEPT !.size = q.size - r.len]
  <2>1. ResponseWrite(q, r) = Outcome(n, FALSE, r.len, 0)
    BY <1>5 DEF ResponseWrite
  <2>2. n.state = "PENDING"
    BY <1>2
  <2> HIDE DEF n
  <2> QED BY <2>1, <2>2, SignsOf
<1> QED BY <1>3, <1>4, <1>5

(***************************************************************************)
(* Write() of a file (protocol.cpp:300-313).                               *)
(***************************************************************************)
LEMMA FileSigns ==
  ASSUME NEW q \in FileStream, q.state = "PENDING", NEW r
  PROVE  Signs(FileWrite(q, r), r)
<1> DEFINE res  == FileOffer(q)
           next == [q EXCEPT !.pos = q.pos + res,
                             !.eof = q.eof \/ q.size - q.pos < Chunk]
<1>1. r = Broken => Failed(r)
  BY DEF Failed, Broken, Result
<1>2. next.state = "PENDING"
  BY DEF FileStream
<1>3. ASSUME NEW x PROVE [next EXCEPT !.state = x].state = x
  BY DEF FileStream
<1>4. FileWrite(q, r) =
        IF Failed(r) THEN Outcome([next EXCEPT !.state = "CLOSED"], TRUE, 0, 0)
        ELSE IF r.len < res THEN Outcome(next, FALSE, Moved(r), res - Moved(r))
        ELSE IF next.eof
             THEN Outcome([next EXCEPT !.state = "SUCCESS"], TRUE, r.len, 0)
        ELSE Outcome(next, FALSE, r.len, 0)
  BY DEF FileWrite
<1> HIDE DEF next, res
<1>5. CASE Failed(r)
  <2> DEFINE n == [next EXCEPT !.state = "CLOSED"]
  <2>1. FileWrite(q, r) = Outcome(n, TRUE, 0, 0) /\ n.state = "CLOSED"
    BY <1>3, <1>4, <1>5
  <2> HIDE DEF n
  <2> QED BY <2>1, SignsOf
<1>6. CASE ~Failed(r)
  <2> DEFINE n == [next EXCEPT !.state = "SUCCESS"]
  <2>1. \/ FileWrite(q, r) = Outcome(next, FALSE, Moved(r), res - Moved(r))
        \/ FileWrite(q, r) = Outcome(next, FALSE, r.len, 0)
        \/ FileWrite(q, r) = Outcome(n, TRUE, r.len, 0)
    BY <1>4, <1>6
  <2>2. n.state = "SUCCESS" /\ r # Broken
    BY <1>1, <1>3, <1>6
  <2> HIDE DEF n
  <2> QED BY <1>2, <2>1, <2>2, SignsOf
<1> QED BY <1>5, <1>6

(***************************************************************************)
(* Write() of a script's output (protocol.cpp:351-422).                    *)
(***************************************************************************)
LEMMA CgiSigns ==
  ASSUME NEW q \in CgiStream, q.state = "PENDING", NEW p, PipeRead(q, p), NEW r
  PROVE  Signs(CgiWrite(q, p, r), r)
<1> DEFINE a == CgiIntake(q, p)
           o == CgiWrite(q, p, r)
<1>1. a \in CgiStream
  BY CgiIntakeType
<1>2. a.state = "PENDING"
  BY DEF CgiIntake, CgiStream
<1>3. ASSUME NEW x
      PROVE  /\ [a EXCEPT !.state = x].state = x
             /\ [a EXCEPT !.buffer = x].state = "PENDING"
  BY <1>1, <1>2 DEF CgiStream
<1>4. \/ \E w : o = Undefined(q, w) \/ o = Undefined(a, w)
      \/ o = Outcome(q, FALSE, 0, 0) \/ o = Outcome(a, FALSE, 0, 0)
      \/ o = Outcome([a EXCEPT !.state = "CLOSED"], TRUE, 0, 0)
      \/ \E b, l : o = Outcome([a EXCEPT !.buffer = b], FALSE, r.len, l)
  BY Zenon DEF CgiWrite
<1> HIDE DEF a, o
<1>5. Signs(o, r)
  <2>1. ASSUME NEW n, n.state = "PENDING", NEW x, NEW l, o = Outcome(n, FALSE, x, l)
        PROVE  Signs(o, r)
    BY <2>1, SignsOf
  <2>2. ASSUME NEW n, n.state = "PENDING", NEW w, o = Undefined(n, w)
        PROVE  Signs(o, r)
    BY <2>2 DEF Undefined, Signs
  <2>3. ASSUME o = Outcome([a EXCEPT !.state = "CLOSED"], TRUE, 0, 0)
        PROVE  Signs(o, r)
    <3> DEFINE n == [a EXCEPT !.state = "CLOSED"]
    <3>1. n.state = "CLOSED" /\ o = Outcome(n, TRUE, 0, 0)
      BY <1>3, <2>3
    <3> HIDE DEF n
    <3> QED BY <3>1, SignsOf
  <2>4. ASSUME NEW b, NEW l, o = Outcome([a EXCEPT !.buffer = b], FALSE, r.len, l)
        PROVE  Signs(o, r)
    <3> DEFINE n == [a EXCEPT !.buffer = b]
    <3>1. n.state = "PENDING" /\ o = Outcome(n, FALSE, r.len, l)
      BY <1>3, <2>4
    <3> HIDE DEF n
    <3> QED BY <2>1, <3>1
  <2> QED BY <1>2, <1>4, <2>1, <2>2, <2>3, <2>4
<1> QED BY <1>5 DEF o

-----------------------------------------------------------------------------
(* The transfer.                                                           *)

(***************************************************************************)
(* What is held is a number.                                               *)
(***************************************************************************)
LEMMA HeldType ==
  ASSUME NEW k \in {"response", "data", "file", "cgi"}, NEW q, Readied(k, q)
  PROVE  Held(k, q) \in Nat
<1>1. CASE k \in {"response", "data"}
  BY <1>1 DEF Held, Readied, BufferStream
<1>2. CASE k = "file"
  BY <1>2 DEF Held, Readied, FileStream
<1>3. CASE k = "cgi"
  <2>1. q.pipe \in Seq(CgiUnit) /\ q.buffer \in Seq(CgiUnit)
    BY <1>3 DEF Readied, CgiStream
  <2>2. Len(q.pipe) \in Nat /\ Len(q.buffer) \in Nat
    BY <2>1, LenProperties
  <2>3. CgiHeld(q) \in Nat
    <3> DEFINE x == Len(q.pipe)
               y == Len(q.buffer)
    <3>1. CgiHeld(q) = x + y + IF q.feedback THEN 0 ELSE 1
      BY DEF CgiHeld
    <3>2. x \in Nat /\ y \in Nat
      BY <2>2
    <3> HIDE DEF x, y
    <3> QED BY <3>1, <3>2
  <2> QED BY <1>3, <2>3 DEF Held
<1> QED BY <1>1, <1>2, <1>3

(***************************************************************************)
(* Every call of Write() accounts for the units of its stream.             *)
(***************************************************************************)
LEMMA WriteAccounts ==
  ASSUME IInv, Next
  PROVE  /\ Driven /\ clock' \in NsecField
         /\ \E o, r : Written(o, r) /\ Accounts(kind, s, o, r) /\ Signs(o, r)
<1>1. Driven
  BY DEF Next, WriteBuffer, WriteFile, WriteCgi
<1>2. Readied(kind, s) /\ kind \in Kinds /\ s.state = "PENDING"
  BY <1>1 DEF IInv, TypeOK, Balanced, Reported, Driven
<1>3. CASE WriteBuffer
  <2>1. PICK r \in SendResults(BufferOffer(s)) :
          Written(IF kind = "data" THEN DataWrite(s, r) ELSE ResponseWrite(s, r), r)
    BY <1>3 DEF WriteBuffer
  <2>2. kind \in {"response", "data"} /\ clock' = clock
    BY <1>3 DEF WriteBuffer
  <2>3. BufferOffer(s) \in Nat
    BY <1>2, <2>2, BufferOfferType DEF Readied, BufferStream
  <2>4. SendResult(BufferOffer(s), r) /\ r # WouldBlock
    BY <1>2, <2>1, <2>3, SendsAre
  <2>5. Written(ResponseWrite(s, r), r)
    BY <2>1 DEF DataWrite
  <2>6. Accounts(kind, s, ResponseWrite(s, r), r)
    BY <1>2, <2>2, <2>4, BufferAccounts
  <2>7. Signs(ResponseWrite(s, r), r)
    BY <1>2, <2>2, BufferSigns DEF Readied
  <2> QED BY <1>1, <2>2, <2>5, <2>6, <2>7 DEF IInv, TypeOK
<1>4. CASE WriteFile
  <2>1. PICK r \in SendResults(FileOffer(s)) : Written(FileWrite(s, r), r)
    BY <1>4 DEF WriteFile
  <2>2. kind = "file" /\ clock' = clock
    BY <1>4 DEF WriteFile
  <2>3. FileOffer(s) \in Nat
    BY <1>2, <2>2, FileOfferType DEF Readied
  <2>4. SendResult(FileOffer(s), r)
    BY <1>2, <2>1, <2>3, SendsAre
  <2>5. Accounts(kind, s, FileWrite(s, r), r)
    BY <1>2, <2>2, <2>4, FileAccounts
  <2>6. Signs(FileWrite(s, r), r)
    BY <1>2, <2>2, FileSigns DEF Readied
  <2> QED BY <1>1, <2>1, <2>2, <2>5, <2>6 DEF IInv, TypeOK
<1>5. CASE WriteCgi
  <2>1. PICK p \in PipeReads(s) : \E r \in SendResults(CgiOffer(s, p)) :
          Written(CgiWrite(s, p, r), r)
    BY <1>5 DEF WriteCgi
  <2>2. PICK r \in SendResults(CgiOffer(s, p)) : Written(CgiWrite(s, p, r), r)
    BY <2>1
  <2>3. kind = "cgi" /\ clock' \in NsecField
    BY <1>5 DEF WriteCgi
  <2>4. CgiOffer(s, p) \in Nat
    BY <1>2, <2>3, PipeReadsType, CgiOfferType DEF Readied
  <2>5. SendResult(CgiOffer(s, p), r) /\ r # WouldBlock
    BY <1>2, <2>2, <2>4, SendsAre
  <2>6. Accounts(kind, s, CgiWrite(s, p, r), r)
    BY <1>2, <2>3, <2>5, CgiAccounts
  <2>7. Signs(CgiWrite(s, p, r), r)
    BY <1>2, <2>3, PipeReadsType, CgiSigns DEF Readied
  <2> QED BY <1>1, <2>2, <2>3, <2>6, <2>7
<1> QED BY <1>3, <1>4, <1>5 DEF Next

(***************************************************************************)
(* The stream a transfer starts with holds the whole of it.                *)
(***************************************************************************)
LEMMA InitIInv ==
  ASSUME Init PROVE IInv
<1>1. /\ done = FALSE /\ sent = 0 /\ lost = 0 /\ failed = FALSE /\ fault = "none"
      /\ clock = 0
  BY DEF Init
<1>2. ASSUME kind \in Kinds, total \in Nat, s.state = "PENDING",
             Readied(kind, s), Held(kind, s) = total
      PROVE  IInv
  <2>1. TypeOK
    <3>1. sent + lost <= total /\ sent \in Nat /\ lost \in Nat
      BY <1>1, <1>2
    <3>2. clock \in NsecField /\ fault \in StreamFault
      BY <1>1 DEF StreamFault, NsecField
    <3> QED BY <1>1, <1>2, <3>1, <3>2 DEF TypeOK, StreamState
  <2>2. Balanced /\ Emptied
    <3>1. total = Held(kind, s) + sent + lost
      BY <1>1, <1>2
    <3> QED BY <1>1, <1>2, <3>1 DEF Balanced, Emptied
  <2>3. Reported
    BY <1>1, <1>2 DEF Reported
  <2> QED BY <2>1, <2>2, <2>3 DEF IInv
<1>3. CASE kind \in Kinds \ {"cgi", "file"}
  <2>1. total \in Nat \ {0} /\ s = [EmptyBuffer EXCEPT !.size = total]
    BY <1>3, TotalsAssumption DEF Init
  <2>2. s \in BufferStream /\ s.size = total /\ s.state = "PENDING"
    BY <2>1 DEF EmptyBuffer, BufferStream, StreamState
  <2>3. Readied(kind, s) /\ Held(kind, s) = total
    BY <1>3, <2>1, <2>2 DEF Readied, Held
  <2> QED BY <1>3, <2>1, <2>2, <2>3, <1>2
<1>4. CASE kind = "file" /\ kind \in Kinds
  <2>1. total \in Nat /\ s = OpenFile(total)
    BY <1>4, TotalsAssumption DEF Init
  <2>2. s \in FileStream
    BY <2>1, OpenFileType
  <2>3. s.pos = 0 /\ s.size = total /\ s.eof = FALSE /\ s.state = "PENDING"
    BY <2>1 DEF OpenFile, ClosedFile
  <2>4. Readied(kind, s) /\ Held(kind, s) = total /\ s.state = "PENDING"
    BY <1>4, <2>1, <2>2, <2>3 DEF Readied, Held, FileStream
  <2> QED BY <1>4, <2>1, <2>4, <1>2
<1>5. CASE kind = "cgi" /\ kind \in Kinds
  <2>1. PICK script \in Scripts :
          /\ total = 1 + Len(script)
          /\ s = CgiOpen(NewCgi(0, 0), script, 0, NewRequestStream(0)).s
    BY <1>5 DEF Init
  <2>2. script \in Seq(CgiUnit) /\ Len(script) \in Nat
    BY ScriptsAssumption, LenProperties
  <2>3. s.rd /\ s.pipe = script /\ s.empty = FALSE /\ s.feedback = FALSE
        /\ s.buffer = << >> /\ s.state = "PENDING"
    BY <2>1 DEF CgiOpen, NewCgi
  <2>4. s \in CgiStream
    <3>1. NewCgi(0, 0) \in CgiStream /\ NewRequestStream(0) \in RequestStream(CgiUnit)
      BY NewCgiType, NewRequestType
    <3>2. NewRequestStream(0).postl = 0 /\ NewRequestStream(0).buffer = << >>
      BY DEF NewRequestStream
    <3>3. NewRequestStream(0).postl <= Len(NewRequestStream(0).buffer)
      BY <3>2, EmptySeq
    <3> QED BY <2>1, <2>2, <3>1, <3>3, CgiOpenType
  <2>5. CgiHeld(s) = total
    <3>1. Len(s.pipe) = Len(script) /\ Len(s.buffer) = 0
      BY <2>3, EmptySeq
    <3>2. CgiHeld(s) = Len(s.pipe) + Len(s.buffer) + 1
      BY <2>3 DEF CgiHeld
    <3> DEFINE x == Len(s.pipe)
               y == Len(s.buffer)
    <3>3. x \in Nat /\ y = 0 /\ total = 1 + x /\ CgiHeld(s) = x + y + 1
      BY <2>1, <2>2, <3>1, <3>2
    <3> HIDE DEF x, y
    <3> QED BY <3>3
  <2>6. Readied(kind, s) /\ Held(kind, s) = total /\ s.state = "PENDING"
    BY <1>5, <2>3, <2>4, <2>5 DEF Readied, Held, CgiStream
  <2> QED BY <1>5, <2>1, <2>2, <2>6, <1>2
<1> QED BY <1>3, <1>4, <1>5 DEF Init

(***************************************************************************)
(* A call that accounts for its units keeps the invariant; it sends        *)
(* nothing when it is undefined or fails, and ends a transfer that did not *)
(* fail with every unit sent or dropped.                                   *)
(***************************************************************************)
LEMMA WrittenKeeps ==
  ASSUME IInv, Driven, clock' \in NsecField,
         NEW o, NEW r, Written(o, r), Accounts(kind, s, o, r), Signs(o, r)
  PROVE  /\ IInv'
         /\ sent' \in Nat /\ sent' >= sent
         /\ done' \in BOOLEAN /\ failed' \in BOOLEAN
         /\ failed' => done' /\ sent' = sent
<1> DEFINE h == Held(kind, s)
<1>1. /\ kind \in Kinds /\ total \in Nat /\ sent \in Nat /\ lost \in Nat
      /\ h \in Nat /\ total = h + sent + lost
  <2>1. TypeOK /\ Readied(kind, s) /\ total = Held(kind, s) + sent + lost
    BY DEF IInv, Balanced
  <2>2. kind \in {"response", "data", "file", "cgi"}
    BY <2>1, KindsAssumption DEF TypeOK
  <2> QED BY <2>1, <2>2, HeldType DEF TypeOK
<1>2. /\ s' = o.s /\ done' = o.ret /\ fault' = o.fault
      /\ sent' = sent + o.sent /\ lost' = lost + o.lost
      /\ failed' = (r = Broken /\ o.ret)
      /\ kind' = kind /\ total' = total
  BY DEF Written
<1>3. /\ o.ret \in BOOLEAN /\ o.fault \in StreamFault /\ o.s.state \in StreamState
      /\ o.sent \in Nat /\ o.lost \in Nat
      /\ o.fault # "none" => ~o.ret
      /\ o.fault # "none" \/ (o.ret /\ r = Broken) => o.sent = 0 /\ o.lost = 0
      /\ o.ret /\ r # Broken => o.sent + o.lost = h
      /\ o.fault = "none" /\ ~o.ret =>
           Readied(kind, o.s) /\ Held(kind, o.s) + o.sent + o.lost = h
  BY DEF Accounts
<1>4. o.fault = "none" /\ ~o.ret => Held(kind, o.s) \in Nat
  BY <1>1, <1>3, KindsAssumption, HeldType
<1>5. /\ sent' \in Nat /\ lost' \in Nat /\ sent' >= sent
      /\ done' \in BOOLEAN /\ failed' \in BOOLEAN
      /\ failed' => done' /\ sent' = sent
  <2>1. sent' \in Nat /\ lost' \in Nat /\ sent' >= sent
    BY <1>1, <1>2, <1>3
  <2>2. done' \in BOOLEAN /\ failed' \in BOOLEAN
    BY <1>2, <1>3, Zenon
  <2>3. failed' => o.ret /\ r = Broken
    BY <1>2, Zenon
  <2>4. failed' => done' /\ sent' = sent
    BY <1>1, <1>2, <1>3, <2>3
  <2> QED BY <2>1, <2>2, <2>4
<1> HIDE DEF h
<1>6. sent' + lost' <= total
  <2>1. CASE o.fault # "none" \/ (o.ret /\ r = Broken)
    BY <1>1, <1>2, <1>3, <2>1
  <2>2. CASE o.ret /\ r # Broken
    BY <1>1, <1>2, <1>3, <2>2
  <2>3. CASE o.fault = "none" /\ ~o.ret
    BY <1>1, <1>2, <1>3, <1>4, <2>3
  <2> QED BY <1>3, <2>1, <2>2, <2>3
<1>7. TypeOK'
  BY <1>1, <1>2, <1>3, <1>5, <1>6 DEF TypeOK
<1>8. Balanced'
  <2>1. Driven' => o.fault = "none" /\ ~o.ret
    BY <1>2 DEF Driven
  <2>2. ASSUME o.fault = "none", ~o.ret
        PROVE  Readied(kind, o.s) /\ total = Held(kind, o.s) + sent' + lost'
    BY <1>1, <1>2, <1>3, <1>4, <2>2
  <2> QED BY <1>2, <2>1, <2>2 DEF Balanced
<1>9. Emptied'
  <2>1. done' /\ ~failed' => o.ret /\ r # Broken
    BY <1>2
  <2>2. ASSUME o.ret, r # Broken PROVE sent' + lost' = total
    BY <1>1, <1>2, <1>3, <2>2
  <2> QED BY <1>2, <2>1, <2>2 DEF Emptied
<1>10. Reported'
  <2>1. ~done' => s'.state = "PENDING" /\ ~failed'
    BY <1>2 DEF Signs
  <2>2. failed' => s'.state = "CLOSED"
    BY <1>2 DEF Signs
  <2> QED BY <2>1, <2>2 DEF Reported
<1> QED BY <1>5, <1>7, <1>8, <1>9, <1>10 DEF IInv

(***************************************************************************)
(* IInv is an invariant.                                                   *)
(***************************************************************************)
LEMMA Invariant == Spec => []IInv
<1>1. Init => IInv
  BY InitIInv
<1>2. IInv /\ [Next]_vars => IInv'
  <2>1. ASSUME IInv, Next PROVE IInv'
    BY <2>1, WriteAccounts, WrittenKeeps
  <2>2. ASSUME IInv, UNCHANGED vars PROVE IInv'
    BY <2>2 DEF vars, IInv, TypeOK, Balanced, Driven, Emptied, Reported
  <2> QED BY <2>1, <2>2
<1> QED BY <1>1, <1>2, PTL DEF Spec

(***************************************************************************)
(* Whatever the kernel takes of each send, the record stays a stream and   *)
(* no stream sends or drops more than there was (protocol.cpp:152-426).    *)
(***************************************************************************)
THEOREM TypeCorrect == Spec => []TypeOK
<1>1. IInv => TypeOK
  BY DEF IInv
<1> QED BY <1>1, Invariant, PTL

-----------------------------------------------------------------------------
(* Nothing is dropped.                                                     *)

\* The kernel takes all that is offered of a file and of a script's output.
Borne == \A k \in Kinds \cap {"file", "cgi"} : Sends[k] = "whole"

\* Nothing was dropped, and nothing is going to be: only a script's output
\* read while the buffer still holds some would.
Sparing ==
  /\ lost = 0
  /\ Driven /\ kind = "cgi" /\ s.feedback => s.buffer = << >>

(***************************************************************************)
(* Sparing is kept by every call.                                          *)
(***************************************************************************)
LEMMA NextSparing ==
  ASSUME Borne, IInv, Sparing, Next
  PROVE  Sparing'
<1>1. Driven
  BY DEF Next, WriteBuffer, WriteFile, WriteCgi
<1>2. Readied(kind, s) /\ kind \in Kinds /\ lost = 0
  BY <1>1 DEF IInv, TypeOK, Balanced, Sparing
<1>3. CASE WriteBuffer
  <2>1. PICK r \in SendResults(BufferOffer(s)) :
          Written(IF kind = "data" THEN DataWrite(s, r) ELSE ResponseWrite(s, r), r)
    BY <1>3 DEF WriteBuffer
  <2>2. kind \in {"response", "data"}
    BY <1>3 DEF WriteBuffer
  <2>3. BufferOffer(s) \in Nat
    BY <1>2, <2>2, BufferOfferType DEF Readied, BufferStream
  <2>4. SendResult(BufferOffer(s), r) /\ r # WouldBlock
    BY <1>2, <2>1, <2>3, SendsAre
  <2>5. Written(ResponseWrite(s, r), r)
    BY <2>1 DEF DataWrite
  <2>6. ResponseWrite(s, r).lost = 0
    BY <1>2, <2>2, <2>4, BufferAccounts
  <2> QED BY <1>2, <2>2, <2>5, <2>6 DEF Written, Sparing
<1>4. CASE WriteFile
  <2>1. PICK r \in SendResults(FileOffer(s)) : Written(FileWrite(s, r), r)
    BY <1>4 DEF WriteFile
  <2>2. kind = "file" /\ Sends[kind] = "whole"
    BY <1>2, <1>4 DEF WriteFile, Borne
  <2>3. FileOffer(s) \in Nat
    BY <1>2, <2>2, FileOfferType DEF Readied
  <2>4. SendResult(FileOffer(s), r) /\ (r = Broken \/ r.len = FileOffer(s))
    BY <1>2, <2>1, <2>2, <2>3, SendsAre
  <2>5. FileWrite(s, r).lost = 0
    BY <1>2, <2>2, <2>4, FileAccounts
  <2> QED BY <1>2, <2>1, <2>2, <2>5 DEF Written, Sparing
<1>5. CASE WriteCgi
  <2>p. PICK p \in PipeReads(s) : \E r \in SendResults(CgiOffer(s, p)) :
          Written(CgiWrite(s, p, r), r)
    BY <1>5 DEF WriteCgi
  <2>1. PICK r \in SendResults(CgiOffer(s, p)) : Written(CgiWrite(s, p, r), r)
    BY <2>p
  <2>2. kind = "cgi" /\ Sends[kind] = "whole"
    BY <1>2, <1>5 DEF WriteCgi, Borne
  <2>3. s \in CgiStream /\ s.rd /\ (s.empty => s.pipe = << >>)
    BY <1>2, <2>2 DEF Readied
  <2>4. CgiOffer(s, p) \in Nat
    BY <2>3, PipeReadsType, CgiOfferType
  <2>5. /\ SendResult(CgiOffer(s, p), r) /\ r # WouldBlock
        /\ r = Broken \/ r.len = CgiOffer(s, p)
    BY <1>2, <2>1, <2>2, <2>4, SendsAre
  <2>6. s.feedback => s.buffer = << >>
    BY <1>1, <2>2 DEF Sparing
  <2> DEFINE o == CgiWrite(s, p, r)
  <2>7. /\ o.lost = 0
        /\ o.fault = "none" /\ ~o.ret => (o.s.feedback => o.s.buffer = << >>)
    BY <2>3, <2>5, <2>6, CgiWriteEnds
  <2>8. Written(o, r)
    BY <2>1
  <2> HIDE DEF o
  <2> QED BY <1>2, <2>7, <2>8 DEF Written, Sparing, Driven
<1> QED BY <1>3, <1>4, <1>5 DEF Next

(***************************************************************************)
(* Under such a kernel nothing is ever dropped.                            *)
(***************************************************************************)
LEMMA NothingLost ==
  ASSUME Borne PROVE Spec => []Sparing
<1>1. Init => Sparing
  <2>1. ASSUME Init, kind = "cgi" PROVE s.feedback = FALSE
    <3>1. PICK script \in Scripts :
            s = CgiOpen(NewCgi(0, 0), script, 0, NewRequestStream(0)).s
      BY <2>1 DEF Init
    <3> QED BY <3>1 DEF CgiOpen, NewCgi
  <2> QED BY <2>1 DEF Init, Sparing
<1>2. IInv /\ Sparing /\ [Next]_vars => Sparing'
  BY NextSparing DEF vars, Sparing, Driven
<1> QED BY <1>1, <1>2, Invariant, PTL DEF Spec

(***************************************************************************)
(* Where the kernel takes all that is offered of a file and of a script's  *)
(* output, a transfer that reports success is complete (protocol.h:54).    *)
(***************************************************************************)
THEOREM CompleteCorrect ==
  ASSUME Borne PROVE Spec => []Complete
<1>1. IInv /\ Sparing => Complete
  <2> SUFFICES ASSUME IInv, Sparing, s.state = "SUCCESS" PROVE sent = total
    BY DEF Complete
  <2>1. done /\ ~failed
    BY DEF IInv, TypeOK, Reported
  <2> QED BY <2>1 DEF IInv, TypeOK, Emptied, Sparing
<1> QED BY <1>1, Invariant, NothingLost, PTL

(***************************************************************************)
(* And every transfer is a Delivery: what is sent is taken from what is    *)
(* left; Write() is done in STATE_SUCCESS when all was sent, or in         *)
(* STATE_CLOSED after an error or an empty send with nothing left; and     *)
(* nothing follows (protocol.cpp:152, 160-166, 300-310, 401-411).          *)
(***************************************************************************)
THEOREM DeliveryCorrect ==
  ASSUME Borne PROVE Spec => ImplementsDelivery
<1>1. Init => Delivery!Init
  <2>1. ASSUME Init
        PROVE  total - sent \in Nat /\ s.state = "PENDING" /\ done = FALSE
               /\ failed = FALSE
    <3>1. sent = 0 /\ done = FALSE /\ failed = FALSE
      BY <2>1 DEF Init
    <3>2. total \in Nat /\ s.state = "PENDING"
      BY <2>1, <3>1, InitIInv DEF IInv, TypeOK, Reported
    <3> QED BY <3>1, <3>2
  <2> QED BY <2>1 DEF Delivery!Init
<1>2. ASSUME IInv, Sparing, Sparing', Next
      PROVE  Delivery!Next
  <2>1. PICK o, r : Written(o, r) /\ Accounts(kind, s, o, r) /\ Signs(o, r)
    BY <1>2, WriteAccounts
  <2>2. Driven /\ clock' \in NsecField
    BY <1>2, WriteAccounts
  <2>3. /\ IInv'
        /\ sent' \in Nat /\ sent' >= sent
        /\ done' \in BOOLEAN /\ failed' \in BOOLEAN
        /\ failed' => done' /\ sent' = sent
    BY <1>2, <2>1, <2>2, WrittenKeeps
  <2>4. total' = total /\ total \in Nat /\ sent \in Nat /\ done = FALSE
        /\ failed = FALSE
    BY <1>2, <2>1, <2>2 DEF Written, Driven, IInv, TypeOK, Reported
  <2>5. sent' <= total /\ (done' /\ ~failed' => sent' = total)
    <3>1. /\ lost' = 0 /\ sent' + lost' <= total'
          /\ done' /\ ~failed' => sent' + lost' = total'
      BY <1>2, <2>3 DEF IInv, TypeOK, Emptied, Sparing
    <3>2. \A a, b, t \in Nat : b = 0 => /\ a + b <= t => a <= t
                                        /\ a + b = t => a = t
      OBVIOUS
    <3>3. sent' \in Nat /\ lost' \in Nat /\ total' \in Nat
      BY <2>3 DEF IInv, TypeOK
    <3> QED BY <2>4, <3>1, <3>2, <3>3
  <2>6. /\ ~done' => s'.state = "PENDING"
        /\ done' => s'.state \in {"SUCCESS", "CLOSED"}
        /\ failed' => s'.state = "CLOSED"
        /\ done' /\ s'.state = "CLOSED" => sent' = sent
    <3>1. s' = o.s /\ done' = o.ret /\ sent' = sent + o.sent
          /\ failed' = (r = Broken /\ o.ret)
      BY <2>1 DEF Written
    <3>2. o.ret /\ o.s.state = "CLOSED" => sent' = sent
      BY <2>1, <2>4, <3>1 DEF Signs
    <3> QED BY <2>1, <3>1, <3>2 DEF Signs
  <2>7. CASE failed'
    BY <2>3, <2>4, <2>6, <2>7 DEF Delivery!Next, Delivery!Break
  <2>8. CASE ~failed' /\ done' /\ s'.state = "CLOSED"
    <3>1. total - sent = 0 /\ total' - sent' = total - sent
      BY <2>4, <2>5, <2>6, <2>8
    <3> QED BY <2>3, <2>4, <2>8, <3>1 DEF Delivery!Next, Delivery!End
  <2>9. CASE ~failed' /\ ~(done' /\ s'.state = "CLOSED")
    <3>1. total' - sent' \in 0..total - sent
      <4>1. \A a, b, t \in Nat : a <= b /\ b <= t => t - b \in 0..t - a
        OBVIOUS
      <4> QED BY <2>3, <2>4, <2>5, <4>1
    <3>2. done' => total' - sent' = 0 /\ s'.state = "SUCCESS"
      BY <2>3, <2>4, <2>5, <2>6, <2>9
    <3>3. ~done' => s'.state = "PENDING"
      BY <2>6
    <3> QED BY <2>3, <2>4, <2>9, <3>1, <3>2, <3>3 DEF Delivery!Next, Delivery!Send
  <2> QED BY <2>7, <2>8, <2>9
<1>3. UNCHANGED vars => UNCHANGED <<total - sent, s.state, done, failed>>
  BY DEF vars
<1>4. IInv /\ Sparing /\ Sparing' /\ [Next]_vars =>
        [Delivery!Next]_<<total - sent, s.state, done, failed>>
  BY <1>2, <1>3
<1> QED BY <1>1, <1>4, Invariant, NothingLost, PTL
        DEF Spec, ImplementsDelivery, Delivery!Spec

=============================================================================
