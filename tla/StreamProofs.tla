---------------------------- MODULE StreamProofs ----------------------------
(***************************************************************************)
(* What the operators of Streams and CgiStream return: the type of every   *)
(* stream after every method, for system call results within what the call *)
(* was offered.                                                            *)
(***************************************************************************)
EXTENDS CgiStream, SequenceTheorems, WellFoundedInduction, TLAPS

\* What a system call gives.
SystemResult == [len : Int, errno : {"none", "EAGAIN", "EPIPE", "ETIME"}]

(***************************************************************************)
(* A nonempty set of natural numbers has a least element.                  *)
(***************************************************************************)
LEMMA LeastNat ==
  ASSUME NEW T \in SUBSET Nat, T # {}
  PROVE  \E i \in T : \A j \in T : i <= j
<1> DEFINE R == OpToRel(<, Nat)
<1>1. IsWellFoundedOn(R, Nat)
  BY NatLessThanWellFounded
<1>2. \E i \in T : \A j \in T : ~ (<<j, i>> \in R)
  <2> HIDE DEF R
  <2> QED BY <1>1, WFMin
<1>3. \A i, j \in Nat : <<j, i>> \in R <=> j < i
  BY DEF OpToRel
<1> QED
  <2> HIDE DEF R
  <2>1. PICK i \in T : \A j \in T : ~ (<<j, i>> \in R)
    BY <1>2
  <2>2. ASSUME NEW j \in T PROVE i <= j
    <3>1. i \in Nat /\ j \in Nat
      OBVIOUS
    <3>2. ~ (j < i)
      BY <1>3, <2>1, <3>1
    <3> QED BY <3>1, <3>2
  <2> QED BY <2>2

(***************************************************************************)
(* FindBreak() answers a position of the buffer at which a break ends.     *)
(***************************************************************************)
LEMMA FindBreakType ==
  ASSUME NEW T, NEW buffer \in Seq(T), Breaks(buffer) # {}
  PROVE  FindBreak(buffer) \in Breaks(buffer) /\ FindBreak(buffer) \in 1..Len(buffer)
<1>1. Breaks(buffer) \in SUBSET Nat /\ Breaks(buffer) \subseteq 1..Len(buffer)
  BY DEF Breaks
<1>2. \E i \in Breaks(buffer) : \A j \in Breaks(buffer) : i <= j
  BY <1>1, LeastNat
<1>3. FindBreak(buffer) \in Breaks(buffer)
  BY <1>2 DEF FindBreak
<1> QED BY <1>1, <1>3

(***************************************************************************)
(* Two sequences joined: the units of both, and their lengths added.        *)
(***************************************************************************)
LEMMA ConcatType ==
  ASSUME NEW T, NEW a \in Seq(T), NEW b \in Seq(T)
  PROVE  a \o b \in Seq(T) /\ Len(a \o b) = Len(a) + Len(b)
BY ConcatProperties

(***************************************************************************)
(* What is left of a sequence when its first units are taken.              *)
(***************************************************************************)
LEMMA DroppedType ==
  ASSUME NEW T, NEW seq \in Seq(T), NEW n \in Nat
  PROVE  Dropped(seq, n) \in Seq(T)
BY SubSeqProperties, ElementOfSeq DEF Dropped

(***************************************************************************)
(* The first n units of a sequence.                                        *)
(***************************************************************************)
LEMMA PrefixType ==
  ASSUME NEW T, NEW seq \in Seq(T), NEW n \in 0..Len(seq)
  PROVE  SubSeq(seq, 1, n) \in Seq(T) /\ Len(SubSeq(seq, 1, n)) = n
BY SubSeqProperties, ElementOfSeq

(***************************************************************************)
(* The smaller of two naturals is one of them at most.                     *)
(***************************************************************************)
LEMMA Min2Type ==
  ASSUME NEW a \in Nat, NEW b \in Nat
  PROVE  Min2(a, b) \in Nat /\ Min2(a, b) <= a /\ Min2(a, b) <= b
BY DEF Min2

\* An outcome of a method whose stream is in S.
IsOutcome(o, S) ==
  /\ o.s \in S /\ o.ret \in BOOLEAN
  /\ o.sent \in Int /\ o.lost \in Nat /\ o.fault \in StreamFault

-----------------------------------------------------------------------------
(* The request stream.                                                     *)

(***************************************************************************)
(* Read() of the request stream keeps it a request stream                  *)
(* (protocol.cpp:90-111).                                                  *)
(***************************************************************************)
LEMMA RequestReadType ==
  ASSUME NEW T, NEW s \in RequestStream(T), NEW data \in Seq(T),
         NEW r \in SystemResult
  PROVE  IsOutcome(RequestRead(s, r, data), RequestStream(T))
<1> DEFINE buffer == s.buffer \o data
<1>1. s.buffer \in Seq(T) /\ buffer \in Seq(T)
  BY ConcatType DEF RequestStream
<1>2. [s EXCEPT !.state = "CLOSED"] \in RequestStream(T)
      /\ [s EXCEPT !.state = "CORRUPTED"] \in RequestStream(T)
      /\ [s EXCEPT !.buffer = buffer] \in RequestStream(T)
  BY <1>1 DEF RequestStream, StreamState
<1>3. ASSUME Breaks(buffer) # {}
      PROVE  [state |-> "SUCCESS", buffer |-> buffer, postl |-> FindBreak(buffer)]
               \in RequestStream(T)
  <2> HIDE DEF buffer
  <2>1. FindBreak(buffer) \in 1..Len(buffer) /\ Len(buffer) \in Nat
    BY <1>1, <1>3, FindBreakType, LenProperties
  <2> QED BY <1>1, <2>1 DEF RequestStream, StreamState
<1> HIDE DEF buffer
<1> QED
  BY <1>2, <1>3 DEF RequestRead, buffer, StreamFault, IsOutcome, Outcome, Undefined

(***************************************************************************)
(* Read() of a request is done with a closed stream, an oversized request, *)
(* or a request whose end lies in the buffer.                              *)
(***************************************************************************)
LEMMA RequestReadDone ==
  ASSUME NEW T, NEW s \in RequestStream(T), NEW data \in Seq(T),
         NEW r \in SystemResult, RequestRead(s, r, data).ret
  PROVE  LET q == RequestRead(s, r, data).s
         IN \/ q.state \in {"CLOSED", "CORRUPTED"}
            \/ q.state = "SUCCESS" /\ q.postl \in 1..Len(q.buffer)
<1> DEFINE buffer == s.buffer \o data
           q == RequestRead(s, r, data).s
<1>1. s.buffer \in Seq(T) /\ buffer \in Seq(T)
  BY ConcatType DEF RequestStream
<1>2. ASSUME Breaks(buffer) # {}
      PROVE  FindBreak(buffer) \in 1..Len(buffer)
  <2> HIDE DEF buffer
  <2> QED BY <1>1, <1>2, FindBreakType
<1> HIDE DEF buffer
<1>3. [s EXCEPT !.state = "CLOSED"].state = "CLOSED"
      /\ [s EXCEPT !.state = "CORRUPTED"].state = "CORRUPTED"
  BY DEF RequestStream
<1> QED BY <1>2, <1>3 DEF RequestRead, buffer, Outcome, Undefined

(***************************************************************************)
(* Reset() of the request stream does (protocol.cpp:117-122).              *)
(***************************************************************************)
LEMMA RequestResetType ==
  ASSUME NEW T, NEW s \in RequestStream(T)
  PROVE  IsOutcome(RequestReset(s), RequestStream(T))
<1>1. Dropped(s.buffer, s.postl) \in Seq(T)
  BY DroppedType DEF RequestStream
<1>2. [s EXCEPT !.state = "PENDING"] \in RequestStream(T)
      /\ [s EXCEPT !.state = "PENDING", !.buffer = Dropped(s.buffer, s.postl)]
           \in RequestStream(T)
  BY <1>1 DEF RequestStream, StreamState
<1> QED BY <1>2 DEF RequestReset, StreamFault, IsOutcome, Outcome, Undefined

(***************************************************************************)
(* CheckPipeline() does (protocol.cpp:124-132).                            *)
(***************************************************************************)
LEMMA CheckPipelineType ==
  ASSUME NEW T, NEW s \in RequestStream(T)
  PROVE  CheckPipeline(s).s \in RequestStream(T) /\ CheckPipeline(s).ret \in BOOLEAN
<1>1. s.buffer \in Seq(T)
  BY DEF RequestStream
<1>2. CASE Breaks(s.buffer) = {}
  BY <1>2 DEF CheckPipeline
<1>3. CASE Breaks(s.buffer) # {}
  <2>1. FindBreak(s.buffer) \in Nat
    BY <1>1, <1>3, FindBreakType
  <2>2. [s EXCEPT !.state = "SUCCESS", !.postl = FindBreak(s.buffer)] \in RequestStream(T)
    BY <2>1 DEF RequestStream, StreamState
  <2> QED BY <1>3, <2>2 DEF CheckPipeline
<1> QED BY <1>2, <1>3

-----------------------------------------------------------------------------
(* The streams of generated buffers and of files.                          *)

(***************************************************************************)
(* A cleared buffer is a buffer stream (protocol.cpp:173-177).             *)
(***************************************************************************)
LEMMA EmptyBufferType == EmptyBuffer \in BufferStream
BY DEF EmptyBuffer, BufferStream, StreamState

(***************************************************************************)
(* send() is never offered more than the buffer holds                      *)
(* (protocol.cpp:155-156).                                                 *)
(***************************************************************************)
LEMMA BufferOfferType ==
  ASSUME NEW s \in BufferStream
  PROVE  BufferOffer(s) \in 0..s.size
BY ChunkAssumption, Min2Type DEF BufferOffer, BufferStream

(***************************************************************************)
(* Write() of a generated buffer never takes more than it holds, although  *)
(* a length of -1 is compared as unsigned (protocol.cpp:152-171).          *)
(***************************************************************************)
LEMMA ResponseWriteType ==
  ASSUME NEW s \in BufferStream, NEW r \in SystemResult,
         -1 <= r.len, r.len <= BufferOffer(s)
  PROVE  IsOutcome(ResponseWrite(s, r), BufferStream)
<1>1. s.size \in Nat /\ r.len \in Int /\ BufferOffer(s) \in 0..s.size
  BY BufferOfferType DEF BufferStream, SystemResult
<1>2. /\ Moved(r) \in Int /\ s.size - Moved(r) \in Nat /\ s.size - r.len \in Nat
  BY <1>1 DEF Moved
<1>3. /\ [s EXCEPT !.state = "CLOSED"] \in BufferStream
      /\ [s EXCEPT !.state = "SUCCESS"] \in BufferStream
      /\ [s EXCEPT !.size = s.size - r.len] \in BufferStream
  BY <1>2 DEF BufferStream, StreamState
<1> QED BY <1>1, <1>2, <1>3 DEF ResponseWrite, StreamFault, IsOutcome, Outcome

FileRecord == [state : StreamState, open : BOOLEAN, pos : Nat, size : Nat,
               eof : BOOLEAN]

(***************************************************************************)
(* A file stream is a record whose position is within the file.            *)
(***************************************************************************)
LEMMA FileStreamIff ==
  \A f : f \in FileStream <=> f \in FileRecord /\ f.pos <= f.size
BY DEF FileStream, FileRecord

(***************************************************************************)
(* A file stream without a file (protocol.cpp:321-327).                    *)
(***************************************************************************)
LEMMA ClosedFileType == ClosedFile \in FileStream
BY DEF ClosedFile, FileStream, StreamState

(***************************************************************************)
(* A file that was just opened (protocol.cpp:329-339).                     *)
(***************************************************************************)
LEMMA OpenFileType ==
  ASSUME NEW size \in Nat
  PROVE  OpenFile(size) \in FileStream
<1>1. ClosedFile \in FileRecord /\ ClosedFile.pos = 0
  BY DEF ClosedFile, FileRecord, StreamState
<1>2. /\ OpenFile(size) \in FileRecord
      /\ OpenFile(size).pos = 0 /\ OpenFile(size).size = size
  BY <1>1 DEF OpenFile, FileRecord
<1> QED BY <1>2, FileStreamIff

(***************************************************************************)
(* A read of the file stays within it (protocol.cpp:296-297).              *)
(***************************************************************************)
LEMMA FileOfferType ==
  ASSUME NEW s \in FileStream
  PROVE  FileOffer(s) \in Nat /\ s.pos + FileOffer(s) <= s.size
BY ChunkAssumption DEF FileOffer, FileStream, Min2

(***************************************************************************)
(* Write() of a file keeps the position within the file, also where the    *)
(* call of fseek() fails (protocol.cpp:294-314).                           *)
(***************************************************************************)
LEMMA FileWriteType ==
  ASSUME NEW s \in FileStream, NEW r \in SystemResult,
         -1 <= r.len, r.len <= FileOffer(s)
  PROVE  IsOutcome(FileWrite(s, r), FileStream)
<1> DEFINE res == FileOffer(s)
           next == [s EXCEPT !.pos = s.pos + res,
                             !.eof = s.eof \/ s.size - s.pos < Chunk]
<1>1. res \in Nat /\ s.pos + res <= s.size /\ r.len \in Int
  BY FileOfferType DEF SystemResult
<1>2. /\ next \in FileStream
      /\ [next EXCEPT !.state = "CLOSED"] \in FileStream
      /\ [next EXCEPT !.state = "SUCCESS"] \in FileStream
  <2> HIDE DEF res
  <2>1. s \in FileRecord /\ s.pos + res \in Nat
    BY <1>1, FileStreamIff DEF FileRecord
  <2>2. /\ next \in FileRecord /\ next.pos <= next.size
        /\ [next EXCEPT !.state = "CLOSED"] \in FileRecord
        /\ [next EXCEPT !.state = "SUCCESS"] \in FileRecord
        /\ [next EXCEPT !.state = "CLOSED"].pos = next.pos
        /\ [next EXCEPT !.state = "SUCCESS"].pos = next.pos
        /\ [next EXCEPT !.state = "CLOSED"].size = next.size
        /\ [next EXCEPT !.state = "SUCCESS"].size = next.size
    BY <1>1, <2>1 DEF FileRecord, StreamState
  <2> HIDE DEF next
  <2> QED BY <2>2, FileStreamIff
<1>3. Moved(r) \in Int /\ res - Moved(r) \in Nat
  <2> HIDE DEF res
  <2> QED BY <1>1 DEF Moved, res
<1> HIDE DEF res, next
<1> QED BY <1>1, <1>2, <1>3 DEF FileWrite, res, next, StreamFault, IsOutcome, Outcome

-----------------------------------------------------------------------------
(* The CGI stream.                                                         *)

(***************************************************************************)
(* The constructor of the CGI stream (protocol.cpp:341-343).               *)
(***************************************************************************)
LEMMA NewCgiType ==
  ASSUME NEW datac \in Nat, NEW datal \in Nat
  PROVE  NewCgi(datac, datal) \in CgiStream
BY EmptySeq DEF NewCgi, CgiStream, StreamState

(***************************************************************************)
(* The constructor of the request stream (protocol.cpp:82-84).             *)
(***************************************************************************)
LEMMA NewRequestType ==
  ASSUME NEW T, NEW postl \in Nat
  PROVE  NewRequestStream(postl) \in RequestStream(T)
BY EmptySeq DEF NewRequestStream, RequestStream, StreamState

(***************************************************************************)
(* Reset() of the CGI stream (protocol.cpp:460-473).                       *)
(***************************************************************************)
LEMMA CgiResetType ==
  ASSUME NEW s \in CgiStream
  PROVE  CgiReset(s) \in CgiStream
BY EmptySeq DEF CgiReset, CgiStream, StreamState

(***************************************************************************)
(* Open() of the CGI stream, for a request whose end is in the buffer:     *)
(* otherwise the count of early body units wraps (protocol.cpp:515-532).   *)
(***************************************************************************)
LEMMA CgiOpenType ==
  ASSUME NEW T, NEW s \in CgiStream, NEW req \in RequestStream(T),
         NEW script \in Seq(CgiUnit), NEW datal \in Nat,
         req.postl <= Len(req.buffer)
  PROVE  /\ CgiOpen(s, script, datal, req).s \in CgiStream
         /\ CgiOpen(s, script, datal, req).req \in RequestStream(T)
<1> DEFINE early == Len(req.buffer) - req.postl
<1>1. early \in Nat
  BY LenProperties DEF RequestStream
<1> HIDE DEF early
<1>2. [s EXCEPT !.child = TRUE, !.rd = TRUE, !.wr = ~(early > 0 /\ early >= datal),
                !.datac = early, !.datal = datal, !.pipe = script] \in CgiStream
  BY <1>1 DEF CgiStream
<1>3. [req EXCEPT !.postl = datal] \in RequestStream(T)
  BY DEF RequestStream
<1> QED BY <1>2, <1>3 DEF CgiOpen, early

\* A read of the output pipe: what PipeReads() allows.
PipeRead(s, p) ==
  p \in SystemResult /\ p.len <= Len(s.pipe)

(***************************************************************************)
(* A read of the output pipe gives no more than the pipe holds             *)
(* (protocol.cpp:353-367).                                                 *)
(***************************************************************************)
LEMMA PipeReadsType ==
  ASSUME NEW s \in CgiStream, NEW p \in PipeReads(s)
  PROVE  PipeRead(s, p)
<1>1. s.pipe \in Seq(CgiUnit) /\ Len(s.pipe) \in Nat
  BY LenProperties DEF CgiStream
<1>2. Min2(Chunk, Len(s.pipe)) \in Nat /\ Min2(Chunk, Len(s.pipe)) <= Len(s.pipe)
  BY <1>1, ChunkAssumption DEF Min2
<1>3. Expired \in SystemResult /\ WouldBlock \in SystemResult
      /\ Expired.len = -1 /\ WouldBlock.len = -1
  BY DEF Expired, WouldBlock, Result, SystemResult
<1>4. ASSUME NEW n \in 0..Len(s.pipe), p = Result(n, "none")
      PROVE  PipeRead(s, p)
  BY <1>1, <1>4 DEF Result, SystemResult, PipeRead
<1>5. CASE p \in Transferred({0})
  BY <1>1, <1>4, <1>5 DEF Transferred
<1>6. CASE p \in Transferred(1..Min2(Chunk, Len(s.pipe)))
  <2>1. PICK n \in 1..Min2(Chunk, Len(s.pipe)) : p = Result(n, "none")
    BY <1>6 DEF Transferred
  <2>2. n \in 0..Len(s.pipe)
    BY <1>1, <1>2
  <2> QED BY <1>4, <2>1, <2>2
<1>7. CASE p \in {Expired, WouldBlock}
  BY <1>1, <1>3, <1>7 DEF PipeRead
<1> QED BY <1>5, <1>6, <1>7 DEF PipeReads

(***************************************************************************)
(* Taking in output keeps the stream's type (protocol.cpp:371-391).        *)
(***************************************************************************)
LEMMA CgiIntakeType ==
  ASSUME NEW s \in CgiStream, NEW p, PipeRead(s, p)
  PROVE  /\ CgiIntake(s, p) \in CgiStream
         /\ SubSeq(s.pipe, 1, Moved(p)) \in Seq(CgiUnit)
         /\ Len(SubSeq(s.pipe, 1, Moved(p))) = Moved(p)
         /\ Moved(p) \in Nat
<1> DEFINE taken == [s EXCEPT !.pipe = Dropped(s.pipe, Moved(p)),
                              !.empty = s.empty \/ p.len <= 0]
           got == SubSeq(s.pipe, 1, Moved(p))
           buffer == s.buffer \o got
<1>1. /\ s.pipe \in Seq(CgiUnit) /\ s.buffer \in Seq(CgiUnit)
      /\ Moved(p) \in 0..Len(s.pipe)
  BY LenProperties DEF CgiStream, PipeRead, SystemResult, Moved
<1>2. got \in Seq(CgiUnit) /\ Len(got) = Moved(p) /\ Moved(p) \in Nat
  BY <1>1, PrefixType
<1>3. Dropped(s.pipe, Moved(p)) \in Seq(CgiUnit)
  BY <1>1, DroppedType
<1>4. buffer \in Seq(CgiUnit)
  <2> HIDE DEF got
  <2> QED BY <1>1, <1>2, ConcatType
<1>5. <<StatusLine>> \o buffer \in Seq(CgiUnit)
  <2>1. <<StatusLine>> \in Seq(CgiUnit)
    BY DEF StatusLine, CgiUnit
  <2> HIDE DEF buffer
  <2> QED BY <1>4, <2>1, ConcatType
<1>6. taken \in CgiStream
  BY <1>3 DEF CgiStream
<1>7. [taken EXCEPT !.buffer = buffer] \in CgiStream
      /\ [taken EXCEPT !.buffer = <<StatusLine>> \o buffer, !.feedback = TRUE] \in CgiStream
  <2> HIDE DEF taken, buffer
  <2> QED BY <1>4, <1>5, <1>6 DEF CgiStream
<1>8. CgiIntake(s, p) \in CgiStream
  BY <1>6, <1>7 DEF CgiIntake
<1> QED BY <1>2, <1>8

(***************************************************************************)
(* What Write() hands to send() is a length.                               *)
(***************************************************************************)
LEMMA CgiOfferType ==
  ASSUME NEW s \in CgiStream, NEW p, PipeRead(s, p)
  PROVE  CgiOffer(s, p) \in Nat
<1>1. CgiIntake(s, p).buffer \in Seq(CgiUnit) /\ Moved(p) \in Nat
  BY CgiIntakeType DEF CgiStream
<1>2. Len(CgiIntake(s, p).buffer) \in Nat
  BY <1>1, LenProperties
<1> QED BY <1>1, <1>2 DEF CgiOffer

(***************************************************************************)
(* Write() of the CGI stream keeps its type, for any result of the read    *)
(* and of the send (protocol.cpp:349-422).                                 *)
(***************************************************************************)
LEMMA CgiWriteType ==
  ASSUME NEW s \in CgiStream, NEW p, PipeRead(s, p), NEW r \in SystemResult
  PROVE  IsOutcome(CgiWrite(s, p, r), CgiStream)
<1> DEFINE a == CgiIntake(s, p)
           got == SubSeq(s.pipe, 1, Moved(p))
<1>1. /\ a \in CgiStream /\ got \in Seq(CgiUnit) /\ Len(got) \in Nat
      /\ a.buffer \in Seq(CgiUnit)
  BY CgiIntakeType DEF CgiStream
<1> HIDE DEF a, got
<1>2. ASSUME NEW b \in Seq(CgiUnit) PROVE [a EXCEPT !.buffer = b] \in CgiStream
  BY <1>1 DEF CgiStream
<1>3. [a EXCEPT !.state = "CLOSED"] \in CgiStream
  BY <1>1 DEF CgiStream, StreamState
<1>4. ~(r.len < 0) => r.len \in Nat
  BY DEF SystemResult
<1>5. ~(r.len < 0) => /\ [a EXCEPT !.buffer = Dropped(a.buffer, r.len)] \in CgiStream
                      /\ [a EXCEPT !.buffer = Dropped(got, r.len)] \in CgiStream
  BY <1>1, <1>2, <1>4, DroppedType
<1> QED
  BY <1>1, <1>3, <1>4, <1>5
     DEF CgiWrite, a, got, IsOutcome, Outcome, Undefined, StreamFault

(***************************************************************************)
(* Read() of the CGI stream keeps its type (protocol.cpp:424-458).         *)
(***************************************************************************)
LEMMA CgiReadType ==
  ASSUME NEW s \in CgiStream, NEW r \in SystemResult
  PROVE  IsOutcome(CgiRead(s, r), CgiStream)
<1>1. [s EXCEPT !.state = "CLOSED", !.wr = FALSE] \in CgiStream
  BY DEF CgiStream, StreamState
<1> DEFINE got == [s EXCEPT !.datac = s.datac + r.len]
<1>2. ~(r.len < 0) => got \in CgiStream
  BY DEF CgiStream, SystemResult
<1>3. ~(r.len < 0) => [got EXCEPT !.state = "SUCCESS", !.wr = FALSE] \in CgiStream
  <2> HIDE DEF got
  <2> QED BY <1>2 DEF CgiStream, StreamState
<1> QED
  BY <1>1, <1>2, <1>3 DEF CgiRead, IsOutcome, Outcome, Undefined, StreamFault

(***************************************************************************)
(* Read() of a body is not done while it is short of Content-Length.       *)
(***************************************************************************)
LEMMA CgiReadShort ==
  ASSUME NEW s \in CgiStream, NEW r \in SystemResult, s.datac < s.datal,
         ~CgiRead(s, r).ret
  PROVE  CgiRead(s, r).s.datac < CgiRead(s, r).s.datal
<1> DEFINE got == [s EXCEPT !.datac = s.datac + r.len]
<1>1. ~(r.len < 0) => got.datac \in Nat /\ got.datal \in Nat
  BY DEF CgiStream, SystemResult
<1> HIDE DEF got
<1> QED BY <1>1 DEF CgiRead, got, Outcome, Undefined

(***************************************************************************)
(* Units beyond Content-Length are units that were received, as long as    *)
(* the body was short of it before (protocol.cpp:438-443).                 *)
(***************************************************************************)
LEMMA CgiExcessType ==
  ASSUME NEW T, NEW s \in CgiStream, NEW data \in Seq(T), s.datac < s.datal
  PROVE  CgiExcess(s, data) \in Seq(T)
<1>1. s.datal - s.datac \in Nat
  BY DEF CgiStream
<1> QED BY <1>1, DroppedType, EmptySeq DEF CgiExcess

-----------------------------------------------------------------------------
(* What becomes of the units of a response.                                *)

\* What send() of n units returns: some of them or, only where there are none,
\* zero; nothing for now; or an error.
SendResult(n, r) ==
  /\ r \in SystemResult /\ r.len \in -1..n
  /\ r.len = 0 => n = 0
  /\ r.len = -1 => r \in {WouldBlock, Broken}

(***************************************************************************)
(* A page or a header: what Write() takes from the buffer was sent, or is  *)
(* counted as lost, and unless it is done something is left; only EAGAIN   *)
(* loses units (protocol.cpp:152-173, 251-272).                            *)
(***************************************************************************)
LEMMA ResponseAccount ==
  ASSUME NEW s \in BufferStream, s.size > 0, NEW r, SendResult(BufferOffer(s), r)
  PROVE  LET o == ResponseWrite(s, r)
         IN /\ o.fault = "none"
            /\ r = Broken => o.ret /\ o.lost = 0
            /\ r # Broken /\ o.ret => o.sent + o.lost = s.size
            /\ ~o.ret => o.s.size > 0 /\ o.s.size + o.sent + o.lost = s.size
            /\ r # WouldBlock => o.lost = 0
<1>1. /\ s.size \in Nat /\ BufferOffer(s) \in 0..s.size /\ BufferOffer(s) <= Chunk
      /\ BufferOffer(s) > 0
  BY ChunkAssumption, BufferOfferType DEF BufferStream, BufferOffer, Min2
<1>2. r.len \in -1..BufferOffer(s) /\ r.len # 0 /\ r.len \in Int
  BY <1>1 DEF SendResult, SystemResult
<1>3. Failed(r) <=> r = Broken
  BY <1>2 DEF SendResult, Failed, Broken, WouldBlock, Result, SystemResult
<1>4. CASE Failed(r)
  BY <1>3, <1>4 DEF ResponseWrite, Outcome, Broken, WouldBlock, Result
<1>5. CASE ~Failed(r) /\ SizeT(r.len) >= s.size
  <2>1. Moved(r) \in 0..s.size
    BY <1>1, <1>2 DEF Moved
  <2>2. r # WouldBlock => Moved(r) = s.size
    <3>1. r # WouldBlock => r.len \in 1..BufferOffer(s)
      BY <1>2, <1>3, <1>5 DEF SendResult
    <3>2. r # WouldBlock => SizeT(r.len) = r.len
      BY <1>1, <3>1, SizeAssumption, ChunkAssumption DEF SizeT
    <3> QED BY <1>1, <1>5, <3>1, <3>2 DEF Moved
  <2> QED BY <1>1, <1>3, <1>5, <2>1, <2>2 DEF ResponseWrite, Outcome
<1>6. CASE ~Failed(r) /\ ~(SizeT(r.len) >= s.size)
  <2>1. s.size - r.len > 0
    <3>1. r.len > 0 => SizeT(r.len) = r.len
      BY <1>1, <1>2, SizeAssumption, ChunkAssumption DEF SizeT
    <3> QED BY <1>1, <1>2, <1>6, <3>1
  <2> DEFINE n == [s EXCEPT !.size = s.size - r.len]
  <2>2. n.size = s.size - r.len
    BY DEF BufferStream
  <2>3. ResponseWrite(s, r) = Outcome(n, FALSE, r.len, 0)
    BY <1>6 DEF ResponseWrite
  <2> HIDE DEF n
  <2>4. LET o == ResponseWrite(s, r)
        IN /\ o.s.size = s.size - r.len /\ ~o.ret /\ o.sent = r.len
           /\ o.lost = 0 /\ o.fault = "none"
    BY <2>2, <2>3 DEF Outcome
  <2> QED BY <1>1, <1>2, <1>3, <1>6, <2>1, <2>4
<1> QED BY <1>4, <1>5, <1>6

(***************************************************************************)
(* A file: the units of a chunk that were not sent are lost, and the end   *)
(* of the file is where the position says (protocol.cpp:296-319).          *)
(***************************************************************************)
LEMMA FileAccount ==
  ASSUME NEW s \in FileStream, s.eof => s.pos = s.size,
         NEW r, SendResult(FileOffer(s), r)
  PROVE  LET o == FileWrite(s, r)
         IN /\ o.fault = "none" /\ o.s.open = s.open /\ o.s.size = s.size
            /\ o.s.eof => o.s.pos = o.s.size
            /\ r = Broken => o.ret
            /\ r # Broken => o.sent + o.lost = o.s.pos - s.pos
            /\ r # Broken /\ o.ret => o.s.pos = o.s.size
<1> DEFINE res  == FileOffer(s)
           next == [s EXCEPT !.pos = s.pos + res,
                             !.eof = s.eof \/ s.size - s.pos < Chunk]
<1>1. /\ s.pos \in Nat /\ s.size \in Nat /\ s.pos <= s.size /\ s.eof \in BOOLEAN
      /\ res \in Nat /\ res <= s.size - s.pos
      /\ s.size - s.pos < Chunk => res = s.size - s.pos
      /\ res = 0 => s.pos = s.size
  BY ChunkAssumption DEF FileStream, FileOffer, Min2
<1>2. r.len \in -1..res /\ r.len \in Int /\ (r.len = 0 => res = 0)
  BY <1>1 DEF SendResult, SystemResult
<1>3. Failed(r) <=> r = Broken \/ r.len = 0
  BY <1>2 DEF SendResult, Failed, Broken, WouldBlock, Result, SystemResult
<1>4. /\ next.pos = s.pos + res /\ next.size = s.size /\ next.open = s.open
      /\ next.eof => next.pos = next.size
  BY <1>1 DEF FileStream
<1>a. ASSUME NEW st
      PROVE  LET n == [next EXCEPT !.state = st]
             IN n.pos = next.pos /\ n.size = next.size
                /\ n.open = next.open /\ n.eof = next.eof
  BY DEF FileStream
<1>5. Moved(r) = IF r.len > 0 THEN r.len ELSE 0
  BY DEF Moved
<1> HIDE DEF res
<1>6. FileWrite(s, r) =
        IF Failed(r) THEN Outcome([next EXCEPT !.state = "CLOSED"], TRUE, 0, 0)
        ELSE IF r.len < res THEN Outcome(next, FALSE, Moved(r), res - Moved(r))
        ELSE IF next.eof
             THEN Outcome([next EXCEPT !.state = "SUCCESS"], TRUE, r.len, 0)
        ELSE Outcome(next, FALSE, r.len, 0)
  BY DEF FileWrite, res
<1> HIDE DEF next
<1> QED BY <1>1, <1>2, <1>3, <1>4, <1>a, <1>5, <1>6 DEF Outcome, Broken, Result

\* Units of a script's response that are still to be sent: its output, and the
\* status line before it.
CgiHeld(s) ==
  Len(s.pipe) + Len(s.buffer) + IF s.feedback THEN 0 ELSE 1

(***************************************************************************)
(* Taking in output moves it from the pipe to the buffer, or sets it aside *)
(* where the header was found before (protocol.cpp:371-391).               *)
(***************************************************************************)
LEMMA CgiIntakeAccount ==
  ASSUME NEW s \in CgiStream, NEW p, PipeRead(s, p)
  PROVE  LET a == CgiIntake(s, p)
         IN /\ a.rd = s.rd /\ a.datal = s.datal /\ a.child = s.child
            /\ Len(a.pipe) = Len(s.pipe) - Moved(p)
            /\ s.feedback => a.feedback /\ a.buffer = s.buffer
            /\ ~s.feedback => CgiHeld(a) = CgiHeld(s)
<1> DEFINE taken == [s EXCEPT !.pipe = Dropped(s.pipe, Moved(p)),
                              !.empty = s.empty \/ p.len <= 0]
           got == SubSeq(s.pipe, 1, Moved(p))
           buffer == s.buffer \o got
<1>1. /\ s.pipe \in Seq(CgiUnit) /\ s.buffer \in Seq(CgiUnit)
      /\ Moved(p) \in 0..Len(s.pipe) /\ Len(s.pipe) \in Nat /\ Len(s.buffer) \in Nat
  BY LenProperties DEF CgiStream, PipeRead, SystemResult, Moved
<1>2. got \in Seq(CgiUnit) /\ Len(got) = Moved(p)
  BY <1>1, PrefixType
<1>3. Len(Dropped(s.pipe, Moved(p))) = Len(s.pipe) - Moved(p)
  BY <1>1, SubSeqProperties DEF Dropped
<1>4. buffer \in Seq(CgiUnit) /\ Len(buffer) = Len(s.buffer) + Moved(p)
  <2> HIDE DEF got
  <2> QED BY <1>1, <1>2, ConcatType
<1>5. Len(<<StatusLine>> \o buffer) = 1 + Len(buffer)
  <2>1. <<StatusLine>> \in Seq(CgiUnit) /\ Len(<<StatusLine>>) = 1
    BY DEF StatusLine, CgiUnit
  <2> HIDE DEF buffer
  <2> QED BY <1>4, <2>1, ConcatType
<1>6. /\ taken.rd = s.rd /\ taken.datal = s.datal /\ taken.child = s.child
      /\ taken.pipe = Dropped(s.pipe, Moved(p))
      /\ taken.feedback = s.feedback /\ taken.buffer = s.buffer
  BY DEF CgiStream
<1>7. ASSUME NEW b
      PROVE  LET n == [taken EXCEPT !.buffer = b]
                 m == [taken EXCEPT !.buffer = b, !.feedback = TRUE]
             IN /\ n.rd = s.rd /\ n.datal = s.datal /\ n.child = s.child
                /\ n.pipe = taken.pipe /\ n.feedback = s.feedback /\ n.buffer = b
                /\ m.rd = s.rd /\ m.datal = s.datal /\ m.child = s.child
                /\ m.pipe = taken.pipe /\ m.feedback = TRUE /\ m.buffer = b
  BY DEF CgiStream
<1>8. CgiIntake(s, p) =
        IF s.feedback THEN taken
        ELSE IF Breaks(buffer) = {} THEN [taken EXCEPT !.buffer = buffer]
        ELSE [taken EXCEPT !.buffer = <<StatusLine>> \o buffer, !.feedback = TRUE]
  BY DEF CgiIntake
<1> HIDE DEF taken, buffer, got
<1>9. CASE s.feedback
  BY <1>1, <1>3, <1>6, <1>8, <1>9
<1>10. CASE ~s.feedback
  <2> DEFINE n == [taken EXCEPT !.buffer = buffer]
             m == [taken EXCEPT !.buffer = <<StatusLine>> \o buffer, !.feedback = TRUE]
  <2>1. /\ n.rd = s.rd /\ n.datal = s.datal /\ n.child = s.child
        /\ n.pipe = taken.pipe /\ n.buffer = buffer /\ ~n.feedback
    BY <1>7, <1>10
  <2>2. /\ m.rd = s.rd /\ m.datal = s.datal /\ m.child = s.child
        /\ m.pipe = taken.pipe /\ m.buffer = <<StatusLine>> \o buffer /\ m.feedback
    BY <1>7
  <2>3. CgiIntake(s, p) \in {n, m}
    BY <1>8, <1>10
  <2> HIDE DEF n, m
  <2>4. CgiHeld(s) = Len(s.pipe) + Len(s.buffer) + 1
    BY <1>10 DEF CgiHeld
  <2>5. CgiHeld(n) = Len(s.pipe) - Moved(p) + (Len(s.buffer) + Moved(p)) + 1
    BY <1>3, <1>4, <1>6, <2>1 DEF CgiHeld
  <2>6. CgiHeld(m) = Len(s.pipe) - Moved(p) + (1 + (Len(s.buffer) + Moved(p))) + 0
    BY <1>3, <1>4, <1>5, <1>6, <2>2 DEF CgiHeld
  <2>7. CgiHeld(n) = CgiHeld(s) /\ CgiHeld(m) = CgiHeld(s)
    <3> DEFINE x == Len(s.pipe)
               y == Len(s.buffer)
               z == Moved(p)
    <3>1. x \in Int /\ y \in Int /\ z \in Int
      BY <1>1
    <3>2. /\ CgiHeld(s) = x + y + 1
          /\ CgiHeld(n) = x - z + (y + z) + 1
          /\ CgiHeld(m) = x - z + (1 + (y + z)) + 0
      BY <2>4, <2>5, <2>6
    <3> HIDE DEF x, y, z
    <3> QED BY <3>1, <3>2
  <2> QED BY <1>3, <1>6, <1>10, <2>1, <2>2, <2>3, <2>7
<1> QED BY <1>9, <1>10

(***************************************************************************)
(* A script's output: unless Write() is done or undefined, what left pipe  *)
(* and buffer was sent or dropped (protocol.cpp:350-426).                  *)
(***************************************************************************)
LEMMA CgiAccount ==
  ASSUME NEW s \in CgiStream, NEW p, PipeRead(s, p),
         NEW r, SendResult(CgiOffer(s, p), r)
  PROVE  LET o == CgiWrite(s, p, r)
         IN /\ o.s.rd = s.rd /\ o.s.datal = s.datal
            /\ o.fault = "none" /\ ~o.ret =>
                 CgiHeld(o.s) + o.sent + o.lost = CgiHeld(s)
            /\ o.fault = "none" /\ o.ret => r = Broken \/ CgiOffer(s, p) = 0
            /\ o.fault # "none" => ~o.ret
<1> DEFINE a == CgiIntake(s, p)
           got == SubSeq(s.pipe, 1, Moved(p))
<1>1. /\ a \in CgiStream /\ got \in Seq(CgiUnit) /\ Len(got) = Moved(p)
      /\ Moved(p) \in Nat
  BY CgiIntakeType
<1>2. /\ a.rd = s.rd /\ a.datal = s.datal
      /\ Len(a.pipe) = Len(s.pipe) - Moved(p)
      /\ s.feedback => a.feedback /\ a.buffer = s.buffer
      /\ ~s.feedback => CgiHeld(a) = CgiHeld(s)
  BY CgiIntakeAccount
<1>3. /\ a.buffer \in Seq(CgiUnit) /\ Len(a.buffer) \in Nat /\ Len(a.pipe) \in Nat
      /\ Len(s.buffer) \in Nat /\ Len(s.pipe) \in Nat
      /\ s.feedback \in BOOLEAN /\ a.feedback \in BOOLEAN
  BY <1>1, LenProperties DEF CgiStream
<1>4. CgiOffer(s, p) = IF p = WouldBlock \/ ~a.feedback THEN 0
                       ELSE IF a.buffer # << >> THEN Len(a.buffer) ELSE Moved(p)
  BY DEF CgiOffer
<1>5. /\ r.len \in Int /\ r.len <= CgiOffer(s, p)
      /\ r.len >= -1 /\ (r.len = 0 => CgiOffer(s, p) = 0)
      /\ Failed(r) => r = Broken \/ r.len = 0
  BY <1>1, <1>3, <1>4 DEF SendResult, SystemResult, Failed, WouldBlock, Broken, Result
<1>6. ASSUME NEW b \in Seq(CgiUnit), NEW n \in 0..Len(b)
      PROVE  Len(Dropped(b, n)) = Len(b) - n
  BY <1>6, LenProperties, SubSeqProperties DEF Dropped
<1>7. ASSUME NEW b, NEW st
      PROVE  LET n == [a EXCEPT !.buffer = b]
                 m == [a EXCEPT !.state = st]
             IN /\ n.rd = a.rd /\ n.datal = a.datal /\ n.pipe = a.pipe
                /\ n.feedback = a.feedback /\ n.buffer = b
                /\ m.rd = a.rd /\ m.datal = a.datal
  BY <1>1 DEF CgiStream
<1>8. CgiWrite(s, p, r) =
        IF ~s.rd THEN Undefined(s, "BadPipe")
        ELSE IF p = WouldBlock THEN Outcome(s, FALSE, 0, 0)
        ELSE IF ~s.feedback /\ p.len < 0 THEN Undefined(a, "Range")
        ELSE IF ~s.feedback /\ a.buffer = << >> THEN Undefined(a, "FindBreak")
        ELSE IF ~a.feedback THEN Outcome(a, FALSE, 0, 0)
        ELSE IF Failed(r) THEN Outcome([a EXCEPT !.state = "CLOSED"], TRUE, 0, 0)
        ELSE IF a.buffer # << >> /\ r.len < 0 THEN Undefined(a, "EraseOutput")
        ELSE IF r.len < 0 THEN Undefined(a, "Range")
        ELSE IF a.buffer # << >>
             THEN Outcome([a EXCEPT !.buffer = Dropped(a.buffer, r.len)], FALSE, r.len,
                          IF s.feedback THEN Len(got) ELSE 0)
        ELSE Outcome([a EXCEPT !.buffer = Dropped(got, r.len)], FALSE, r.len, 0)
  BY DEF CgiWrite
<1> HIDE DEF a, got
<1> DEFINE o == CgiWrite(s, p, r)
<1>d. CgiHeld(s) \in Int
  BY <1>3 DEF CgiHeld
<1> HIDE DEF o
<1>9. CASE ~s.rd \/ p = WouldBlock
  <2>1. o = Undefined(s, "BadPipe") \/ o = Outcome(s, FALSE, 0, 0)
    BY <1>8, <1>9 DEF o
  <2>2. /\ o.s = s /\ ~o.ret
        /\ o.fault = "none" => o.sent = 0 /\ o.lost = 0
    BY <2>1 DEF Outcome, Undefined
  <2> QED BY <1>d, <2>2 DEF o
<1>10. CASE /\ s.rd /\ p # WouldBlock
            /\ ~a.feedback \/ (~s.feedback /\ (p.len < 0 \/ a.buffer = << >>))
  <2>1. \/ o = Undefined(a, "Range") \/ o = Undefined(a, "FindBreak")
        \/ o = Outcome(a, FALSE, 0, 0) /\ ~a.feedback
    BY <1>8, <1>10 DEF o
  <2>2. /\ o.s = a /\ ~o.ret
        /\ o.fault = "none" => o.sent = 0 /\ o.lost = 0 /\ ~a.feedback
    BY <2>1 DEF Outcome, Undefined
  <2> QED BY <1>2, <1>d, <2>2 DEF o
<1>11. CASE /\ s.rd /\ p # WouldBlock /\ a.feedback
            /\ ~(~s.feedback /\ (p.len < 0 \/ a.buffer = << >>))
            /\ (Failed(r) \/ r.len < 0)
  <2>1. \/ o = Outcome([a EXCEPT !.state = "CLOSED"], TRUE, 0, 0) /\ Failed(r)
        \/ o = Undefined(a, "EraseOutput") \/ o = Undefined(a, "Range")
    BY <1>8, <1>11 DEF o
  <2>2. Failed(r) => r = Broken \/ CgiOffer(s, p) = 0
    BY <1>5
  <2>3. /\ [a EXCEPT !.state = "CLOSED"].rd = a.rd
        /\ [a EXCEPT !.state = "CLOSED"].datal = a.datal
    BY <1>1 DEF CgiStream
  <2>4. /\ o.s.rd = a.rd /\ o.s.datal = a.datal
        /\ o.ret => Failed(r) /\ o.fault = "none"
        /\ ~o.ret => o.fault # "none"
    <3>1. CASE o = Outcome([a EXCEPT !.state = "CLOSED"], TRUE, 0, 0) /\ Failed(r)
      BY <2>3, <3>1 DEF Outcome
    <3>2. CASE o = Undefined(a, "EraseOutput") \/ o = Undefined(a, "Range")
      BY <3>2 DEF Undefined
    <3> QED BY <2>1, <3>1, <3>2
  <2> QED BY <1>2, <2>2, <2>4 DEF o
<1>12. CASE /\ s.rd /\ p # WouldBlock /\ a.feedback
            /\ ~(~s.feedback /\ (p.len < 0 \/ a.buffer = << >>))
            /\ ~Failed(r) /\ r.len >= 0
  <2>0. ~(r.len < 0)
    BY <1>5, <1>12
  <2>1. CASE a.buffer # << >>
    <3> DEFINE b == Dropped(a.buffer, r.len)
               n == [a EXCEPT !.buffer = b]
    <3>1. r.len \in 0..Len(a.buffer)
      BY <1>3, <1>4, <1>5, <1>12, <2>1
    <3>2. Len(b) = Len(a.buffer) - r.len
      BY <1>3, <1>6, <3>1
    <3>3. o = Outcome(n, FALSE, r.len, IF s.feedback THEN Len(got) ELSE 0)
      BY <1>8, <1>12, <2>0, <2>1 DEF o
    <3>4. /\ n.rd = a.rd /\ n.datal = a.datal /\ n.pipe = a.pipe
          /\ n.feedback = a.feedback /\ n.buffer = b
      BY <1>7
    <3> HIDE DEF n, b
    <3>5. /\ o.s = n /\ ~o.ret /\ o.sent = r.len /\ o.fault = "none"
          /\ o.lost = IF s.feedback THEN Len(got) ELSE 0
      BY <3>3 DEF Outcome
    <3>6. CgiHeld(n) = Len(a.pipe) + (Len(a.buffer) - r.len)
      BY <1>12, <3>2, <3>4 DEF CgiHeld
    <3>a. /\ Len(s.pipe) \in Int /\ Len(s.buffer) \in Int /\ Moved(p) \in Int
          /\ Len(a.pipe) \in Int /\ Len(a.buffer) \in Int /\ r.len \in Int
          /\ Len(a.pipe) = Len(s.pipe) - Moved(p)
      BY <1>1, <1>2, <1>3, <1>5
    <3>7. CgiHeld(n) + r.len + (IF s.feedback THEN Len(got) ELSE 0) = CgiHeld(s)
      <4>1. CASE s.feedback
        <5>1. CgiHeld(s) = Len(s.pipe) + Len(s.buffer) + 0
          BY <4>1 DEF CgiHeld
        <5>2. Len(a.buffer) = Len(s.buffer)
          BY <1>2, <4>1
        <5>3. (IF s.feedback THEN Len(got) ELSE 0) = Moved(p)
          BY <1>1, <4>1
        <5>4. CgiHeld(n) + r.len + Moved(p) = CgiHeld(s)
          <6> DEFINE x == Len(s.pipe)
                     y == Len(s.buffer)
                     z == Moved(p)
                     w == r.len
          <6>1. x \in Int /\ y \in Int /\ z \in Int /\ w \in Int
            BY <3>a
          <6>2. CgiHeld(n) = (x - z) + (y - w) /\ CgiHeld(s) = x + y + 0
            BY <3>a, <3>6, <5>1, <5>2
          <6>3. SUFFICES CgiHeld(n) + w + z = CgiHeld(s)
            OBVIOUS
          <6> HIDE DEF x, y, z, w
          <6> QED BY <6>1, <6>2
        <5> QED BY <5>3, <5>4
      <4>2. CASE ~s.feedback
        <5>1. CgiHeld(a) = CgiHeld(s) /\ CgiHeld(a) = Len(a.pipe) + Len(a.buffer) + 0
          BY <1>2, <1>12, <4>2 DEF CgiHeld
        <5>2. (IF s.feedback THEN Len(got) ELSE 0) = 0
          BY <4>2
        <5> QED BY <3>a, <3>6, <5>1, <5>2
      <4> QED BY <4>1, <4>2
    <3> QED BY <1>2, <3>4, <3>5, <3>7 DEF o
  <2>2. CASE a.buffer = << >>
    <3> DEFINE b == Dropped(got, r.len)
               n == [a EXCEPT !.buffer = b]
    <3>1. r.len \in 0..Len(got) /\ s.feedback /\ Len(a.buffer) = 0
      BY <1>1, <1>3, <1>4, <1>5, <1>12, <2>2
    <3>2. Len(b) = Len(got) - r.len
      BY <1>1, <1>6, <3>1
    <3>3. o = Outcome(n, FALSE, r.len, 0)
      BY <1>8, <1>12, <2>0, <2>2, <3>1 DEF o
    <3>4. /\ n.rd = a.rd /\ n.datal = a.datal /\ n.pipe = a.pipe
          /\ n.feedback = a.feedback /\ n.buffer = b
      BY <1>7
    <3> HIDE DEF n, b
    <3>5. /\ o.s = n /\ ~o.ret /\ o.sent = r.len /\ o.lost = 0 /\ o.fault = "none"
      BY <3>3 DEF Outcome
    <3>6. CgiHeld(n) = Len(a.pipe) + (Len(got) - r.len)
      BY <1>12, <3>2, <3>4 DEF CgiHeld
    <3>7. CgiHeld(s) = Len(s.pipe) + Len(s.buffer) + 0
      BY <3>1 DEF CgiHeld
    <3>8. Len(s.buffer) = 0
      BY <1>2, <3>1
    <3>9. CgiHeld(n) + r.len + 0 = CgiHeld(s)
      BY <1>1, <1>2, <1>3, <1>5, <3>6, <3>7, <3>8
    <3> QED BY <1>2, <3>4, <3>5, <3>9 DEF o
  <2> QED BY <2>1, <2>2
<1> QED BY <1>3, <1>5, <1>9, <1>10, <1>11, <1>12

-----------------------------------------------------------------------------
(* What Read() leaves alone.                                               *)

\* postl is the end of the first request in the buffer.
Cut(q) == Breaks(q.buffer) # {} /\ q.postl = FindBreak(q.buffer)

(***************************************************************************)
(* Read() of a request appends what arrived, and succeeds with the end of  *)
(* the first request (protocol.cpp:90-111).                                *)
(***************************************************************************)
LEMMA RequestReadParts ==
  ASSUME NEW T, NEW s \in RequestStream(T), NEW data, NEW r
  PROVE  LET o == RequestRead(s, r, data)
         IN /\ o.sent = 0 /\ o.lost = 0
            /\ o.fault # "none" => o.s = s /\ ~o.ret
            /\ o.fault = "none" /\ ~o.ret =>
                 o.s.state = s.state /\ o.s.buffer = s.buffer \o data
            /\ o.ret => \/ o.s.state \in {"CLOSED", "CORRUPTED"}
                        \/ /\ o.s.state = "SUCCESS" /\ Cut(o.s)
                           /\ o.s.buffer = s.buffer \o data
<1> DEFINE buffer == s.buffer \o data
           closed == [s EXCEPT !.state = "CLOSED"]
           corrupted == [s EXCEPT !.state = "CORRUPTED"]
           more == [s EXCEPT !.buffer = buffer]
           whole == [state |-> "SUCCESS", buffer |-> buffer,
                     postl |-> FindBreak(buffer)]
           o == RequestRead(s, r, data)
<1>1. /\ closed.state = "CLOSED" /\ corrupted.state = "CORRUPTED"
      /\ more.state = s.state /\ more.buffer = buffer
      /\ whole.state = "SUCCESS" /\ whole.buffer = buffer
      /\ whole.postl = FindBreak(buffer)
  BY DEF RequestStream
<1>2. \/ o = Outcome(closed, TRUE, 0, 0)
      \/ o = Outcome(corrupted, TRUE, 0, 0)
      \/ o = Undefined(s, "Range")
      \/ o = Outcome(more, FALSE, 0, 0)
      \/ o = Outcome(whole, TRUE, 0, 0) /\ Breaks(buffer) # {}
  BY DEF RequestRead
<1> HIDE DEF o, closed, corrupted, more, whole
<1>3. CASE o = Outcome(closed, TRUE, 0, 0)
  BY <1>1, <1>3 DEF Outcome, o
<1>4. CASE o = Outcome(corrupted, TRUE, 0, 0)
  BY <1>1, <1>4 DEF Outcome, o
<1>5. CASE o = Undefined(s, "Range")
  BY <1>1, <1>5 DEF Undefined, o
<1>6. CASE o = Outcome(more, FALSE, 0, 0)
  BY <1>1, <1>6 DEF Outcome, o
<1>7. CASE o = Outcome(whole, TRUE, 0, 0) /\ Breaks(buffer) # {}
  <2>1. /\ o.s = whole /\ o.ret /\ o.sent = 0 /\ o.lost = 0 /\ o.fault = "none"
    BY <1>7 DEF Outcome
  <2>2. Cut(whole)
    BY <1>1, <1>7 DEF Cut
  <2> HIDE DEF buffer
  <2>3. Cut(o.s) /\ o.s.state = "SUCCESS" /\ o.s.buffer = buffer
    BY <1>1, <2>1, <2>2
  <2> QED BY <2>1, <2>3 DEF o, buffer
<1> QED BY <1>2, <1>3, <1>4, <1>5, <1>6, <1>7

(***************************************************************************)
(* Read() of a body changes the count of its units and the write end of    *)
(* the input pipe (protocol.cpp:428-458).                                  *)
(***************************************************************************)
LEMMA CgiReadParts ==
  ASSUME NEW s \in CgiStream, NEW r
  PROVE  LET o == CgiRead(s, r)
         IN /\ o.sent = 0 /\ o.lost = 0
            /\ o.s.datal = s.datal /\ o.s.rd = s.rd /\ o.s.child = s.child
            /\ o.s.pipe = s.pipe /\ o.s.buffer = s.buffer
            /\ o.s.feedback = s.feedback
            /\ o.fault # "none" => ~o.ret
            /\ o.fault = "none" /\ ~o.ret => o.s.wr = s.wr
<1> DEFINE got == [s EXCEPT !.datac = s.datac + r.len]
           whole == [got EXCEPT !.state = "SUCCESS", !.wr = FALSE]
           closed == [s EXCEPT !.state = "CLOSED", !.wr = FALSE]
           o == CgiRead(s, r)
           Kept(n) == /\ n.datal = s.datal /\ n.rd = s.rd /\ n.child = s.child
                      /\ n.pipe = s.pipe /\ n.buffer = s.buffer
                      /\ n.feedback = s.feedback
<1>1. Kept(got) /\ Kept(whole) /\ Kept(closed) /\ Kept(s) /\ got.wr = s.wr
  BY DEF CgiStream
<1>2. \/ o = Undefined(s, "BadPipe") \/ o = Undefined(s, "Range")
      \/ o = Outcome(closed, TRUE, 0, 0) \/ o = Outcome(whole, TRUE, 0, 0)
      \/ o = Outcome(got, FALSE, 0, 0)
  BY DEF CgiRead
<1> HIDE DEF o, closed, whole, got
<1>3. CASE o = Undefined(s, "BadPipe") \/ o = Undefined(s, "Range")
  BY <1>1, <1>3 DEF Undefined, o
<1>4. CASE o = Outcome(closed, TRUE, 0, 0) \/ o = Outcome(whole, TRUE, 0, 0)
  BY <1>1, <1>4 DEF Outcome, o
<1>5. CASE o = Outcome(got, FALSE, 0, 0)
  BY <1>1, <1>5 DEF Outcome, o
<1> QED BY <1>2, <1>3, <1>4, <1>5

(***************************************************************************)
(* Only Reset() erases from a request buffer, and a page or a file has no  *)
(* undefined operation (protocol.cpp:80-132, 152-173, 296-318, 356-458).   *)
(***************************************************************************)
LEMMA FaultsOf ==
  ASSUME NEW s, NEW p, NEW r, NEW data
  PROVE  /\ RequestRead(s, r, data).fault # "Erase"
         /\ CgiRead(s, r).fault # "Erase"
         /\ CgiWrite(s, p, r).fault # "Erase"
         /\ ResponseWrite(s, r).fault = "none"
         /\ FileWrite(s, r).fault = "none"
<1>1. RequestRead(s, r, data).fault # "Erase"
  BY DEF RequestRead, Outcome, Undefined
<1>2. CgiRead(s, r).fault # "Erase"
  BY DEF CgiRead, Outcome, Undefined
<1>3. CgiWrite(s, p, r).fault # "Erase"
  BY DEF CgiWrite, Outcome, Undefined
<1>4. ResponseWrite(s, r).fault = "none"
  BY DEF ResponseWrite, Outcome
<1>5. FileWrite(s, r).fault = "none"
  BY DEF FileWrite, Outcome
<1> QED BY <1>1, <1>2, <1>3, <1>4, <1>5

(***************************************************************************)
(* Taking the first n units from one sequence and appending them to        *)
(* another moves the boundary between the two, and no unit.                *)
(***************************************************************************)
LEMMA BoundaryMoves ==
  ASSUME NEW T, NEW a \in Seq(T), NEW b \in Seq(T), NEW n \in 0..Len(b)
  PROVE  (a \o SubSeq(b, 1, n)) \o Dropped(b, n) = a \o b
<1> DEFINE x == SubSeq(b, 1, n)
           y == Dropped(b, n)
<1>1. x \in Seq(T) /\ y \in Seq(T) /\ n \in Nat /\ Len(b) \in Nat /\ n <= Len(b)
  BY PrefixType, DroppedType, LenProperties
<1>2. x \o y = b
  <2>1. 1 \in 1..Len(b) + 1 /\ n \in 1 - 1..Len(b) /\ Len(b) \in n..Len(b)
    BY <1>1
  <2>2. SubSeq(b, 1, n) \o SubSeq(b, n + 1, Len(b)) = SubSeq(b, 1, Len(b))
    BY <2>1, ConcatAdjacentSubSeq
  <2> QED BY <2>2, SubSeqFull DEF Dropped
<1> HIDE DEF x, y
<1>3. (a \o x) \o y = a \o (x \o y)
  <2>1. x \in Seq(T) /\ y \in Seq(T)
    BY <1>1
  <2> QED BY <2>1, ConcatAssociative
<1> QED BY <1>2, <1>3 DEF x, y

=============================================================================
