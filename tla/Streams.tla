------------------------------ MODULE Streams ------------------------------
(***************************************************************************)
(* The StreamProtocol classes of protocol.cpp: the objects that move bytes *)
(* between a client socket and a request buffer, a generated page, a file  *)
(* or a CGI pipe.  A stream is a record; each method is an operator from   *)
(* the record, and from what the system calls it makes return, to an       *)
(* outcome                                                                 *)
(*                                                                         *)
(*   [s     |-> the stream afterwards,                                     *)
(*    ret   |-> what Read()/Write() returns,                               *)
(*    sent  |-> units the kernel accepted from this stream,                *)
(*    lost  |-> units taken from the source and neither sent nor kept,     *)
(*    fault |-> "none", or the operation whose behaviour C++ leaves        *)
(*              undefined].                                                *)
(*                                                                         *)
(* "sent" and "lost" are history: the code keeps no such counters.  Bytes  *)
(* are counted in units; a unit of a request is a token of at least four   *)
(* bytes, so a nonempty request buffer is long enough for FindBreak().     *)
(*                                                                         *)
(* Here and in the other modules a definition F_Slip is F with a mistake   *)
(* that would be easy to make; nothing uses it but the runs that show that *)
(* a property would notice.                                                *)
(***************************************************************************)
EXTENDS Integers, Sequences

CONSTANTS
  Chunk,         \* units in the 4096-byte buffer1 of every Read and Write
  RequestLimit,  \* units in the 50000 bytes a buffered request may take
  SizeModulus    \* 2^64, the range of size_t; any value above every size

ASSUME ChunkAssumption == Chunk \in Nat \ {0}
ASSUME SizeAssumption ==
  /\ RequestLimit \in Nat
  /\ SizeModulus \in Nat
  /\ RequestLimit < SizeModulus - 1
  /\ Chunk < SizeModulus

\* enum STATE of StreamProtocol.
StreamState == {"PENDING", "SUCCESS", "CLOSED", "CORRUPTED"}

\* Operations the stream methods can reach with operands for which C++ leaves
\* the behaviour undefined: FindBreak() over fewer than three bytes, an erase
\* past the ends of the request or of a script's output, a range over buffer1
\* of negative length, and i/o on pipe descriptors that were never initialised.
StreamFault ==
  {"none", "FindBreak", "Erase", "EraseOutput", "Range", "BadPipe"}

(***************************************************************************)
(* System call results, as the code sees them: a length and errno.         *)
(***************************************************************************)
Result(len, errno) == [len |-> len, errno |-> errno]

Transferred(lens) == {Result(n, "none") : n \in lens}

WouldBlock == Result(-1, "EAGAIN")

Broken == Result(-1, "EPIPE")

\* Slip: the end of the stream is not an error.
Failed_ErrorsOnly(r) == r.len < 0 /\ r.errno # "EAGAIN"

\* The test every method makes first: a real error, or a length of zero.
Failed(r) == (r.len < 0 /\ r.errno # "EAGAIN") \/ r.len = 0

Min2(a, b) == IF a <= b THEN a ELSE b

\* Units a call moved: a negative length moved none.
Moved(r) == IF r.len > 0 THEN r.len ELSE 0

\* A ssize_t converted to size_t, as when it meets buffer.size().
SizeT(n) == n % SizeModulus

Outcome(s, ret, sent, lost) ==
  [s |-> s, ret |-> ret, sent |-> sent, lost |-> lost, fault |-> "none"]

Undefined(s, where) ==
  [s |-> s, ret |-> FALSE, sent |-> 0, lost |-> 0, fault |-> where]

Dropped(seq, n) == SubSeq(seq, n + 1, Len(seq))

(***************************************************************************)
(* StreamProtocolHTTPrequest.  The buffer holds tokens; the brk field of a *)
(* token tells whether a double CRLF ends in it.                           *)
(***************************************************************************)
Breaks(buffer) == {i \in 1..Len(buffer) : buffer[i].brk}

\* FindBreak(): the end of the first double CRLF, where there is one.
FindBreak(buffer) ==
  CHOOSE i \in Breaks(buffer) : \A j \in Breaks(buffer) : i <= j

RequestStream(T) == [state : StreamState, buffer : Seq(T), postl : Nat]

NewRequestStream(postl) ==
  [state |-> "PENDING", buffer |-> << >>, postl |-> postl]

RequestRead(s, r, data) ==
  LET buffer == s.buffer \o data
      done(state) == Outcome([s EXCEPT !.state = state], TRUE, 0, 0)
  IN IF Failed(r) THEN done("CLOSED")
     ELSE IF SizeT(Len(s.buffer) + r.len) > RequestLimit THEN done("CORRUPTED")
     ELSE IF r.len < 0 THEN Undefined(s, "Range")
     ELSE IF Breaks(buffer) = {}
          THEN Outcome([s EXCEPT !.buffer = buffer], FALSE, 0, 0)
     ELSE Outcome([state |-> "SUCCESS", buffer |-> buffer,
                   postl |-> FindBreak(buffer)], TRUE, 0, 0)

\* Slip: one unit too few is erased.
RequestReset_OffByOne(s) ==
  IF s.postl > Len(s.buffer)
  THEN Undefined([s EXCEPT !.state = "PENDING"], "Erase")
  ELSE Outcome([s EXCEPT !.state = "PENDING",
                         !.buffer = Dropped(s.buffer, s.postl - 1)], FALSE, 0, 0)

RequestReset(s) ==
  IF s.postl > Len(s.buffer)
  THEN Undefined([s EXCEPT !.state = "PENDING"], "Erase")
  ELSE Outcome([s EXCEPT !.state = "PENDING",
                         !.buffer = Dropped(s.buffer, s.postl)], FALSE, 0, 0)

\* The size test (>= 4 bytes) holds of every nonempty token buffer.
CheckPipeline(s) ==
  IF Breaks(s.buffer) # {}
  THEN [s |-> [s EXCEPT !.state = "SUCCESS", !.postl = FindBreak(s.buffer)],
        ret |-> TRUE]
  ELSE [s |-> s, ret |-> FALSE]

(***************************************************************************)
(* StreamProtocolHTTPresponse and StreamProtocolData.  Only the size of    *)
(* the buffer matters.  The length of a failed-but-retryable send, -1, is  *)
(* compared with the unsigned size of the buffer.                          *)
(***************************************************************************)
BufferStream == [state : StreamState, size : Nat]

EmptyBuffer == [state |-> "PENDING", size |-> 0]

BufferOffer(s) == Min2(Chunk, s.size)

\* Slip: the length is compared with that of the chunk.
ResponseWrite_ChunkOnly(s, r) ==
  IF Failed(r) THEN Outcome([s EXCEPT !.state = "CLOSED"], TRUE, 0, 0)
  ELSE IF SizeT(r.len) >= BufferOffer(s)
       THEN Outcome([s EXCEPT !.state = "SUCCESS"], TRUE, Moved(r), 0)
  ELSE Outcome([s EXCEPT !.size = s.size - r.len], FALSE, r.len, 0)

\* Slip: what was sent stays in the buffer.
ResponseWrite_Resend(s, r) ==
  IF Failed(r) THEN Outcome([s EXCEPT !.state = "CLOSED"], TRUE, 0, 0)
  ELSE IF SizeT(r.len) >= s.size
       THEN Outcome([s EXCEPT !.state = "SUCCESS"], TRUE, Moved(r), 0)
  ELSE Outcome(s, FALSE, r.len, 0)

ResponseWrite(s, r) ==
  IF Failed(r) THEN Outcome([s EXCEPT !.state = "CLOSED"], TRUE, 0, 0)
  ELSE IF SizeT(r.len) >= s.size
       THEN Outcome([s EXCEPT !.state = "SUCCESS"], TRUE,
                    Moved(r), s.size - Moved(r))
  ELSE Outcome([s EXCEPT !.size = s.size - r.len], FALSE, r.len, 0)

DataWrite(s, r) == ResponseWrite(s, r)

(***************************************************************************)
(* StreamProtocolFile.  fread() sets the end-of-file flag when it returns  *)
(* less than a whole chunk.  After a short send the code calls             *)
(* fseek(pf, SEEK_CUR, len-res): its whence is negative, the call fails    *)
(* and the position stays behind the units that were not sent.             *)
(***************************************************************************)
FileStream ==
  {f \in [state : StreamState, open : BOOLEAN, pos : Nat, size : Nat,
          eof : BOOLEAN] : f.pos <= f.size}

ClosedFile ==
  [state |-> "PENDING", open |-> FALSE, pos |-> 0, size |-> 0, eof |-> FALSE]

OpenFile(size) == [ClosedFile EXCEPT !.open = TRUE, !.size = size]

FileOffer(s) == Min2(Chunk, s.size - s.pos)

\* Slip: the end of a chunk is taken for the end of the file.
FileWrite_NoEof(s, r) ==
  LET res  == FileOffer(s)
      next == [s EXCEPT !.pos = s.pos + res]
  IN IF Failed(r) THEN Outcome([next EXCEPT !.state = "CLOSED"], TRUE, 0, 0)
     ELSE IF r.len < res THEN Outcome(next, FALSE, Moved(r), res - Moved(r))
     ELSE Outcome([next EXCEPT !.state = "SUCCESS"], TRUE, r.len, 0)

\* Slip: the end of the file is looked at before the result of the send.
FileWrite_EofFirst(s, r) ==
  LET res  == FileOffer(s)
      next == [s EXCEPT !.pos = s.pos + res,
                        !.eof = s.eof \/ s.size - s.pos < Chunk]
  IN IF next.eof
     THEN Outcome([next EXCEPT !.state = "SUCCESS"], TRUE,
                  Moved(r), res - Moved(r))
     ELSE IF Failed(r) THEN Outcome([next EXCEPT !.state = "CLOSED"], TRUE, 0, 0)
     ELSE IF r.len < res THEN Outcome(next, FALSE, Moved(r), res - Moved(r))
     ELSE Outcome(next, FALSE, r.len, 0)

FileWrite(s, r) ==
  LET res  == FileOffer(s)
      next == [s EXCEPT !.pos = s.pos + res,
                        !.eof = s.eof \/ s.size - s.pos < Chunk]
  IN IF Failed(r) THEN Outcome([next EXCEPT !.state = "CLOSED"], TRUE, 0, 0)
     ELSE IF r.len < res THEN Outcome(next, FALSE, Moved(r), res - Moved(r))
     ELSE IF next.eof
          THEN Outcome([next EXCEPT !.state = "SUCCESS"], TRUE, r.len, 0)
     ELSE Outcome(next, FALSE, r.len, 0)

FileReset(s) == ClosedFile

=============================================================================
