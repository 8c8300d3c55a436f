------------------------------ MODULE Transfer ------------------------------
(***************************************************************************)
(* One transfer by one stream of protocol.cpp, driven as the event loop    *)
(* drives it: Write() is called each time epoll reports the socket, until  *)
(* it returns true (main.cpp:326).  The kernel takes what it likes of each *)
(* send; how much freedom it has is the constant Sends.                    *)
(***************************************************************************)
EXTENDS CgiStream

CONSTANTS
  Kinds,   \* the streams considered: of "response", "data", "file", "cgi"
  Totals,  \* sizes of a response, a page or a file
  Scripts, \* outputs of a script
  Sends    \* for each kind, what the kernel does.  "whole": it takes all that
           \* was offered; "short": a part of it, or all

ASSUME KindsAssumption == Kinds \subseteq {"response", "data", "file", "cgi"}
ASSUME TotalsAssumption == Totals \subseteq Nat
ASSUME ScriptsAssumption == Scripts \subseteq Seq(CgiUnit)
ASSUME SendsAssumption == Sends \in [Kinds -> {"whole", "short"}]

VARIABLES
  kind,    \* the stream
  total,   \* units to transfer
  s,       \* its record
  done,    \* Write() returned true
  sent,    \* units the kernel accepted
  lost,    \* units the stream dropped
  failed,  \* a send reported an error
  fault,   \* the undefined operation that was reached, if any
  clock    \* tv_nsec of the process clock when a script was last polled

vars == <<kind, total, s, done, sent, lost, failed, fault, clock>>

Init ==
  /\ \/ /\ kind \in Kinds \ {"cgi"}
        /\ total \in IF kind = "file" THEN Totals ELSE Totals \ {0}
        /\ s = IF kind = "file" THEN OpenFile(total)
               ELSE [EmptyBuffer EXCEPT !.size = total]
     \/ /\ kind \in Kinds \cap {"cgi"}
        /\ \E script \in Scripts :
             /\ total = 1 + Len(script)
             /\ s = CgiOpen(NewCgi(0, 0), script, 0, NewRequestStream(0)).s
  /\ done = FALSE /\ sent = 0 /\ lost = 0 /\ failed = FALSE /\ fault = "none"
  /\ clock = 0

\* send() of n units.
SendResults(n) ==
  (CASE n = 0 -> Transferred({0})
     [] n > 0 /\ Sends[kind] = "whole" -> Transferred({n})
     [] n > 0 /\ Sends[kind] = "short" -> Transferred(1..n))
  \cup {Broken}

\* The outcome o of a Write(), whose send gave r.
Written(o, r) ==
  /\ s' = o.s
  /\ done' = o.ret
  /\ sent' = sent + o.sent
  /\ lost' = lost + o.lost
  /\ failed' = (r = Broken /\ o.ret)
  /\ fault' = o.fault
  /\ UNCHANGED <<kind, total>>

Driven == ~done /\ fault = "none"

WriteBuffer ==
  /\ Driven /\ kind \in {"response", "data"}
  /\ \E r \in SendResults(BufferOffer(s)) :
       Written(IF kind = "data" THEN DataWrite(s, r) ELSE ResponseWrite(s, r), r)
  /\ UNCHANGED clock

WriteFile ==
  /\ Driven /\ kind = "file"
  /\ \E r \in SendResults(FileOffer(s)) : Written(FileWrite(s, r), r)
  /\ UNCHANGED clock

\* Time passes between two calls.
WriteCgi ==
  /\ Driven /\ kind = "cgi"
  /\ clock' \in NsecField \ {clock}
  /\ \E p \in PipeReads(s) : \E r \in SendResults(CgiOffer(s, p)) :
       Written(CgiWrite(s, p, r), r)

Next == WriteBuffer \/ WriteFile \/ WriteCgi

Spec == Init /\ [][Next]_vars

\* The loop calls Write() again and again (each call on a script moves clock),
\* and a script goes on until its output has ended.  That a send fails does
\* not count as the script going on.
FairSpec == Spec /\ WF_vars(Next) /\ SF_vars(WriteCgi /\ s' # s /\ ~failed')

-----------------------------------------------------------------------------
(* Properties.                                                             *)

\* The stream's record, and nothing more sent or dropped than there was.
TypeOK ==
  /\ kind \in Kinds
  /\ total \in Nat /\ sent \in Nat /\ lost \in Nat
  /\ done \in BOOLEAN /\ failed \in BOOLEAN
  /\ fault \in StreamFault /\ clock \in NsecField
  /\ s.state \in StreamState
  /\ sent + lost <= total

Delivery == INSTANCE Delivery WITH
  left  <- total - sent,
  state <- s.state,
  done  <- done,
  error <- failed

(***************************************************************************)
(* Every transfer is a Delivery: what is sent never exceeds what there     *)
(* was, the stream is in STATE_PENDING until Write() returns true, and     *)
(* Write() returns true in STATE_SUCCESS when the whole has gone, or in    *)
(* STATE_CLOSED after an error or an empty send that found nothing left,   *)
(* and for no other reason (protocol.cpp:152, 160-166, 259-265, 300-310,   *)
(* 401-411).                                                               *)
(***************************************************************************)
ImplementsDelivery == Delivery!Spec

(***************************************************************************)
(* A transfer that reports success is complete ("STATE_SUCCESS, //required *)
(* transfer complete", protocol.h:54).                                     *)
(***************************************************************************)
Complete == s.state = "SUCCESS" => sent = total

(***************************************************************************)
(* Of the transfers that no error ended, those of a response, of a page    *)
(* and of a file that is no multiple of 4096 bytes report STATE_SUCCESS;   *)
(* a file that is one, the empty file among them, and every script report  *)
(* STATE_CLOSED, "socket closed by remote" (protocol.h:55), although all   *)
(* of it was sent and the remote end is there (protocol.cpp:300-310,       *)
(* 408-411).                                                               *)
(***************************************************************************)
SuccessReported ==
  done /\ ~failed =>
    (s.state = "SUCCESS" <=> \/ kind \in {"response", "data"}
                             \/ kind = "file" /\ total % Chunk # 0)

(***************************************************************************)
(* Every transfer ends, as long as the loop keeps calling Write().         *)
(***************************************************************************)
Ends == <>done

=============================================================================
