------------------------------- MODULE Service -------------------------------
(***************************************************************************)
(* What the server promises about connections, without sockets, buffers or *)
(* epoll: requests wait in one queue and are taken from it in the order in *)
(* which they became complete, each one once, and a connection has at most *)
(* one request in the server at a time.                                    *)
(***************************************************************************)
EXTENDS Integers, Sequences

CONSTANT Clients

VARIABLES
  phase,   \* where each connection is
  waiting  \* connections whose request is complete, in order

svars == <<phase, waiting>>

Phase == {"remote", "backlog", "idle", "queued", "receiving", "answering",
          "closed"}

Init == phase = [c \in Clients |-> "remote"] /\ waiting = << >>

Move(c, from, to) == phase[c] \in from /\ phase' = [phase EXCEPT ![c] = to]

Connect(c) == Move(c, {"remote"}, "backlog") /\ UNCHANGED waiting

Admit(c) == Move(c, {"backlog"}, "idle") /\ UNCHANGED waiting

\* A request is complete: it arrived, or was sent ahead during the last one.
Enqueue(c) ==
  Move(c, {"idle", "answering"}, "queued") /\ waiting' = Append(waiting, c)

\* The request at the head of the queue is processed; a response starts, or
\* the rest of the body is awaited first.
Take(c) ==
  /\ waiting # << >> /\ c = Head(waiting)
  /\ \E to \in {"answering", "receiving"} : Move(c, {"queued"}, to)
  /\ waiting' = Tail(waiting)

BodyComplete(c) == Move(c, {"receiving"}, "answering") /\ UNCHANGED waiting

Finish(c) == Move(c, {"answering"}, "idle") /\ UNCHANGED waiting

\* Never while the request waits in the queue.
Close(c) ==
  Move(c, {"backlog", "idle", "receiving", "answering"}, "closed")
  /\ UNCHANGED waiting

Next ==
  \E c \in Clients : \/ Connect(c) \/ Admit(c) \/ Enqueue(c) \/ Take(c)
                     \/ BodyComplete(c) \/ Finish(c) \/ Close(c)

Spec == Init /\ [][Next]_svars

=============================================================================
