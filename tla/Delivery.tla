------------------------------ MODULE Delivery ------------------------------
(***************************************************************************)
(* What Write() of a StreamProtocol promises (protocol.h:43-44, 53-56): a  *)
(* transfer goes out a few units at a time, STATE_PENDING "required        *)
(* transfer incomplete"; when Write() is done it is STATE_SUCCESS,         *)
(* "required transfer complete", or STATE_CLOSED, "socket closed by        *)
(* remote".  The code has a third end: a send of no units returns zero,    *)
(* which is taken for the end of the connection, and a transfer of which   *)
(* nothing is left is STATE_CLOSED (protocol.cpp:300-302, 409-411).        *)
(***************************************************************************)
EXTENDS Integers

VARIABLES
  left,   \* units not yet sent
  state,  \* the state of the stream
  done,   \* Write() returned true
  error   \* and the send it made had failed

Init == left \in Nat /\ state = "PENDING" /\ done = FALSE /\ error = FALSE

Send ==
  /\ ~done /\ left' \in 0..left /\ error' = error
  /\ \/ state' = "PENDING" /\ done' = FALSE
     \/ state' = "SUCCESS" /\ done' = TRUE /\ left' = 0

\* The connection broke.
Break ==
  /\ ~done /\ left' = left
  /\ state' = "CLOSED" /\ done' = TRUE /\ error' = TRUE

\* All had gone, and the empty send was taken for the end of the connection.
End ==
  /\ ~done /\ left = 0 /\ left' = left
  /\ state' = "CLOSED" /\ done' = TRUE /\ error' = error

Next == Send \/ Break \/ End

Spec == Init /\ [][Next]_<<left, state, done, error>>

=============================================================================
