------------------------------ MODULE Offload ------------------------------
(***************************************************************************)
(* What the loop gets from a round of processing: each client of the task  *)
(* queue is handed over once and then either finished or, where it was     *)
(* handed over before everything was set up, possibly dropped; the round   *)
(* is over when no client is left.                                         *)
(***************************************************************************)
CONSTANT Clients

VARIABLES
  fate,   \* of each client
  round   \* "setup", "running", "over"

vars == <<fate, round>>

Fates == {"absent", "pending", "early", "late", "finished", "dropped"}

Init ==
  /\ fate \in [Clients -> {"absent", "pending"}]
  /\ round = "setup"

HandOver(c) ==
  /\ fate[c] = "pending"
  /\ fate' = [fate EXCEPT ![c] = IF round = "setup" THEN "early" ELSE "late"]
  /\ UNCHANGED round

Finish(c) ==
  /\ fate[c] \in {"early", "late"}
  /\ fate' = [fate EXCEPT ![c] = "finished"]
  /\ UNCHANGED round

Drop(c) ==
  /\ fate[c] = "early" /\ round = "setup"
  /\ fate' = [fate EXCEPT ![c] = "dropped"]
  /\ UNCHANGED round

Begin ==
  /\ round = "setup"
  /\ round' = "running"
  /\ UNCHANGED fate

End ==
  /\ round = "running"
  /\ \A c \in Clients : fate[c] \in {"absent", "finished", "dropped"}
  /\ round' = "over"
  /\ UNCHANGED fate

Next == (\E c \in Clients : HandOver(c) \/ Finish(c) \/ Drop(c)) \/ Begin \/ End

Spec == Init /\ [][Next]_vars

=============================================================================
