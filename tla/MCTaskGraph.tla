---------------------------- MODULE MCTaskGraph ----------------------------
(***************************************************************************)
(* An instance of TaskGraph for TLC: up to three clients in the queue, two *)
(* of which share a ClientInterface.                                       *)
(***************************************************************************)
EXTENDS TaskGraph, TLC

CONSTANTS c1, c2, c3, shared, own

SomeQueues == {<< >>, <<c1>>, <<c3, c1>>, <<c1, c2, c3>>, <<c3, c2, c1>>}

TwoShare == c1 :> shared @@ c2 :> shared @@ c3 :> own

=============================================================================
