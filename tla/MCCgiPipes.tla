----------------------------- MODULE MCCgiPipes -----------------------------
(***************************************************************************)
(* An instance of CgiPipes for TLC: two connections, pipes of one unit, and*)
(* requests for every program a script may follow.                         *)
(***************************************************************************)
EXTENDS CgiPipes

Get  == [post |-> FALSE, body |-> 0, early |-> 0, out |-> 2, program |-> "never_reads"]
Post == [post |-> TRUE, body |-> 2, early |-> 1, out |-> 1, program |-> "reads_to_end"]

SomeShapes ==
  {Get,
   [Get EXCEPT !.out = 1, !.program = "reads_to_end"],
   [Get EXCEPT !.early = 1, !.out = 1, !.program = "reads_to_end"],
   Post,
   [Post EXCEPT !.early = 0, !.out = 2, !.program = "writes_first"]}

=============================================================================
