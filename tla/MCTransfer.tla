----------------------------- MODULE MCTransfer -----------------------------
(***************************************************************************)
(* Instances of Transfer: sizes below, at and around multiples of a chunk, *)
(* and scripts whose header ends early, late or never.                     *)
(***************************************************************************)
EXTENDS Transfer

Unit(brk) == [brk |-> brk]

\* A script of n units whose header ends in unit h.
Output(h, n) == [i \in 1..n |-> Unit(i = h)]

Terminated == {Output(h, n) : h \in 1..4, n \in 4..6}

Sizes == 0..25

AllKinds == {"response", "data", "file", "cgi"}

\* Generated buffers bear short sends; files and scripts do not.
AsBorne == [k \in AllKinds |-> IF k \in {"response", "data"} THEN "short" ELSE "whole"]

AnyShort == [k \in Kinds |-> "short"]

=============================================================================
