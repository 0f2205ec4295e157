---------------------------- MODULE MCSyncEvents ----------------------------
(***************************************************************************)
(* SyncEvents for TLC: two processes of one machine, working with the same *)
(* file or with the files of two channels.                                 *)
(***************************************************************************)
EXTENDS SyncEvents

CONSTANTS p, q, prod, dev

OneOrTwoFiles == {[x \in {p, q} |-> prod], [x \in {p, q} |-> IF x = p THEN prod ELSE dev]}
=============================================================================
