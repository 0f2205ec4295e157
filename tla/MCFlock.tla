------------------------------ MODULE MCFlock ------------------------------
(***************************************************************************)
(* Flock for TLC.  The reliable plan lets two owners die one after the     *)
(* other; the harsh one has a crash anywhere and a pause.                  *)
(***************************************************************************)
EXTENDS Flock

Plans == {[crashes |-> 2, pauses |-> 0, inBreaker |-> FALSE],
          [crashes |-> 1, pauses |-> 1, inBreaker |-> TRUE]}

CrashedCleaner == {[crashes |-> 2, pauses |-> 0, inBreaker |-> TRUE]}
=============================================================================
