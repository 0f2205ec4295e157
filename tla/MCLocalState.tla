---------------------------- MODULE MCLocalState ----------------------------
(***************************************************************************)
(* LocalState for TLC: three updates and a read, in two or three           *)
(* processes.                                                              *)
(***************************************************************************)
EXTENDS LocalState, TLC

CONSTANTS p, q, s, u, v, w, r

\* Two updates share a process, or every update has its own; the read has a process with one update.
MCPlacements == {(u :> p) @@ (v :> x) @@ (w :> s) @@ (r :> s) : x \in {p, q}}
=============================================================================
