---------------------------- MODULE SessionTurn ----------------------------
(***************************************************************************)
(* createSessionTurnCoordinator: what its two modes have in common.  The   *)
(* states map is keyed by session, so sessions do not share anything, and  *)
(* one is modelled.                                                        *)
(*                                                                         *)
(* A SessionState object is named by the prompt whose submit created it:   *)
(* submit and the drain loops keep references to such objects, and the map *)
(* may hold another one, or none, when they come back from an await.       *)
(***************************************************************************)
EXTENDS Naturals, Sequences

CONSTANT Inputs   \* the prompts submitted to one session

None == "none"
ASSUME NoneAssumption == None \notin Inputs

VARIABLES
    states,    \* the session's entry in the states map: a state object or None
    draining,  \* draining[o]: the flag of state object o
    held,      \* held[i]: the state object that submit(i) holds
    pc         \* where submit(i) or its queued item is: mostly, the await it is suspended at

\* stateFor: the registered object, or a new one.
StateFor(i) == IF states = None THEN i ELSE states
=============================================================================
