------------------------------ MODULE TurnFifo ------------------------------
(***************************************************************************)
(* What the session turn coordinator promises to its callers: the prompts  *)
(* of a session are taken one at a time, in the order of their submission, *)
(* and each caller gets the outcome of its own prompt.                     *)
(***************************************************************************)
EXTENDS Sequences

CONSTANT Inputs

VARIABLES
    waiting,   \* the prompts that are accepted and not begun, oldest first
    current,   \* the set of prompts being served: one at most
    outcome    \* what each caller's promise holds

fifoVars == <<waiting, current, outcome>>

Init ==
    /\ waiting = <<>>
    /\ current = {}
    /\ outcome = [i \in Inputs |-> "none"]

\* A prompt is served at once if nobody is, and waits behind the others if somebody is.
Submit(i) ==
    /\ outcome[i] = "none"
    /\ outcome' = [outcome EXCEPT ![i] = "pending"]
    /\ IF current = {}
       THEN current' = {i} /\ UNCHANGED waiting
       ELSE waiting' = Append(waiting, i) /\ UNCHANGED current

\* The prompt being served settles, for better or worse, and the oldest one is next.
Settle(i) ==
    /\ i \in current
    /\ \E result \in {"resolved", "rejected"} : outcome' = [outcome EXCEPT ![i] = result]
    /\ IF waiting = <<>>
       THEN current' = {} /\ UNCHANGED waiting
       ELSE current' = {Head(waiting)} /\ waiting' = Tail(waiting)

Next == \E i \in Inputs : Submit(i) \/ Settle(i)

Safety == Init /\ [][Next]_fifoVars

\* Whoever is served is settled some day.
Spec == Safety /\ \A i \in Inputs : WF_fifoVars(Settle(i))
=============================================================================
