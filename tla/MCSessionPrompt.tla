-------------------------- MODULE MCSessionPrompt --------------------------
(***************************************************************************)
(* SessionPrompt for TLC: prompts one after the other, with a bound on the *)
(* messages that is never reached, and bursts of overlapping ones, each    *)
(* with and without a shell.                                               *)
(***************************************************************************)
EXTENDS SessionPrompt

CONSTANTS p, q, r, s

Calm == [overlapping |-> FALSE, senders |-> {p, q, r}, failures |-> 1, cancels |-> 1, messages |-> 16]
Burst == [overlapping |-> TRUE, senders |-> {p, q, r}, failures |-> 0, cancels |-> 0, messages |-> 5]

CalmAndBursts ==
    {Calm, [Calm EXCEPT !.senders = {p, q, s}],
     [Calm EXCEPT !.senders = {p, q, r, s}, !.failures = 0, !.cancels = 0],
     [Burst EXCEPT !.failures = 1], [Burst EXCEPT !.cancels = 1, !.messages = 4],
     [Burst EXCEPT !.senders = {p, q, s}, !.failures = 1],
     [Burst EXCEPT !.senders = {p, q, s}, !.cancels = 1]}

=============================================================================
