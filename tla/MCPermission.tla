---------------------------- MODULE MCPermission ----------------------------
(* A small instance of Permission for TLC. *)
EXTENDS Permission, TLC

CONSTANTS p, q, s, t, r1, r2, r3

Ruleset(x, y) == (p :> x) @@ (q :> y)

Narrow(x) == [session |-> x, patterns |-> {p}, always |-> {p}, ruleset |-> Ruleset("ask", "deny")]
Wide == [session |-> s, patterns |-> {p, q}, always |-> {p, q}, ruleset |-> Ruleset("ask", "ask")]
Forbidden == [session |-> s, patterns |-> {p, q}, always |-> {}, ruleset |-> Ruleset("ask", "deny")]

\* Requests of two sessions that an approval covers in full or in part, and requests that a rule denies.
MCPlans ==
    {(r1 :> Narrow(s)) @@ (r2 :> Wide) @@ (r3 :> Narrow(t)), [r \in {r1, r2, r3} |-> Forbidden]}

MCStored == (p :> None) @@ (q :> None)
=============================================================================
