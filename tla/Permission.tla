----------------------------- MODULE Permission -----------------------------
(***************************************************************************)
(* The permission service of one instance: a tool asks, the rules answer   *)
(* or the request is left pending for the user, whose reply settles it and *)
(* may settle the other requests of its session with it.                   *)
(*                                                                         *)
(* A pattern stands for a (permission, pattern) pair and a ruleset for its *)
(* last matching rule on each pair (findLast in evaluate).  The pending    *)
(* map is a set: no result depends on the order of its iteration.  The     *)
(* deferreds and the bus are external.                                     *)
(***************************************************************************)
EXTENDS Naturals, FiniteSets

CONSTANTS
    Requests,  \* the calls of ask
    Replies,   \* the calls of reply
    Sessions, Patterns,
    Plans,     \* the requests that the calls may make: session, patterns, always, ruleset
    Stored     \* Stored[p]: what the project's stored rules say of p, or None

None == "none"
Actions == {"allow", "deny", "ask"}

Info ==
    [session : Sessions, patterns : SUBSET Patterns, always : SUBSET Patterns,
     ruleset : [Patterns -> Actions]]

ASSUME PermissionAssumption ==
    /\ Plans \subseteq [Requests -> Info]
    /\ Stored \in [Patterns -> Actions \cup {None}]
    /\ None \notin Requests

VARIABLES
    info,      \* info[r]: the request that call r makes
    approved,  \* approved[p]: what the approved rules say of p, or None
    pending,   \* the keys of the pending map
    done,      \* done[r]: the deferred of request r
    pc,        \* pc[r]: how far the call r of ask is, or its outcome
    rpc,       \* rpc[c]: how far the call c of reply is
    to, kind,  \* to[c], kind[c]: what reply c says, and to which request
    visited,   \* visited[c]: the entries that the loop of reply c has been at
    item,      \* item[c]: the entry that the loop has taken and is yet to settle
    due,       \* history: due[c]: the entries that reply c has to settle besides its own
    disposal   \* how far the instance's finalizer is

asks == <<info, pc>>
replies == <<rpc, to, kind, visited, item, due>>
vars == <<info, approved, pending, done, pc, rpc, to, kind, visited, item, due, disposal>>

Kinds == {"once", "always", "reject"}
Asking == {"publishing", "waiting"}
Outcomes == {"granted", "rejected", "denied", "gone"}

Init ==
    /\ info \in Plans
    /\ approved = Stored
    /\ pending = {}
    /\ done = [r \in Requests |-> "open"]
    /\ pc = [r \in Requests |-> "new"]
    /\ rpc = [c \in Replies |-> "new"]
    /\ to = [c \in Replies |-> None] /\ kind = [c \in Replies |-> None]
    /\ visited = [c \in Replies |-> {}] /\ item = [c \in Replies |-> None]
    /\ due = [c \in Replies |-> {}]
    /\ disposal = "no"

\* Settle a deferred; only the first to do so counts.
Settle(r, result) == done' = [done EXCEPT ![r] = IF @ = "open" THEN result ELSE @]

----------------------------------------------------------------------------
(* ask                                                                     *)

\* evaluate(permission, pattern, ruleset, approved): the approved rules come last.
Evaluate(r, p) == IF approved[p] # None THEN approved[p] ELSE info[r].ruleset[p]

\* A denied pattern denies the request; if the rules leave one open the user is asked.
Ask(r) ==
    /\ pc[r] = "new" /\ disposal = "no"
    /\ \/ /\ \E p \in info[r].patterns : Evaluate(r, p) = "deny"
          /\ pc' = [pc EXCEPT ![r] = "denied"]
          /\ UNCHANGED pending
       \/ /\ \A p \in info[r].patterns : Evaluate(r, p) = "allow"
          /\ pc' = [pc EXCEPT ![r] = "granted"]
          /\ UNCHANGED pending
       \/ /\ \A p \in info[r].patterns : Evaluate(r, p) # "deny"
          /\ \E p \in info[r].patterns : Evaluate(r, p) = "ask"
          /\ pc' = [pc EXCEPT ![r] = "publishing"]
          /\ pending' = pending \cup {r}
    /\ UNCHANGED <<info, approved, done, replies, disposal>>

\* The event is published: await the deferred.
Asked(r) ==
    /\ pc[r] = "publishing"
    /\ pc' = [pc EXCEPT ![r] = "waiting"]
    /\ UNCHANGED <<info, approved, pending, done, replies, disposal>>

\* The deferred is settled; the ensuring deletes the entry.
Answered(r) ==
    /\ pc[r] = "waiting" /\ done[r] # "open"
    /\ pc' = [pc EXCEPT ![r] = done[r]]
    /\ pending' = pending \ {r}
    /\ UNCHANGED <<info, approved, done, replies, disposal>>

\* The tool call is interrupted: the ensuring covers the await, and not the publishing before it.
Abort(r) ==
    /\ pc[r] \in Asking
    /\ pc' = [pc EXCEPT ![r] = "gone"]
    /\ pending' = IF pc[r] = "waiting" THEN pending \ {r} ELSE pending
    /\ UNCHANGED <<info, approved, done, replies, disposal>>

----------------------------------------------------------------------------
(* reply                                                                   *)

\* Entry x is one of those that a reply k to r is for.
Concerns(r, k, x) ==
    /\ info[x].session = info[r].session
    /\ k = "reject" \/ (k = "always" /\ info[x].patterns \subseteq info[r].always)

\* A reply to a request that is not pending is ignored; otherwise its entry is deleted at once.
Reply(c, r, k) ==
    /\ rpc[c] = "new" /\ pc[r] # "new" /\ disposal = "no"
    /\ IF r \in pending
       THEN /\ pending' = pending \ {r}
            /\ to' = [to EXCEPT ![c] = r] /\ kind' = [kind EXCEPT ![c] = k]
            /\ rpc' = [rpc EXCEPT ![c] = "settle"]
            /\ due' = [due EXCEPT ![c] = {x \in pending \ {r} : Concerns(r, k, x)}]
       ELSE /\ rpc' = [rpc EXCEPT ![c] = "returned"]
            /\ UNCHANGED <<pending, to, kind, due>>
    /\ UNCHANGED <<info, approved, done, pc, visited, item, disposal>>

\* The event is published: settle the request, and with "always" approve its patterns.
SettleReply(c) ==
    /\ rpc[c] = "settle"
    /\ Settle(to[c], IF kind[c] = "reject" THEN "rejected" ELSE "granted")
    /\ approved' = [p \in Patterns |->
            IF kind[c] = "always" /\ p \in info[to[c]].always THEN "allow" ELSE approved[p]]
    /\ rpc' = [rpc EXCEPT ![c] = IF kind[c] = "once" THEN "returned" ELSE "loop"]
    /\ UNCHANGED <<info, pending, pc, to, kind, visited, item, due, disposal>>

\* Mutant: the loop looks at every session.
SettlesEverywhere(c, x) ==
    kind[c] = "reject" \/ \A p \in info[x].patterns : approved[p] = "allow"

\* Mutant: one approved pattern is enough.
SettlesPartly(c, x) ==
    /\ info[x].session = info[to[c]].session
    /\ kind[c] = "reject" \/ \E p \in info[x].patterns : approved[p] = "allow"

\* The loop over the pending requests settles those of the same session that are rejected with
\* this one, or that the approved rules now allow.
Settles(c, x) ==
    /\ info[x].session = info[to[c]].session
    /\ kind[c] = "reject" \/ \A p \in info[x].patterns : approved[p] = "allow"

Visit(c, x) ==
    /\ rpc[c] = "loop" /\ x \in pending \ visited[c]
    /\ visited' = [visited EXCEPT ![c] = @ \cup {x}]
    /\ IF Settles(c, x)
       THEN /\ pending' = pending \ {x}
            /\ item' = [item EXCEPT ![c] = x]
            /\ rpc' = [rpc EXCEPT ![c] = "item"]
       ELSE UNCHANGED <<pending, item, rpc>>
    /\ UNCHANGED <<info, approved, done, pc, to, kind, due, disposal>>

\* Mutant: the entry is deleted and its deferred forgotten.
SettleItemForgotten(c) ==
    /\ rpc[c] = "item"
    /\ rpc' = [rpc EXCEPT ![c] = "loop"]
    /\ item' = [item EXCEPT ![c] = None]
    /\ UNCHANGED <<info, approved, pending, done, pc, to, kind, visited, due, disposal>>

SettleItem(c) ==
    /\ rpc[c] = "item"
    /\ Settle(item[c], IF kind[c] = "reject" THEN "rejected" ELSE "granted")
    /\ rpc' = [rpc EXCEPT ![c] = "loop"]
    /\ item' = [item EXCEPT ![c] = None]
    /\ UNCHANGED <<info, approved, pending, pc, to, kind, visited, due, disposal>>

\* Mutant: the loop may end before its time.
EndLoopEarly(c) ==
    /\ rpc[c] = "loop"
    /\ rpc' = [rpc EXCEPT ![c] = "returned"]
    /\ visited' = [visited EXCEPT ![c] = {}]
    /\ UNCHANGED <<info, approved, pending, done, pc, to, kind, item, due, disposal>>

EndLoop(c) ==
    /\ rpc[c] = "loop" /\ pending \subseteq visited[c]
    /\ rpc' = [rpc EXCEPT ![c] = "returned"]
    /\ visited' = [visited EXCEPT ![c] = {}]
    /\ UNCHANGED <<info, approved, pending, done, pc, to, kind, item, due, disposal>>

----------------------------------------------------------------------------
(* The finalizer of the instance's state.  Calls that begin later get a    *)
(* new state; those that have begun go on with this one.                   *)

Dispose ==
    /\ disposal = "no" /\ disposal' = "failing"
    /\ UNCHANGED <<info, approved, pending, done, pc, replies>>

\* The pending requests that have no answer yet are rejected one after the other.
FailPending(x) ==
    /\ disposal = "failing" /\ x \in pending /\ done[x] = "open"
    /\ Settle(x, "rejected")
    /\ UNCHANGED <<info, approved, pending, pc, replies, disposal>>

\* Mutant: the map is cleared without a word to those who wait.
ClearAtOnce ==
    /\ disposal = "failing"
    /\ disposal' = "done" /\ pending' = {}
    /\ UNCHANGED <<info, approved, done, pc, replies>>

Clear ==
    /\ disposal = "failing" /\ \A x \in pending : done[x] # "open"
    /\ disposal' = "done" /\ pending' = {}
    /\ UNCHANGED <<info, approved, done, pc, replies>>

----------------------------------------------------------------------------
AskSteps(r) == Asked(r) \/ Answered(r)
ReplySteps(c) == SettleReply(c) \/ SettleItem(c) \/ EndLoop(c) \/ \E x \in Requests : Visit(c, x)
DisposeSteps == Clear \/ \E x \in Requests : FailPending(x)

Next ==
    \/ \E r \in Requests : Ask(r) \/ AskSteps(r) \/ Abort(r)
    \/ \E c \in Replies, r \in Requests, k \in Kinds : Reply(c, r, k)
    \/ \E c \in Replies : ReplySteps(c)
    \/ Dispose \/ DisposeSteps

Spec == Init /\ [][Next]_vars

\* Fibers that can go on do; the user need not reply.
FairSpec ==
    /\ Spec
    /\ \A r \in Requests : WF_vars(AskSteps(r))
    /\ \A c \in Replies : WF_vars(ReplySteps(c))
    /\ WF_vars(DisposeSteps)

----------------------------------------------------------------------------
(* Properties                                                              *)

Types ==
    /\ info \in [Requests -> Info]
    /\ approved \in [Patterns -> Actions \cup {None}]
    /\ pending \subseteq Requests
    /\ done \in [Requests -> {"open", "granted", "rejected"}]
    /\ pc \in [Requests -> {"new"} \cup Asking \cup Outcomes]
    /\ rpc \in [Replies -> {"new", "settle", "loop", "item", "returned"}]
    /\ to \in [Replies -> Requests \cup {None}]
    /\ kind \in [Replies -> Kinds \cup {None}]
    /\ visited \in [Replies -> SUBSET Requests]
    /\ item \in [Replies -> Requests \cup {None}]
    /\ due \in [Replies -> SUBSET Requests]
    /\ disposal \in {"no", "failing", "done"}

\* The user said yes to request r itself.
SaidYes(r) == \E c \in Replies : to[c] = r /\ kind[c] \in {"once", "always"}

\* The rules, with what the user has approved, allow request r.
RulesAllow(r) == \A p \in info[r].patterns : Evaluate(r, p) = "allow"

\* Nothing is granted that neither the user nor the rules allow: in particular an "always" reply grants
\* a waiting request only if all of its patterns are approved (Permission.ask, Permission.reply).
GrantJustified ==
    \A r \in Requests : pc[r] = "granted" \/ done[r] = "granted" => SaidYes(r) \/ RulesAllow(r)

\* Reply c has taken request r from the map and is going to settle it.
TakenBy(c, r) == (rpc[c] = "settle" /\ to[c] = r) \/ (rpc[c] = "item" /\ item[c] = r)

\* No tool call waits for nobody: a request without an answer is in the map, where replies and the
\* finalizer find it, or in the hands of a reply, however they overlap.
AskerReachable ==
    \A r \in Requests : pc[r] \in Asking /\ done[r] = "open" =>
        r \in pending \/ \E c \in Replies : TakenBy(c, r)

\* "reply - reject cancels all pending for same session" and "reply - always resolves matching pending
\* requests in same session": what was pending when the reply came is settled or aborted when the reply
\* returns, and so is what another reply has taken.
CascadeComplete ==
    \A c \in Replies : rpc[c] = "returned" => due[c] \cap pending = {}

\* A rejection stays in its session: a request is rejected by a reply to a request of the same session,
\* or because the instance goes.
RejectsStayInSession ==
    \A r \in Requests : done[r] = "rejected" =>
        \/ disposal # "no"
        \/ \E c \in Replies : kind[c] = "reject" /\ to[c] \in Requests /\ info[to[c]].session = info[r].session

\* What the properties rest on: a pending request has been asked and has no answer yet unless the
\* finalizer gave it; a reply under way knows its request; nobody is asked twice.
Bookkeeping ==
    /\ \A r \in pending : pc[r] \in Asking \cup {"gone"}
    /\ \A r \in Requests : pc[r] = "new" => done[r] = "open"
    /\ disposal = "no" => \A r \in pending : done[r] = "open"
    /\ disposal = "done" => pending = {}
    /\ \A c \in Replies :
        /\ rpc[c] = "new" => to[c] = None /\ kind[c] = None /\ due[c] = {}
        /\ rpc[c] \in {"new", "settle"} => visited[c] = {}
        /\ rpc[c] \in {"settle", "loop", "item"} => to[c] \in Requests /\ kind[c] \in Kinds /\ pc[to[c]] # "new"
        /\ rpc[c] = "settle" => to[c] \notin pending
        /\ rpc[c] \in {"loop", "item"} => kind[c] # "once"
        /\ rpc[c] \in {"loop", "item"} /\ kind[c] = "always" =>
                \A p \in info[to[c]].always : approved[p] = "allow"
        /\ rpc[c] = "item" => /\ item[c] \in Requests \ pending /\ pc[item[c]] # "new"
                              /\ info[item[c]].session = info[to[c]].session
                              /\ kind[c] = "reject" \/ RulesAllow(item[c])
        /\ \A x \in due[c] : pc[x] # "new" /\ Concerns(to[c], kind[c], x)

\* What reply c has still to do is in front of its loop.
LoopCovers ==
    \A c \in Replies : rpc[c] \in {"loop", "item"} => due[c] \cap pending \cap visited[c] = {}

\* The inductive invariant of the permission service.
PermissionInv ==
    Types /\ GrantJustified /\ AskerReachable /\ CascadeComplete /\ RejectsStayInSession
        /\ Bookkeeping /\ LoopCovers

\* "pending permission rejects on instance dispose": when the instance goes, every tool call that waits
\* gets an answer, the ones that a reply has just taken included.
DisposeFreesAll ==
    disposal # "no" ~> \A r \in Requests : pc[r] \notin Asking

=============================================================================
