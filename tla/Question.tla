------------------------------ MODULE Question ------------------------------
(***************************************************************************)
(* The question service on top of the instance store: the questions that a *)
(* directory's state holds until they are answered, rejected or dropped    *)
(* with the state.  Answers are abstracted to the fact that one was given. *)
(***************************************************************************)
EXTENDS InstanceStore

CONSTANT Questions

VARIABLES
    pending,   \* pending[q]: the number of the state whose map holds q, or 0
    outcome,   \* outcome[q]: the deferred of q: "none", "open", "answered" or "rejected"
    asker,     \* asker[q]: where the asker of q is
    replying   \* replying[q]: what a reply or a reject that has taken q will settle it with

store == vars
qvars == <<pending, outcome, asker, replying>>
allvars == <<store, qvars>>

QInit ==
    /\ Init
    /\ pending = [q \in Questions |-> 0] /\ outcome = [q \in Questions |-> "none"]
    /\ asker = [q \in Questions |-> "idle"] /\ replying = [q \in Questions |-> "none"]

\* Mutant: the finalizer clears the map only.
FinalizeSilent ==
    /\ pending' = [q \in Questions |-> IF pending[q] = gen THEN 0 ELSE pending[q]]
    /\ UNCHANGED outcome

\* The finalizer of the state: whoever still waits is rejected.
Finalize ==
    LET held == {q \in Questions : pending[q] = gen} IN
    /\ pending' = [q \in Questions |-> IF q \in held THEN 0 ELSE pending[q]]
    /\ outcome' = [q \in Questions |-> IF q \in held /\ outcome[q] = "open" THEN "rejected"
                                       ELSE outcome[q]]

\* A step A of the store; when it drops the state, the finalizer runs.
Finalizing(A) ==
    /\ A
    /\ IF gen # 0 /\ gen' = 0 THEN Finalize ELSE UNCHANGED <<pending, outcome>>
    /\ UNCHANGED <<asker, replying>>

----------------------------------------------------------------------------
\* ask: the question is put into the map of the state, and published.
Ask(q) ==
    /\ asker[q] = "idle"
    /\ Use
    /\ pending' = [pending EXCEPT ![q] = gen']
    /\ outcome' = [outcome EXCEPT ![q] = "open"]
    /\ asker' = [asker EXCEPT ![q] = "publishing"]
    /\ UNCHANGED replying

\* The asker now waits, and takes its question out of its own map when it no longer does.
AskAwait(q) ==
    /\ asker[q] = "publishing"
    /\ asker' = [asker EXCEPT ![q] = "waiting"]
    /\ UNCHANGED <<store, pending, outcome, replying>>

AskReturn(q) ==
    /\ asker[q] = "waiting" /\ outcome[q] # "open"
    /\ asker' = [asker EXCEPT ![q] = "done"]
    /\ pending' = [pending EXCEPT ![q] = 0]
    /\ UNCHANGED <<store, outcome, replying>>

\* The asker is interrupted.  One that has not begun to wait leaves its question behind.
AskInterrupt(q) ==
    /\ asker[q] \in {"publishing", "waiting"}
    /\ asker' = [asker EXCEPT ![q] = "done"]
    /\ pending' = [pending EXCEPT ![q] = IF asker[q] = "waiting" THEN 0 ELSE @]
    /\ UNCHANGED <<store, outcome, replying>>

\* reply and reject: a question of the current state is taken out of the map, then published.  One
\* that is not there is ignored, but the state is made.
Take(q, with) ==
    /\ Use
    /\ \/ /\ pending[q] # 0 /\ pending[q] = gen'
          /\ pending' = [pending EXCEPT ![q] = 0]
          /\ replying' = [replying EXCEPT ![q] = with]
       \/ /\ pending[q] # gen' /\ gen = 0
          /\ UNCHANGED <<pending, replying>>
    /\ UNCHANGED <<outcome, asker>>

Settle(q) ==
    /\ replying[q] # "none"
    /\ outcome' = [outcome EXCEPT ![q] = IF @ = "open" THEN replying[q] ELSE @]
    /\ replying' = [replying EXCEPT ![q] = "none"]
    /\ UNCHANGED <<store, pending, asker>>

QuestionStep(q) == AskAwait(q) \/ AskReturn(q) \/ Settle(q)

QNext ==
    \/ Finalizing(StoreStep)
    \/ \E q \in Questions :
        \/ Ask(q) \/ AskInterrupt(q) \/ QuestionStep(q)
        \/ \E with \in {"answered", "rejected"} : Take(q, with)

QSpec == QInit /\ [][QNext]_allvars

\* Boots and finalizers end, and fibers that can go on do.
QFairSpec ==
    /\ QSpec
    /\ \A c \in Calls : WF_allvars(Finalizing(ForkStep(c))) /\ WF_allvars(Finalizing(CallStep(c)))
    /\ \A q \in Questions : WF_allvars(QuestionStep(q))

----------------------------------------------------------------------------
(* Properties                                                              *)

QTypeOK ==
    /\ TypeOK
    /\ pending \in [Questions -> 0..MaxGens]
    /\ outcome \in [Questions -> {"none", "open", "answered", "rejected"}]
    /\ asker \in [Questions -> {"idle", "publishing", "waiting", "done"}]
    /\ replying \in [Questions -> {"none", "answered", "rejected"}]

\* Whoever waits for an answer can still get one: its question is in the state of the directory that
\* a reply will look at, or a reply has taken it and will settle it.  Disposals and reloads that
\* replace the state leave nobody behind.
AskerReachable ==
    \A q \in Questions :
        asker[q] \in {"publishing", "waiting"} /\ outcome[q] = "open" =>
            (gen # 0 /\ pending[q] = gen) \/ replying[q] # "none"

\* Every call of load, reload, dispose and disposeAll returns, whatever overlaps it; and disposal frees
\* the askers: one whose state has been dropped does not wait for ever.
CallsReturn ==
    <>[](/\ \A c \in Calls : call[c].at \in {"idle", "returned"}
         /\ \A q \in Questions : asker[q] = "waiting" => pending[q] = gen)

=============================================================================
