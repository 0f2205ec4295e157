------------------------- MODULE SessionTurnPersist -------------------------
(***************************************************************************)
(* createSessionTurnCoordinator with persistPromptOnly and runLoop: a      *)
(* prompt is run directly while the session is idle, and otherwise stored  *)
(* as a user message and answered by a later runLoop of the session.       *)
(*                                                                         *)
(* A persisted drain is named by the submit that started it: each submit   *)
(* starts one at most.  The host (isSessionBusy, waitUntilIdle, the        *)
(* message store, runPrompt, runLoop) is external.                         *)
(***************************************************************************)
EXTENDS SessionTurn, FiniteSets

CONSTANTS
    HostAware,     \* BOOLEAN: the host offers isSessionBusy, waitUntilIdle and steerActiveTurn
    MaxFailures,   \* bound on the host calls that throw
    MaxLocalTurns  \* bound on the turns that the host runs on its own account

ASSUME PersistAssumption ==
    /\ HostAware \in BOOLEAN
    /\ MaxFailures \in Nat
    /\ MaxLocalTurns \in Nat

VARIABLES
    persisted,   \* persisted[o]: the signals of state object o
    dpc,         \* the await the drain started by submit(i) is suspended at
    seen,        \* seen[i]: the user messages that drain i's last loop started from
    store,       \* the user messages in the host's message list
    answered,    \* the user messages that a finished loop started from
    localTurn,   \* is the host running a turn that did not come through submit?
    localTurns,  \* number of such turns so far
    failures     \* number of host calls that threw so far

host == <<localTurn, localTurns>>
persistVars == <<states, draining, persisted, held, pc, dpc, seen, store, answered, host, failures>>

Running == {"steer", "run"}
Returned == {"resolved", "rejected", "accepted"}
Awaiting == {"probe", "saidBusy", "saidIdle", "persist", "stored"}
SubmitPCs == {"new"} \cup Running \cup Returned \cup Awaiting
Draining == {"wait", "ready", "loop", "check"}
DrainPCs == {"off"} \cup Draining

\* The turns of the session that are before the host.
Turns == {i \in Inputs : pc[i] = "run"} \cup {i \in Inputs : dpc[i] = "loop"}
Busy == localTurn \/ Turns # {}

PersistInit ==
    /\ states = None
    /\ draining = [o \in Inputs |-> FALSE]
    /\ persisted = [o \in Inputs |-> <<>>]
    /\ held = [i \in Inputs |-> None]
    /\ pc = [i \in Inputs |-> "new"]
    /\ dpc = [i \in Inputs |-> "off"]
    /\ seen = [i \in Inputs |-> {}]
    /\ store = {} /\ answered = {}
    /\ localTurn = FALSE /\ localTurns = 0 /\ failures = 0

----------------------------------------------------------------------------
(* drainPersistedPrompts on object o, by the drain that submit(i) started  *)

\* cleanup: delete whatever the map holds if this object has nothing left.
Cleanup(signals) == states' = IF signals = <<>> THEN None ELSE states

\* The head of the loop: shift a signal and await waitUntilIdle, or stop.
LoopHead(i, o, signals) ==
    IF signals # <<>>
    THEN /\ persisted' = [persisted EXCEPT ![o] = Tail(signals)]
         /\ draining' = [draining EXCEPT ![o] = TRUE]
         /\ dpc' = [dpc EXCEPT ![i] = "wait"]
         /\ UNCHANGED states
    ELSE /\ persisted' = [persisted EXCEPT ![o] = signals]
         /\ draining' = [draining EXCEPT ![o] = FALSE]
         /\ dpc' = [dpc EXCEPT ![i] = "off"]
         /\ Cleanup(signals)

\* waitUntilIdle resolves; without it the await only yields.
WaitUntilIdle(i) ==
    /\ dpc[i] = "wait"
    /\ HostAware => ~Busy
    /\ dpc' = [dpc EXCEPT ![i] = "ready"]
    /\ UNCHANGED <<states, draining, persisted, held, pc, seen, store, answered, host, failures>>

RunLoop(i) ==
    /\ dpc[i] = "ready"
    /\ dpc' = [dpc EXCEPT ![i] = "loop"]
    /\ seen' = [seen EXCEPT ![i] = store]
    /\ UNCHANGED <<states, draining, persisted, held, pc, store, answered, host, failures>>

LoopReturns(i) ==
    /\ dpc[i] = "loop"
    /\ dpc' = [dpc EXCEPT ![i] = "check"]
    /\ answered' = answered \cup seen[i]
    /\ UNCHANGED <<states, draining, persisted, held, pc, seen, store, host, failures>>

\* hasNewerUserMessage: a user message behind the assistant's asks for another loop.
CheckNewer(i) ==
    /\ dpc[i] = "check"
    /\ IF store \ seen[i] # {}
       THEN /\ dpc' = [dpc EXCEPT ![i] = "loop"]
            /\ seen' = [seen EXCEPT ![i] = store]
            /\ UNCHANGED <<states, draining, persisted>>
       ELSE /\ LoopHead(i, held[i], persisted[held[i]])
            /\ UNCHANGED seen
    /\ UNCHANGED <<held, pc, store, answered, host, failures>>

\* Mutant: a failing loop takes the signals that it has not begun with it.
DrainThrowsDropping(i) ==
    /\ failures < MaxFailures /\ failures' = failures + 1
    /\ dpc[i] \in {"loop", "check"} \/ (HostAware /\ dpc[i] = "wait")
    /\ dpc' = [dpc EXCEPT ![i] = "off"]
    /\ draining' = [draining EXCEPT ![held[i]] = FALSE]
    /\ persisted' = [persisted EXCEPT ![held[i]] = <<>>]
    /\ Cleanup(<<>>)
    /\ UNCHANGED <<held, pc, seen, store, answered, host>>

\* A host call throws: the drain stops and keeps the signals it has not begun.
DrainThrows(i) ==
    /\ failures < MaxFailures /\ failures' = failures + 1
    /\ dpc[i] \in {"loop", "check"} \/ (HostAware /\ dpc[i] = "wait")
    /\ dpc' = [dpc EXCEPT ![i] = "off"]
    /\ draining' = [draining EXCEPT ![held[i]] = FALSE]
    /\ Cleanup(persisted[held[i]])
    /\ UNCHANGED <<persisted, held, pc, seen, store, answered, host>>

----------------------------------------------------------------------------
(* submit                                                                  *)

\* Up to the first await: isSessionBusy, unless the flag answers the question.
SubmitPrompt(i) ==
    /\ pc[i] = "new"
    /\ LET o == StateFor(i) IN
       /\ states' = o
       /\ held' = [held EXCEPT ![i] = o]
       /\ pc' = [pc EXCEPT ![i] = IF HostAware /\ ~draining[o] THEN "probe" ELSE "persist"]
    /\ UNCHANGED <<draining, persisted, dpc, seen, store, answered, host, failures>>

\* The host answers isSessionBusy; submit resumes in a later step.
SessionStatus(i) ==
    /\ pc[i] = "probe"
    /\ pc' = [pc EXCEPT ![i] = IF Busy THEN "saidBusy" ELSE "saidIdle"]
    /\ UNCHANGED <<states, draining, persisted, held, dpc, seen, store, answered, host, failures>>

ResumeBusy(i) ==
    /\ pc[i] = "saidBusy"
    /\ pc' = [pc EXCEPT ![i] = "persist"]
    /\ UNCHANGED <<states, draining, persisted, held, dpc, seen, store, answered, host, failures>>

\* Idle: take the flag, whoever holds it by now, and go on to the prompt.
ResumeIdle(i) ==
    /\ pc[i] = "saidIdle"
    /\ pc' = [pc EXCEPT ![i] = "steer"]
    /\ draining' = [draining EXCEPT ![held[i]] = TRUE]
    /\ UNCHANGED <<states, persisted, held, dpc, seen, store, answered, host, failures>>

\* steerActiveTurn returns null: the prompt is a turn of its own.
RunDirectly(i) ==
    /\ pc[i] = "steer"
    /\ pc' = [pc EXCEPT ![i] = "run"]
    /\ UNCHANGED <<states, draining, persisted, held, dpc, seen, store, answered, host, failures>>

\* Mutant: the finally clause clears the flag and does not look for signals.
FinallyWithoutDrain(i) ==
    /\ draining' = [draining EXCEPT ![held[i]] = FALSE]
    /\ Cleanup(persisted[held[i]])
    /\ UNCHANGED <<persisted, dpc>>

\* The finally clause: clear the flag, then drain the signals that came meanwhile.
Finally(i) == LoopHead(i, held[i], persisted[held[i]])

\* runPrompt returns, or steerActiveTurn gave the prompt to the active turn.
PromptReturns(i) ==
    /\ pc[i] \in Running
    /\ pc' = [pc EXCEPT ![i] = "resolved"]
    /\ Finally(i)
    /\ UNCHANGED <<held, seen, store, answered, host, failures>>

PromptThrows(i) ==
    /\ failures < MaxFailures /\ failures' = failures + 1
    /\ pc[i] \in Running
    /\ pc' = [pc EXCEPT ![i] = "rejected"]
    /\ Finally(i)
    /\ UNCHANGED <<held, seen, store, answered, host>>

\* The host adds the message to its list before persistPromptOnly resolves.
Persist(i) ==
    /\ pc[i] = "persist"
    /\ pc' = [pc EXCEPT ![i] = "stored"]
    /\ store' = store \cup {i}
    /\ UNCHANGED <<states, draining, persisted, held, dpc, seen, answered, host, failures>>

\* Mutant: the signal is pushed and the drain is left to somebody else.
PersistedQuietly(i) ==
    /\ pc[i] = "stored"
    /\ pc' = [pc EXCEPT ![i] = "accepted"]
    /\ persisted' = [persisted EXCEPT ![held[i]] = Append(persisted[held[i]], i)]
    /\ UNCHANGED <<draining, dpc, states, held, seen, store, answered, host, failures>>

\* persistPromptOnly has resolved: the signal is pushed, and a drain begins unless the
\* object's flag is up.
Persisted(i) ==
    /\ pc[i] = "stored"
    /\ pc' = [pc EXCEPT ![i] = "accepted"]
    /\ LET o == held[i]
           signals == Append(persisted[o], i)
       IN  IF draining[o]
           THEN /\ persisted' = [persisted EXCEPT ![o] = signals]
                /\ UNCHANGED <<draining, dpc, states>>
           ELSE LoopHead(i, o, signals)
    /\ UNCHANGED <<held, seen, store, answered, host, failures>>

\* isSessionBusy or persistPromptOnly rejects, and submit with it; the object stays as it is.
SubmitThrows(i) ==
    /\ failures < MaxFailures /\ failures' = failures + 1
    /\ pc[i] \in {"probe", "persist"}
    /\ pc' = [pc EXCEPT ![i] = "rejected"]
    /\ UNCHANGED <<states, draining, persisted, held, dpc, seen, store, answered, host>>

----------------------------------------------------------------------------
(* The host's own turns                                                    *)

LocalBegins ==
    /\ ~Busy /\ localTurns < MaxLocalTurns
    /\ localTurn' = TRUE /\ localTurns' = localTurns + 1
    /\ UNCHANGED <<states, draining, persisted, held, pc, dpc, seen, store, answered, failures>>

LocalEnds ==
    /\ localTurn /\ localTurn' = FALSE
    /\ UNCHANGED <<states, draining, persisted, held, pc, dpc, seen, store, answered, localTurns,
                   failures>>

AllReturned ==
    /\ \A i \in Inputs : pc[i] \in Returned /\ dpc[i] = "off"
    /\ UNCHANGED persistVars

PersistStep(i) ==
    \/ WaitUntilIdle(i) \/ RunLoop(i) \/ LoopReturns(i) \/ CheckNewer(i)
    \/ SessionStatus(i) \/ ResumeBusy(i) \/ ResumeIdle(i) \/ RunDirectly(i) \/ PromptReturns(i)
    \/ Persist(i) \/ Persisted(i)

PersistNext ==
    \/ \E i \in Inputs :
        SubmitPrompt(i) \/ PersistStep(i) \/ DrainThrows(i) \/ PromptThrows(i) \/ SubmitThrows(i)
    \/ LocalBegins \/ LocalEnds \/ AllReturned

PersistSpec == PersistInit /\ [][PersistNext]_persistVars

\* Host calls return, and the host's own turns end.
FairPersistSpec ==
    PersistSpec /\ WF_persistVars(LocalEnds) /\ \A i \in Inputs : WF_persistVars(PersistStep(i))

----------------------------------------------------------------------------
(* Properties                                                              *)

\* Somebody is going to look at object o's signals again.
Watched(o) ==
    \E i \in Inputs : held[i] = o /\ (dpc[i] \in Draining \/ pc[i] \in Running)

\* No lost wake-up: however the flag is set and cleared by drains and by direct prompts
\* that overlap, an object with signals has a drain or a finally clause to come, until
\* a host call throws.
SignalsWatched ==
    \A o \in Inputs : persisted[o] # <<>> /\ failures = 0 => Watched(o)

\* A prompt that was accepted is answered by a loop that started after it was stored
\* (submit returned queued: true and nothing else will report the outcome).
AcceptedAnswered ==
    \A i \in Inputs : pc[i] = "accepted" ~> (i \in answered \/ failures > 0)

\* A signal is a stored message whose answer is owed; what no signal and no drain stands
\* for any more has been given up.
GivenUp ==
    {i \in Inputs : /\ pc[i] = "accepted" /\ i \notin answered
                    /\ \A o \in Inputs : \A k \in DOMAIN persisted[o] : persisted[o][k] # i}

\* A host call that throws costs one signal, the one that was being served: the unstarted
\* ones stay queued ("keeps unstarted persisted prompts queued when loop draining fails").
FailureCostsOneSignal ==
    (\A i \in Inputs : dpc[i] = "off") => Cardinality(GivenUp) <= failures

\* "Keep any unstarted persisted signals queued so a later submission can retry draining
\* the session": signals that nobody drains are in the object a later submit gets.
RetryReachesSignals ==
    \A o \in Inputs : persisted[o] # <<>> /\ ~Watched(o) => states = o

----------------------------------------------------------------------------
(* What makes them hold, step by step                                      *)

\* The types; what the host does of its own accord matters to none of this.
PersistTypeOK ==
    /\ states \in Inputs \cup {None} /\ held \in [Inputs -> Inputs \cup {None}]
    /\ draining \in [Inputs -> BOOLEAN] /\ persisted \in [Inputs -> Seq(Inputs)]
    /\ pc \in [Inputs -> SubmitPCs] /\ dpc \in [Inputs -> DrainPCs]
    /\ seen \in [Inputs -> SUBSET Inputs] /\ store \in SUBSET Inputs /\ answered \in SUBSET Inputs
    /\ failures \in Nat

\* A submit under way has its object, and does not start its drain before it has settled; a message
\* is in the list before it is signalled.
Started ==
    \A i \in Inputs : /\ pc[i] # "new" => held[i] \in Inputs
                      /\ pc[i] \notin Returned => dpc[i] = "off"
                      /\ pc[i] \in {"stored", "accepted"} => i \in store

\* SignalsWatched, and the flag as well: who finds it up leaves the signal to the one who put it up.
FlagWatched ==
    failures = 0 => \A o \in Inputs : draining[o] \/ persisted[o] # <<>> => Watched(o)

\* A drain that has shifted the signal of x, and whose loop will have seen x when it returns.
Serving(i, x) == dpc[i] \in {"wait", "ready"} \/ (dpc[i] = "loop" /\ x \in seen[i])

\* A message that is owed an answer and has no signal is one of those that failures have cost, or
\* what some drain has shifted last.
Covered(current, lost) ==
    /\ IsFiniteSet(lost) /\ Cardinality(lost) <= failures
    /\ \A x \in GivenUp \ lost : \E i \in Inputs : current[i] = x /\ Serving(i, x)

Accounted == \E current \in [Inputs -> Inputs], lost \in SUBSET Inputs : Covered(current, lost)

PersistInv == PersistTypeOK /\ Started /\ FlagWatched /\ Accounted
=============================================================================
