-------------------------- MODULE SessionTurnQueue --------------------------
(***************************************************************************)
(* createSessionTurnCoordinator without persistPromptOnly and runLoop: the *)
(* queueing mode in which remote-runtime-manager.ts runs it, for the       *)
(* prompts of one session.                                                 *)
(***************************************************************************)
EXTENDS SessionTurn

CONSTANT CanSteer   \* BOOLEAN: the host has a steerActiveTurn that may accept

ASSUME QueueAssumption == CanSteer \in BOOLEAN

VARIABLE queue   \* queue[o]: the waiting items of state object o

vars == <<states, draining, queue, held, pc>>

Active == {"steer", "run"}
Settled == {"resolved", "rejected"}
PCs == {"new", "queued"} \cup Active \cup Settled

Init ==
    /\ states = None
    /\ draining = [o \in Inputs |-> FALSE]
    /\ queue = [o \in Inputs |-> <<>>]
    /\ held = [i \in Inputs |-> None]
    /\ pc = [i \in Inputs |-> "new"]

----------------------------------------------------------------------------

\* Mutant: a drain that is under way does not keep the next submit from starting one.
SubmitUnguarded(i) ==
    /\ pc[i] = "new"
    /\ LET o == StateFor(i)
           q == Append(queue[o], i)
       IN  /\ states' = o
           /\ held' = [held EXCEPT ![i] = o]
           /\ draining' = [draining EXCEPT ![o] = TRUE]
           /\ queue' = [queue EXCEPT ![o] = Tail(q)]
           /\ pc' = [pc EXCEPT ![i] = "queued", ![Head(q)] = "steer"]

\* Mutant: push and shift at the same end make a stack of the queue.
SubmitStack(i) ==
    /\ pc[i] = "new"
    /\ LET o == StateFor(i) IN
       /\ states' = o
       /\ held' = [held EXCEPT ![i] = o]
       /\ IF draining[o]
          THEN /\ queue' = [queue EXCEPT ![o] = <<i>> \o queue[o]]
               /\ pc' = [pc EXCEPT ![i] = "queued"]
               /\ UNCHANGED draining
          ELSE /\ draining' = [draining EXCEPT ![o] = TRUE]
               /\ pc' = [pc EXCEPT ![i] = "steer"]
               /\ UNCHANGED queue

\* submit pushes the item; drainQueuedPrompts returns at once if the object is being
\* drained, and otherwise shifts the first item before its first await.
Submit(i) ==
    /\ pc[i] = "new"
    /\ LET o == StateFor(i)
           q == Append(queue[o], i)
       IN  /\ states' = o
           /\ held' = [held EXCEPT ![i] = o]
           /\ IF draining[o]
              THEN /\ queue' = [queue EXCEPT ![o] = q]
                   /\ pc' = [pc EXCEPT ![i] = "queued"]
                   /\ UNCHANGED draining
              ELSE /\ draining' = [draining EXCEPT ![o] = TRUE]
                   /\ queue' = [queue EXCEPT ![o] = Tail(q)]
                   /\ pc' = [pc EXCEPT ![i] = "queued", ![Head(q)] = "steer"]

\* Mutant: the loop ends after a failed item instead of going on with the next.
AdvanceStopsOnError(i, result) ==
    LET o == held[i] IN
    /\ UNCHANGED held
    /\ IF queue[o] # <<>> /\ result = "resolved"
       THEN /\ queue' = [queue EXCEPT ![o] = Tail(queue[o])]
            /\ pc' = [pc EXCEPT ![i] = result, ![Head(queue[o])] = "steer"]
            /\ UNCHANGED <<draining, states>>
       ELSE /\ draining' = [draining EXCEPT ![o] = FALSE]
            /\ states' = IF queue[o] = <<>> THEN None ELSE states
            /\ pc' = [pc EXCEPT ![i] = result]
            /\ UNCHANGED queue

\* runQueuedItem settles the item's promise; the loop then shifts the next item of
\* its object, or clears the flag and deletes whatever the map holds (cleanup).
Advance(i, result) ==
    LET o == held[i] IN
    /\ UNCHANGED held
    /\ IF queue[o] # <<>>
       THEN /\ queue' = [queue EXCEPT ![o] = Tail(queue[o])]
            /\ pc' = [pc EXCEPT ![i] = result, ![Head(queue[o])] = "steer"]
            /\ UNCHANGED <<draining, states>>
       ELSE /\ draining' = [draining EXCEPT ![o] = FALSE]
            /\ states' = None
            /\ pc' = [pc EXCEPT ![i] = result]
            /\ UNCHANGED queue

\* await steerActiveTurn?.(input): the active turn takes the prompt, ...
Steered(i) ==
    /\ CanSteer
    /\ pc[i] = "steer"
    /\ Advance(i, "resolved")

\* ... or there is no steering or it returns null, and runPrompt is called.
RunPrompt(i) ==
    /\ pc[i] = "steer"
    /\ pc' = [pc EXCEPT ![i] = "run"]
    /\ UNCHANGED <<states, draining, queue, held>>

RunReturns(i) ==
    /\ pc[i] = "run"
    /\ Advance(i, "resolved")

\* runPrompt throws, or steerActiveTurn does.
RunThrows(i) ==
    /\ pc[i] = "run" \/ (CanSteer /\ pc[i] = "steer")
    /\ Advance(i, "rejected")

\* Every prompt has been submitted and settled.
Finished == (\A i \in Inputs : pc[i] \in Settled) /\ UNCHANGED vars

Step(i) == Steered(i) \/ RunPrompt(i) \/ RunReturns(i) \/ RunThrows(i)

Next == (\E i \in Inputs : Submit(i) \/ Step(i)) \/ Finished

Spec == Init /\ [][Next]_vars

\* The host's turns end.
FairSpec == Spec /\ \A i \in Inputs : WF_vars(Step(i))

----------------------------------------------------------------------------
(* Properties                                                              *)

\* The types of the coordinator's state.
TypeOK ==
    /\ states \in Inputs \cup {None}
    /\ draining \in [Inputs -> BOOLEAN]
    /\ queue \in [Inputs -> Seq(Inputs)]
    /\ held \in [Inputs -> Inputs \cup {None}]
    /\ pc \in [Inputs -> PCs]

\* Two prompts of one session are never before the host at the same time, whatever
\* state objects come and go (drainQueuedPrompts).
TurnsSerial ==
    \A i, j \in Inputs : pc[i] \in Active /\ pc[j] \in Active => i = j

\* A prompt that waits does so in an object that a live drain will come back to: no
\* submit leaves an item in an object that is no longer drained (the lost wake-up of
\* cleanup racing with submit).
NoStrandedItem ==
    \A i \in Inputs : pc[i] = "queued" =>
        /\ held[i] = states
        /\ \E j \in Inputs : pc[j] \in Active /\ held[j] = held[i]

\* What proves TurnsSerial: the registered object is the one that is drained, its queue
\* holds exactly the waiting items, each once, and one item of it is with the host.
Registered ==
    /\ \A i \in Inputs : pc[i] \in Active \cup {"queued"} => states \in Inputs /\ held[i] = states
    /\ \A o \in Inputs : draining[o] <=> o = states
    /\ \A o \in Inputs : o # states => queue[o] = <<>>
    /\ states \in Inputs => \E i \in Inputs : pc[i] \in Active

Lined(q) ==
    /\ \A k \in 1..Len(q) : pc[q[k]] = "queued"
    /\ \A k, l \in 1..Len(q) : q[k] = q[l] => k = l
    /\ \A i \in Inputs : pc[i] = "queued" => \E k \in 1..Len(q) : q[k] = i

DrainInv == Registered /\ (states \in Inputs => Lined(queue[states]))

\* The inductive invariant of the queueing mode.
QueueInv == TypeOK /\ DrainInv /\ TurnsSerial

\* The state of the FIFO server that the coordinator stands for.
Waiting == IF states = None THEN <<>> ELSE queue[states]
Current == {i \in Inputs : pc[i] \in Active}
Outcome ==
    [i \in Inputs |->
        IF pc[i] = "new" THEN "none" ELSE IF pc[i] \in Settled THEN pc[i] ELSE "pending"]

Fifo == INSTANCE TurnFifo WITH waiting <- Waiting, current <- Current, outcome <- Outcome

\* The coordinator implements the FIFO server of TurnFifo, fairness included: the promise
\* its tests call "serializes concurrent prompts through FIFO instead of sharing the first
\* result" and "keeps later queued prompts after an earlier run fails".
ImplementsFifo == Fifo!Spec
=============================================================================
