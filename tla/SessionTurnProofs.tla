------------------------- MODULE SessionTurnProofs --------------------------
(***************************************************************************)
(* Proofs about both modes of the turn coordinator, for every set of       *)
(* prompts.  SessionTurnQueue: at most one prompt is before the host, no   *)
(* waiting prompt is stranded, and every step is a step of the FIFO server *)
(* of TurnFifo.  SessionTurnPersist: no signal is left without someone to  *)
(* look at it, and a failure costs one signal.                             *)
(***************************************************************************)
EXTENDS SessionTurnQueue, SessionTurnPersist, FiniteSetTheorems, TLAPS

\* Nothing is queued and nothing runs at the start.
LEMMA InitInv == Init => QueueInv
<1> SUFFICES ASSUME Init PROVE QueueInv
  OBVIOUS
<1>1. TypeOK
  BY DEF Init, TypeOK, PCs, None
<1>2. DrainInv /\ TurnsSerial
  BY NoneAssumption DEF Init, DrainInv, Registered, TurnsSerial, Active
<1> QED
  BY <1>1, <1>2 DEF QueueInv

\* What submit does while no object is registered: the item is with the host at once.
LEMMA SubmitFirst ==
  ASSUME QueueInv, NEW i \in Inputs, Submit(i), states = None
  PROVE  /\ states' = i /\ held' = [held EXCEPT ![i] = i]
         /\ draining' = [draining EXCEPT ![i] = TRUE]
         /\ queue' = queue /\ queue[i] = <<>>
         /\ pc' = [pc EXCEPT ![i] = "steer"]
<1>1. ~draining[i] /\ queue[i] = <<>>
  BY NoneAssumption DEF QueueInv, DrainInv, Registered, TypeOK
<1>2. Tail(Append(queue[i], i)) = <<>> /\ Head(Append(queue[i], i)) = i
  BY <1>1
<1>3. /\ states' = i /\ held' = [held EXCEPT ![i] = i]
      /\ draining' = [draining EXCEPT ![i] = TRUE]
      /\ queue' = [queue EXCEPT ![i] = <<>>]
      /\ pc' = [pc EXCEPT ![i] = "queued", ![i] = "steer"]
  BY <1>1, <1>2 DEF Submit, StateFor
<1>4. queue' = queue
  BY <1>1, <1>3 DEF QueueInv, TypeOK
<1>5. pc' = [pc EXCEPT ![i] = "steer"]
  BY <1>3 DEF QueueInv, TypeOK
<1> QED
  BY <1>1, <1>3, <1>4, <1>5

\* What submit does while an object is registered: the item joins its queue.
LEMMA SubmitBehind ==
  ASSUME QueueInv, NEW i \in Inputs, Submit(i), states # None
  PROVE  /\ states \in Inputs /\ draining[states]
         /\ states' = states /\ held' = [held EXCEPT ![i] = states]
         /\ draining' = draining
         /\ queue' = [queue EXCEPT ![states] = Append(queue[states], i)]
         /\ pc' = [pc EXCEPT ![i] = "queued"]
BY DEF Submit, StateFor, QueueInv, DrainInv, Registered, TypeOK

\* An item that is new and appended keeps the line in order.
LEMMA SubmitInv ==
  ASSUME QueueInv, NEW i \in Inputs, Submit(i)
  PROVE  QueueInv'
<1> USE DEF QueueInv, TypeOK, DrainInv, Registered, TurnsSerial, Active, Settled, PCs
<1>0. pc[i] = "new"
  BY DEF Submit
<1>1. CASE states = None
  <2>1. \A j \in Inputs : pc[j] \notin Active \cup {"queued"}
    BY <1>1, NoneAssumption
  <2>2. TypeOK'
    BY <1>1, SubmitFirst, ZenonT(30)
  <2>3. Registered'
    BY <1>1, <2>1, NoneAssumption, SubmitFirst
  <2>4. Lined(queue[states])'
    BY <1>1, <2>1, SubmitFirst DEF Lined
  <2>5. TurnsSerial'
    BY <1>1, <2>1, SubmitFirst
  <2> QED
    BY <2>2, <2>3, <2>4, <2>5
<1>2. CASE states # None
  <2>1. states \in Inputs
    BY <1>2
  <2>0. /\ states' = states /\ held' = [held EXCEPT ![i] = states]
        /\ draining' = draining
        /\ queue' = [queue EXCEPT ![states] = Append(queue[states], i)]
        /\ pc' = [pc EXCEPT ![i] = "queued"]
    BY <1>2, SubmitBehind
  <2>2. TypeOK'
    <3> DEFINE r == Append(queue[states], i)
    <3>1. r \in Seq(Inputs)
      BY <2>1
    <3> HIDE DEF r
    <3>2. queue' = [queue EXCEPT ![states] = r]
      BY <2>0 DEF r
    <3>3. queue' \in [Inputs -> Seq(Inputs)]
      BY <3>1, <3>2, <2>1
    <3>4. held' \in [Inputs -> Inputs \cup {None}] /\ pc' \in [Inputs -> PCs]
      BY <2>0, <2>1
    <3> QED
      BY <3>3, <3>4, <2>0
  <2>3. Registered'
    BY <1>0, <1>2, SubmitBehind
  <2>4. Lined(queue[states])'
    <3> DEFINE q == queue[states]
               r == Append(q, i)
    <3>1. queue'[states'] = r /\ q \in Seq(Inputs) /\ pc' = [pc EXCEPT ![i] = "queued"]
      BY <1>2, <2>1, SubmitBehind
    <3>2. /\ Len(r) = Len(q) + 1 /\ Len(q) \in Nat /\ r[Len(q) + 1] = i
          /\ \A k \in 1..Len(q) : r[k] = q[k] /\ q[k] \in Inputs
      BY <3>1
    <3>3. Lined(q)
      BY <2>1
    <3>4. \A k \in 1..Len(q) : q[k] # i
      BY <3>3, <1>0 DEF Lined
    <3>5. \A k \in 1..Len(r) : pc'[r[k]] = "queued"
      <4> SUFFICES ASSUME NEW k \in 1..Len(r) PROVE pc'[r[k]] = "queued"
        OBVIOUS
      <4>1. CASE k = Len(q) + 1
        BY <4>1, <3>1, <3>2
      <4>2. CASE k \in 1..Len(q)
        <5>1. r[k] = q[k] /\ q[k] \in Inputs /\ q[k] # i /\ pc[q[k]] = "queued"
          BY <4>2, <3>2, <3>3, <3>4 DEF Lined
        <5> QED
          BY <5>1, <3>1
      <4> QED
        BY <4>1, <4>2, <3>2
    <3>6. \A k, l \in 1..Len(r) : r[k] = r[l] => k = l
      <4>1. \A k \in 1..Len(r) : k \in 1..Len(q) \/ k = Len(q) + 1
        BY <3>2
      <4>2. \A k, l \in 1..Len(q) : q[k] = q[l] => k = l
        BY <3>3 DEF Lined
      <4> HIDE DEF q, r, QueueInv, TypeOK, DrainInv, Registered, TurnsSerial
      <4> QED
        BY <4>1, <4>2, <3>2, <3>4
    <3>7. \A j \in Inputs : pc'[j] = "queued" => \E k \in 1..Len(r) : r[k] = j
      <4> SUFFICES ASSUME NEW j \in Inputs, pc'[j] = "queued" PROVE \E k \in 1..Len(r) : r[k] = j
        OBVIOUS
      <4>1. CASE j = i
        BY <4>1, <3>2
      <4>2. CASE j # i
        <5>1. pc[j] = "queued"
          BY <4>2, <3>1
        <5>2. PICK k \in 1..Len(q) : q[k] = j
          BY <5>1, <3>3 DEF Lined
        <5> QED
          BY <5>2, <3>2
      <4> QED
        BY <4>1, <4>2
    <3> HIDE DEF q, r
    <3> QED
      BY <3>1, <3>5, <3>6, <3>7 DEF Lined
  <2>5. TurnsSerial'
    BY <1>2, SubmitBehind, SMTT(30)
  <2> QED
    BY <2>2, <2>3, <2>4, <2>5
<1> QED
  BY <1>1, <1>2

\* What the drain loop does when an item settles and others wait.
LEMMA AdvanceNext ==
  ASSUME QueueInv, NEW i \in Inputs, NEW result \in Settled, pc[i] \in Active, Advance(i, result),
         queue[states] # <<>>
  PROVE  LET h == Head(queue[states]) IN
         /\ states' = states /\ held' = held /\ draining' = draining
         /\ queue' = [queue EXCEPT ![states] = Tail(queue[states])]
         /\ h \in Inputs /\ h # i /\ pc[h] = "queued" /\ h = queue[states][1]
         /\ pc' \in [Inputs -> PCs] /\ pc'[h] = "steer" /\ pc'[i] = result
         /\ \A j \in Inputs : j # i /\ j # h => pc'[j] = pc[j]
<1> DEFINE h == Head(queue[states])
<1>1. held[i] = states /\ states \in Inputs /\ queue[states] \in Seq(Inputs)
  BY DEF QueueInv, DrainInv, Registered, TypeOK
<1>2. /\ states' = states /\ held' = held /\ draining' = draining
      /\ queue' = [queue EXCEPT ![states] = Tail(queue[states])]
      /\ pc' = [pc EXCEPT ![i] = result, ![h] = "steer"]
  BY <1>1 DEF Advance
<1>3. Len(queue[states]) \in Nat /\ Len(queue[states]) >= 1 /\ h = queue[states][1] /\ h \in Inputs
  BY <1>1
<1>4. pc[h] = "queued"
  BY <1>1, <1>3 DEF QueueInv, DrainInv, Lined
<1>5. h # i
  BY <1>4 DEF Active
<1> QED
  BY <1>2, <1>3, <1>4, <1>5 DEF QueueInv, TypeOK, PCs, Active, Settled

\* What the drain loop does when the last item settles.
LEMMA AdvanceLast ==
  ASSUME QueueInv, NEW i \in Inputs, NEW result \in Settled, pc[i] \in Active, Advance(i, result),
         queue[states] = <<>>
  PROVE  /\ states \in Inputs
         /\ states' = None /\ held' = held /\ queue' = queue
         /\ draining' = [draining EXCEPT ![states] = FALSE]
         /\ pc' = [pc EXCEPT ![i] = result]
BY DEF Advance, QueueInv, DrainInv, Registered, TypeOK

\* The drain loop hands the host from the settled item to the next one, or gives up
\* the flag and the registration together.
LEMMA AdvanceInv ==
  ASSUME QueueInv, NEW i \in Inputs, NEW result \in Settled, pc[i] \in Active, Advance(i, result)
  PROVE  QueueInv'
<1> USE DEF QueueInv, TypeOK, DrainInv, Registered, TurnsSerial
<1>1. states \in Inputs /\ queue[states] \in Seq(Inputs)
  OBVIOUS
<1>2. \A j \in Inputs : j # i => pc[j] \notin Active
  OBVIOUS
<1>3. CASE queue[states] # <<>>
  <2> DEFINE q == queue[states]
             h == Head(q)
             r == Tail(q)
  <2>1. /\ states' = states /\ held' = held /\ draining' = draining
        /\ queue' = [queue EXCEPT ![states] = r]
        /\ h \in Inputs /\ h # i /\ pc[h] = "queued" /\ h = q[1]
        /\ pc' \in [Inputs -> PCs] /\ pc'[h] = "steer" /\ pc'[i] = result
        /\ \A j \in Inputs : j # i /\ j # h => pc'[j] = pc[j]
    BY <1>3, AdvanceNext
  <2>2. /\ r \in Seq(Inputs) /\ Len(q) \in Nat /\ Len(q) >= 1 /\ Len(r) = Len(q) - 1
        /\ \A k \in 1..Len(r) : r[k] = q[k + 1] /\ r[k] \in Inputs
    BY <1>1, <1>3
  <2>3. TypeOK'
    <3>1. queue' \in [Inputs -> Seq(Inputs)]
      BY <2>1, <2>2
    <3> QED
      BY <3>1, <2>1
  <2>4. Registered'
    BY <1>1, <2>1 DEF Active, Settled
  <2>5. Lined(q)
    BY <1>1
  <2>6. Lined(queue[states])'
    <3>1. queue'[states'] = r
      BY <1>1, <2>1
    <3>2. \A k \in 1..Len(r) : r[k] # h /\ pc[r[k]] = "queued"
      BY <2>1, <2>2, <2>5 DEF Lined
    <3>3. \A k \in 1..Len(r) : pc'[r[k]] = "queued"
      BY <2>1, <2>2, <3>2 DEF Active
    <3>4. \A k, l \in 1..Len(r) : r[k] = r[l] => k = l
      <4> SUFFICES ASSUME NEW k \in 1..Len(r), NEW l \in 1..Len(r), r[k] = r[l] PROVE k = l
        OBVIOUS
      <4>1. k + 1 \in 1..Len(q) /\ l + 1 \in 1..Len(q) /\ q[k + 1] = q[l + 1]
        BY <2>2
      <4>2. k + 1 = l + 1
        BY <4>1, <2>5 DEF Lined
      <4> QED
        BY <4>2
    <3>5. \A j \in Inputs : pc'[j] = "queued" => \E k \in 1..Len(r) : r[k] = j
      <4> SUFFICES ASSUME NEW j \in Inputs, pc'[j] = "queued" PROVE \E k \in 1..Len(r) : r[k] = j
        OBVIOUS
      <4>1. j # h /\ pc[j] = "queued"
        BY <2>1 DEF Settled
      <4>2. PICK k \in 1..Len(q) : q[k] = j
        BY <4>1, <2>5 DEF Lined
      <4>3. k # 1
        BY <4>1, <4>2, <2>1
      <4>4. k - 1 \in 1..Len(r) /\ r[k - 1] = j
        BY <4>2, <4>3, <2>2
      <4> QED
        BY <4>4
    <3> QED
      BY <3>1, <3>3, <3>4, <3>5 DEF Lined
  <2>7. TurnsSerial'
    BY <1>2, <2>1, ZenonT(30) DEF Active, Settled
  <2> QED
    BY <2>3, <2>4, <2>6, <2>7
<1>4. CASE queue[states] = <<>>
  <2>1. \A j \in Inputs : pc[j] # "queued"
    BY <1>1, <1>4 DEF Lined
  <2>2. TypeOK'
    <3>1. /\ states' = None /\ held' = held /\ queue' = queue
          /\ draining' = [draining EXCEPT ![states] = FALSE]
          /\ pc' = [pc EXCEPT ![i] = result]
      BY <1>4, AdvanceLast
    <3>2. draining' \in [Inputs -> BOOLEAN]
      BY <3>1
    <3>3. pc' \in [Inputs -> PCs]
      BY <3>1 DEF PCs
    <3> QED
      BY <3>1, <3>2, <3>3
  <2>3. \A j \in Inputs : pc'[j] \notin Active \cup {"queued"}
    <3>1. pc' = [pc EXCEPT ![i] = result]
      BY <1>4, AdvanceLast
    <3> QED
      BY <1>2, <2>1, <3>1 DEF Settled, Active
  <2>4. /\ states' = None /\ queue' = queue
        /\ \A o \in Inputs : ~draining'[o]
        /\ \A o \in Inputs : queue'[o] = <<>>
    <3>1. /\ states' = None /\ queue' = queue
          /\ draining' = [draining EXCEPT ![states] = FALSE]
      BY <1>4, AdvanceLast
    <3> QED
      BY <1>1, <1>4, <3>1
  <2>5. Registered'
    BY <2>3, <2>4, NoneAssumption
  <2>6. TurnsSerial' /\ states' \notin Inputs
    BY <2>3, <2>4, NoneAssumption
  <2> QED
    BY <2>2, <2>5, <2>6
<1> QED
  BY <1>3, <1>4

\* QueueInv is inductive.
LEMMA StepInv == QueueInv /\ [Next]_vars => QueueInv'
<1> SUFFICES ASSUME QueueInv, [Next]_vars PROVE QueueInv'
  OBVIOUS
<1>1. ASSUME NEW i \in Inputs, Submit(i) PROVE QueueInv'
  BY <1>1, SubmitInv
<1>2. ASSUME NEW i \in Inputs, Steered(i) \/ RunReturns(i) \/ RunThrows(i) PROVE QueueInv'
  BY <1>2, AdvanceInv DEF Steered, RunReturns, RunThrows, Active, Settled
<1>3. ASSUME NEW i \in Inputs, RunPrompt(i) PROVE QueueInv'
  BY <1>3 DEF RunPrompt, QueueInv, TypeOK, DrainInv, Registered, Lined, TurnsSerial, Active, PCs
<1>4. CASE UNCHANGED vars
  BY <1>4 DEF vars, QueueInv, TypeOK, DrainInv, Registered, Lined, TurnsSerial
<1> QED
  BY <1>1, <1>2, <1>3, <1>4 DEF Next, Step, Finished

\* The inductive invariant holds for every set of prompts, with and without steering.
THEOREM QueueCorrect == Spec => []QueueInv
BY InitInv, StepInv, PTL DEF Spec

\* The prompts of a session are before the host one at a time.
THEOREM Serial == Spec => []TurnsSerial
BY QueueCorrect, PTL DEF QueueInv

\* No waiting prompt is left in an object that no drain comes back to.
THEOREM NobodyStranded == Spec => []NoStrandedItem
<1>1. QueueInv => NoStrandedItem
  BY DEF QueueInv, DrainInv, Registered, NoStrandedItem, Active
<1> QED
  BY <1>1, QueueCorrect, PTL

----------------------------------------------------------------------------
(* Refinement                                                              *)

\* The empty coordinator is the empty server.
LEMMA FifoInit == Init => Fifo!Init
BY DEF Init, Fifo!Init, Waiting, Current, Outcome, Active

\* submit is the server's Submit: the prompt is served at once or waits at the end.
LEMMA FifoSubmit ==
  ASSUME QueueInv, NEW i \in Inputs, Submit(i)
  PROVE  Fifo!Submit(i)
<1>0. pc[i] = "new" /\ pc \in [Inputs -> PCs]
  BY DEF Submit, QueueInv, TypeOK
<1>1. CASE states = None
  <2>1. pc' = [pc EXCEPT ![i] = "steer"] /\ states' = i /\ queue' = queue /\ queue[i] = <<>>
    BY <1>1, SubmitFirst
  <2>2. Current = {}
    BY <1>1, NoneAssumption DEF QueueInv, DrainInv, Registered, Current
  <2>3. Current' = {i}
    BY <1>0, <2>1, <2>2 DEF Current, Active
  <2>4. Outcome[i] = "none" /\ Outcome' = [Outcome EXCEPT ![i] = "pending"]
    BY <1>0, <2>1 DEF Outcome, Settled
  <2>5. Waiting = <<>> /\ Waiting' = <<>>
    BY <1>1, <2>1, NoneAssumption DEF Waiting
  <2> QED
    BY <2>2, <2>3, <2>4, <2>5 DEF Fifo!Submit
<1>2. CASE states # None
  <2>1. /\ states \in Inputs /\ states' = states
        /\ queue' = [queue EXCEPT ![states] = Append(queue[states], i)]
        /\ pc' = [pc EXCEPT ![i] = "queued"]
    BY <1>2, SubmitBehind
  <2>2. Current # {}
    BY <2>1 DEF QueueInv, DrainInv, Registered, Current
  <2>3. Current' = Current
    BY <1>0, <2>1 DEF Current, Active
  <2>4. Outcome[i] = "none" /\ Outcome' = [Outcome EXCEPT ![i] = "pending"]
    BY <1>0, <2>1 DEF Outcome, Settled
  <2>5. Waiting' = Append(Waiting, i)
    BY <1>2, <2>1 DEF Waiting, QueueInv, TypeOK
  <2> QED
    BY <2>2, <2>3, <2>4, <2>5 DEF Fifo!Submit
<1> QED
  BY <1>1, <1>2

\* The drain loop's turn-over is the server's Settle.
LEMMA FifoAdvance ==
  ASSUME QueueInv, NEW i \in Inputs, NEW result \in Settled, pc[i] \in Active, Advance(i, result)
  PROVE  Fifo!Settle(i)
<1>1. /\ states \in Inputs /\ states # None /\ queue \in [Inputs -> Seq(Inputs)]
      /\ pc \in [Inputs -> PCs]
      /\ \A j \in Inputs : j # i => pc[j] \notin Active
  BY NoneAssumption DEF QueueInv, DrainInv, Registered, TypeOK, TurnsSerial
<1>2. i \in Current
  BY DEF Current
<1>3. CASE queue[states] # <<>>
  <2> DEFINE h == Head(queue[states])
  <2>1. /\ states' = states
        /\ queue' = [queue EXCEPT ![states] = Tail(queue[states])]
        /\ h \in Inputs /\ h # i /\ pc[h] = "queued"
        /\ pc' \in [Inputs -> PCs] /\ pc'[h] = "steer" /\ pc'[i] = result
        /\ \A j \in Inputs : j # i /\ j # h => pc'[j] = pc[j]
    BY <1>3, AdvanceNext
  <2> HIDE DEF h
  <2>2. Current' = {h}
    BY <1>1, <2>1 DEF Current, Active, Settled
  <2>3. Outcome' = [Outcome EXCEPT ![i] = result]
    BY <1>1, <2>1 DEF Outcome, Settled
  <2>4. Waiting = queue[states] /\ Waiting' = Tail(queue[states])
    BY <1>1, <2>1 DEF Waiting
  <2> QED
    BY <1>2, <1>3, <2>2, <2>3, <2>4 DEF Fifo!Settle, Settled, h
<1>4. CASE queue[states] = <<>>
  <2>1. states' = None /\ queue' = queue /\ pc' = [pc EXCEPT ![i] = result]
    BY <1>4, AdvanceLast
  <2>2. Current' = {}
    BY <1>1, <2>1 DEF Current, Active, Settled
  <2>3. Outcome' = [Outcome EXCEPT ![i] = result]
    BY <1>1, <2>1 DEF Outcome, Settled
  <2>4. Waiting = <<>> /\ Waiting' = <<>>
    BY <1>1, <1>4, <2>1 DEF Waiting
  <2> QED
    BY <1>2, <2>2, <2>3, <2>4 DEF Fifo!Settle, Settled
<1> QED
  BY <1>3, <1>4

\* Every step of the coordinator is a step of the server or leaves it alone.
LEMMA FifoStep == QueueInv /\ [Next]_vars => [Fifo!Next]_(Fifo!fifoVars)
<1> SUFFICES ASSUME QueueInv, [Next]_vars PROVE Fifo!Next \/ UNCHANGED Fifo!fifoVars
  OBVIOUS
<1>1. ASSUME NEW i \in Inputs, Submit(i) PROVE Fifo!Next
  BY <1>1, FifoSubmit DEF Fifo!Next
<1>2. ASSUME NEW i \in Inputs, Steered(i) \/ RunReturns(i) \/ RunThrows(i) PROVE Fifo!Next
  <2>1. Fifo!Settle(i)
    BY <1>2, FifoAdvance DEF Steered, RunReturns, RunThrows, Active, Settled
  <2> QED
    BY <2>1 DEF Fifo!Next
<1>3. ASSUME NEW i \in Inputs, RunPrompt(i) PROVE UNCHANGED Fifo!fifoVars
  BY <1>3 DEF RunPrompt, Fifo!fifoVars, Waiting, Current, Outcome, Active, Settled, QueueInv, TypeOK
<1>4. CASE UNCHANGED vars
  BY <1>4 DEF vars, Fifo!fifoVars, Waiting, Current, Outcome
<1> QED
  BY <1>1, <1>2, <1>3, <1>4 DEF Next, Step, Finished

\* The coordinator implements the FIFO server, fairness left to the model checker.
THEOREM FifoRefinement == Spec => Fifo!Safety
BY QueueCorrect, FifoInit, FifoStep, PTL DEF Spec, Fifo!Safety

----------------------------------------------------------------------------
(* The persisting mode                                                     *)

\* Nothing is signalled and no drain is at work at the start.
LEMMA InitPersistInv == PersistInit => PersistInv
<1> SUFFICES ASSUME PersistInit PROVE PersistInv
  OBVIOUS
<1> USE DEF PersistInit
<1>1. PersistTypeOK
  BY DEF PersistTypeOK, SubmitPCs, DrainPCs, None
<1>2. Started /\ FlagWatched
  BY DEF Started, FlagWatched, Returned
<1>3. Accounted
  <2>1. GivenUp = {}
    BY DEF GivenUp
  <2>2. Covered([i \in Inputs |-> i], {})
    BY <2>1, FS_EmptySet DEF Covered
  <2> QED  BY <2>2 DEF Accounted
<1> QED  BY <1>1, <1>2, <1>3 DEF PersistInv

\* The head of the drain's loop keeps the types.
LEMMA LoopHeadTypes ==
    ASSUME PersistTypeOK, NEW i \in Inputs, NEW o \in Inputs, NEW signals \in Seq(Inputs),
           LoopHead(i, o, signals)
    PROVE  /\ states' \in Inputs \cup {None} /\ draining' \in [Inputs -> BOOLEAN]
           /\ persisted' \in [Inputs -> Seq(Inputs)] /\ dpc' \in [Inputs -> DrainPCs]
           /\ \A j \in Inputs \ {i} : dpc'[j] = dpc[j]
<1>1. states' \in {states, None} /\ \E b \in BOOLEAN : draining' = [draining EXCEPT ![o] = b]
  BY DEF LoopHead, Cleanup
<1>2. PICK s \in Seq(Inputs) : persisted' = [persisted EXCEPT ![o] = s]
  <2>1. CASE signals # <<>>
    <3>1. Tail(signals) \in Seq(Inputs)
      BY <2>1
    <3>2. persisted' = [persisted EXCEPT ![o] = Tail(signals)]
      BY <2>1 DEF LoopHead
    <3> QED  BY <3>1, <3>2
  <2>2. CASE signals = <<>>
    BY <2>2 DEF LoopHead
  <2> QED  BY <2>1, <2>2
<1>3. \E d \in DrainPCs : dpc' = [dpc EXCEPT ![i] = d]
  BY DEF LoopHead, DrainPCs, Draining
<1>4. states' \in Inputs \cup {None} /\ draining' \in [Inputs -> BOOLEAN]
  BY <1>1 DEF PersistTypeOK
<1>5. persisted' \in [Inputs -> Seq(Inputs)]
  BY <1>2 DEF PersistTypeOK
<1>6. dpc' \in [Inputs -> DrainPCs] /\ \A j \in Inputs \ {i} : dpc'[j] = dpc[j]
  BY <1>3 DEF PersistTypeOK
<1> QED  BY <1>4, <1>5, <1>6

\* Every step keeps the types.
LEMMA PersistTypes ==
    ASSUME PersistTypeOK, Started, PersistNext
    PROVE  PersistTypeOK'
<1> USE DEF PersistTypeOK
<1>1. ASSUME NEW i \in Inputs, WaitUntilIdle(i)  PROVE PersistTypeOK'
  BY <1>1 DEF WaitUntilIdle, DrainPCs, Draining
<1>2. ASSUME NEW i \in Inputs, RunLoop(i)  PROVE PersistTypeOK'
  BY <1>2 DEF RunLoop, DrainPCs, Draining
<1>3. ASSUME NEW i \in Inputs, LoopReturns(i)  PROVE PersistTypeOK'
  BY <1>3 DEF LoopReturns, DrainPCs, Draining
<1>4. ASSUME NEW i \in Inputs, CheckNewer(i)  PROVE PersistTypeOK'
  <2>1. held[i] \in Inputs
    BY <1>4 DEF CheckNewer, Started, Returned
  <2>2. CASE store \ seen[i] # {}
    BY <1>4, <2>2 DEF CheckNewer, DrainPCs, Draining
  <2>3. CASE store \ seen[i] = {}
    BY <1>4, <2>1, <2>3, LoopHeadTypes DEF CheckNewer
  <2> QED  BY <2>2, <2>3
<1>5. ASSUME NEW i \in Inputs, DrainThrows(i)  PROVE PersistTypeOK'
  <2>1. /\ states' \in {states, None} /\ draining' = [draining EXCEPT ![held[i]] = FALSE]
        /\ dpc' = [dpc EXCEPT ![i] = "off"] /\ failures' = failures + 1
        /\ UNCHANGED <<persisted, held, pc, seen, store, answered>>
    BY <1>5 DEF DrainThrows, Cleanup
  <2>2. draining' \in [Inputs -> BOOLEAN]
    BY <2>1
  <2>3. states' \in Inputs \cup {None} /\ failures' \in Nat /\ dpc' \in [Inputs -> DrainPCs]
    BY <2>1 DEF DrainPCs
  <2> QED  BY <2>1, <2>2, <2>3
<1>6. ASSUME NEW i \in Inputs, SubmitPrompt(i)  PROVE PersistTypeOK'
  BY <1>6 DEF SubmitPrompt, StateFor, SubmitPCs, Awaiting
<1>7. ASSUME NEW i \in Inputs, SessionStatus(i) \/ ResumeBusy(i)  PROVE PersistTypeOK'
  BY <1>7 DEF SessionStatus, ResumeBusy, SubmitPCs, Awaiting
<1>8. ASSUME NEW i \in Inputs, ResumeIdle(i) \/ RunDirectly(i)  PROVE PersistTypeOK'
  BY <1>8 DEF ResumeIdle, RunDirectly, SubmitPCs, Running
<1>9. ASSUME NEW i \in Inputs, Persist(i) \/ SubmitThrows(i)  PROVE PersistTypeOK'
  <2>1. CASE Persist(i)
    BY <2>1 DEF Persist, SubmitPCs, Awaiting
  <2>2. CASE SubmitThrows(i)
    BY <2>2 DEF SubmitThrows, SubmitPCs, Returned
  <2> QED  BY <1>9, <2>1, <2>2
<1>10. ASSUME NEW i \in Inputs, PromptReturns(i) \/ PromptThrows(i)  PROVE PersistTypeOK'
  <2>1. held[i] \in Inputs /\ LoopHead(i, held[i], persisted[held[i]])
    BY <1>10 DEF PromptReturns, PromptThrows, Finally, Running, Started
  <2>2. /\ UNCHANGED <<held, seen, store, answered>> /\ failures' \in {failures, failures + 1}
        /\ \E s \in Returned : pc' = [pc EXCEPT ![i] = s]
    BY <1>10 DEF PromptReturns, PromptThrows, Returned
  <2> QED  BY <2>1, <2>2, LoopHeadTypes DEF SubmitPCs
<1>11. ASSUME NEW i \in Inputs, Persisted(i)  PROVE PersistTypeOK'
  <2>1. held[i] \in Inputs /\ Append(persisted[held[i]], i) \in Seq(Inputs)
    BY <1>11 DEF Persisted, Started
  <2>2. UNCHANGED <<held, seen, store, answered, failures>> /\ pc' = [pc EXCEPT ![i] = "accepted"]
    BY <1>11 DEF Persisted
  <2>3. CASE draining[held[i]]
    <3>1. persisted' = [persisted EXCEPT ![held[i]] = Append(persisted[held[i]], i)]
          /\ UNCHANGED <<draining, dpc, states>>
      BY <1>11, <2>3 DEF Persisted
    <3>2. persisted' \in [Inputs -> Seq(Inputs)]
      BY <2>1, <3>1
    <3> QED  BY <2>2, <3>1, <3>2 DEF SubmitPCs, Returned
  <2>4. CASE ~draining[held[i]]
    BY <1>11, <2>1, <2>2, <2>4, LoopHeadTypes DEF Persisted, SubmitPCs, Returned
  <2> QED  BY <2>3, <2>4
<1>12. CASE LocalBegins \/ LocalEnds \/ AllReturned
  BY <1>12 DEF LocalBegins, LocalEnds, AllReturned, persistVars
<1> QED  BY <1>1, <1>2, <1>3, <1>4, <1>5, <1>6, <1>7, <1>8, <1>9, <1>10, <1>11, <1>12
        DEF PersistNext, PersistStep

\* A drain begins with the end of its submit, whose message is stored by then.
LEMMA PersistStarted ==
    ASSUME PersistTypeOK, Started, PersistNext
    PROVE  Started'
<1> USE DEF PersistTypeOK, Started
<1>1. ASSUME NEW i \in Inputs, WaitUntilIdle(i) \/ RunLoop(i) \/ LoopReturns(i) \/ DrainThrows(i)
      PROVE  Started'
  <2>1. pc[i] \in Returned /\ UNCHANGED <<pc, held, store>> /\ \E d : dpc' = [dpc EXCEPT ![i] = d]
    BY <1>1 DEF WaitUntilIdle, RunLoop, LoopReturns, DrainThrows
  <2> QED  BY <2>1
<1>2. ASSUME NEW i \in Inputs, CheckNewer(i)  PROVE Started'
  <2>1. pc[i] \in Returned /\ UNCHANGED <<pc, held, store>> /\ \E d : dpc' = [dpc EXCEPT ![i] = d]
    BY <1>2 DEF CheckNewer, LoopHead
  <2> QED  BY <2>1
<1>3. ASSUME NEW i \in Inputs, SubmitPrompt(i)  PROVE Started'
  BY <1>3 DEF SubmitPrompt, StateFor, Returned
<1>4. ASSUME NEW i \in Inputs, SessionStatus(i) \/ ResumeBusy(i) \/ ResumeIdle(i) \/ RunDirectly(i)
      PROVE  Started'
  BY <1>4 DEF SessionStatus, ResumeBusy, ResumeIdle, RunDirectly, Returned
<1>5. ASSUME NEW i \in Inputs, Persist(i) \/ SubmitThrows(i)  PROVE Started'
  BY <1>5 DEF Persist, SubmitThrows, Returned
<1>6. ASSUME NEW i \in Inputs, PromptReturns(i) \/ PromptThrows(i) \/ Persisted(i)  PROVE Started'
  <2>1. /\ held[i] \in Inputs
        /\ pc[i] = "stored" => i \in store
        /\ UNCHANGED <<held, store>> /\ \E d : dpc' = [dpc EXCEPT ![i] = d]
    BY <1>6 DEF PromptReturns, PromptThrows, Persisted, Finally, LoopHead, Running
  <2>2. \E s \in Returned : pc' = [pc EXCEPT ![i] = s] /\ (s = "accepted" => pc[i] = "stored")
    BY <1>6 DEF PromptReturns, PromptThrows, Persisted, Returned
  <2>3. PICK s \in Returned : pc' = [pc EXCEPT ![i] = s] /\ (s = "accepted" => i \in store)
    BY <2>1, <2>2
  <2>4. \A j \in Inputs : /\ pc'[j] # "new" => held'[j] \in Inputs
                          /\ pc'[j] \in {"stored", "accepted"} => j \in store'
    BY <2>1, <2>3 DEF Returned
  <2>5. \A j \in Inputs : pc'[j] \notin Returned => dpc'[j] = "off"
    BY <2>1, <2>3
  <2> QED  BY <2>4, <2>5
<1>7. CASE LocalBegins \/ LocalEnds \/ AllReturned
  BY <1>7 DEF LocalBegins, LocalEnds, AllReturned, persistVars
<1> QED  BY <1>1, <1>2, <1>3, <1>4, <1>5, <1>6, <1>7 DEF PersistNext, PersistStep

\* What the head of the loop does to the signals and the flag of its object.
LEMMA LoopHeadWatches ==
    ASSUME PersistTypeOK, NEW i \in Inputs, NEW o \in Inputs, NEW signals,
           LoopHead(i, o, signals), UNCHANGED held, held[i] = o
    PROVE  /\ \A u \in Inputs \ {o} : draining'[u] = draining[u] /\ persisted'[u] = persisted[u]
           /\ draining'[o] \/ persisted'[o] # <<>> => held'[i] = o /\ dpc'[i] \in Draining
<1>1. CASE signals # <<>>
  BY <1>1 DEF LoopHead, PersistTypeOK, Draining
<1>2. CASE signals = <<>>
  BY <1>2 DEF LoopHead, PersistTypeOK
<1> QED  BY <1>1, <1>2

\* Whoever leaves an object takes down its flag and finds no signal, or drains on; whoever finds the
\* flag up has somebody before it.
LEMMA PersistWatched ==
    ASSUME PersistTypeOK, Started, FlagWatched, PersistNext
    PROVE  FlagWatched'
<1> SUFFICES ASSUME failures' = 0, NEW o \in Inputs, draining'[o] \/ persisted'[o] # <<>>
             PROVE  \E i \in Inputs : held'[i] = o /\ (dpc'[i] \in Draining \/ pc'[i] \in Running)
  BY DEF FlagWatched, Watched
<1> USE DEF PersistTypeOK
<1>w. failures = 0 /\ (draining[o] \/ persisted[o] # <<>> => Watched(o))
  <2>1. failures' \in {failures, failures + 1}
    BY DEF PersistNext, PersistStep, WaitUntilIdle, RunLoop, LoopReturns, CheckNewer, DrainThrows,
           SubmitPrompt, SessionStatus, ResumeBusy, ResumeIdle, RunDirectly, PromptReturns, PromptThrows, Persist, Persisted,
           SubmitThrows, LocalBegins, LocalEnds, AllReturned, persistVars
  <2> QED  BY <2>1 DEF FlagWatched
<1>1. ASSUME NEW i \in Inputs, LoopHead(i, held[i], persisted[held[i]]), UNCHANGED held,
             held[i] \in Inputs, \A j \in Inputs \ {i} : pc'[j] = pc[j]
      PROVE  \E j \in Inputs : held'[j] = o /\ (dpc'[j] \in Draining \/ pc'[j] \in Running)
  <2>1. CASE o = held[i]
    BY <1>1, <2>1, LoopHeadWatches
  <2>2. CASE o # held[i]
    <3>1. PICK j \in Inputs : held[j] = o /\ (dpc[j] \in Draining \/ pc[j] \in Running)
      BY <1>w, <1>1, <2>2, LoopHeadWatches DEF Watched
    <3>2. j # i /\ dpc'[j] = dpc[j]
      BY <1>1, <2>2, <3>1, LoopHeadTypes
    <3> QED  BY <1>1, <3>1, <3>2
  <2> QED  BY <2>1, <2>2
<1>2. ASSUME NEW i \in Inputs, CheckNewer(i) \/ PromptReturns(i) \/ PromptThrows(i),
             LoopHead(i, held[i], persisted[held[i]])
      PROVE  \E j \in Inputs : held'[j] = o /\ (dpc'[j] \in Draining \/ pc'[j] \in Running)
  <2>1. held[i] \in Inputs
    BY <1>2 DEF CheckNewer, PromptReturns, PromptThrows, Started, Returned, Running
  <2>2. UNCHANGED held /\ \A j \in Inputs \ {i} : pc'[j] = pc[j]
    BY <1>2 DEF CheckNewer, PromptReturns, PromptThrows
  <2> QED  BY <1>1, <1>2, <2>1, <2>2
<1>3. ASSUME NEW i \in Inputs, Persisted(i)
      PROVE  \E j \in Inputs : held'[j] = o /\ (dpc'[j] \in Draining \/ pc'[j] \in Running)
  <2>1. held[i] \in Inputs /\ pc' = [pc EXCEPT ![i] = "accepted"] /\ UNCHANGED held
    BY <1>3 DEF Persisted, Started
  <2>2. CASE draining[held[i]]
    <3>1. UNCHANGED <<draining, dpc>> /\ \A u \in Inputs \ {held[i]} : persisted'[u] = persisted[u]
      BY <1>3, <2>2 DEF Persisted
    <3>2. PICK j \in Inputs : held[j] = o /\ (dpc[j] \in Draining \/ pc[j] \in Running)
      BY <1>w, <2>2, <3>1 DEF Watched
    <3>3. j # i \/ dpc[j] \in Draining
      BY <1>3, <3>2 DEF Persisted, Running
    <3> QED  BY <2>1, <3>1, <3>2, <3>3
  <2>3. CASE ~draining[held[i]]
    <3>1. /\ LoopHead(i, held[i], Append(persisted[held[i]], i))
          /\ Append(persisted[held[i]], i) \in Seq(Inputs)
      BY <1>3, <2>1, <2>3 DEF Persisted
    <3>2. CASE o = held[i]
      BY <2>1, <3>1, <3>2, LoopHeadWatches
    <3>3. CASE o # held[i]
      <4>1. PICK j \in Inputs : held[j] = o /\ (dpc[j] \in Draining \/ pc[j] \in Running)
        BY <1>w, <2>1, <3>1, <3>3, LoopHeadWatches DEF Watched
      <4>2. j # i /\ dpc'[j] = dpc[j]
        BY <2>1, <3>1, <3>3, <4>1, LoopHeadTypes
      <4> QED  BY <2>1, <4>1, <4>2
    <3> QED  BY <3>2, <3>3
  <2> QED  BY <2>2, <2>3
<1>4. ASSUME NEW i \in Inputs,
             WaitUntilIdle(i) \/ RunLoop(i) \/ LoopReturns(i)
             \/ (CheckNewer(i) /\ store \ seen[i] # {})
      PROVE  \E j \in Inputs : held'[j] = o /\ (dpc'[j] \in Draining \/ pc'[j] \in Running)
  <2>1. /\ UNCHANGED <<pc, held, draining, persisted>>
        /\ \E d \in Draining : dpc' = [dpc EXCEPT ![i] = d]
    BY <1>4 DEF WaitUntilIdle, RunLoop, LoopReturns, CheckNewer, Draining
  <2> QED  BY <1>w, <2>1 DEF Watched
<1>5. ASSUME NEW i \in Inputs, SessionStatus(i) \/ ResumeBusy(i) \/ RunDirectly(i)
                               \/ Persist(i) \/ SubmitThrows(i)
      PROVE  \E j \in Inputs : held'[j] = o /\ (dpc'[j] \in Draining \/ pc'[j] \in Running)
  <2>1. /\ UNCHANGED <<dpc, held, draining, persisted>>
        /\ \E s : pc' = [pc EXCEPT ![i] = s] /\ (pc[i] \in Running => s \in Running)
    BY <1>5 DEF SessionStatus, ResumeBusy, RunDirectly, Persist, SubmitThrows, Running
  <2> QED  BY <1>w, <2>1 DEF Watched
<1>6. ASSUME NEW i \in Inputs, SubmitPrompt(i)
      PROVE  \E j \in Inputs : held'[j] = o /\ (dpc'[j] \in Draining \/ pc'[j] \in Running)
  <2>1. /\ UNCHANGED <<dpc, draining, persisted>> /\ pc[i] \notin Running /\ dpc[i] \notin Draining
        /\ \A j \in Inputs \ {i} : held'[j] = held[j] /\ pc'[j] = pc[j]
    BY <1>6 DEF SubmitPrompt, Started, Running, Returned, Draining
  <2> QED  BY <1>w, <2>1 DEF Watched
<1>7. ASSUME NEW i \in Inputs, ResumeIdle(i)
      PROVE  \E j \in Inputs : held'[j] = o /\ (dpc'[j] \in Draining \/ pc'[j] \in Running)
  <2>1. /\ UNCHANGED <<dpc, held, persisted>> /\ pc' = [pc EXCEPT ![i] = "steer"]
        /\ \A u \in Inputs \ {held[i]} : draining'[u] = draining[u]
    BY <1>7 DEF ResumeIdle
  <2> QED  BY <1>w, <2>1 DEF Watched, Running
<1>8. ASSUME NEW i \in Inputs, DrainThrows(i)  PROVE FALSE
  BY <1>w, <1>8 DEF DrainThrows
<1>9. CASE LocalBegins \/ LocalEnds \/ AllReturned
  BY <1>w, <1>9 DEF LocalBegins, LocalEnds, AllReturned, persistVars, Watched
<1> QED  BY <1>2, <1>3, <1>4, <1>5, <1>6, <1>7, <1>8, <1>9
        DEF PersistNext, PersistStep, CheckNewer, PromptReturns, PromptThrows, Finally

\* x has a signal in the queue of object o.
Signalled(o, x) == \E k \in DOMAIN persisted[o] : persisted[o][k] = x

\* Everything in the queue of object o, and every prompt that this step accepts, is among the signals.
AllIn(signals, o) ==
    \A x \in Inputs : \/ Signalled(o, x)
                      \/ pc'[x] = "accepted" /\ pc[x] # "accepted"
                      => \E k \in DOMAIN signals : signals[k] = x

\* GivenUp in terms of Signalled, before and after a step.
LEMMA GivenUpIs ==
    \A x : /\ x \in GivenUp <=> /\ x \in Inputs /\ pc[x] = "accepted" /\ x \notin answered
                                /\ \A o \in Inputs : ~Signalled(o, x)
           /\ x \in GivenUp' <=> /\ x \in Inputs /\ pc'[x] = "accepted" /\ x \notin answered'
                                 /\ \A o \in Inputs : ~Signalled(o, x)'
BY DEF GivenUp, Signalled

\* Steps that give up nothing and take no drain from what it serves.
LEMMA StillCovered ==
    ASSUME NEW current \in [Inputs -> Inputs], NEW lost \in SUBSET Inputs, Covered(current, lost),
           PersistTypeOK, PersistTypeOK', failures' \in {failures, failures + 1},
           \A x \in GivenUp' : x \in GivenUp /\ \A i \in Inputs : Serving(i, x) => Serving(i, x)'
    PROVE  Accounted'
<1>1. IsFiniteSet(lost) /\ Cardinality(lost) \in Nat /\ Cardinality(lost) <= failures
  BY FS_CardinalityType DEF Covered
<1>2. Cardinality(lost) <= failures'
  BY <1>1 DEF PersistTypeOK
<1>3. \A x \in GivenUp' \ lost : \E i \in Inputs : current[i] = x /\ Serving(i, x)'
  BY DEF Covered
<1>4. Covered(current, lost)'
  BY <1>1, <1>2, <1>3 DEF Covered
<1> QED  BY <1>4 DEF Accounted

\* A drain that shifts a signal serves it from then on.
LEMMA ShiftCovers ==
    ASSUME NEW current \in [Inputs -> Inputs], NEW lost \in SUBSET Inputs, Covered(current, lost),
           PersistTypeOK, PersistTypeOK', failures' \in {failures, failures + 1},
           NEW i \in Inputs, NEW o \in Inputs, NEW signals \in Seq(Inputs), LoopHead(i, o, signals),
           signals # <<>>, dpc[i] \in {"off", "check"}, UNCHANGED <<seen, answered>>,
           AllIn(signals, o)
    PROVE  Accounted'
<1> DEFINE c == [current EXCEPT ![i] = Head(signals)]
<1>1. /\ persisted' = [persisted EXCEPT ![o] = Tail(signals)]
      /\ dpc' = [dpc EXCEPT ![i] = "wait"]
  BY DEF LoopHead
<1>2. Head(signals) \in Inputs
  OBVIOUS
<1>3. ASSUME NEW x, \E k \in DOMAIN signals : signals[k] = x
      PROVE  x = Head(signals) \/ Signalled(o, x)'
  <2>1. PICK k \in 1..Len(signals) : signals[k] = x
    BY <1>3
  <2>2. CASE k = 1
    BY <2>1, <2>2
  <2>3. CASE k # 1
    <3>1. k - 1 \in DOMAIN Tail(signals) /\ Tail(signals)[k - 1] = x
      BY <2>1, <2>3
    <3>2. persisted'[o] = Tail(signals)
      BY <1>1 DEF PersistTypeOK
    <3> QED  BY <3>1, <3>2 DEF Signalled
  <2> QED  BY <2>2, <2>3
<1>4. IsFiniteSet(lost) /\ Cardinality(lost) \in Nat /\ Cardinality(lost) <= failures'
  BY FS_CardinalityType DEF Covered, PersistTypeOK
<1>5. ASSUME NEW x \in GivenUp', x \notin lost
      PROVE  \E j \in Inputs : c[j] = x /\ Serving(j, x)'
  <2>1. /\ x \in Inputs /\ pc'[x] = "accepted" /\ x \notin answered
        /\ \A u \in Inputs : ~Signalled(u, x)'
    BY <1>5, GivenUpIs
  <2>2. CASE x = Head(signals)
    <3>1. dpc'[i] = "wait"
      BY <1>1 DEF PersistTypeOK
    <3>2. Serving(i, x)'
      BY <3>1 DEF Serving
    <3> QED  BY <2>2, <3>2
  <2>3. CASE x # Head(signals)
    <3>1. ~\E k \in DOMAIN signals : signals[k] = x
      BY <1>3, <2>1, <2>3
    <3>2. pc[x] = "accepted" /\ ~Signalled(o, x)
      BY <2>1, <3>1 DEF AllIn
    <3>3. \A u \in Inputs \ {o} : Signalled(u, x) => Signalled(u, x)'
      BY <1>1 DEF Signalled, PersistTypeOK
    <3>4. x \in GivenUp
      BY <2>1, <3>2, <3>3, GivenUpIs
    <3>5. PICK j \in Inputs : current[j] = x /\ Serving(j, x)
      BY <1>5, <3>4 DEF Covered
    <3>6. j # i
      BY <3>5 DEF Serving
    <3>7. Serving(j, x)'
      BY <1>1, <3>5, <3>6 DEF Serving, PersistTypeOK
    <3> QED  BY <3>5, <3>6, <3>7
  <2> QED  BY <2>2, <2>3
<1>6. c \in [Inputs -> Inputs]
  BY <1>2
<1> HIDE DEF c
<1>7. Covered(c, lost)'
  BY <1>4, <1>5 DEF Covered
<1> QED  BY <1>6, <1>7 DEF Accounted

\* Signals, and who serves what has none: a failure costs the signal that was shifted last.
LEMMA PersistAccounted ==
    ASSUME PersistTypeOK, PersistTypeOK', Started, Accounted, PersistNext
    PROVE  Accounted'
<1>1. PICK current \in [Inputs -> Inputs], lost \in SUBSET Inputs : Covered(current, lost)
  BY DEF Accounted
<1>2. ASSUME NEW i \in Inputs,
             WaitUntilIdle(i) \/ RunLoop(i) \/ (CheckNewer(i) /\ store \ seen[i] # {})
      PROVE  Accounted'
  <2>1. UNCHANGED <<pc, persisted, answered, failures>>
    BY <1>2 DEF WaitUntilIdle, RunLoop, CheckNewer
  <2>2. GivenUp' = GivenUp /\ \A x \in GivenUp : x \in store
    BY <2>1 DEF GivenUp, Started
  <2>3. ASSUME NEW x \in GivenUp, NEW j \in Inputs, Serving(j, x)  PROVE Serving(j, x)'
    <3>1. CASE WaitUntilIdle(i)
      BY <2>3, <3>1 DEF WaitUntilIdle, Serving, PersistTypeOK
    <3>2. CASE RunLoop(i)
      BY <2>2, <2>3, <3>2 DEF RunLoop, Serving, PersistTypeOK
    <3>3. CASE CheckNewer(i) /\ store \ seen[i] # {}
      BY <2>3, <3>3 DEF CheckNewer, Serving, PersistTypeOK
    <3> QED  BY <1>2, <3>1, <3>2, <3>3
  <2> QED  BY <1>1, <2>1, <2>2, <2>3, StillCovered
<1>3. ASSUME NEW i \in Inputs, LoopReturns(i)  PROVE Accounted'
  <2>1. UNCHANGED <<pc, persisted, failures>> /\ answered' = answered \cup seen[i]
    BY <1>3 DEF LoopReturns
  <2>2. \A x \in GivenUp' : x \in GivenUp /\ x \notin seen[i]
    BY <2>1 DEF GivenUp
  <2>3. \A x \in GivenUp', j \in Inputs : Serving(j, x) => Serving(j, x)'
    BY <1>3, <2>2 DEF LoopReturns, Serving, PersistTypeOK
  <2>4. \A x \in GivenUp' : x \in GivenUp /\ \A j \in Inputs : Serving(j, x) => Serving(j, x)'
    BY <2>2, <2>3
  <2> QED  BY <1>1, <2>1, <2>4, StillCovered
<1>4. ASSUME NEW i \in Inputs, DrainThrows(i)
      PROVE  Accounted'
  <2>1. /\ UNCHANGED <<pc, persisted, answered, seen>> /\ failures' = failures + 1
        /\ \A j \in Inputs \ {i} : dpc'[j] = dpc[j]
    BY <1>4 DEF DrainThrows
  <2>2. /\ IsFiniteSet(lost \cup {current[i]})
        /\ Cardinality(lost \cup {current[i]}) \in {Cardinality(lost), Cardinality(lost) + 1}
        /\ Cardinality(lost) \in Nat /\ Cardinality(lost) <= failures
    BY <1>1, FS_AddElement, FS_CardinalityType DEF Covered
  <2>3. Cardinality(lost \cup {current[i]}) <= failures'
    BY <2>1, <2>2 DEF PersistTypeOK
  <2>4. GivenUp' = GivenUp
    BY <2>1 DEF GivenUp
  <2>5. ASSUME NEW x \in GivenUp, x \notin lost, x # current[i]
        PROVE  \E j \in Inputs : current[j] = x /\ Serving(j, x)'
    <3>1. PICK j \in Inputs : current[j] = x /\ Serving(j, x)
      BY <1>1, <2>5 DEF Covered
    <3> QED  BY <2>1, <2>5, <3>1 DEF Serving
  <2>6. Covered(current, lost \cup {current[i]})'
    BY <2>2, <2>3, <2>4, <2>5 DEF Covered
  <2> QED  BY <2>6 DEF Accounted
<1>5. ASSUME NEW i \in Inputs, SubmitPrompt(i) \/ SessionStatus(i) \/ ResumeBusy(i)
                               \/ ResumeIdle(i) \/ RunDirectly(i) \/ Persist(i) \/ SubmitThrows(i)
      PROVE  Accounted'
  <2>1. /\ UNCHANGED <<persisted, answered, dpc, seen>> /\ failures' \in {failures, failures + 1}
        /\ \E s : s # "accepted" /\ pc' = [pc EXCEPT ![i] = s]
    BY <1>5 DEF SubmitPrompt, SessionStatus, ResumeBusy, ResumeIdle, RunDirectly, Persist,
                SubmitThrows
  <2>2. \A x \in GivenUp' : x \in GivenUp
    BY <2>1 DEF GivenUp, PersistTypeOK
  <2>3. \A j \in Inputs, x \in GivenUp : Serving(j, x) => Serving(j, x)'
    BY <2>1 DEF Serving
  <2> QED  BY <1>1, <2>1, <2>2, <2>3, StillCovered
<1>6. ASSUME NEW i \in Inputs,
             (CheckNewer(i) /\ ~(store \ seen[i] # {})) \/ PromptReturns(i) \/ PromptThrows(i)
      PROVE  Accounted'
  <2> DEFINE o == held[i]
  <2>1. o \in Inputs /\ dpc[i] \in {"off", "check"}
    BY <1>6 DEF CheckNewer, PromptReturns, PromptThrows, Started, Returned, Running
  <2>2. LoopHead(i, o, persisted[o])
    BY <1>6 DEF CheckNewer, PromptReturns, PromptThrows, Finally
  <2>3. /\ failures' \in {failures, failures + 1} /\ UNCHANGED <<seen, answered>>
        /\ pc' = pc \/ \E s : s # "accepted" /\ pc' = [pc EXCEPT ![i] = s]
    BY <1>6 DEF CheckNewer, PromptReturns, PromptThrows
  <2>4. \A x \in Inputs : pc'[x] = "accepted" => pc[x] = "accepted"
    BY <2>3 DEF PersistTypeOK
  <2>5. CASE persisted[o] # <<>>
    <3>1. persisted[o] \in Seq(Inputs)
      BY <2>1 DEF PersistTypeOK
    <3>2. AllIn(persisted[o], o)
      BY <2>4 DEF AllIn, Signalled
    <3> QED  BY <1>1, <2>1, <2>2, <2>3, <2>5, <3>1, <3>2, ShiftCovers
  <2>6. CASE persisted[o] = <<>>
    <3>1. persisted' = persisted /\ \A j \in Inputs \ {i} : dpc'[j] = dpc[j]
      BY <2>1, <2>2, <2>6 DEF LoopHead, PersistTypeOK
    <3>2. \A x \in GivenUp' : x \in GivenUp
      BY <2>3, <2>4, <3>1 DEF GivenUp
    <3>3. \A j \in Inputs, x \in GivenUp : Serving(j, x) => Serving(j, x)'
      BY <2>1, <2>3, <3>1 DEF Serving
    <3> QED  BY <1>1, <2>3, <3>2, <3>3, StillCovered
  <2> QED  BY <2>5, <2>6
<1>7. ASSUME NEW i \in Inputs, Persisted(i)  PROVE Accounted'
  <2> DEFINE o == held[i]
             signals == Append(persisted[o], i)
  <2>1. /\ o \in Inputs /\ dpc[i] = "off" /\ pc' = [pc EXCEPT ![i] = "accepted"]
        /\ UNCHANGED <<held, seen, answered, failures>>
    BY <1>7 DEF Persisted, Started, Returned
  <2>2. signals \in Seq(Inputs) /\ signals # <<>> /\ AllIn(signals, o)
    <3>1. persisted[o] \in Seq(Inputs)
      BY <2>1 DEF PersistTypeOK
    <3>2. signals \in Seq(Inputs) /\ signals # <<>>
      BY <3>1
    <3>3. Len(signals) \in DOMAIN signals /\ signals[Len(signals)] = i
      BY <3>1
    <3>4. \A k \in DOMAIN persisted[o] : k \in DOMAIN signals /\ signals[k] = persisted[o][k]
      BY <3>1
    <3>5. \A x \in Inputs : pc'[x] = "accepted" /\ pc[x] # "accepted" => x = i
      BY <2>1 DEF PersistTypeOK
    <3> HIDE DEF signals
    <3> QED  BY <3>2, <3>3, <3>4, <3>5 DEF Signalled, AllIn
  <2>4. CASE ~draining[o]
    <3>1. LoopHead(i, o, signals)
      BY <1>7, <2>4 DEF Persisted
    <3> HIDE DEF signals
    <3> QED  BY <1>1, <2>1, <2>2, <3>1, ShiftCovers
  <2>5. CASE draining[o]
    <3>1. persisted' = [persisted EXCEPT ![o] = signals] /\ UNCHANGED dpc
      BY <1>7, <2>5 DEF Persisted
    <3> HIDE DEF signals
    <3>2. \A x \in Inputs : 
             Signalled(o, x) \/ (pc'[x] = "accepted" /\ pc[x] # "accepted") => Signalled(o, x)'
      BY <2>1, <2>2, <3>1 DEF Signalled, AllIn, PersistTypeOK
    <3>3. \A x \in Inputs : \A u \in Inputs \ {o} : Signalled(u, x) => Signalled(u, x)'
      BY <3>1 DEF Signalled, PersistTypeOK
    <3>4. \A x \in GivenUp' : x \in GivenUp
      BY <2>1, <3>2, <3>3, GivenUpIs
    <3>5. \A j \in Inputs, x \in GivenUp : Serving(j, x) => Serving(j, x)'
      BY <2>1, <3>1 DEF Serving
    <3> QED  BY <1>1, <2>1, <3>4, <3>5, StillCovered
  <2> QED  BY <2>4, <2>5
<1>8. CASE LocalBegins \/ LocalEnds \/ AllReturned
  <2>1. UNCHANGED <<pc, dpc, seen, persisted, answered, failures>>
    BY <1>8 DEF LocalBegins, LocalEnds, AllReturned, persistVars
  <2>2. \A x \in GivenUp' : x \in GivenUp
    BY <2>1 DEF GivenUp
  <2>3. \A j \in Inputs, x \in GivenUp : Serving(j, x) => Serving(j, x)'
    BY <2>1 DEF Serving
  <2> QED  BY <1>1, <2>1, <2>2, <2>3, StillCovered
<1> QED
  <2>1. ASSUME NEW i \in Inputs, CheckNewer(i)  PROVE Accounted'
    BY <1>2, <1>6, <2>1
  <2>2. ASSUME NEW i \in Inputs, PersistStep(i)  PROVE Accounted'
    BY <1>2, <1>3, <1>5, <1>6, <1>7, <2>1, <2>2 DEF PersistStep
  <2> QED  BY <1>4, <1>5, <1>6, <1>8, <2>2 DEF PersistNext

\* The inductive invariant of the persisting mode.
THEOREM PersistCorrect == PersistSpec => []PersistInv
<1>1. PersistInv /\ [PersistNext]_persistVars => PersistInv'
  <2> SUFFICES ASSUME PersistInv, [PersistNext]_persistVars  PROVE PersistInv'
    OBVIOUS
  <2>1. CASE PersistNext
    BY <2>1, PersistTypes, PersistStarted, PersistWatched, PersistAccounted DEF PersistInv
  <2>2. CASE UNCHANGED persistVars
    <3> USE <2>2 DEF persistVars, PersistInv
    <3>1. (PersistTypeOK /\ Started)'
      BY DEF PersistTypeOK, Started
    <3>2. FlagWatched'
      BY DEF FlagWatched, Watched
    <3>3. Accounted'
      BY DEF Accounted, Covered, GivenUp, Serving
    <3> QED  BY <3>1, <3>2, <3>3
  <2> QED  BY <2>1, <2>2
<1> QED  BY <1>1, InitPersistInv, PTL DEF PersistSpec

\* No wake-up is lost: until a host call throws, an object with signals has a drain or the finally
\* clause of a direct prompt to come, however many of them overlap on its one flag.
THEOREM NoLostWakeup == PersistSpec => []SignalsWatched
<1>1. PersistInv => SignalsWatched
  BY DEF PersistInv, FlagWatched, SignalsWatched
<1> QED  BY <1>1, PersistCorrect, PTL

\* Once the drains are off, no more accepted prompts are unanswered and unsignalled than host calls
\* have thrown, also if several drains work on one object: a failing drain takes the signal it had
\* shifted with it and no other.
THEOREM FailuresCostOneSignal == PersistSpec => []FailureCostsOneSignal
<1>1. PersistInv => FailureCostsOneSignal
  <2> SUFFICES ASSUME PersistInv, \A i \in Inputs : dpc[i] = "off"
               PROVE  Cardinality(GivenUp) <= failures
    BY DEF FailureCostsOneSignal
  <2>1. PICK current \in [Inputs -> Inputs], lost \in SUBSET Inputs : Covered(current, lost)
    BY DEF PersistInv, Accounted
  <2>2. GivenUp \subseteq lost
    BY <2>1 DEF Covered, Serving
  <2>3. /\ Cardinality(GivenUp) \in Nat /\ Cardinality(lost) \in Nat
        /\ Cardinality(GivenUp) <= Cardinality(lost) /\ Cardinality(lost) <= failures
    BY <2>1, <2>2, FS_Subset, FS_CardinalityType DEF Covered
  <2> QED  BY <2>3 DEF PersistInv, PersistTypeOK
<1> QED  BY <1>1, PersistCorrect, PTL
=============================================================================
