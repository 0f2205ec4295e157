------------------------ MODULE SessionPromptProofs ------------------------
(***************************************************************************)
(* Proofs about SessionPrompt, for any prompts, shells and environments.   *)
(***************************************************************************)
EXTENDS SessionPrompt, FiniteSetTheorems, TLAPS

USE DEF Loops

\* The last message of a set is one of it: ids are bounded by the clock.
LEMMA LastUserIn ==
    ASSUME TypeOK, NEW S \in SUBSET Senders, S # {}
    PROVE  LastUser(S) \in S
<1> DEFINE T == {clock - id[p] : p \in S}
<1>1. T \subseteq Nat /\ T # {}
  BY DEF TypeOK
<1>2. PICK t \in T : \A u \in T : ~(u < t)
  <2>1. \E t \in T : \A u \in T : ~(<<u, t>> \in OpToRel(<, Nat))
    BY <1>1, NatLessThanWellFounded, WFMin, Zenon
  <2> QED  BY <1>1, <2>1 DEF OpToRel
<1>3. PICK p \in S : t = clock - id[p]
  OBVIOUS
<1>4. \A q \in S : id[p] >= id[q]
  <2> TAKE q \in S
  <2>1. clock - id[q] \in T
    OBVIOUS
  <2>2. ~(clock - id[q] < clock - id[p])
    BY <1>2, <1>3, <2>1
  <2>3. clock \in Int /\ id[p] \in Int /\ id[q] \in Int
    BY DEF TypeOK
  <2> QED  BY <2>2, <2>3
<1>5. \E p1 \in {id[q] : q \in S} : \A y \in {id[q] : q \in S} : p1 >= y
  BY <1>4
<1>6. MaxId(S) \in {id[q] : q \in S}
  BY <1>5, Zenon DEF MaxId, Max
<1> QED  BY <1>6 DEF LastUser

----------------------------------------------------------------------------
(* What a step of a loop or a shell may be                                 *)

\* It goes on: no loop begins or ends, and prompts, drains and the queue stay as they are ...
GoesOn ==
    /\ \A l \in Loops : lpc'[l] = "off" <=> lpc[l] = "off"
    /\ lpc' \in [Loops -> {"off", "pending", "read", "start", "turn"}] /\ lpc'["drain"] # "pending"
    /\ failures' \in Nat /\ failures' >= failures
    /\ UNCHANGED <<pc, busy, joined, dpc, queued, runs, env>>

\* ... or loop l ends, that of a drain with a failure only if there was one.
Ends(l, failed) ==
    /\ lpc[l] # "off" /\ EndLoop(l, failed)
    /\ failures' \in Nat /\ failures' >= failures
    /\ l = "drain" /\ failed => failures' > 0
    /\ UNCHANGED <<pc, busy, joined, saved, env>>

\* A drain's loop sees the message whose turn it is.
LEMMA ActiveVisible ==
    ASSUME TypeOK, DrainInv, QueueInv, Grounded, lpc["drain"] # "off"
    PROVE  active \in Visible
<1>1. active \in Prompts /\ pc[active] = "returned" /\ \A i \in 1..Len(queue) : queue[i] # active
  BY DEF DrainInv, QueueInv
<1>2. active \in saved
  BY <1>1 DEF Grounded
<1>3. active \notin ToSet(queue)
  BY <1>1 DEF ToSet
<1> QED  BY <1>2, <1>3 DEF Visible

LEMMA LoopWays ==
    ASSUME TypeOK, DrainInv, QueueInv, Grounded, NEW l \in Loops, LoopSteps(l) \/ FailTurn(l)
    PROVE  GoesOn \/ \E failed \in BOOLEAN : Ends(l, failed)
<1> USE DEF calls, store, queued, loops, runs, shells, counts
<1>1. CASE Read(l)
  <2>1. lpc[l] # "off" /\ UNCHANGED <<pc, busy, joined, saved, env, failures>>
    BY <1>1 DEF Read
  <2>2. failures' \in Nat /\ failures' >= failures
    BY <2>1 DEF TypeOK
  <2>3. CASE Visible = {} \/ TurnIsOver(Visible)
    <3>1. EndLoop(l, Visible = {})
      BY <1>1, <2>3 DEF Read
    <3>2. ~(l = "drain" /\ Visible = {})
      BY <2>1, ActiveVisible
    <3>3. (Visible = {}) \in BOOLEAN
      OBVIOUS
    <3>4. Ends(l, Visible = {})
      BY <2>1, <2>2, <3>1, <3>2, Zenon DEF Ends
    <3> QED  BY <3>3, <3>4, Zenon
  <2>4. CASE ~(Visible = {} \/ TurnIsOver(Visible))
    <3>1. lpc' = [lpc EXCEPT ![l] = "start"] /\ UNCHANGED <<queued, dpc, runs>>
      BY <1>1, <2>4 DEF Read
    <3> QED  BY <2>1, <2>2, <3>1 DEF GoesOn, TypeOK, DrainInv
  <2> QED  BY <2>3, <2>4
<1>2. CASE StartTurn(l) \/ FinishTurn(l)
  <2>1. /\ lpc[l] # "off" /\ (lpc' = [lpc EXCEPT ![l] = "turn"] \/ lpc' = [lpc EXCEPT ![l] = "read"])
        /\ UNCHANGED <<pc, busy, joined, dpc, queued, runs, env, failures>>
    BY <1>2 DEF StartTurn, FinishTurn
  <2> QED  BY <2>1 DEF GoesOn, TypeOK, DrainInv
<1>3. CASE FailTurn(l)
  BY <1>3 DEF FailTurn, Ends, TypeOK
<1> QED  BY <1>1, <1>2, <1>3 DEF LoopSteps

LEMMA ShellWays ==
    ASSUME TypeOK, DrainInv, NEW s \in Shells, StartShell(s) \/ ShellSteps(s) \/ FailShell(s)
    PROVE  GoesOn
<1> USE DEF calls, store, queued, loops, runs, shells, counts
<1>1. UNCHANGED <<pc, busy, joined, dpc, queued, runs, env>>
  BY DEF StartShell, ShellSteps, ShellMessage, ShellReply, EndShell, FailShell
<1>2. failures' \in Nat /\ failures' >= failures
  BY DEF StartShell, ShellSteps, ShellMessage, ShellReply, EndShell, FailShell, TypeOK
<1>3. \/ UNCHANGED lpc
      \/ lpc' = [lpc EXCEPT !["run"] = IF shell = s /\ @ = "pending" THEN "read" ELSE @]
  BY DEF StartShell, ShellSteps, ShellMessage, ShellReply, EndShell, FailShell, FinishShell
<1>4. /\ \A l \in Loops : lpc'[l] = "off" <=> lpc[l] = "off"
      /\ lpc' \in [Loops -> {"off", "pending", "read", "start", "turn"}] /\ lpc'["drain"] # "pending"
  BY <1>3 DEF TypeOK, DrainInv
<1> QED  BY <1>1, <1>2, <1>4 DEF GoesOn

LEMMA CancelWays == ASSUME TypeOK, DrainInv, Cancel  PROVE GoesOn \/ Ends("run", FALSE)
<1>1. failures' \in Nat /\ failures' >= failures
  BY DEF Cancel, TypeOK
<1>2. CASE lpc["run"] = "off"
  BY <1>1, <1>2 DEF Cancel, GoesOn, TypeOK, DrainInv
<1>3. CASE lpc["run"] # "off"
  <2>1. EndLoop("run", FALSE)
    BY <1>3 DEF Cancel
  <2> QED  BY <1>1, <1>3, <2>1, Zenon DEF Cancel, Ends, store
<1> QED  BY <1>2, <1>3

\* So, but for the steps of prompts and drains, a step goes on or ends a loop.
LEMMA NextWays ==
    ASSUME TypeOK, DrainInv, QueueInv, Grounded, [Next]_vars
    PROVE  \/ GoesOn
           \/ \E failed \in BOOLEAN : Ends("run", failed) \/ Ends("drain", failed)
           \/ \E p \in Prompts : Arrive(p) \/ PromptSteps(p) \/ DrainSteps(p)
<1>1. CASE UNCHANGED vars
  BY <1>1 DEF vars, calls, queued, loops, runs, counts, GoesOn, TypeOK, DrainInv
<1>2. CASE Cancel
  BY <1>2, CancelWays
<1>3. ASSUME NEW l \in Loops, LoopSteps(l) \/ FailTurn(l)
      PROVE  GoesOn \/ \E failed \in BOOLEAN : Ends("run", failed) \/ Ends("drain", failed)
  <2>1. GoesOn \/ \E failed \in BOOLEAN : Ends(l, failed)
    BY <1>3, LoopWays
  <2> QED  BY <2>1
<1> QED  BY <1>1, <1>2, <1>3, ShellWays DEF Next

\* How the loop of a drain ends.
LEMMA DrainEnds ==
    ASSUME TypeOK, DrainInv, NEW failed \in BOOLEAN, Ends("drain", failed)
    PROVE  \E p \in Prompts :
             /\ dpc[p] = "turn" /\ draining /\ active \in Prompts /\ active' = None
             /\ dpc' = [dpc EXCEPT ![p] = IF failed THEN "off" ELSE "head"]
             /\ queue' = IF failed THEN <<active>> \o queue ELSE queue
             /\ lpc' = [lpc EXCEPT !["drain"] = "off"]
             /\ UNCHANGED <<draining, runs>>
<1>1. PICK p \in Prompts : dpc[p] = "turn"
  BY DEF Ends, DrainInv
<1>2. draining /\ active \in Prompts /\ \A q \in Prompts : dpc[q] = "turn" => q = p
  BY <1>1 DEF Ends, DrainInv, Draining
<1>3. dpc' = [dpc EXCEPT ![p] = IF failed THEN "off" ELSE "head"]
  <2>1. dpc' = [q \in Prompts |-> IF dpc[q] # "turn" THEN dpc[q] ELSE IF failed THEN "off" ELSE "head"]
    BY DEF Ends, EndLoop, EndDrain
  <2>2. dpc = [q \in Prompts |-> dpc[q]]
    BY DEF TypeOK
  <2> QED  BY <1>1, <1>2, <2>1, <2>2
<1> QED  BY <1>1, <1>2, <1>3 DEF Ends, EndLoop, EndDrain

\* What the head of the drain's loop may be.
LEMMA HeadWays ==
    ASSUME TypeOK, NEW p \in Prompts, DrainHead(p)
    PROVE  \/ /\ queue # <<>> /\ draining' = TRUE
              /\ dpc' = [dpc EXCEPT ![p] = "join"]
              /\ joined' = [joined EXCEPT ![p] = ended + 1]
              /\ lpc'["run"] # "off" /\ lpc'["drain"] = lpc["drain"]
              /\ lpc' \in [Loops -> {"off", "pending", "read", "start", "turn"}]
           \/ /\ queue = <<>> /\ draining' = FALSE
              /\ dpc' = [dpc EXCEPT ![p] = "off"]
              /\ UNCHANGED <<joined, lpc>>
<1>1. lpc \in [Loops -> {"off", "pending", "read", "start", "turn"}]
  BY DEF TypeOK
<1>2. CASE queue # <<>>
  <2>1. lpc' = [lpc EXCEPT !["run"] = IF @ # "off" THEN @ ELSE IF shell = None THEN "read" ELSE "pending"]
    BY <1>2 DEF DrainHead, Join
  <2>2. /\ lpc'["run"] # "off" /\ lpc'["drain"] = lpc["drain"]
        /\ lpc' \in [Loops -> {"off", "pending", "read", "start", "turn"}]
    BY <1>1, <2>1
  <2> QED  BY <1>2, <2>2 DEF DrainHead, Join
<1>3. CASE queue = <<>>
  BY <1>3 DEF DrainHead
<1> QED  BY <1>2, <1>3

----------------------------------------------------------------------------
(* Types                                                                   *)

\* What loops, drains and the queue share.
SharedTypes ==
    /\ dpc \in [Prompts -> {"off", "forked", "join", "turn", "head"}]
    /\ queue \in Seq(Prompts) /\ draining \in BOOLEAN /\ active \in Prompts \cup {None}
    /\ lpc \in [Loops -> {"off", "pending", "read", "start", "turn"}]
    /\ ended \in Nat /\ broken \in SUBSET Nat

LEMMA EndsTypes ==
    ASSUME TypeOK, DrainInv, NEW l \in Loops, NEW failed \in BOOLEAN, Ends(l, failed)
    PROVE  SharedTypes'
<1>1. CASE l = "run"
  <2>1. UNCHANGED <<dpc, queue, draining, active>> /\ lpc' = [lpc EXCEPT !["run"] = "off"]
    BY <1>1 DEF Ends, EndLoop, EndRun, queued
  <2>2. ended' = ended + 1 /\ broken' \in {broken, broken \cup {ended + 1}}
    BY <1>1 DEF Ends, EndLoop, EndRun
  <2> QED  BY <2>1, <2>2 DEF TypeOK, SharedTypes
<1>2. CASE l = "drain"
  <2>1. PICK p \in Prompts :
             /\ active \in Prompts /\ active' = None
             /\ dpc' = [dpc EXCEPT ![p] = IF failed THEN "off" ELSE "head"]
             /\ queue' = IF failed THEN <<active>> \o queue ELSE queue
             /\ lpc' = [lpc EXCEPT !["drain"] = "off"]
             /\ UNCHANGED <<draining, runs>>
    BY <1>2, DrainEnds
  <2>2. queue' \in Seq(Prompts)
    BY <2>1 DEF TypeOK
  <2> QED  BY <2>1, <2>2 DEF TypeOK, SharedTypes, runs
<1> QED  BY <1>1, <1>2

LEMMA WaysTypes ==
    ASSUME TypeOK, DrainInv, NEW l \in Loops, GoesOn \/ \E failed \in BOOLEAN : Ends(l, failed)
    PROVE  SharedTypes'
<1>1. CASE GoesOn
  BY <1>1 DEF GoesOn, TypeOK, SharedTypes, queued, runs
<1> QED  BY <1>1, EndsTypes

LEMMA LoopTypes ==
    ASSUME TypeOK, DrainInv, QueueInv, Grounded, NEW l \in Loops, LoopSteps(l) \/ FailTurn(l)
    PROVE  TypeOK'
<1> USE DEF calls, store, queued, loops, runs, shells, counts
<1>1. UNCHANGED <<pc, busy, joined, shells, env>>
  BY DEF LoopSteps, Read, StartTurn, FinishTurn, FailTurn
<1>2. failures' \in Nat /\ cancels' \in Nat
  <2>1. failures \in Nat /\ cancels \in Nat
    BY DEF TypeOK
  <2>2. CASE Read(l) \/ StartTurn(l) \/ FinishTurn(l)
    BY <2>1, <2>2 DEF Read, StartTurn, FinishTurn
  <2>3. CASE FailTurn(l)
    BY <2>1, <2>3 DEF FailTurn
  <2> QED  BY <2>2, <2>3 DEF LoopSteps
<1>3. clock \in Nat /\ clock' \in {clock, clock + 1} /\ UNCHANGED <<id, saved>>
  BY DEF LoopSteps, Read, StartTurn, FinishTurn, FailTurn, TypeOK
<1>4. clock' \in Nat /\ id' \in [Senders -> 0..clock'] /\ saved' \in SUBSET Senders
  BY <1>3 DEF TypeOK
<1>5. \A r \in replies' : r.id \in Nat
  <2>1. CASE StartTurn(l)
    <3> TAKE r \in replies'
    <3>1. r \in replies \/ r = [id |-> clock + 1, parent |-> LastUser(saw[l]), finish |-> FALSE]
      BY <2>1 DEF StartTurn
    <3> QED  BY <3>1 DEF TypeOK
  <2>2. CASE FinishTurn(l)
    <3> TAKE r \in replies'
    <3>1. PICK q \in replies : r = [q EXCEPT !.finish = @ \/ q.id = reply[l]]
      BY <2>2, Zenon DEF FinishTurn
    <3>2. r.id = q.id
      BY <3>1
    <3> QED  BY <3>2 DEF TypeOK
  <2>3. CASE UNCHANGED replies
    BY <2>3 DEF TypeOK
  <2> QED  BY <2>1, <2>2, <2>3 DEF LoopSteps, Read, FailTurn
<1>6. saw' \in [Loops -> SUBSET Senders]
  <2>1. Visible \in SUBSET Senders
    BY DEF Visible, TypeOK
  <2>2. saw' = saw \/ saw' = [saw EXCEPT ![l] = Visible]
    BY DEF LoopSteps, Read, StartTurn, FinishTurn, FailTurn
  <2> QED  BY <2>1, <2>2 DEF TypeOK
<1>7. reply' \in [Loops -> Nat]
  <2>1. reply' = reply \/ reply' = [reply EXCEPT ![l] = clock + 1]
    BY DEF LoopSteps, Read, StartTurn, FinishTurn, FailTurn
  <2> QED  BY <2>1 DEF TypeOK
<1>8. answered' \in SUBSET Senders
  <2>1. answered' = answered \/ answered' = answered \cup saw[l]
    BY DEF LoopSteps, Read, StartTurn, FinishTurn, FailTurn
  <2> QED  BY <2>1 DEF TypeOK
<1>9. SharedTypes'
  BY LoopWays, WaysTypes
<1> QED  BY <1>1, <1>2, <1>4, <1>5, <1>6, <1>7, <1>8, <1>9 DEF TypeOK, SharedTypes

LEMMA ShellTypes ==
    ASSUME TypeOK, DrainInv, NEW s \in Shells, StartShell(s) \/ ShellSteps(s) \/ FailShell(s)
    PROVE  TypeOK'
<1> USE DEF calls, store, queued, loops, runs, shells, counts
<1>1. UNCHANGED <<pc, busy, joined, saw, reply, answered, held, env, cancels>>
  BY DEF StartShell, ShellSteps, ShellMessage, ShellReply, EndShell, FailShell
<1>2. SharedTypes' /\ failures' \in Nat
  <2>1. GoesOn
    BY ShellWays
  <2> QED  BY <2>1, WaysTypes DEF GoesOn
<1>3. clock' \in Nat /\ id' \in [Senders -> 0..clock'] /\ saved' \in SUBSET Senders
  <2>1. CASE ShellMessage(s)
    <3>1. s \in Senders /\ clock \in Nat /\ clock' = clock + 1 /\ clock + 1 \in 0..(clock + 1)
      BY <2>1 DEF ShellMessage, Senders, TypeOK
    <3>2. \A m \in Senders : id[m] \in 0..(clock + 1)
      BY <3>1 DEF TypeOK
    <3> QED  BY <2>1, <3>1, <3>2 DEF ShellMessage, TypeOK
  <2>2. CASE ShellReply(s)
    <3>1. clock \in Nat /\ clock' = clock + 1 /\ UNCHANGED <<id, saved>>
      BY <2>2 DEF ShellReply, TypeOK
    <3> QED  BY <3>1 DEF TypeOK
  <2>3. CASE UNCHANGED store
    BY <2>3 DEF TypeOK
  <2> QED  BY <2>1, <2>2, <2>3 DEF StartShell, ShellSteps, EndShell, FailShell
<1>4. \A r \in replies' : r.id \in Nat
  <2>1. CASE ShellReply(s)
    <3> TAKE r \in replies'
    <3>1. r \in replies \/ r = [id |-> clock + 1, parent |-> s, finish |-> FALSE]
      BY <2>1 DEF ShellReply
    <3> QED  BY <3>1 DEF TypeOK
  <2>2. CASE UNCHANGED replies
    BY <2>2 DEF TypeOK
  <2> QED  BY <2>1, <2>2 DEF StartShell, ShellSteps, ShellMessage, EndShell, FailShell
<1>5. spc' \in [Shells -> {"new", "started", "asked", "running", "over", "failed"}]
  <2>1. \E x \in {"started", "asked", "running", "over", "failed"} : spc' = [spc EXCEPT ![s] = x]
    BY DEF StartShell, ShellSteps, ShellMessage, ShellReply, EndShell, FailShell, TypeOK
  <2> QED  BY <2>1 DEF TypeOK
<1>6. shell' \in Shells \cup {None}
  <2>1. shell' \in {shell, s, None}
    BY DEF StartShell, ShellSteps, ShellMessage, ShellReply, EndShell, FailShell, FinishShell
  <2> QED  BY <2>1 DEF TypeOK
<1> QED  BY <1>1, <1>2, <1>3, <1>4, <1>5, <1>6 DEF TypeOK, SharedTypes

LEMMA CancelTypes == ASSUME TypeOK, DrainInv, Grounded, Cancel  PROVE TypeOK'
<1>1. UNCHANGED <<pc, busy, joined, store, saw, reply, answered, spc, env, failures>> /\ shell' = None
  BY DEF Cancel
<1>2. cancels' \in Nat
  BY DEF Cancel, TypeOK
<1>3. SharedTypes'
  BY CancelWays, WaysTypes
<1>4. held' \in [Shells -> Nat]
  <2>1. held \in [Shells -> Nat] /\ ended + 1 \in Nat
    BY DEF TypeOK
  <2>2. held' = held \/ held' = [held EXCEPT ![shell] = ended + 1]
    BY DEF Cancel
  <2> QED  BY <2>1, <2>2
<1> QED  BY <1>1, <1>2, <1>3, <1>4 DEF TypeOK, SharedTypes, store

LEMMA HeadTypes ==
    ASSUME TypeOK, NEW p \in Prompts, DrainHead(p)
    PROVE  /\ draining' \in BOOLEAN /\ joined' \in [Prompts -> Nat]
           /\ dpc' \in [Prompts -> {"off", "forked", "join", "turn", "head"}]
           /\ lpc' \in [Loops -> {"off", "pending", "read", "start", "turn"}]
<1>1. CASE queue # <<>>
  <2>1. /\ draining' = TRUE /\ dpc' = [dpc EXCEPT ![p] = "join"]
        /\ joined' = [joined EXCEPT ![p] = ended + 1]
        /\ lpc' \in [Loops -> {"off", "pending", "read", "start", "turn"}]
    BY <1>1, HeadWays
  <2>2. joined' \in [Prompts -> Nat]
    BY <2>1 DEF TypeOK
  <2> QED  BY <2>1, <2>2 DEF TypeOK
<1>2. CASE queue = <<>>
  BY <1>2, HeadWays DEF TypeOK
<1> QED  BY <1>1, <1>2

LEMMA TypesKept ==
    ASSUME TypeOK, DrainInv, QueueInv, Grounded, [Next]_vars
    PROVE  TypeOK'
<1> USE DEF calls, store, queued, loops, runs, shells, counts
<1>1. CASE UNCHANGED vars
  BY <1>1 DEF vars, TypeOK
<1>2. ASSUME NEW p \in Prompts, Arrive(p)  PROVE TypeOK'
  <2>1. busy' \in [Prompts -> BOOLEAN]
    BY <1>2, Zenon DEF Arrive, TypeOK
  <2> QED  BY <1>2, <2>1 DEF Arrive, TypeOK
<1>3. ASSUME NEW p \in Prompts, Number(p)  PROVE TypeOK'
  <2>1. p \in Senders /\ clock \in Nat /\ clock' = clock + 1 /\ clock + 1 \in 0..(clock + 1)
    BY <1>3 DEF Number, Senders, TypeOK
  <2>2. \A m \in Senders : id[m] \in 0..(clock + 1)
    BY <2>1 DEF TypeOK
  <2>3. clock' \in Nat /\ id' \in [Senders -> 0..clock']
    BY <1>3, <2>1, <2>2 DEF Number, TypeOK
  <2> QED  BY <1>3, <2>3 DEF Number, TypeOK
<1>4. ASSUME NEW p \in Prompts, Store(p) \/ Enqueue(p) \/ Answer(p)  PROVE TypeOK'
  <2>1. CASE Store(p)
    BY <2>1 DEF Store, Senders, TypeOK
  <2>2. CASE Enqueue(p)
    <3>1. queue' \in Seq(Prompts)
      BY <2>2 DEF Enqueue, TypeOK
    <3> QED  BY <2>2, <3>1 DEF Enqueue, TypeOK
  <2>3. CASE Answer(p)
    BY <2>3 DEF Answer, TypeOK
  <2> QED  BY <1>4, <2>1, <2>2, <2>3
<1>5. ASSUME NEW p \in Prompts, Loop(p)  PROVE TypeOK'
  BY <1>5 DEF Loop, Join, TypeOK
<1>6. ASSUME NEW p \in Prompts, Drain(p) \/ DrainNext(p)  PROVE TypeOK'
  <2>1. CASE DrainHead(p)
    BY <1>6, <2>1, HeadTypes DEF Drain, DrainNext, TypeOK
  <2>2. CASE dpc' = [dpc EXCEPT ![p] = "off"] /\ UNCHANGED <<draining, joined, lpc>>
    BY <1>6, <2>2 DEF Drain, DrainNext, TypeOK
  <2> QED  BY <1>6, <2>1, <2>2 DEF Drain, DrainNext
<1>7. ASSUME NEW p \in Prompts, DrainTurn(p)  PROVE TypeOK'
  <2>1. queue # <<>>
    BY <1>7 DEF DrainTurn, DrainInv
  <2>2. Tail(queue) \in Seq(Prompts) /\ Head(queue) \in Prompts
    BY <2>1 DEF TypeOK
  <2>3. CASE joined[p] \in broken
    BY <1>7, <2>3 DEF DrainTurn, TypeOK
  <2>4. CASE joined[p] \notin broken
    <3>1. /\ dpc' = [dpc EXCEPT ![p] = "turn"] /\ lpc' = [lpc EXCEPT !["drain"] = "read"]
          /\ queue' \in Seq(Prompts) /\ active' \in Prompts
      BY <1>7, <2>2, <2>4 DEF DrainTurn
    <3>2. /\ dpc' \in [Prompts -> {"off", "forked", "join", "turn", "head"}]
          /\ lpc' \in [Loops -> {"off", "pending", "read", "start", "turn"}]
      BY <3>1 DEF TypeOK
    <3> QED  BY <1>7, <2>4, <3>1, <3>2 DEF DrainTurn, TypeOK
  <2> QED  BY <2>3, <2>4
<1> QED  BY <1>1, <1>2, <1>3, <1>4, <1>5, <1>6, <1>7, LoopTypes, ShellTypes, CancelTypes
         DEF Next, PromptSteps, DrainSteps

----------------------------------------------------------------------------
(* The drains                                                              *)

LEMMA HeadDrains ==
    ASSUME TypeOK, DrainInv, NEW p \in Prompts, DrainHead(p), UNCHANGED <<pc, queue, active>>,
           dpc[p] = "head" \/ (dpc[p] = "forked" /\ ~draining)
    PROVE  DrainInv'
<1>1. pc[p] = "returned" /\ \A q \in Prompts : q # p => ~Draining(q)
  BY DEF DrainInv, Draining
<1>2. lpc["drain"] = "off" /\ lpc'["drain"] = "off"
  <2>1. \A q \in Prompts : dpc[q] # "turn"
    BY <1>1 DEF Draining
  <2>2. lpc["drain"] = "off"
    BY <2>1 DEF DrainInv
  <2> QED  BY <2>2, HeadWays
<1>3. /\ \A q \in Prompts : q # p => dpc'[q] = dpc[q]
      /\ \/ queue # <<>> /\ draining' = TRUE /\ dpc'[p] = "join"
         \/ queue = <<>> /\ draining' = FALSE /\ dpc'[p] = "off"
  BY HeadWays DEF TypeOK
<1> QED  BY <1>1, <1>2, <1>3 DEF DrainInv, Draining

LEMMA DrainsKept ==
    ASSUME TypeOK, DrainInv, QueueInv, Grounded, [Next]_vars
    PROVE  DrainInv'
<1> USE DEF calls, store, queued, loops, runs, shells, counts
<1>2. CASE GoesOn
  BY <1>2 DEF GoesOn, DrainInv, Draining
<1>3. ASSUME NEW failed \in BOOLEAN, Ends("run", failed)  PROVE DrainInv'
  BY <1>3 DEF Ends, EndLoop, EndRun, DrainInv, Draining, TypeOK
<1>4. ASSUME NEW failed \in BOOLEAN, Ends("drain", failed)  PROVE DrainInv'
  <2>1. PICK p \in Prompts :
             /\ dpc[p] = "turn" /\ draining /\ active \in Prompts
             /\ dpc' = [dpc EXCEPT ![p] = IF failed THEN "off" ELSE "head"]
             /\ lpc' = [lpc EXCEPT !["drain"] = "off"]
             /\ UNCHANGED draining
    BY <1>4, DrainEnds
  <2>2. \A q \in Prompts : q # p => ~Draining(q) /\ dpc'[q] = dpc[q] /\ dpc[q] \in {"off", "forked"}
    BY <2>1 DEF DrainInv, Draining, TypeOK
  <2>3. pc[p] = "returned" /\ lpc'["drain"] = "off" /\ dpc'[p] \in {"off", "head"}
    <3>1. pc[p] = "returned"
      BY <2>1 DEF DrainInv
    <3> QED  BY <2>1, <3>1 DEF TypeOK
  <2>4. UNCHANGED pc
    BY <1>4 DEF Ends
  <2>5. \A q \in Prompts : /\ Draining(q)' => q = p
                           /\ dpc'[q] \notin {"join", "turn"}
                           /\ pc'[q] # "returned" => dpc'[q] = "off"
    BY <2>2, <2>3, <2>4 DEF DrainInv, Draining
  <2> QED  BY <2>1, <2>3, <2>5 DEF DrainInv
<1>5. ASSUME NEW p \in Prompts, Arrive(p) \/ Number(p) \/ Store(p) \/ Answer(p)  PROVE DrainInv'
  <2>1. /\ UNCHANGED <<dpc, queue, draining, active, lpc>> /\ pc[p] # "returned"
        /\ \A q \in Prompts : q # p => pc'[q] = pc[q]
    BY <1>5 DEF Arrive, Number, Store, Answer, TypeOK
  <2> QED  BY <2>1 DEF DrainInv, Draining
<1>6. ASSUME NEW p \in Prompts, Loop(p)  PROVE DrainInv'
  <2>1. /\ UNCHANGED <<dpc, queue, draining, active>> /\ lpc'["drain"] = lpc["drain"]
        /\ pc[p] # "returned" /\ \A q \in Prompts : q # p => pc'[q] = pc[q]
    BY <1>6 DEF Loop, Join, TypeOK
  <2> QED  BY <2>1 DEF DrainInv, Draining
<1>7. ASSUME NEW p \in Prompts, Enqueue(p)  PROVE DrainInv'
  <2>1. dpc[p] = "off" /\ pc'[p] = "returned" /\ queue' # <<>>
    <3>1. dpc[p] = "off"
      BY <1>7 DEF Enqueue, DrainInv
    <3>2. queue' # <<>>
      <4>1. queue \in Seq(Prompts) /\ queue' = Append(queue, p)
        BY <1>7 DEF Enqueue, TypeOK
      <4> QED  BY <4>1
    <3> QED  BY <1>7, <3>1, <3>2 DEF Enqueue, TypeOK
  <2>2. /\ \A q \in Prompts : q # p => pc'[q] = pc[q] /\ dpc'[q] = dpc[q]
        /\ dpc'[p] = "forked" /\ UNCHANGED <<draining, active, lpc>>
    BY <1>7 DEF Enqueue, TypeOK
  <2> QED  BY <2>1, <2>2 DEF DrainInv, Draining
<1>8. ASSUME NEW p \in Prompts, Drain(p) \/ DrainNext(p)  PROVE DrainInv'
  <2>1. CASE DrainHead(p) /\ (dpc[p] = "head" \/ ~draining)
    BY <1>8, <2>1, HeadDrains DEF Drain, DrainNext
  <2>2. CASE /\ dpc[p] = "forked" /\ dpc' = [dpc EXCEPT ![p] = "off"]
             /\ UNCHANGED <<pc, queue, active, draining, joined, lpc>>
    <3>1. dpc'[p] = "off" /\ \A q \in Prompts : q # p => dpc'[q] = dpc[q]
      BY <2>2 DEF TypeOK
    <3> QED  BY <2>2, <3>1 DEF DrainInv, Draining
  <2> QED  BY <1>8, <2>1, <2>2 DEF Drain, DrainNext
<1>9. ASSUME NEW p \in Prompts, DrainTurn(p)  PROVE DrainInv'
  <2>1. /\ draining /\ pc[p] = "returned" /\ UNCHANGED pc /\ Head(queue) \in Prompts
        /\ lpc["drain"] = "off" /\ \A q \in Prompts : q # p => dpc[q] \in {"off", "forked"}
    <3>1. dpc[p] = "join" /\ UNCHANGED pc
      BY <1>9 DEF DrainTurn
    <3>2. draining /\ pc[p] = "returned" /\ queue # <<>>
      BY <3>1 DEF DrainInv, Draining
    <3>3. \A q \in Prompts : q # p => dpc[q] \in {"off", "forked"}
      BY <3>1 DEF DrainInv, Draining, TypeOK
    <3>4. lpc["drain"] = "off"
      BY <3>1, <3>3 DEF DrainInv
    <3>5. Head(queue) \in Prompts
      BY <3>2 DEF TypeOK
    <3> QED  BY <3>1, <3>2, <3>3, <3>4, <3>5
  <2>2. CASE joined[p] \in broken
    <3>1. /\ dpc'[p] = "off" /\ \A q \in Prompts : q # p => dpc'[q] = dpc[q]
          /\ UNCHANGED <<draining, queue, active, lpc>>
      BY <1>9, <2>2 DEF DrainTurn, TypeOK
    <3> QED  BY <2>1, <3>1 DEF DrainInv, Draining
  <2>3. CASE joined[p] \notin broken
    <3>1. /\ dpc'[p] = "turn" /\ \A q \in Prompts : q # p => dpc'[q] = dpc[q]
          /\ lpc'["drain"] = "read" /\ active' \in Prompts /\ UNCHANGED draining
      BY <1>9, <2>1, <2>3 DEF DrainTurn, TypeOK
    <3> QED  BY <2>1, <3>1 DEF DrainInv, Draining
  <2> QED  BY <2>2, <2>3
<1> QED  BY <1>2, <1>3, <1>4, <1>5, <1>6, <1>7, <1>8, <1>9, NextWays DEF PromptSteps, DrainSteps

----------------------------------------------------------------------------
(* The queue                                                               *)

LEMMA QueueKept ==
    ASSUME TypeOK, DrainInv, QueueInv, Grounded, [Next]_vars
    PROVE  QueueInv'
<1> USE DEF calls, store, queued, loops, runs, shells, counts
<1>1. /\ queue \in Seq(Prompts)
      /\ \A i \in 1..Len(queue) : queue[i] \in Prompts /\ pc[queue[i]] = "returned"
      /\ \A i, j \in 1..Len(queue) : queue[i] = queue[j] => i = j
      /\ active \in Prompts => pc[active] = "returned" /\ \A i \in 1..Len(queue) : queue[i] # active
  BY DEF QueueInv, TypeOK
<1>2. ASSUME UNCHANGED <<queue, active>>, \A q \in Prompts : pc[q] = "returned" => pc'[q] = "returned"
      PROVE  QueueInv'
  BY <1>1, <1>2 DEF QueueInv
<1>3. CASE GoesOn
  BY <1>2, <1>3 DEF GoesOn
<1>4. ASSUME NEW failed \in BOOLEAN, Ends("run", failed)  PROVE QueueInv'
  BY <1>2, <1>4 DEF Ends, EndLoop, EndRun
<1>5. ASSUME NEW failed \in BOOLEAN, Ends("drain", failed)  PROVE QueueInv'
  <2>1. /\ active \in Prompts /\ active' = None /\ UNCHANGED pc
        /\ queue' = queue \/ queue' = <<active>> \o queue
    BY <1>5, DrainEnds DEF Ends
  <2>2. active' \notin Prompts
    BY <2>1, NoneAssumption
  <2>3. CASE queue' = queue
    BY <1>1, <2>1, <2>2, <2>3 DEF QueueInv
  <2>4. CASE queue' = <<active>> \o queue
    <3>1. /\ Len(queue') = Len(queue) + 1 /\ Len(queue) \in Nat
          /\ \A i \in 1..Len(queue') : queue'[i] = IF i = 1 THEN active ELSE queue[i - 1]
      BY <1>1, <2>1, <2>4
    <3>2. \A i \in 1..Len(queue') : i # 1 => i - 1 \in 1..Len(queue)
      BY <3>1
    <3>3. \A i \in 1..Len(queue') : i # 1 => pc[queue'[i]] = "returned" /\ queue'[i] # active
      <4> SUFFICES ASSUME NEW i \in 1..Len(queue'), i # 1
                   PROVE  pc[queue'[i]] = "returned" /\ queue'[i] # active
        OBVIOUS
      <4>1. i - 1 \in 1..Len(queue) /\ queue'[i] = queue[i - 1]
        BY <3>1, <3>2
      <4> QED  BY <1>1, <2>1, <4>1
    <3>4. \A i \in 1..Len(queue') : pc'[queue'[i]] = "returned"
      <4>1. \A i \in 1..Len(queue') : i = 1 => queue'[i] = active
        BY <3>1
      <4> QED  BY <1>1, <2>1, <3>3, <4>1
    <3>5. \A i, j \in 1..Len(queue') : queue'[i] = queue'[j] => i = j
      <4> TAKE i, j \in 1..Len(queue')
      <4>1. CASE i = 1 \/ j = 1
        <5>1. \A k \in 1..Len(queue') : k = 1 => queue'[k] = active
          BY <3>1
        <5>2. CASE i = 1
          BY <3>3, <5>1, <5>2
        <5>3. CASE j = 1
          BY <3>3, <5>1, <5>3
        <5> QED  BY <4>1, <5>2, <5>3
      <4>2. CASE i # 1 /\ j # 1
        <5>1. i - 1 \in 1..Len(queue) /\ j - 1 \in 1..Len(queue)
          BY <3>2, <4>2
        <5>2. queue'[i] = queue'[j] => i - 1 = j - 1
          BY <1>1, <3>1, <4>2, <5>1
        <5> QED  BY <5>2
      <4> QED  BY <4>1, <4>2
    <3> QED  BY <2>2, <3>4, <3>5 DEF QueueInv
  <2> QED  BY <2>1, <2>3, <2>4
<1>6. ASSUME NEW p \in Prompts, Arrive(p) \/ Number(p) \/ Store(p) \/ Answer(p) \/ Loop(p)
      PROVE  QueueInv'
  <2>1. UNCHANGED <<queue, active>> /\ \A q \in Prompts : pc[q] = "returned" => pc'[q] = "returned"
    BY <1>6 DEF Arrive, Number, Store, Answer, Loop, TypeOK
  <2> QED  BY <1>2, <2>1
<1>7. ASSUME NEW p \in Prompts, Enqueue(p)  PROVE QueueInv'
  <2>1. /\ pc[p] = "stored" /\ pc'[p] = "returned" /\ UNCHANGED active
        /\ \A q \in Prompts : pc[q] = "returned" => pc'[q] = "returned"
    BY <1>7 DEF Enqueue, TypeOK
  <2>2. /\ Len(queue') = Len(queue) + 1 /\ Len(queue) \in Nat
        /\ \A i \in 1..Len(queue') : queue'[i] = IF i = Len(queue) + 1 THEN p ELSE queue[i]
    BY <1>1, <1>7 DEF Enqueue
  <2>3. \A i \in 1..Len(queue') : i # Len(queue) + 1 => i \in 1..Len(queue)
    BY <2>2
  <2>4. \A i \in 1..Len(queue) : queue[i] # p
    BY <1>1, <2>1
  <2>5. \A i \in 1..Len(queue') : pc'[queue'[i]] = "returned"
    BY <1>1, <2>1, <2>2, <2>3
  <2>6. \A i, j \in 1..Len(queue') : queue'[i] = queue'[j] => i = j
    BY <1>1, <2>2, <2>3, <2>4
  <2>7. active \in Prompts => pc'[active] = "returned" /\ \A i \in 1..Len(queue') : queue'[i] # active
    BY <1>1, <2>1, <2>2, <2>3
  <2> QED  BY <2>1, <2>5, <2>6, <2>7 DEF QueueInv
<1>8. ASSUME NEW p \in Prompts, Drain(p) \/ DrainNext(p)  PROVE QueueInv'
  BY <1>2, <1>8 DEF Drain, DrainNext
<1>9. ASSUME NEW p \in Prompts, DrainTurn(p)  PROVE QueueInv'
  <2>1. queue # <<>> /\ UNCHANGED pc
    BY <1>9 DEF DrainTurn, DrainInv
  <2>2. CASE joined[p] \in broken
    BY <1>2, <1>9, <2>1, <2>2 DEF DrainTurn
  <2>3. CASE joined[p] \notin broken
    <3>1. /\ active' = queue[1] /\ 1 \in 1..Len(queue)
          /\ Len(queue') = Len(queue) - 1 /\ Len(queue) \in Nat
          /\ \A i \in 1..Len(queue') : queue'[i] = queue[i + 1] /\ i + 1 \in 1..Len(queue)
      BY <1>1, <1>9, <2>1, <2>3 DEF DrainTurn
    <3>2. \A i \in 1..Len(queue') : pc'[queue'[i]] = "returned" /\ queue'[i] # active'
      BY <1>1, <2>1, <3>1
    <3>3. \A i, j \in 1..Len(queue') : queue'[i] = queue'[j] => i = j
      <4> TAKE i, j \in 1..Len(queue')
      <4>1. queue'[i] = queue'[j] => i + 1 = j + 1
        BY <1>1, <3>1
      <4> QED  BY <4>1
    <3>4. pc'[active'] = "returned"
      BY <1>1, <2>1, <3>1
    <3> QED  BY <3>2, <3>3, <3>4 DEF QueueInv
  <2> QED  BY <2>2, <2>3
<1> QED  BY <1>3, <1>4, <1>5, <1>6, <1>7, <1>8, <1>9, NextWays DEF PromptSteps, DrainSteps

LEMMA JamKept ==
    ASSUME TypeOK, DrainInv, QueueInv, Grounded, JamInv, [Next]_vars
    PROVE  JamInv'
<1> USE DEF calls, store, queued, loops, runs, shells, counts
<1>1. failures \in Nat
  BY DEF TypeOK
<1>2. ASSUME UNCHANGED <<queue, draining, dpc>>, failures' \in Nat, failures' >= failures,
             broken \subseteq broken'
      PROVE  JamInv'
  BY <1>1, <1>2 DEF JamInv, Draining
<1>3. CASE GoesOn
  BY <1>2, <1>3 DEF GoesOn
<1>4. ASSUME NEW failed \in BOOLEAN, Ends("run", failed)  PROVE JamInv'
  BY <1>2, <1>4 DEF Ends, EndLoop, EndRun
<1>5. ASSUME NEW failed \in BOOLEAN, Ends("drain", failed)  PROVE JamInv'
  <2>1. PICK p \in Prompts :
             /\ active \in Prompts
             /\ dpc' = [dpc EXCEPT ![p] = IF failed THEN "off" ELSE "head"]
             /\ queue' = IF failed THEN <<active>> \o queue ELSE queue
    BY <1>5, DrainEnds
  <2>2. CASE failed
    <3>1. queue' # <<>>
      BY <2>1, <2>2 DEF TypeOK
    <3>2. failures' > 0
      BY <1>5, <2>2 DEF Ends
    <3> QED  BY <3>1, <3>2 DEF JamInv
  <2>3. CASE ~failed
    <3>1. dpc'[p] = "head"
      BY <2>1, <2>3 DEF TypeOK
    <3> QED  BY <3>1 DEF JamInv, Draining
  <2> QED  BY <2>2, <2>3
<1>6. ASSUME NEW p \in Prompts, Arrive(p) \/ Number(p) \/ Store(p) \/ Answer(p) \/ Loop(p)
      PROVE  JamInv'
  <2>1. UNCHANGED <<queue, draining, dpc, failures, broken>>
    BY <1>6 DEF Arrive, Number, Store, Answer, Loop
  <2> QED  BY <1>1, <1>2, <2>1
<1>7. ASSUME NEW p \in Prompts, Enqueue(p)  PROVE JamInv'
  <2>1. UNCHANGED <<draining, failures, broken>> /\ dpc' = [dpc EXCEPT ![p] = "forked"]
    BY <1>7 DEF Enqueue
  <2>2. queue' # <<>>
    <3>1. queue \in Seq(Prompts) /\ queue' = Append(queue, p)
      BY <1>7 DEF Enqueue, TypeOK
    <3> QED  BY <3>1
  <2>3. dpc[p] = "off"
    BY <1>7 DEF Enqueue, DrainInv
  <2>4. (\A q \in Prompts : ~Draining(q)') => \A q \in Prompts : ~Draining(q)
    BY <2>1, <2>3 DEF Draining, TypeOK
  <2> QED  BY <2>1, <2>2, <2>4 DEF JamInv
<1>8. ASSUME NEW p \in Prompts, Drain(p) \/ DrainNext(p)  PROVE JamInv'
  <2>1. UNCHANGED <<queue, failures, broken>>
    BY <1>8 DEF Drain, DrainNext
  <2>2. CASE DrainHead(p)
    <3>1. draining' = FALSE \/ dpc' = [dpc EXCEPT ![p] = "join"]
      BY <2>2, HeadWays
    <3>2. draining' = FALSE \/ dpc'[p] = "join"
      BY <3>1 DEF TypeOK
    <3> QED  BY <3>2 DEF JamInv, Draining
  <2>3. CASE dpc[p] = "forked" /\ dpc' = [dpc EXCEPT ![p] = "off"] /\ UNCHANGED draining
    <3>1. (\A q \in Prompts : ~Draining(q)') => \A q \in Prompts : ~Draining(q)
      BY <2>3 DEF Draining, TypeOK
    <3> QED  BY <2>1, <2>3, <3>1 DEF JamInv
  <2> QED  BY <1>8, <2>2, <2>3 DEF Drain, DrainNext
<1>9. ASSUME NEW p \in Prompts, DrainTurn(p)  PROVE JamInv'
  <2>1. queue # <<>>
    BY <1>9 DEF DrainTurn, DrainInv
  <2>2. CASE joined[p] \in broken
    BY <1>9, <2>1, <2>2 DEF DrainTurn, JamInv
  <2>3. CASE joined[p] \notin broken
    <3>1. dpc'[p] = "turn"
      BY <1>9, <2>3 DEF DrainTurn, TypeOK
    <3> QED  BY <3>1 DEF JamInv, Draining
  <2> QED  BY <2>2, <2>3
<1> QED  BY <1>3, <1>4, <1>5, <1>6, <1>7, <1>8, <1>9, NextWays DEF PromptSteps, DrainSteps

LEMMA StrandedKept ==
    ASSUME TypeOK, DrainInv, QueueInv, Grounded, NoStrandedQueue, [Next]_vars
    PROVE  NoStrandedQueue'
<1> USE DEF calls, store, queued, loops, runs, shells, counts
<1>1. draining' => NoStrandedQueue'
  BY DEF NoStrandedQueue, Jammed, AtWork
<1>2. ASSUME UNCHANGED <<queue, draining, dpc>>  PROVE NoStrandedQueue'
  BY <1>2 DEF NoStrandedQueue, Jammed, AtWork
<1>3. CASE GoesOn
  BY <1>2, <1>3 DEF GoesOn
<1>4. ASSUME NEW failed \in BOOLEAN, Ends("run", failed)  PROVE NoStrandedQueue'
  BY <1>2, <1>4 DEF Ends, EndLoop, EndRun
<1>5. ASSUME NEW failed \in BOOLEAN, Ends("drain", failed)  PROVE NoStrandedQueue'
  BY <1>1, <1>5, DrainEnds
<1>6. ASSUME NEW p \in Prompts, Arrive(p) \/ Number(p) \/ Store(p) \/ Answer(p) \/ Loop(p)
      PROVE  NoStrandedQueue'
  <2>1. UNCHANGED <<queue, draining, dpc>>
    BY <1>6 DEF Arrive, Number, Store, Answer, Loop
  <2> QED  BY <1>2, <2>1
<1>7. ASSUME NEW p \in Prompts, Enqueue(p)  PROVE NoStrandedQueue'
  <2>1. dpc'[p] = "forked"
    BY <1>7 DEF Enqueue, TypeOK
  <2> QED  BY <2>1 DEF NoStrandedQueue
<1>8. ASSUME NEW p \in Prompts, Drain(p) \/ DrainNext(p)  PROVE NoStrandedQueue'
  <2>1. UNCHANGED queue
    BY <1>8 DEF Drain, DrainNext
  <2>2. queue = <<>> \/ draining' = TRUE
    BY <1>8, HeadWays DEF Drain, DrainNext, TypeOK
  <2> QED  BY <1>1, <2>1, <2>2 DEF NoStrandedQueue
<1>9. ASSUME NEW p \in Prompts, DrainTurn(p)  PROVE NoStrandedQueue'
  <2>1. draining'
    BY <1>9 DEF DrainTurn, DrainInv, Draining
  <2> QED  BY <1>1, <2>1
<1> QED  BY <1>3, <1>4, <1>5, <1>6, <1>7, <1>8, <1>9, NextWays DEF PromptSteps, DrainSteps

----------------------------------------------------------------------------
(* Prompts that do not overlap                                             *)

LEMMA InTurnKept ==
    ASSUME TypeOK, DrainInv, QueueInv, Grounded, InTurn, [Next]_vars
    PROVE  InTurn'
<1> USE DEF calls, store, queued, loops, runs, shells, counts
<1>1. UNCHANGED env
  <2>1. ASSUME NEW p \in Prompts, Arrive(p) \/ PromptSteps(p) \/ DrainSteps(p)  PROVE UNCHANGED env
    BY <2>1 DEF Arrive, PromptSteps, Number, Store, Loop, Enqueue, Answer, DrainSteps, Drain, DrainTurn,
                DrainNext
  <2> QED  BY <2>1, NextWays DEF GoesOn, Ends
<1> SUFFICES ASSUME ~env.overlapping  PROVE InTurn'
  BY <1>1 DEF InTurn
<1>2. /\ \A p, q \in Prompts : OnItsWay(p) /\ OnItsWay(q) => p = q
      /\ \A p \in Prompts : pc[p] \in Storing /\ ~busy[p] => ~draining
      /\ \A p \in Prompts : dpc[p] = "join" /\ ended >= joined[p] => lpc["run"] = "off"
      /\ lpc["drain"] # "off" => lpc["run"] = "off"
  BY DEF InTurn
<1>4. CASE GoesOn
  <2>1. UNCHANGED <<pc, busy, dpc, joined, draining, ended>>
    BY <1>4 DEF GoesOn
  <2>2. (lpc'["run"] = "off" <=> lpc["run"] = "off") /\ (lpc'["drain"] = "off" <=> lpc["drain"] = "off")
    BY <1>4 DEF GoesOn
  <2> QED  BY <1>2, <2>1, <2>2 DEF InTurn, OnItsWay
<1>5. ASSUME NEW failed \in BOOLEAN, Ends("run", failed)  PROVE InTurn'
  <2>1. UNCHANGED <<pc, busy, dpc, joined, draining>> /\ lpc'["run"] = "off"
    BY <1>5 DEF Ends, EndLoop, EndRun, TypeOK
  <2> QED  BY <1>2, <2>1 DEF InTurn, OnItsWay
<1>6. ASSUME NEW failed \in BOOLEAN, Ends("drain", failed)  PROVE InTurn'
  <2>1. PICK p \in Prompts :
             /\ dpc[p] = "turn" /\ draining
             /\ dpc' = [dpc EXCEPT ![p] = IF failed THEN "off" ELSE "head"]
             /\ lpc' = [lpc EXCEPT !["drain"] = "off"]
    BY <1>6, DrainEnds
  <2>2. lpc'["run"] = "off"
    BY <1>2, <1>6, <2>1 DEF Ends, TypeOK
  <2>3. \A q \in Prompts : dpc'[q] = "forked" => dpc[q] = "forked"
    BY <2>1 DEF TypeOK
  <2>4. UNCHANGED <<pc, busy>>
    BY <1>6 DEF Ends
  <2>5. \A q \in Prompts : OnItsWay(q)' => OnItsWay(q)
    BY <2>3, <2>4 DEF OnItsWay
  <2>6. \A q \in Prompts : ~(pc[q] \in Storing /\ ~busy[q])
    BY <1>2, <2>1
  <2> QED  BY <1>2, <2>2, <2>4, <2>5, <2>6 DEF InTurn
<1>7. ASSUME NEW p \in Prompts, Arrive(p)  PROVE InTurn'
  <2>1. \A q \in Prompts : ~OnItsWay(q)
    BY <1>7, Zenon DEF Arrive
  <2>2. busy'[p] <=> draining \/ ~AssertNotBusy
    BY <1>7, Zenon DEF Arrive, TypeOK
  <2>3. /\ \A q \in Prompts : q # p => pc'[q] = pc[q] /\ busy'[q] = busy[q]
        /\ UNCHANGED <<dpc, joined, draining, lpc, ended>>
    BY <1>7 DEF Arrive, TypeOK
  <2>4. \A q \in Prompts : q # p => ~OnItsWay(q)' /\ pc'[q] \notin Storing
    BY <2>1, <2>3 DEF OnItsWay
  <2> QED  BY <1>2, <2>2, <2>3, <2>4 DEF InTurn
<1>8. ASSUME NEW p \in Prompts, Number(p) \/ Store(p) \/ Answer(p)  PROVE InTurn'
  <2>1. \A q \in Prompts : pc'[q] \in Storing => pc[q] \in Storing
    BY <1>8 DEF Number, Store, Answer, Storing, TypeOK
  <2>2. UNCHANGED <<busy, dpc, joined, draining, lpc, ended>>
    BY <1>8 DEF Number, Store, Answer
  <2>3. \A q \in Prompts : OnItsWay(q)' => OnItsWay(q)
    BY <2>1, <2>2 DEF OnItsWay
  <2> QED  BY <1>2, <2>1, <2>2, <2>3 DEF InTurn
<1>9. ASSUME NEW p \in Prompts, Loop(p)  PROVE InTurn'
  <2>1. ~draining
    BY <1>2, <1>9 DEF Loop, Storing
  <2>2. (\A q \in Prompts : dpc[q] # "join") /\ lpc["drain"] = "off"
    BY <2>1 DEF DrainInv, Draining
  <2>3. /\ UNCHANGED <<busy, dpc, draining>> /\ lpc'["drain"] = lpc["drain"]
        /\ \A q \in Prompts : pc'[q] \in Storing => pc[q] \in Storing
    BY <1>9 DEF Loop, Join, Storing, TypeOK
  <2>4. \A q \in Prompts : OnItsWay(q)' => OnItsWay(q)
    BY <2>3 DEF OnItsWay
  <2> QED  BY <1>2, <2>1, <2>2, <2>3, <2>4 DEF InTurn
<1>10. ASSUME NEW p \in Prompts, Enqueue(p)  PROVE InTurn'
  <2>1. OnItsWay(p)
    BY <1>10 DEF Enqueue, OnItsWay, Storing
  <2>2. /\ UNCHANGED <<busy, joined, draining, lpc, ended>> /\ pc'[p] = "returned" /\ dpc'[p] = "forked"
        /\ \A q \in Prompts : q # p => pc'[q] = pc[q] /\ dpc'[q] = dpc[q]
    BY <1>10 DEF Enqueue, TypeOK
  <2>3. \A q \in Prompts : OnItsWay(q)' => OnItsWay(q)
    BY <2>1, <2>2 DEF OnItsWay
  <2> QED  BY <1>2, <2>2, <2>3 DEF InTurn, Storing
<1>11. ASSUME NEW p \in Prompts, Drain(p) \/ DrainNext(p)  PROVE InTurn'
  <2>1. UNCHANGED <<pc, busy, ended>>
    BY <1>11 DEF Drain, DrainNext
  <2>2. CASE dpc' = [dpc EXCEPT ![p] = "off"] /\ UNCHANGED <<draining, joined, lpc>>
    <3>1. \A q \in Prompts : dpc'[q] # "off" => dpc'[q] = dpc[q]
      BY <2>2 DEF TypeOK
    <3>2. \A q \in Prompts : OnItsWay(q)' => OnItsWay(q)
      BY <2>1, <3>1 DEF OnItsWay
    <3> QED  BY <1>2, <2>1, <2>2, <3>1, <3>2 DEF InTurn
  <2>3. CASE DrainHead(p) /\ (dpc[p] = "head" \/ (dpc[p] = "forked" /\ ~draining))
    <3>1. \A q \in Prompts : q # p => ~Draining(q)
      BY <2>3 DEF DrainInv, Draining
    <3>2. lpc["drain"] = "off"
      BY <2>3, <3>1 DEF DrainInv, Draining
    <3>3. \A q \in Prompts : ~(pc[q] \in Storing /\ ~busy[q])
      <4>1. CASE dpc[p] = "head"
        BY <1>2, <4>1 DEF DrainInv, Draining
      <4>2. CASE dpc[p] = "forked"
        BY <1>2, <4>2 DEF DrainInv, OnItsWay, Storing
      <4> QED  BY <2>3, <4>1, <4>2
    <3>4. /\ \A q \in Prompts : q # p => dpc'[q] = dpc[q]
          /\ lpc'["drain"] = "off"
          /\ \/ dpc'[p] = "join" /\ joined'[p] = ended + 1
             \/ dpc'[p] = "off"
      <4>1. /\ lpc'["drain"] = "off"
            /\ \/ /\ dpc' = [dpc EXCEPT ![p] = "join"]
                  /\ joined' = [joined EXCEPT ![p] = ended + 1]
               \/ dpc' = [dpc EXCEPT ![p] = "off"]
        BY <2>3, <3>2, HeadWays
      <4> QED  BY <4>1 DEF TypeOK
    <3>5. \A q \in Prompts : OnItsWay(q)' => OnItsWay(q)
      BY <2>1, <3>4 DEF OnItsWay
    <3>6. \A q \in Prompts : ~(dpc'[q] = "join" /\ ended' >= joined'[q])
      <4>1. ended \in Nat /\ ended' = ended
        BY <2>1 DEF TypeOK
      <4>2. \A q \in Prompts : q # p => dpc'[q] # "join"
        BY <3>1, <3>4 DEF Draining
      <4>3. dpc'[p] = "join" => ~(ended' >= joined'[p])
        BY <3>4, <4>1
      <4> QED  BY <4>2, <4>3
    <3> QED  BY <1>2, <2>1, <3>3, <3>4, <3>5, <3>6 DEF InTurn
  <2> QED  BY <1>11, <2>2, <2>3 DEF Drain, DrainNext
<1>12. ASSUME NEW p \in Prompts, DrainTurn(p)  PROVE InTurn'
  <2>1. draining /\ lpc["run"] = "off"
    BY <1>2, <1>12 DEF DrainTurn, DrainInv, Draining, Over
  <2>2. /\ UNCHANGED <<pc, busy>> /\ lpc'["run"] = lpc["run"]
        /\ \A q \in Prompts : dpc'[q] = "forked" => dpc[q] = "forked"
    BY <1>12 DEF DrainTurn, TypeOK
  <2>3. \A q \in Prompts : OnItsWay(q)' => OnItsWay(q)
    BY <2>2 DEF OnItsWay
  <2> QED  BY <1>2, <2>1, <2>2, <2>3 DEF InTurn
<1> QED  BY <1>4, <1>5, <1>6, <1>7, <1>8, <1>9, <1>10, <1>11, <1>12, NextWays
         DEF PromptSteps, DrainSteps

----------------------------------------------------------------------------
(* The message that runLoop finds                                          *)

Ground == (\E p \in saved \cap Prompts : ~busy[p]) \/ \E s \in Shells : spc[s] # "new"

LEMMA GroundedKept ==
    ASSUME TypeOK, DrainInv, QueueInv, Grounded, [Next]_vars
    PROVE  Grounded'
<1> USE DEF calls, store, queued, loops, runs, shells, counts
<1>1. /\ \A p \in Prompts : /\ p \in saved <=> pc[p] \in {"stored", "await", "returned"}
                            /\ pc[p] = "new" => ~busy[p]
      /\ \A i \in 1..Len(queue) : busy[queue[i]]
      /\ active # None => busy[active]
      /\ lpc["run"] # "off" \/ draining \/ (\E p \in Prompts : busy[p]) => Ground
  BY DEF Grounded, Ground
<1>2. /\ \A s \in Shells : s \in saved <=> spc[s] \in {"asked", "running", "over"}
      /\ shell # None => spc[shell] # "new"
  BY DEF Grounded
<1>3. ASSUME UNCHANGED vars \/ \E l \in Loops : LoopSteps(l) \/ FailTurn(l)
      PROVE  UNCHANGED <<saved, spc, shell>>
  BY <1>3 DEF vars, LoopSteps, Read, StartTurn, FinishTurn, FailTurn
<1>4. ASSUME GoesOn, UNCHANGED <<saved, spc>>, shell' \in {shell, None}  PROVE Grounded'
  <2>1. lpc'["run"] # "off" => lpc["run"] # "off"
    BY <1>4 DEF GoesOn
  <2>2. UNCHANGED <<pc, busy, queue, draining, active>>
    BY <1>4 DEF GoesOn
  <2> QED  BY <1>1, <1>2, <1>4, <2>1, <2>2 DEF Grounded, Ground
<1>5. ASSUME NEW l \in Loops, NEW failed \in BOOLEAN, Ends(l, failed), UNCHANGED spc,
             shell' \in {shell, None}
      PROVE  Grounded'
  <2>1. CASE l = "run"
    <3>1. UNCHANGED <<pc, busy, saved, queue, draining, active>> /\ lpc'["run"] = "off"
      BY <1>5, <2>1 DEF Ends, EndLoop, EndRun, TypeOK
    <3> QED  BY <1>1, <1>2, <1>5, <3>1 DEF Grounded, Ground
  <2>2. CASE l = "drain"
    <3>1. /\ draining /\ active \in Prompts /\ active' = None /\ lpc'["run"] = lpc["run"]
          /\ UNCHANGED <<pc, busy, saved, draining>>
          /\ queue' = queue \/ queue' = <<active>> \o queue
      BY <1>5, <2>2, DrainEnds DEF Ends, TypeOK
    <3>2. busy[active] /\ Ground
      BY <1>1, <3>1, NoneAssumption
    <3>3. \A i \in 1..Len(queue') : queue'[i] = active \/ \E j \in 1..Len(queue) : queue'[i] = queue[j]
      <4>1. queue \in Seq(Prompts) /\ <<active>> \in Seq(Prompts)
        BY <3>1 DEF TypeOK
      <4> QED  BY <3>1, <4>1
    <3>4. \A i \in 1..Len(queue') : busy[queue'[i]]
      BY <1>1, <3>2, <3>3
    <3> QED  BY <1>1, <1>2, <1>5, <3>1, <3>2, <3>4 DEF Grounded, Ground
  <2> QED  BY <2>1, <2>2
<1>12. ASSUME NEW s \in Shells, StartShell(s) \/ ShellSteps(s) \/ FailShell(s)  PROVE Grounded'
  <2>1. GoesOn
    BY <1>12, ShellWays
  <2>2. UNCHANGED <<pc, busy, queue, draining, active>> /\ (lpc'["run"] # "off" => lpc["run"] # "off")
    BY <2>1 DEF GoesOn
  <2>3. /\ \A q \in Shells : q # s => spc'[q] = spc[q]
        /\ spc'[s] # "new" /\ (shell' # None => shell' \in {shell, s})
    BY <1>12 DEF StartShell, ShellSteps, ShellMessage, ShellReply, EndShell, FailShell, FinishShell, TypeOK
  <2>4. /\ \A q \in Shells : q \in saved' <=> spc'[q] \in {"asked", "running", "over"}
        /\ \A p \in Prompts : p \in saved' <=> p \in saved
    <3>1. CASE ShellMessage(s)
      <4>1. saved' = saved \cup {s} /\ spc'[s] = "asked"
        BY <3>1 DEF ShellMessage, TypeOK
      <4> QED  BY <1>2, <2>3, <4>1, ShellAssumption
    <3>2. CASE ~ShellMessage(s)
      <4>1. /\ UNCHANGED saved
            /\ spc'[s] \in {"asked", "running", "over"} <=> spc[s] \in {"asked", "running", "over"}
        BY <1>12, <3>2 DEF StartShell, ShellSteps, ShellReply, EndShell, FailShell, TypeOK
      <4> QED  BY <1>2, <2>3, <4>1
    <3> QED  BY <3>1, <3>2
  <2>5. shell' # None => spc'[shell'] # "new"
    <3>1. shell \in Shells \cup {None}
      BY DEF TypeOK
    <3> QED  BY <1>2, <2>3, <3>1
  <2> QED  BY <1>1, <2>2, <2>3, <2>4, <2>5 DEF Grounded
<1>13. CASE Cancel
  <2>1. UNCHANGED <<saved, spc>> /\ shell' \in {shell, None}
    BY <1>13 DEF Cancel
  <2> QED  BY <1>4, <1>5, <1>13, <2>1, CancelWays
<1>6. ASSUME NEW p \in Prompts, Arrive(p)  PROVE Grounded'
  <2>1. p \notin saved /\ ~busy[p]
    BY <1>1, <1>6 DEF Arrive
  <2>2. busy'[p] <=> draining \/ ~AssertNotBusy
    BY <1>6, Zenon DEF Arrive, TypeOK
  <2>3. /\ \A q \in Prompts : q # p => pc'[q] = pc[q] /\ busy'[q] = busy[q]
        /\ UNCHANGED <<saved, queue, draining, active, lpc, spc, shell>> /\ pc'[p] = "arrived"
    BY <1>6 DEF Arrive, TypeOK
  <2>4. \A i \in 1..Len(queue) : busy'[queue[i]]
    <3> TAKE i \in 1..Len(queue)
    <3>1. queue[i] \in Prompts
      BY DEF TypeOK
    <3> QED  BY <1>1, <2>1, <2>3, <3>1
  <2>5. active # None => busy'[active]
    BY <1>1, <2>1, <2>3 DEF TypeOK
  <2>6. lpc["run"] # "off" \/ draining \/ (\E q \in Prompts : busy'[q]) => Ground
    <3>1. shell # None => Ground
      BY <1>2 DEF Ground, TypeOK
    <3> QED  BY <1>1, <2>2, <2>3, <3>1 DEF AssertNotBusy
  <2>7. Ground => Ground'
    BY <2>1, <2>3 DEF Ground, TypeOK
  <2> QED  BY <1>1, <1>2, <2>1, <2>3, <2>4, <2>5, <2>6, <2>7 DEF Grounded, Ground
<1>7. ASSUME NEW p \in Prompts, Number(p) \/ Store(p) \/ Answer(p)  PROVE Grounded'
  <2>1. UNCHANGED <<busy, queue, draining, active, lpc, spc, shell>> /\ pc'[p] # "new"
        /\ \A q \in Prompts : q # p => pc'[q] = pc[q]
    BY <1>7 DEF Number, Store, Answer, TypeOK
  <2>2. saved \subseteq saved'
    BY <1>7 DEF Number, Store, Answer
  <2>3. \A q \in Prompts : q \in saved' <=> pc'[q] \in {"stored", "await", "returned"}
    <3>1. CASE Number(p) \/ Answer(p)
      <4>1. UNCHANGED saved
        BY <3>1 DEF Number, Answer
      <4>2. pc[p] \in {"stored", "await", "returned"} <=> pc'[p] \in {"stored", "await", "returned"}
        BY <3>1 DEF Number, Answer, TypeOK
      <4> QED  BY <1>1, <2>1, <4>1, <4>2
    <3>2. CASE Store(p)
      BY <1>1, <3>2 DEF Store, TypeOK
    <3> QED  BY <1>7, <3>1, <3>2
  <2>4. Ground => Ground'
    BY <2>1, <2>2 DEF Ground
  <2>5. \A s \in Shells : s \in saved' <=> s \in saved
    BY <1>7, ShellAssumption DEF Number, Store, Answer
  <2> QED  BY <1>1, <1>2, <2>1, <2>3, <2>4, <2>5 DEF Grounded, Ground
<1>8. ASSUME NEW p \in Prompts, Loop(p)  PROVE Grounded'
  <2>1. /\ UNCHANGED <<busy, saved, queue, draining, active, spc, shell>> /\ p \in saved /\ ~busy[p]
        /\ pc'[p] = "await" /\ \A q \in Prompts : q # p => pc'[q] = pc[q]
    BY <1>1, <1>8 DEF Loop, TypeOK
  <2> QED  BY <1>1, <1>2, <2>1 DEF Grounded
<1>9. ASSUME NEW p \in Prompts, Enqueue(p)  PROVE Grounded'
  <2>1. /\ UNCHANGED <<busy, saved, draining, active, lpc, spc, shell>> /\ p \in saved /\ busy[p]
        /\ pc'[p] = "returned" /\ \A q \in Prompts : q # p => pc'[q] = pc[q]
    BY <1>1, <1>9 DEF Enqueue, TypeOK
  <2>2. \A i \in 1..Len(queue') : busy[queue'[i]]
    BY <1>1, <1>9, <2>1 DEF Enqueue, TypeOK
  <2> QED  BY <1>1, <1>2, <2>1, <2>2 DEF Grounded, Ground
<1>10. ASSUME NEW p \in Prompts, Drain(p) \/ DrainNext(p)  PROVE Grounded'
  <2>1. UNCHANGED <<pc, busy, saved, queue, active, spc, shell>>
    BY <1>10 DEF Drain, DrainNext
  <2>2. (UNCHANGED <<draining, lpc>>) \/ queue # <<>> \/ (draining' = FALSE /\ UNCHANGED lpc)
    BY <1>10, HeadWays DEF Drain, DrainNext
  <2>3. queue # <<>> => Ground
    <3>1. queue # <<>> => 1 \in 1..Len(queue) /\ queue[1] \in Prompts
      BY DEF TypeOK
    <3> QED  BY <1>1, <3>1
  <2> QED  BY <1>1, <1>2, <2>1, <2>2, <2>3 DEF Grounded, Ground
<1>11. ASSUME NEW p \in Prompts, DrainTurn(p)  PROVE Grounded'
  <2>1. draining /\ queue # <<>> /\ UNCHANGED <<pc, busy, saved, draining, spc, shell>>
    BY <1>11 DEF DrainTurn, DrainInv, Draining
  <2>2. CASE joined[p] \in broken
    BY <1>1, <1>2, <1>11, <2>1, <2>2 DEF DrainTurn, Grounded, Ground
  <2>3. CASE joined[p] \notin broken
    <3>1. queue' = Tail(queue) /\ active' = queue[1] /\ busy[queue[1]]
      BY <1>1, <1>11, <2>1, <2>3 DEF DrainTurn, TypeOK
    <3>2. \A i \in 1..Len(queue') : busy[queue'[i]]
      BY <1>1, <2>1, <3>1 DEF TypeOK
    <3>3. UNCHANGED lpc \/ lpc' = [lpc EXCEPT !["drain"] = "read"]
      BY <1>11 DEF DrainTurn
    <3> QED  BY <1>1, <1>2, <2>1, <3>1, <3>2, <3>3 DEF Grounded, Ground
  <2> QED  BY <2>2, <2>3
<1>14. ASSUME UNCHANGED vars \/ \E l \in Loops : LoopSteps(l) \/ FailTurn(l)  PROVE Grounded'
  <2>1. GoesOn \/ \E l \in Loops : \E failed \in BOOLEAN : Ends(l, failed)
    <3>1. CASE UNCHANGED vars
      BY <3>1 DEF vars, GoesOn, TypeOK, DrainInv
    <3> QED  BY <1>14, <3>1, LoopWays
  <2> QED  BY <1>3, <1>4, <1>5, <1>14, <2>1
<1> QED  BY <1>6, <1>7, <1>8, <1>9, <1>10, <1>11, <1>12, <1>13, <1>14
         DEF Next, PromptSteps, DrainSteps

\* What is grounded is visible to a loop, unless it is a shell that has not stored its message.
LEMMA SomeVisible ==
    ASSUME TypeOK, DrainInv, QueueInv, Grounded, NEW l \in Loops, lpc[l] # "off"
    PROVE  \/ Visible \in SUBSET Senders /\ Visible # {}
           \/ l = "run" /\ \E s \in Shells : spc[s] \in {"started", "failed"}
<1>1. Visible \in SUBSET Senders
  BY DEF Visible, TypeOK
<1>2. CASE l = "drain"
  BY <1>1, <1>2, ActiveVisible
<1>3. CASE l = "run"
  <2>1. CASE \E p \in saved \cap Prompts : ~busy[p]
    <3>1. PICK p \in saved \cap Prompts : ~busy[p]
      BY <2>1
    <3>2. p \notin ToSet(queue)
      BY <3>1 DEF Grounded, ToSet, TypeOK
    <3> QED  BY <1>1, <3>1, <3>2 DEF Visible
  <2>2. ASSUME NEW s \in Shells, spc[s] # "new"
        PROVE  Visible # {} \/ spc[s] \in {"started", "failed"}
    <3>1. s \notin ToSet(queue)
      BY ShellAssumption DEF ToSet, TypeOK
    <3>2. s \in saved \/ spc[s] \in {"started", "failed"}
      BY <2>2 DEF Grounded, TypeOK
    <3> QED  BY <3>1, <3>2 DEF Visible
  <2>3. (\E p \in saved \cap Prompts : ~busy[p]) \/ \E s \in Shells : spc[s] # "new"
    BY <1>3 DEF Grounded
  <2> QED  BY <1>1, <1>3, <2>1, <2>2, <2>3
<1> QED  BY <1>2, <1>3

LEMMA MessagesKept ==
    ASSUME TypeOK, DrainInv, TurnsHaveMessages, [Next]_vars
    PROVE  TurnsHaveMessages'
<1> USE DEF calls, store, queued, loops, runs, shells, counts
<1>1. ASSUME UNCHANGED saw,
             \A l \in Loops : lpc'[l] \in {"start", "turn"} => lpc[l] \in {"start", "turn"}
      PROVE  TurnsHaveMessages'
  BY <1>1 DEF TurnsHaveMessages
<1>2. CASE UNCHANGED vars
  BY <1>1, <1>2 DEF vars
<1>3. ASSUME NEW l \in Loops, Read(l)  PROVE TurnsHaveMessages'
  <2>1. CASE Visible = {} \/ TurnIsOver(Visible)
    BY <1>1, <1>3, <2>1 DEF Read, EndLoop, TypeOK
  <2>2. CASE ~(Visible = {} \/ TurnIsOver(Visible))
    <3>1. lpc' = [lpc EXCEPT ![l] = "start"] /\ saw' = [saw EXCEPT ![l] = Visible]
      BY <1>3, <2>2 DEF Read
    <3> QED  BY <2>2, <3>1 DEF TurnsHaveMessages, TypeOK
  <2> QED  BY <2>1, <2>2
<1>4. ASSUME NEW l \in Loops, StartTurn(l) \/ FinishTurn(l) \/ FailTurn(l)  PROVE TurnsHaveMessages'
  BY <1>1, <1>4 DEF StartTurn, FinishTurn, FailTurn, EndLoop, TypeOK
<1>5. CASE Cancel
  BY <1>1, <1>5 DEF Cancel, EndLoop, TypeOK
<1>6. ASSUME NEW p \in Prompts, Arrive(p) \/ PromptSteps(p)  PROVE TurnsHaveMessages'
  BY <1>1, <1>6 DEF Arrive, PromptSteps, Number, Store, Enqueue, Answer, Loop, Join, TypeOK
<1>7. ASSUME NEW p \in Prompts, DrainSteps(p)  PROVE TurnsHaveMessages'
  <2>1. UNCHANGED saw
    BY <1>7 DEF DrainSteps, Drain, DrainTurn, DrainNext
  <2>2. \/ UNCHANGED lpc \/ lpc' = [lpc EXCEPT !["drain"] = "read"]
        \/ lpc' = [lpc EXCEPT !["run"] = IF @ # "off" THEN @ ELSE IF shell = None THEN "read" ELSE "pending"]
    BY <1>7 DEF DrainSteps, Drain, DrainTurn, DrainNext, DrainHead, Join
  <2>3. \A l \in Loops : lpc'[l] \in {"start", "turn"} => lpc[l] \in {"start", "turn"}
    BY <2>2 DEF TypeOK
  <2> QED  BY <1>1, <2>1, <2>3
<1>8. ASSUME NEW s \in Shells, StartShell(s) \/ ShellSteps(s) \/ FailShell(s)  PROVE TurnsHaveMessages'
  <2>1. UNCHANGED saw
    BY <1>8 DEF StartShell, ShellSteps, ShellMessage, ShellReply, EndShell, FailShell
  <2>2. \/ UNCHANGED lpc
        \/ lpc' = [lpc EXCEPT !["run"] = IF shell = s /\ @ = "pending" THEN "read" ELSE @]
    BY <1>8 DEF StartShell, ShellSteps, ShellMessage, ShellReply, EndShell, FailShell, FinishShell
  <2>3. \A l \in Loops : lpc'[l] \in {"start", "turn"} => lpc[l] \in {"start", "turn"}
    BY <2>2 DEF TypeOK
  <2> QED  BY <1>1, <2>1, <2>3
<1> QED  BY <1>2, <1>3, <1>4, <1>5, <1>6, <1>7, <1>8 DEF Next, LoopSteps

----------------------------------------------------------------------------
(* The theorems                                                            *)

LEMMA InitPrompt == Init => TypeOK /\ PromptInv
<1> SUFFICES ASSUME Init  PROVE TypeOK /\ PromptInv
  OBVIOUS
<1> USE NoneAssumption DEF Init
<1>1. TypeOK
  <2>1. clock \in Nat /\ id \in [Senders -> 0..clock] /\ queue \in Seq(Prompts)
    OBVIOUS
  <2>2. /\ saw \in [Loops -> SUBSET Senders]
        /\ lpc \in [Loops -> {"off", "pending", "read", "start", "turn"}]
    OBVIOUS
  <2> QED  BY <2>1, <2>2 DEF TypeOK
<1>2. DrainInv /\ QueueInv /\ JamInv /\ NoStrandedQueue
  BY DEF DrainInv, Draining, QueueInv, JamInv, NoStrandedQueue
<1>3. InTurn /\ TurnsHaveMessages
  BY DEF InTurn, OnItsWay, Storing, TurnsHaveMessages
<1>4. Grounded
  BY DEF Grounded
<1> QED  BY <1>1, <1>2, <1>3, <1>4 DEF PromptInv

\* The inductive invariant of prompts, shells, drains and loops, with their types.
THEOREM PromptCorrect == Spec => [](TypeOK /\ PromptInv)
<1>1. TypeOK /\ PromptInv /\ [Next]_vars => (TypeOK /\ PromptInv)'
  BY TypesKept, DrainsKept, QueueKept, JamKept, StrandedKept, InTurnKept, GroundedKept, MessagesKept
     DEF PromptInv
<1> QED  BY <1>1, InitPrompt, PTL DEF Spec

\* Unless prompts overlap, the loop of the Runner and the loop of the queue never work on the session
\* together: drainQueuedTurns joins the Runner's run, and no prompt starts another one before its turn.
THEOREM NeverTwoLoops == Spec => []OneLoop
<1>1. PromptInv => OneLoop
  BY DEF PromptInv, InTurn, OneLoop
<1> QED  BY <1>1, PromptCorrect, PTL

\* Whatever overlaps or is cancelled, a queued message has a drain that is at work or about to begin,
\* unless a drain that failed has left its flag up.
THEOREM QueueIsServed == Spec => []NoStrandedQueue
<1>1. PromptInv => NoStrandedQueue
  BY DEF PromptInv
<1> QED  BY <1>1, PromptCorrect, PTL

\* The flag "draining" admits one drain at a time; it is up while that one is at work, and left up
\* without one only by a drain that failed and left a message in the queue.
THEOREM OneDrainAtATime == Spec => []OneDrain
<1>1. PromptInv => OneDrain
  <2> SUFFICES ASSUME DrainInv, JamInv  PROVE OneDrain
    BY DEF PromptInv
  <2>1. AtWork # {} => draining
    BY DEF DrainInv, Draining, AtWork
  <2>2. Jammed => queue # <<>> /\ (failures > 0 \/ broken # {})
    BY DEF JamInv, Jammed, Draining, AtWork
  <2>3. CASE AtWork = {}
    <3>1. Cardinality(AtWork) = 0
      BY <2>3, FS_EmptySet
    <3> QED  BY <2>1, <2>2, <3>1 DEF OneDrain
  <2>4. CASE AtWork # {}
    <3>1. PICK p \in AtWork : TRUE
      BY <2>4
    <3>2. AtWork = {p}
      BY <3>1 DEF DrainInv, Draining, AtWork
    <3>3. Cardinality(AtWork) = 1
      BY <3>2, FS_Singleton
    <3> QED  BY <2>1, <2>2, <3>3 DEF OneDrain
  <2> QED  BY <2>3, <2>4
<1> QED  BY <1>1, PromptCorrect, PTL

\* runLoop throws "No user message found in stream. This should never happen." only under the Runner,
\* and only if a shell came before the first message and has not stored its own or failed before it;
\* otherwise, however prompts, shells, drains, failures and cancels interleave, a message that was
\* never queued is there to be read.
THEOREM MessageFound == Spec => []LoopFindsMessage
<1>1. TypeOK /\ PromptInv => LoopFindsMessage
  <2> SUFFICES ASSUME TypeOK, PromptInv, NEW l \in Loops
               PROVE  /\ lpc[l] = "read" =>
                            \/ Visible # {} /\ LastUser(Visible) \in Visible
                            \/ l = "run" /\ \E s \in Shells : spc[s] \in {"started", "failed"}
                      /\ lpc[l] \in {"start", "turn"} => saw[l] # {} /\ LastUser(saw[l]) \in saw[l]
    BY DEF LoopFindsMessage
  <2>1. ASSUME lpc[l] = "read"
        PROVE  \/ Visible # {} /\ LastUser(Visible) \in Visible
               \/ l = "run" /\ \E s \in Shells : spc[s] \in {"started", "failed"}
    BY <2>1, SomeVisible, LastUserIn DEF PromptInv
  <2>2. ASSUME lpc[l] \in {"start", "turn"}  PROVE saw[l] # {} /\ LastUser(saw[l]) \in saw[l]
    <3>1. saw[l] # {} /\ saw[l] \in SUBSET Senders
      BY <2>2 DEF PromptInv, TurnsHaveMessages, TypeOK
    <3> QED  BY <3>1, LastUserIn
  <2> QED  BY <2>1, <2>2
<1> QED  BY <1>1, PromptCorrect, PTL
============================================================================
