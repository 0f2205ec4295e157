-------------------------- MODULE SessionRunState --------------------------
(***************************************************************************)
(* SessionRunState keeps the runner of a session in a map while it has     *)
(* work and gives it the callbacks that delete the entry and publish the   *)
(* session's status.  A runner that has left the map may still be at work  *)
(* for a cancel, so one session may have several.                          *)
(*                                                                         *)
(* Every step is a step of Runner with what the callbacks add.  on[c] is   *)
(* the runner that call c will find: a call that would find another one is *)
(* not made.  Effect's scheduler switches fibers where one waits, so a     *)
(* fiber that can go on without waiting is not overtaken (CallMay,         *)
(* FiberMay).  Runner itself is proved without that restriction.           *)
(***************************************************************************)
EXTENDS Runner

ASSUME RunStateAssumption == None \notin Runners

VARIABLES
    registered,  \* the session's entry in the runners map, or None
    made,        \* the runners made so far
    looked,      \* looked[c]: has call c looked its runner up?
    status,      \* the session's status: "idle" or "busy"
    deleter      \* history: the call or fiber whose onIdle, not its own runner's, deleted the entry

own == <<registered, made, looked, status, deleter>>
allVars == <<vars, own>>

RSInit ==
    /\ Init
    /\ registered = None /\ made = {} /\ status = "idle"
    /\ looked = [c \in Calls |-> FALSE]
    /\ deleter = [r \in Runners |-> None]

----------------------------------------------------------------------------
(* Scheduling: a fiber that can go on without waiting is in mid-stride.    *)

CallStride(c) ==
    \/ pc[c] = "new" /\ looked[c] /\ Free(on[c])
    \/ pc[c] \in {"busy", "interrupt", "failPending", "idling"}
    \/ pc[c] = "idleCheck" /\ Free(on[c])
FiberStride(w) == fiber[w] \in {"idling", "completing"}

CallMay(c) ==
    /\ \A d \in Calls : CallStride(d) => d = c
    /\ \A w \in Works : ~FiberStride(w)
FiberMay(w) ==
    /\ \A c \in Calls : ~CallStride(c)
    /\ \A v \in Works : FiberStride(v) => v = w

----------------------------------------------------------------------------
Busy(r) == st[r].tag # "Idle"

\* assertNotBusy: does it let its caller pass?
AssertNotBusy == registered # None => ~Busy(registered)

\* runner(): the entry of the map, or a new runner that becomes the entry.
Lookup(c) ==
    /\ pc[c] = "new" /\ ~looked[c]
    /\ IF registered # None THEN on[c] = registered ELSE on[c] \notin made
    /\ registered' = on[c]
    /\ made' = made \cup {on[c]}
    /\ looked' = [looked EXCEPT ![c] = TRUE]
    /\ UNCHANGED <<vars, status, deleter>>

\* cancel: publish idle if there is nothing to cancel, and otherwise go on to the runner's cancel.
CancelLookup(c) ==
    /\ pc[c] = "new" /\ ~looked[c]
    /\ looked' = [looked EXCEPT ![c] = TRUE]
    /\ IF AssertNotBusy
       THEN Goto(c, "returned") /\ status' = "idle"
       ELSE on[c] = registered /\ UNCHANGED <<pc, status>>
    /\ UNCHANGED <<registered, made, deleter, st, sem, on, target, pending, fiber, exit, done, ready, stopped>>

\* The entry goes, and x, whose onIdle it is, is remembered if the entry is another runner's.
Delete(x) ==
    /\ registered' = None
    /\ deleter' = IF registered \in {None, on[x]} THEN deleter ELSE [deleter EXCEPT ![registered] = x]
    /\ UNCHANGED <<made, looked>>

\* Mutant: onIdle forgets the status.
DropEntryOnlyMap(x) == Delete(x) /\ UNCHANGED status

\* onIdle, called by x: delete the session's entry, whatever it is, and publish idle.
DropEntry(x) == Delete(x) /\ status' = "idle"

\* onBusy, and what the run loop does at the head of each round.
MarkBusy == status' = "busy" /\ UNCHANGED <<registered, made, looked, deleter>>

RunLoopRound(w) ==
    /\ fiber[w] = "working" /\ status # "busy"
    /\ MarkBusy
    /\ UNCHANGED vars

----------------------------------------------------------------------------
CallStep(c) ==
    /\ CallMay(c)
    /\ \/ c \notin Cancels /\ Lookup(c)
       \/ c \in Cancels /\ CancelLookup(c)
       \/ c \in Runs /\ looked[c] /\ EnsureRunning(c) /\ UNCHANGED own
       \/ c \in Shells /\ looked[c] /\ StartShell(c) /\ UNCHANGED own
       \/ c \in Cancels /\ looked[c] /\ Cancel(c) /\ UNCHANGED own
       \/ c \in Runs /\ AwaitDone(c) /\ UNCHANGED own
       \/ c \in Shells /\ ForkShell(c) /\ MarkBusy
       \/ c \in Shells /\ AwaitShell(c) /\ UNCHANGED own
       \/ c \in Shells /\ ~CallStride(c) /\ CallerGone(c) /\ UNCHANGED own
       \/ /\ c \in Cancels
          /\ AwaitLatch(c) \/ Interrupt(c) \/ AwaitFiber(c) \/ AwaitRunDone(c) \/ FailPending(c)
                \/ IdleCheck(c)
          /\ UNCHANGED own
       \/ c \in Cancels /\ CancelOnIdle(c) /\ DropEntry(c)

FiberStep(w) ==
    /\ FiberMay(w)
    /\ \/ w \in Runs /\ (FinishRun(w) \/ Complete(w)) /\ UNCHANGED own
       \/ w \in Shells /\ (FinishShell(w) \/ OpenLatch(w)) /\ UNCHANGED own
       \/ WorkEnds(w) /\ UNCHANGED own
       \/ OnIdle(w) /\ DropEntry(w)
       \/ w \in Runs /\ RunLoopRound(w)

RSNext == (\E c \in Calls : CallStep(c)) \/ (\E w \in Works : FiberStep(w))

RSSpec == RSInit /\ [][RSNext]_allVars

\* Calls and handlers go on when they can, and an interrupted work ends.  Work that nobody interrupts
\* may go on for ever, and a caller of a shell need not go.
FairRSSpec ==
    /\ RSSpec
    /\ \A c \in Calls : WF_allVars(looked[c] /\ CallStep(c) /\ ~(c \in Shells /\ CallerGone(c)))
    /\ \A w \in Works : WF_allVars(FiberStep(w) /\ ~(fiber[w] = "working" /\ WorkEnds(w)))

----------------------------------------------------------------------------
(* Properties                                                              *)

\* Work is hidden from assertNotBusy and cancel only if the onIdle of another runner has deleted its
\* entry: the onIdle of a cancel that came after the session had the new runner, or that of a work
\* whose own entry had been deleted in this way before.
HiddenByLateCancel ==
    \A r \in Runners : Busy(r) /\ registered # r =>
        /\ deleter[r] # None
        /\ LET x == deleter[r] IN on[x] # r /\ (x \in Cancels \/ deleter[on[x]] # None)

\* Nothing is running, and nothing is about to.
Quiet ==
    /\ \A c \in Calls : ~CallStride(c) /\ pc[c] \in Outcomes \cup {"new"}
    /\ \A w \in Works : fiber[w] \in {"none", "ended"}

\* When all is quiet the session is idle for everyone: onIdle has left no entry in the map and no
\* busy status.
QuietIsIdle == Quiet => registered = None /\ status = "idle"

----------------------------------------------------------------------------
(* What makes them hold, step by step                                      *)

OwnTypeOK ==
    /\ registered \in Runners \cup {None} /\ made \in SUBSET Runners
    /\ looked \in [Calls -> BOOLEAN] /\ status \in {"idle", "busy"}
    /\ deleter \in [Runners -> Calls \cup {None}]

\* Call c has found its runner and is about to call it, or about to fork its shell.
Committed(c) == (pc[c] = "new" /\ looked[c]) \/ pc[c] = "busy"

\* One fiber at a time is in mid-stride, and no lock is in its way.
InStride ==
    /\ \A c, d \in Calls : CallStride(c) /\ CallStride(d) => c = d
    /\ \A v, w \in Works : FiberStride(v) /\ FiberStride(w) => v = w
    /\ \A c \in Calls, w \in Works : ~(CallStride(c) /\ FiberStride(w))
    /\ \A c \in Calls : (pc[c] = "new" /\ looked[c]) \/ pc[c] = "idleCheck" => Free(on[c])

\* What was so when a fiber decided what to do is still so when it does it.
StillSo ==
    /\ \A c \in Calls : Committed(c) => registered = on[c]
    /\ \A c \in Cancels : /\ Committed(c) => Busy(on[c])
                          /\ pc[c] \in {"idleCheck", "idling"} => target[c] # None
                          /\ pc[c] = "idling" => ~Busy(on[c])
    /\ \A w \in Works : fiber[w] = "idling" => ~Busy(on[w])

\* HiddenByLateCancel, with what carries it over: a work that comes to its onIdle with no entry of its
\* own to delete has lost it to another runner's onIdle.
Hidden ==
    /\ HiddenByLateCancel
    /\ \A w \in Works : fiber[w] = "idling" /\ registered # on[w] => deleter[on[w]] # None

\* As long as there is an entry or a busy status, somebody is left to call onIdle.
IdleToCome ==
    registered # None \/ status = "busy" =>
        \/ \E r \in Runners : Busy(r)
        \/ \E w \in Works : fiber[w] = "idling"
        \/ \E c \in Cancels : pc[c] \in {"latch", "interrupt", "stop", "done", "failPending",
                                         "idleCheck", "idling"}
        \/ \E c \in Calls : Committed(c)

RunStateInv == OwnTypeOK /\ InStride /\ StillSo /\ Hidden /\ IdleToCome
=============================================================================
