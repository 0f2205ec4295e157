------------------------------- MODULE Runner -------------------------------
(***************************************************************************)
(* Runner.make: at most one piece of work of a session at a time.  A run   *)
(* is shared by everyone who asks for it while it lasts, a shell command   *)
(* is refused while anything runs, a run asked for during a shell command  *)
(* waits for it, and cancel stops whatever it finds.                       *)
(*                                                                         *)
(* The fibers, deferreds, latches and the semaphore of SynchronizedRef are *)
(* Effect's and external.  A call of ensureRunning or startShell names the *)
(* handle, the deferred and the fiber it creates.  A fiber may be          *)
(* suspended between any two effects, so a modify of the state and the     *)
(* effect that it returns are separate steps.                              *)
(***************************************************************************)
EXTENDS Naturals, FiniteSets

CONSTANTS
    Runners,   \* the runners that exist
    Runs,      \* the calls of ensureRunning
    Shells,    \* the calls of startShell
    Cancels    \* the calls of cancel

None == "none"
Calls == Runs \cup Shells \cup Cancels
Works == Runs \cup Shells

ASSUME RunnerAssumption ==
    /\ Runs \cap Shells = {} /\ Runs \cap Cancels = {} /\ Shells \cap Cancels = {}
    /\ None \notin Calls

VARIABLES
    st,       \* st[r]: the State of runner r
    sem,      \* sem[r]: the startShell that keeps st[r] locked during onBusy, or None
    on,       \* on[c]: the runner that call c was made on
    pc,       \* pc[c]: the effect that call c is about to perform, or its outcome
    target,   \* target[c]: the work that call c awaits or stops
    pending,  \* pending[c]: the run that cancel c found waiting behind a shell
    fiber,    \* fiber[w]: how far the fiber of work w is
    exit,     \* exit[w]: how work w ended
    done,     \* done[w]: the deferred that the callers of run w await
    ready,    \* ready[s]: is the latch of shell s open?
    stopped   \* stopped[s]: is the deferred "cancelled" of shell s done?

vars == <<st, sem, on, pc, target, pending, fiber, exit, done, ready, stopped>>

Idle == [tag |-> "Idle", run |-> None, shell |-> None]
Running(w) == [tag |-> "Running", run |-> w, shell |-> None]
Shell(s) == [tag |-> "Shell", run |-> None, shell |-> s]
ShellThenRun(s, w) == [tag |-> "ShellThenRun", run |-> w, shell |-> s]
State ==
    {Idle} \cup {Running(w) : w \in Runs} \cup {Shell(s) : s \in Shells}
           \cup {ShellThenRun(s, w) : s \in Shells, w \in Runs}

\* "mixed": an interruption and an error of the teardown; "defect": an interruption and a defect of it.
PlainExits == {"value", "error", "interrupted"}
Exits == PlainExits \cup {"mixed", "defect"}
Outcomes == {"value", "error", "interrupted", "rejected", "gone", "returned"}
Fibers == {"none", "working", "stopping", "exiting", "idling", "completing", "ended"}
Steps == {"new", "busy", "await", "latch", "interrupt", "stop", "done", "failPending",
          "idleCheck", "idling"}

Init ==
    /\ st = [r \in Runners |-> Idle]
    /\ sem = [r \in Runners |-> None]
    /\ on \in [Calls -> Runners]
    /\ pc = [c \in Calls |-> "new"]
    /\ target = [c \in Calls |-> None]
    /\ pending = [c \in Cancels |-> None]
    /\ fiber = [w \in Works |-> "none"]
    /\ exit = [w \in Works |-> None]
    /\ done = [w \in Runs |-> "open"]
    /\ ready = [s \in Shells |-> FALSE]
    /\ stopped = [s \in Shells |-> FALSE]

Goto(c, step) == pc' = [pc EXCEPT ![c] = step]
FiberTo(w, step) == fiber' = [fiber EXCEPT ![w] = step]
Free(r) == sem[r] = None

----------------------------------------------------------------------------
(* ensureRunning                                                           *)

\* Mutant: a run asked for during a shell command does not wait for it.
EnsureRunningAtOnce(c) ==
    LET r == on[c] IN
    /\ pc[c] = "new" /\ Free(r)
    /\ Goto(c, "await")
    /\ \/ /\ st[r].tag \in {"Running", "ShellThenRun"}
          /\ target' = [target EXCEPT ![c] = st[r].run]
          /\ UNCHANGED <<st, fiber>>
       \/ /\ st[r].tag \in {"Idle", "Shell"}
          /\ target' = [target EXCEPT ![c] = c]
          /\ st' = [st EXCEPT ![r] = Running(c)]
          /\ FiberTo(c, "working")
    /\ UNCHANGED <<sem, on, pending, exit, done, ready, stopped>>

\* Join the run there is, wait behind a shell, or start a run.
EnsureRunning(c) ==
    LET r == on[c] IN
    /\ pc[c] = "new" /\ Free(r)
    /\ Goto(c, "await")
    /\ \/ /\ st[r].tag \in {"Running", "ShellThenRun"}
          /\ target' = [target EXCEPT ![c] = st[r].run]
          /\ UNCHANGED <<st, fiber>>
       \/ /\ st[r].tag = "Shell"
          /\ target' = [target EXCEPT ![c] = c]
          /\ st' = [st EXCEPT ![r] = ShellThenRun(st[r].shell, c)]
          /\ UNCHANGED fiber
       \/ /\ st[r].tag = "Idle"
          /\ target' = [target EXCEPT ![c] = c]
          /\ st' = [st EXCEPT ![r] = Running(c)]
          /\ FiberTo(c, "working")
    /\ UNCHANGED <<sem, on, pending, exit, done, ready, stopped>>

\* awaitDone: a cancelled run is answered by onInterrupt.
AwaitDone(c) ==
    /\ pc[c] = "await" /\ done[target[c]] # "open"
    /\ Goto(c, IF done[target[c]] = "cancelled" THEN "interrupted" ELSE done[target[c]])
    /\ UNCHANGED <<st, sem, on, target, pending, fiber, exit, done, ready, stopped>>

----------------------------------------------------------------------------
(* startShell                                                              *)

\* Refuse, or call onBusy with the state locked.
StartShell(c) ==
    LET r == on[c] IN
    /\ pc[c] = "new" /\ Free(r)
    /\ IF st[r].tag # "Idle"
       THEN Goto(c, "rejected") /\ UNCHANGED sem
       ELSE Goto(c, "busy") /\ sem' = [sem EXCEPT ![r] = c]
    /\ UNCHANGED <<st, on, target, pending, fiber, exit, done, ready, stopped>>

\* onBusy has returned: fork the work and unlock.
ForkShell(c) ==
    LET r == on[c] IN
    /\ pc[c] = "busy"
    /\ Goto(c, "await")
    /\ target' = [target EXCEPT ![c] = c]
    /\ FiberTo(c, "working")
    /\ st' = [st EXCEPT ![r] = Shell(c)]
    /\ sem' = [sem EXCEPT ![r] = None]
    /\ UNCHANGED <<on, pending, exit, done, ready, stopped>>

\* What the caller makes of the exit of its shell.
ShellOutcome(s) ==
    CASE exit[s] \in {"value", "error"} -> exit[s]
      [] exit[s] = "interrupted" -> "interrupted"
      [] exit[s] = "defect" -> "error"
      [] exit[s] = "mixed" -> IF stopped[s] THEN "interrupted" ELSE "error"

AwaitShell(c) ==
    /\ pc[c] = "await" /\ fiber[c] = "ended"
    /\ Goto(c, ShellOutcome(c))
    /\ UNCHANGED <<st, sem, on, target, pending, fiber, exit, done, ready, stopped>>

----------------------------------------------------------------------------
(* The works and their fibers                                              *)

\* The shell has recorded its messages; its ensuring opens the latch even if that failed.
OpenLatch(s) ==
    /\ fiber[s] \in {"working", "stopping"} /\ ~ready[s]
    /\ ready' = [ready EXCEPT ![s] = TRUE]
    /\ UNCHANGED <<st, sem, on, pc, target, pending, fiber, exit, done, stopped>>

\* The work ends: by itself, or interrupted once its finalizers are through.  What else than the
\* interruption is in the cause matters for a shell only: to complete it is an error like any other.
WorkEnds(w) ==
    /\ \/ fiber[w] = "working" /\ exit' \in {[exit EXCEPT ![w] = x] : x \in {"value", "error"}}
       \/ /\ fiber[w] = "stopping"
          /\ exit' \in {[exit EXCEPT ![w] = x] : x \in IF w \in Shells THEN Exits ELSE PlainExits}
    /\ w \in Shells => ready[w]
    /\ FiberTo(w, "exiting")
    /\ UNCHANGED <<st, sem, on, pc, target, pending, done, ready, stopped>>

\* Mutant: a run that is no longer current is not completed.
FinishRunIfCurrent(w) ==
    LET r == on[w] IN
    /\ fiber[w] = "exiting" /\ Free(r)
    /\ IF st[r] = Running(w)
       THEN st' = [st EXCEPT ![r] = Idle] /\ FiberTo(w, "idling")
       ELSE FiberTo(w, "ended") /\ UNCHANGED st
    /\ UNCHANGED <<sem, on, pc, target, pending, exit, done, ready, stopped>>

\* finishRun: the runner is idle again if this run is still its current one.
FinishRun(w) ==
    LET r == on[w] IN
    /\ fiber[w] = "exiting" /\ Free(r)
    /\ IF st[r] = Running(w)
       THEN st' = [st EXCEPT ![r] = Idle] /\ FiberTo(w, "idling")
       ELSE FiberTo(w, "completing") /\ UNCHANGED st
    /\ UNCHANGED <<sem, on, pc, target, pending, exit, done, ready, stopped>>

\* Mutant: a shell that ends forgets the run that waited for it.
FinishShellDropping(s) ==
    LET r == on[s] IN
    /\ fiber[s] = "exiting" /\ Free(r)
    /\ IF st[r].shell = s
       THEN st' = [st EXCEPT ![r] = Idle] /\ FiberTo(s, "idling")
       ELSE FiberTo(s, "ended") /\ UNCHANGED st
    /\ UNCHANGED <<sem, on, pc, target, pending, exit, done, ready, stopped>>

\* finishShell: idle again, or start the run that waited.
FinishShell(s) ==
    LET r == on[s] IN
    /\ fiber[s] = "exiting" /\ Free(r)
    /\ IF st[r] = Shell(s)
       THEN st' = [st EXCEPT ![r] = Idle] /\ FiberTo(s, "idling")
       ELSE IF st[r].tag = "ShellThenRun" /\ st[r].shell = s
       THEN /\ st' = [st EXCEPT ![r] = Running(st[r].run)]
            /\ fiber' = [fiber EXCEPT ![s] = "ended", ![st[r].run] = "working"]
       ELSE FiberTo(s, "ended") /\ UNCHANGED st
    /\ UNCHANGED <<sem, on, pc, target, pending, exit, done, ready, stopped>>

\* The fiber runs onIdle.
OnIdle(w) ==
    /\ fiber[w] = "idling"
    /\ FiberTo(w, IF w \in Runs THEN "completing" ELSE "ended")
    /\ UNCHANGED <<st, sem, on, pc, target, pending, exit, done, ready, stopped>>

\* Settle a deferred; only the first to do so counts.
Settle(w, result) == done' = [done EXCEPT ![w] = IF @ = "open" THEN result ELSE @]

\* complete: the deferred of the run gets its exit.
Complete(w) ==
    /\ fiber[w] = "completing"
    /\ Settle(w, CASE exit[w] = "interrupted" -> "cancelled"
                   [] exit[w] = "value" -> "value"
                   [] OTHER -> "error")
    /\ FiberTo(w, "ended")
    /\ UNCHANGED <<st, sem, on, pc, target, pending, exit, ready, stopped>>

\* The fiber that called startShell is interrupted.  The shell is its child and stops with it.
\* (A run belongs to the scope: it goes on when a caller that awaits it leaves.)
CallerGone(c) ==
    /\ pc[c] \in {"busy", "await"}
    /\ Goto(c, "gone")
    /\ sem' = [r \in Runners |-> IF sem[r] = c THEN None ELSE sem[r]]
    /\ fiber' = [fiber EXCEPT ![c] = IF @ = "working" THEN "stopping" ELSE @]
    /\ UNCHANGED <<st, on, target, pending, exit, done, ready, stopped>>

----------------------------------------------------------------------------
(* cancel                                                                  *)

\* Take what there is and declare the runner idle.
Cancel(c) ==
    LET r == on[c] IN
    /\ pc[c] = "new" /\ Free(r)
    /\ st' = [st EXCEPT ![r] = Idle]
    /\ \/ st[r].tag = "Idle" /\ Goto(c, "returned") /\ UNCHANGED <<target, pending>>
       \/ /\ st[r].tag = "Running" /\ Goto(c, "interrupt")
          /\ target' = [target EXCEPT ![c] = st[r].run]
          /\ UNCHANGED pending
       \/ /\ st[r].tag \in {"Shell", "ShellThenRun"} /\ Goto(c, "latch")
          /\ target' = [target EXCEPT ![c] = st[r].shell]
          /\ pending' = [pending EXCEPT ![c] = st[r].run]
    /\ UNCHANGED <<sem, on, fiber, exit, done, ready, stopped>>

\* Mutant: the shell is interrupted without a word.
AwaitLatchSilently(c) ==
    /\ pc[c] = "latch" /\ ready[target[c]]
    /\ Goto(c, "interrupt")
    /\ UNCHANGED <<st, sem, on, target, pending, fiber, exit, done, ready, stopped>>

\* stopShell: await the latch, then leave word that the shell was cancelled.
AwaitLatch(c) ==
    /\ pc[c] = "latch" /\ ready[target[c]]
    /\ stopped' = [stopped EXCEPT ![target[c]] = TRUE]
    /\ Goto(c, "interrupt")
    /\ UNCHANGED <<st, sem, on, target, pending, fiber, exit, done, ready>>

\* Fiber.interrupt: a work that has not ended is interrupted ...
Interrupt(c) ==
    /\ pc[c] = "interrupt"
    /\ fiber' = [fiber EXCEPT ![target[c]] = IF @ = "working" THEN "stopping" ELSE @]
    /\ Goto(c, "stop")
    /\ UNCHANGED <<st, sem, on, target, pending, exit, done, ready, stopped>>

\* Mutant: cancel leaves the run that waited behind the shell unanswered.
AwaitFiberForgetful(c) ==
    /\ pc[c] = "stop" /\ fiber[target[c]] = "ended"
    /\ Goto(c, IF target[c] \in Runs THEN "done" ELSE "idleCheck")
    /\ UNCHANGED <<st, sem, on, target, pending, fiber, exit, done, ready, stopped>>

\* ... and its fiber awaited.
AwaitFiber(c) ==
    /\ pc[c] = "stop" /\ fiber[target[c]] = "ended"
    /\ Goto(c, IF target[c] \in Runs THEN "done"
               ELSE IF pending[c] # None THEN "failPending" ELSE "idleCheck")
    /\ UNCHANGED <<st, sem, on, target, pending, fiber, exit, done, ready, stopped>>

AwaitRunDone(c) ==
    /\ pc[c] = "done" /\ done[target[c]] # "open"
    /\ Goto(c, "idleCheck")
    /\ UNCHANGED <<st, sem, on, target, pending, fiber, exit, done, ready, stopped>>

FailPending(c) ==
    /\ pc[c] = "failPending"
    /\ Settle(pending[c], "cancelled")
    /\ Goto(c, "idleCheck")
    /\ UNCHANGED <<st, sem, on, target, pending, fiber, exit, ready, stopped>>

\* Mutant: cancel calls onIdle although something new runs.
IdleCheckNever(c) ==
    /\ pc[c] = "idleCheck" /\ Free(on[c])
    /\ Goto(c, "idling")
    /\ UNCHANGED <<st, sem, on, target, pending, fiber, exit, done, ready, stopped>>

\* idleIfCurrent: call onIdle unless something new runs.
IdleCheck(c) ==
    /\ pc[c] = "idleCheck" /\ Free(on[c])
    /\ Goto(c, IF st[on[c]].tag = "Idle" THEN "idling" ELSE "returned")
    /\ UNCHANGED <<st, sem, on, target, pending, fiber, exit, done, ready, stopped>>

CancelOnIdle(c) ==
    /\ pc[c] = "idling"
    /\ Goto(c, "returned")
    /\ UNCHANGED <<st, sem, on, target, pending, fiber, exit, done, ready, stopped>>

----------------------------------------------------------------------------
CancelSteps(c) ==
    AwaitLatch(c) \/ Interrupt(c) \/ AwaitFiber(c) \/ AwaitRunDone(c) \/ FailPending(c)
        \/ IdleCheck(c) \/ CancelOnIdle(c)

FiberSteps(w) ==
    (w \in Runs /\ (FinishRun(w) \/ Complete(w))) \/ (w \in Shells /\ (FinishShell(w) \/ OpenLatch(w)))
        \/ OnIdle(w)

Next ==
    \/ \E c \in Runs : EnsureRunning(c) \/ AwaitDone(c)
    \/ \E c \in Shells : StartShell(c) \/ ForkShell(c) \/ AwaitShell(c) \/ CallerGone(c)
    \/ \E c \in Cancels : Cancel(c) \/ CancelSteps(c)
    \/ \E w \in Works : WorkEnds(w) \/ FiberSteps(w)

Spec == Init /\ [][Next]_vars

----------------------------------------------------------------------------
(* Properties                                                              *)

TypeOK ==
    /\ st \in [Runners -> State]
    /\ sem \in [Runners -> Shells \cup {None}]
    /\ on \in [Calls -> Runners]
    /\ pc \in [Calls -> Steps \cup Outcomes]
    /\ target \in [Calls -> Works \cup {None}]
    /\ pending \in [Cancels -> Runs \cup {None}]
    /\ fiber \in [Works -> Fibers]
    /\ exit \in [Works -> Exits \cup {None}]
    /\ done \in [Runs -> {"open", "value", "error", "cancelled"}]
    /\ ready \in [Shells -> BOOLEAN]
    /\ stopped \in [Shells -> BOOLEAN]

\* Work w is what its runner is busy with.
Current(w) == LET s == st[on[w]] IN IF w \in Shells THEN s.shell = w ELSE s = Running(w)

\* Cancel c has taken w from the runner and is yet to interrupt it.
Doomed(w) == \E c \in Cancels : target[c] = w /\ pc[c] \in {"latch", "interrupt"}

\* The runner never loses track of work: a fiber that nobody has interrupted is the runner's
\* current work, or a cancel on its way to interrupt it holds it.  So two works of a session
\* overlap only while the older one is being stopped.
NoStrayWork == \A w \in Works : fiber[w] = "working" => Current(w) \/ Doomed(w)

\* Someone is left to settle the deferred of run w: its fiber, the shell that it waits behind, or
\* the cancel that took it from there.
Owned(w) ==
    \/ fiber[w] \notin {"none", "ended"}
    \/ /\ st[on[w]].tag = "ShellThenRun" /\ st[on[w]].run = w
       /\ fiber[st[on[w]].shell] \in {"working", "stopping", "exiting"}
    \/ \E k \in Cancels : pending[k] = w /\ pc[k] \in {"latch", "interrupt", "stop", "failPending"}

\* ensureRunning never waits for nobody: whatever finishRun, finishShell and cancel do to each other,
\* a deferred that a caller awaits has someone left to settle it.
WaitersHaveOwner ==
    \A c \in Runs : pc[c] = "await" /\ done[target[c]] = "open" => Owned(target[c])

\* The caller of a shell sees an error only if the command itself failed or its teardown died: an error
\* of the teardown that a cancel has brought about is answered by onInterrupt.
AbortIsNoFailure == \A c \in Shells : pc[c] = "error" => exit[c] \in {"error", "defect"}

\* The runner that holds a handle is the runner it was made on.
Attached ==
    \A r \in Runners : /\ st[r].run # None => on[st[r].run] = r
                       /\ st[r].shell # None => on[st[r].shell] = r

\* What the state names is not over: its fiber is yet to run its finisher.
Alive ==
    \A r \in Runners :
        /\ st[r].tag = "Running" => fiber[st[r].run] \in {"working", "stopping", "exiting"}
        /\ st[r].shell # None => fiber[st[r].shell] \in {"working", "stopping", "exiting"}

\* Only startShell keeps the state locked across an effect, and then it is Idle.
Locked ==
    /\ \A r \in Runners : sem[r] # None => st[r] = Idle /\ on[sem[r]] = r /\ pc[sem[r]] = "busy"
    /\ \A s \in Shells : pc[s] = "busy" => sem[on[s]] = s

\* What a cancel holds while it is under way.
Captured ==
    \A c \in Cancels :
        /\ pc[c] = "new" => pending[c] = None
        /\ pc[c] = "latch" => target[c] \in Shells
        /\ pc[c] \in {"interrupt", "stop"} => target[c] \in Works
        /\ pc[c] = "done" => target[c] \in Runs
        /\ pc[c] = "failPending" => pending[c] \in Runs
        /\ pending[c] # None => target[c] \in Shells
        /\ pc[c] = "interrupt" /\ target[c] \in Shells => stopped[target[c]]

\* How a fiber that is over left its exit and its deferred.
Accounted ==
    /\ \A c \in Runs : pc[c] = "await" => target[c] \in Runs
    /\ \A w \in Works : fiber[w] \in {"exiting", "idling", "completing", "ended"} => exit[w] \in Exits
    /\ \A w \in Runs : fiber[w] = "ended" => done[w] # "open"
    /\ \A s \in Shells :
        /\ fiber[s] = "stopping" \/ exit[s] = "mixed" => stopped[s] \/ pc[s] = "gone"
        /\ pc[s] = "error" => fiber[s] = "ended"

\* The inductive invariant of the runner; it says of every step of finishRun, finishShell, startShell
\* and cancel what the next one relies on.
RunnerInv ==
    /\ TypeOK /\ Attached /\ Alive /\ Locked /\ Captured /\ Accounted
    /\ NoStrayWork /\ WaitersHaveOwner /\ AbortIsNoFailure

\* cancel returns, whatever starts meanwhile, although works that nobody interrupts may last for ever.
CancelReturns == \A c \in Cancels : pc[c] = "latch" \/ pc[c] = "interrupt" ~> pc[c] = "returned"

\* Whoever awaits a run is answered, unless the runner's current work goes on for ever.
WaitersAnswered ==
    \A c \in Runs : pc[c] = "await" ~>
        pc[c] # "await" \/ \E w \in Works : fiber[w] = "working" /\ on[w] = on[c]

=============================================================================
