---------------------------- MODULE RunnerProofs ----------------------------
(***************************************************************************)
(* Runner keeps RunnerInv for any number of runners and of calls: no work  *)
(* is ever lost sight of, and nobody awaits a run that has no one left to  *)
(* complete it.  One lemma per action, with a step per group of conjuncts. *)
(* SessionRunState, which makes the runners and tells their status, keeps  *)
(* that and RunStateInv: a session is hidden only by a late cancel, and is *)
(* idle when it is quiet.                                                  *)
(***************************************************************************)
EXTENDS SessionRunState, TLAPS

\* The four shapes of a runner's state, by tag.
LEMMA StateCases ==
    ASSUME NEW x \in State
    PROVE  /\ x.run \in Runs \cup {None} /\ x.shell \in Shells \cup {None}
           /\ x.tag \in {"Idle", "Running", "Shell", "ShellThenRun"}
           /\ x.tag = "Idle" => x = Idle /\ x.run = None /\ x.shell = None
           /\ x.tag = "Running" => x.run \in Runs /\ x.shell = None /\ x = Running(x.run)
           /\ x.tag = "Shell" => x.run = None /\ x.shell \in Shells /\ x = Shell(x.shell)
           /\ x.tag = "ShellThenRun" => x.run \in Runs /\ x.shell \in Shells
                                        /\ x = ShellThenRun(x.shell, x.run)
BY DEF State, Idle, Running, Shell, ShellThenRun

\* EnsureRunning: a caller joins a run that someone will complete, or becomes its owner.
LEMMA EnsureRunningKeeps ==
    ASSUME RunnerInv, NEW c \in Runs, EnsureRunning(c) PROVE RunnerInv'
<1> DEFINE r == on[c]
<1> USE RunnerAssumption DEF RunnerInv, TypeOK, Works, Calls
<1>1. /\ r \in Runners /\ st[r] \in State /\ sem[r] = None
      /\ UNCHANGED <<sem, on, pending, exit, done, ready, stopped>>
      /\ pc' = [pc EXCEPT ![c] = "await"]
  BY DEF EnsureRunning, Goto, Free
<1>2. CASE st[r].tag \in {"Running", "ShellThenRun"}
  <2>1. /\ st[r].run \in Runs /\ target' = [target EXCEPT ![c] = st[r].run]
        /\ UNCHANGED <<st, fiber>>
    BY <1>1, <1>2, StateCases DEF EnsureRunning
  <2>2. TypeOK'
    BY <1>1, <2>1 DEF Steps
  <2>3. (Attached /\ Alive /\ Locked)'
    BY <1>1, <2>1 DEF Attached, Alive, Locked
  <2>4. (Captured /\ Accounted)'
    BY <1>1, <2>1 DEF Captured, Accounted
  <2>5. (NoStrayWork /\ AbortIsNoFailure)'
    BY <1>1, <2>1 DEF NoStrayWork, Current, Doomed, AbortIsNoFailure
  <2>6. WaitersHaveOwner'
    <3>1. \A w \in Runs : Owned(w) => Owned(w)'
      BY <1>1, <2>1 DEF Owned
    <3>2. Owned(st[r].run)
      BY <1>1, <1>2, <2>1, StateCases DEF Owned, Attached, Alive
    <3> QED
      BY <1>1, <2>1, <3>1, <3>2 DEF WaitersHaveOwner, Accounted
  <2> QED  BY <2>2, <2>3, <2>4, <2>5, <2>6
<1>3. CASE st[r].tag = "Shell"
  <2>1. /\ st[r].shell \in Shells /\ target' = [target EXCEPT ![c] = c]
        /\ st' = [st EXCEPT ![r] = ShellThenRun(st[r].shell, c)] /\ UNCHANGED fiber
    BY <1>1, <1>3, StateCases DEF EnsureRunning
  <2>2. TypeOK'
    BY <1>1, <2>1 DEF Steps, State
  <2>3. (Attached /\ Alive /\ Locked)'
    BY <1>1, <2>1 DEF Attached, Alive, Locked, ShellThenRun
  <2>4. (Captured /\ Accounted)'
    BY <1>1, <2>1 DEF Captured, Accounted
  <2>5. (NoStrayWork /\ AbortIsNoFailure)'
    BY <1>1, <1>3, <2>1 DEF NoStrayWork, Current, Doomed, AbortIsNoFailure, ShellThenRun, Running
  <2>6. WaitersHaveOwner'
    <3>1. \A w \in Runs : Owned(w) => Owned(w)'
      BY <1>1, <1>3, <2>1, StateCases DEF Owned
    <3>2. Owned(c)'
      BY <1>1, <2>1 DEF Owned, Alive, ShellThenRun
    <3> QED
      BY <1>1, <2>1, <3>1, <3>2 DEF WaitersHaveOwner, Accounted
  <2> QED  BY <2>2, <2>3, <2>4, <2>5, <2>6
<1>4. CASE st[r].tag = "Idle"
  <2>1. /\ st[r] = Idle /\ target' = [target EXCEPT ![c] = c]
        /\ st' = [st EXCEPT ![r] = Running(c)] /\ fiber' = [fiber EXCEPT ![c] = "working"]
    BY <1>1, <1>4, StateCases DEF EnsureRunning, FiberTo
  <2>2. TypeOK'
    BY <1>1, <2>1, SMTT(30) DEF Steps, State, Fibers
  <2>3. (Attached /\ Alive /\ Locked)'
    BY <1>1, <2>1 DEF Attached, Alive, Locked, Running
  <2>4. (Captured /\ Accounted)'
    BY <1>1, <2>1 DEF Captured, Accounted
  <2>5. (NoStrayWork /\ AbortIsNoFailure)'
    BY <1>1, <1>4, <2>1 DEF NoStrayWork, Current, Doomed, AbortIsNoFailure, Accounted, Running, Idle, None
  <2>6. WaitersHaveOwner'
    <3>1. \A w \in Runs : Owned(w) => Owned(w)'
      BY <1>1, <1>4, <2>1 DEF Owned, Idle
    <3>2. Owned(c)'
      BY <1>1, <2>1 DEF Owned
    <3> QED
      BY <1>1, <2>1, <3>1, <3>2 DEF WaitersHaveOwner, Accounted
  <2> QED  BY <2>2, <2>3, <2>4, <2>5, <2>6
<1> QED
  BY <1>1, <1>2, <1>3, <1>4, StateCases

\* AwaitDone: it only reads the deferred.
LEMMA AwaitDoneKeeps ==
    ASSUME RunnerInv, NEW c \in Runs, AwaitDone(c) PROVE RunnerInv'
<1> USE RunnerAssumption DEF RunnerInv, TypeOK, Works, Calls, AwaitDone, Goto
<1>1. TypeOK'
  BY DEF Captured, Accounted, Steps, Outcomes, Fibers, Exits, PlainExits
<1>2. (Attached /\ Alive /\ Locked)'
  BY DEF Attached, Alive, Locked
<1>3. (Captured /\ Accounted)'
  BY DEF Captured, Accounted, Exits, PlainExits
<1>4. (NoStrayWork /\ AbortIsNoFailure)'
  BY DEF NoStrayWork, Current, Doomed, AbortIsNoFailure, Accounted, Captured
<1>5. WaitersHaveOwner'
  BY DEF WaitersHaveOwner, Owned, Accounted, Captured
<1> QED
  BY <1>1, <1>2, <1>3, <1>4, <1>5

\* StartShell: the state is locked only while it is Idle.
LEMMA StartShellKeeps ==
    ASSUME RunnerInv, NEW c \in Shells, StartShell(c) PROVE RunnerInv'
<1> USE RunnerAssumption DEF RunnerInv, TypeOK, Works, Calls, StartShell, Goto, Free
<1>1. TypeOK'
  BY DEF Captured, Accounted, Steps, Outcomes, Fibers, Exits, PlainExits
<1>2. (Attached /\ Alive /\ Locked)'
  BY StateCases DEF Attached, Alive, Locked
<1>3. (Captured /\ Accounted)'
  BY DEF Captured, Accounted, Exits, PlainExits
<1>4. (NoStrayWork /\ AbortIsNoFailure)'
  BY DEF NoStrayWork, Current, Doomed, AbortIsNoFailure, Accounted, Captured
<1>5. WaitersHaveOwner'
  BY DEF WaitersHaveOwner, Owned, Accounted, Captured
<1> QED
  BY <1>1, <1>2, <1>3, <1>4, <1>5

\* ForkShell: the lock has kept the state Idle since startShell read it.
LEMMA ForkShellKeeps ==
    ASSUME RunnerInv, NEW c \in Shells, ForkShell(c) PROVE RunnerInv'
<1> DEFINE r == on[c]
<1> USE RunnerAssumption DEF RunnerInv, TypeOK, Works, Calls
<1>1. /\ r \in Runners /\ st[r] = Idle /\ sem[r] = c /\ pc[c] = "busy"
      /\ pc' = [pc EXCEPT ![c] = "await"] /\ target' = [target EXCEPT ![c] = c]
      /\ fiber' = [fiber EXCEPT ![c] = "working"]
      /\ st' = [st EXCEPT ![r] = Shell(c)] /\ sem' = [sem EXCEPT ![r] = None]
      /\ UNCHANGED <<on, pending, exit, done, ready, stopped>>
  BY DEF ForkShell, Goto, FiberTo, Locked
<1>2. TypeOK'
  BY <1>1 DEF Steps, State, Fibers
<1>3. (Attached /\ Alive /\ Locked)'
  BY <1>1 DEF Attached, Alive, Locked, Shell
<1>4. (Captured /\ Accounted)'
  BY <1>1 DEF Captured, Accounted
<1>5. (NoStrayWork /\ AbortIsNoFailure)'
  BY <1>1 DEF NoStrayWork, Current, Doomed, AbortIsNoFailure, Accounted, Shell, Idle, Running
<1>6. WaitersHaveOwner'
  <2>1. ASSUME NEW w \in Runs, Owned(w) PROVE Owned(w)'
    BY <1>1, <2>1, StateCases DEF Owned, Idle
  <2> QED
    BY <1>1, <2>1 DEF WaitersHaveOwner, Accounted
<1> QED
  BY <1>2, <1>3, <1>4, <1>5, <1>6

\* AwaitShell: what it reports is the exit, which is final.
LEMMA AwaitShellKeeps ==
    ASSUME RunnerInv, NEW c \in Shells, AwaitShell(c) PROVE RunnerInv'
<1> USE RunnerAssumption DEF RunnerInv, TypeOK, Works, Calls
<1>1. /\ ShellOutcome(c) \in {"value", "error", "interrupted"}
      /\ ShellOutcome(c) = "error" => exit[c] \in {"error", "defect"}
  BY DEF AwaitShell, ShellOutcome, Accounted, Exits, PlainExits
<1>2. /\ pc' = [pc EXCEPT ![c] = ShellOutcome(c)] /\ pc[c] = "await" /\ fiber[c] = "ended"
      /\ UNCHANGED <<st, sem, on, target, pending, fiber, exit, done, ready, stopped>>
  BY DEF AwaitShell, Goto
<1>3. TypeOK'
  BY <1>1, <1>2 DEF Outcomes
<1>4. (Attached /\ Alive /\ Locked)'
  BY <1>1, <1>2 DEF Attached, Alive, Locked
<1>5. (Captured /\ Accounted)'
  BY <1>1, <1>2 DEF Captured, Accounted
<1>6. (NoStrayWork /\ AbortIsNoFailure)'
  BY <1>1, <1>2 DEF NoStrayWork, Current, Doomed, AbortIsNoFailure
<1>7. WaitersHaveOwner'
  BY <1>1, <1>2 DEF WaitersHaveOwner, Owned
<1> QED
  BY <1>3, <1>4, <1>5, <1>6, <1>7

\* CallerGone: its shell becomes one that is being stopped.
LEMMA CallerGoneKeeps ==
    ASSUME RunnerInv, NEW c \in Shells, CallerGone(c) PROVE RunnerInv'
<1> USE RunnerAssumption DEF RunnerInv, TypeOK, Works, Calls, CallerGone, Goto
<1>1. TypeOK'
  BY DEF Captured, Accounted, Steps, Outcomes, Fibers, Exits, PlainExits
<1>2. (Attached /\ Alive /\ Locked)'
  BY DEF Attached, Alive, Locked
<1>3. (Captured /\ Accounted)'
  BY DEF Captured, Accounted, Exits, PlainExits
<1>4. (NoStrayWork /\ AbortIsNoFailure)'
  BY DEF NoStrayWork, Current, Doomed, AbortIsNoFailure, Accounted, Captured
<1>5. WaitersHaveOwner'
  BY DEF WaitersHaveOwner, Owned, Accounted, Captured
<1> QED
  BY <1>1, <1>2, <1>3, <1>4, <1>5

\* Cancel: what it takes from the state, it holds.
LEMMA CancelKeeps ==
    ASSUME RunnerInv, NEW c \in Cancels, Cancel(c) PROVE RunnerInv'
<1> DEFINE r == on[c]
<1> USE RunnerAssumption DEF RunnerInv, TypeOK, Works, Calls
<1>1. /\ r \in Runners /\ st[r] \in State /\ sem[r] = None /\ pc[c] = "new"
      /\ st' = [st EXCEPT ![r] = Idle]
      /\ UNCHANGED <<sem, on, fiber, exit, done, ready, stopped>>
  BY DEF Cancel, Free
<1>2. /\ \A w \in Works : pc'[w] = pc[w] /\ target'[w] = target[w]
      /\ \A k \in Cancels \ {c} : pc'[k] = pc[k] /\ target'[k] = target[k] /\ pending'[k] = pending[k]
  BY DEF Cancel, Goto
<1>3. (Attached /\ Alive /\ Locked)'
  BY <1>1, <1>2 DEF Attached, Alive, Locked, Idle
<1>4. (TypeOK /\ Captured /\ NoStrayWork)' /\ \A w \in Runs : Owned(w) => Owned(w)'
  <2>1. CASE st[r].tag = "Idle"
    <3>1. UNCHANGED <<st, target, pending>> /\ pc' = [pc EXCEPT ![c] = "returned"]
      BY <1>1, <2>1, StateCases DEF Cancel, Goto
    <3>2. (TypeOK /\ Captured)'
      BY <1>1, <3>1 DEF Captured, Outcomes
    <3> QED
      BY <1>1, <3>1, <3>2 DEF NoStrayWork, Current, Doomed, Owned
  <2>2. CASE st[r].tag = "Running"
    <3>1. /\ st[r].run \in Runs /\ st[r].shell = None /\ UNCHANGED pending
          /\ target' = [target EXCEPT ![c] = st[r].run] /\ pc' = [pc EXCEPT ![c] = "interrupt"]
      BY <1>1, <2>2, StateCases DEF Cancel, Goto
    <3>2. TypeOK'
      BY <1>1, <3>1 DEF State, Steps
    <3>3. Captured'
      BY <1>1, <3>1 DEF Captured
    <3>4. NoStrayWork'
      BY <1>1, <2>2, <3>1 DEF NoStrayWork, Current, Doomed, Running
    <3>5. ASSUME NEW w \in Runs, Owned(w) PROVE Owned(w)'
      BY <1>1, <2>2, <3>1, <3>5 DEF Owned
    <3> QED
      BY <3>2, <3>3, <3>4, <3>5
  <2>3. CASE st[r].tag \in {"Shell", "ShellThenRun"}
    <3>1. /\ st[r].shell \in Shells /\ st[r].run \in Runs \cup {None}
          /\ target' = [target EXCEPT ![c] = st[r].shell] /\ pc' = [pc EXCEPT ![c] = "latch"]
          /\ pending' = [pending EXCEPT ![c] = st[r].run]
      BY <1>1, <2>3, StateCases DEF Cancel, Goto
    <3>2. TypeOK'
      BY <1>1, <3>1 DEF State, Steps
    <3>3. Captured'
      BY <1>1, <3>1 DEF Captured
    <3>4. NoStrayWork'
      BY <1>1, <2>3, <3>1 DEF NoStrayWork, Current, Doomed, Running
    <3>5. ASSUME NEW w \in Runs, Owned(w) PROVE Owned(w)'
      BY <1>1, <2>3, <3>1, <3>5 DEF Owned
    <3> QED
      BY <3>2, <3>3, <3>4, <3>5
  <2> QED
    BY <1>1, <2>1, <2>2, <2>3, StateCases
<1>5. (Accounted /\ AbortIsNoFailure)'
  BY <1>1, <1>2 DEF Accounted, AbortIsNoFailure
<1>6. WaitersHaveOwner'
  BY <1>1, <1>2, <1>4 DEF WaitersHaveOwner, Accounted
<1> QED
  BY <1>3, <1>4, <1>5, <1>6

\* AwaitLatch: the shell is told before it is interrupted.
LEMMA AwaitLatchKeeps ==
    ASSUME RunnerInv, NEW c \in Cancels, AwaitLatch(c) PROVE RunnerInv'
<1> USE RunnerAssumption DEF RunnerInv, TypeOK, Works, Calls, AwaitLatch, Goto
<1>1. TypeOK'
  BY DEF Captured, Accounted, Steps, Outcomes, Fibers, Exits, PlainExits
<1>2. (Attached /\ Alive /\ Locked)'
  BY DEF Attached, Alive, Locked
<1>3. (Captured /\ Accounted)'
  BY DEF Captured, Accounted, Exits, PlainExits
<1>4. (NoStrayWork /\ AbortIsNoFailure)'
  BY DEF NoStrayWork, Current, Doomed, AbortIsNoFailure, Accounted, Captured
<1>5. WaitersHaveOwner'
  BY DEF WaitersHaveOwner, Owned, Accounted, Captured
<1> QED
  BY <1>1, <1>2, <1>3, <1>4, <1>5

\* Interrupt: the work it holds is no longer stray once it is stopping.
LEMMA InterruptKeeps ==
    ASSUME RunnerInv, NEW c \in Cancels, Interrupt(c) PROVE RunnerInv'
<1> USE RunnerAssumption DEF RunnerInv, TypeOK, Works, Calls, Interrupt, Goto
<1>1. TypeOK'
  BY DEF Captured, Accounted, Steps, Outcomes, Fibers, Exits, PlainExits
<1>2. (Attached /\ Alive /\ Locked)'
  BY DEF Attached, Alive, Locked
<1>3. (Captured /\ Accounted)'
  BY DEF Captured, Accounted, Exits, PlainExits
<1>4. (NoStrayWork /\ AbortIsNoFailure)'
  BY DEF NoStrayWork, Current, Doomed, AbortIsNoFailure, Accounted, Captured
<1>5. WaitersHaveOwner'
  BY DEF WaitersHaveOwner, Owned, Accounted, Captured
<1> QED
  BY <1>1, <1>2, <1>3, <1>4, <1>5

\* AwaitFiber: a run that waited behind the shell is still to be failed.
LEMMA AwaitFiberKeeps ==
    ASSUME RunnerInv, NEW c \in Cancels, AwaitFiber(c) PROVE RunnerInv'
<1> USE RunnerAssumption DEF RunnerInv, TypeOK, Works, Calls, AwaitFiber, Goto
<1>1. TypeOK'
  BY DEF Captured, Accounted, Steps, Outcomes, Fibers, Exits, PlainExits
<1>2. (Attached /\ Alive /\ Locked)'
  BY DEF Attached, Alive, Locked
<1>3. (Captured /\ Accounted)'
  BY DEF Captured, Accounted, Exits, PlainExits
<1>4. (NoStrayWork /\ AbortIsNoFailure)'
  BY DEF NoStrayWork, Current, Doomed, AbortIsNoFailure, Accounted, Captured
<1>5. WaitersHaveOwner'
  BY DEF WaitersHaveOwner, Owned, Accounted, Captured
<1> QED
  BY <1>1, <1>2, <1>3, <1>4, <1>5

\* AwaitRunDone: it only reads the deferred.
LEMMA AwaitRunDoneKeeps ==
    ASSUME RunnerInv, NEW c \in Cancels, AwaitRunDone(c) PROVE RunnerInv'
<1> USE RunnerAssumption DEF RunnerInv, TypeOK, Works, Calls, AwaitRunDone, Goto
<1>1. TypeOK'
  BY DEF Captured, Accounted, Steps, Outcomes, Fibers, Exits, PlainExits
<1>2. (Attached /\ Alive /\ Locked)'
  BY DEF Attached, Alive, Locked
<1>3. (Captured /\ Accounted)'
  BY DEF Captured, Accounted, Exits, PlainExits
<1>4. (NoStrayWork /\ AbortIsNoFailure)'
  BY DEF NoStrayWork, Current, Doomed, AbortIsNoFailure, Accounted, Captured
<1>5. WaitersHaveOwner'
  BY DEF WaitersHaveOwner, Owned, Accounted, Captured
<1> QED
  BY <1>1, <1>2, <1>3, <1>4, <1>5

\* FailPending: the callers of the run that waited have their answer.
LEMMA FailPendingKeeps ==
    ASSUME RunnerInv, NEW c \in Cancels, FailPending(c) PROVE RunnerInv'
<1> USE RunnerAssumption DEF RunnerInv, TypeOK, Works, Calls, FailPending, Goto, Settle
<1>1. TypeOK'
  BY DEF Captured, Accounted, Steps, Outcomes, Fibers, Exits, PlainExits
<1>2. (Attached /\ Alive /\ Locked)'
  BY DEF Attached, Alive, Locked
<1>3. (Captured /\ Accounted)'
  BY DEF Captured, Accounted, Exits, PlainExits
<1>4. (NoStrayWork /\ AbortIsNoFailure)'
  BY DEF NoStrayWork, Current, Doomed, AbortIsNoFailure, Accounted, Captured
<1>5. WaitersHaveOwner'
  BY DEF WaitersHaveOwner, Owned, Accounted, Captured
<1> QED
  BY <1>1, <1>2, <1>3, <1>4, <1>5

\* IdleCheck: it only reads the state.
LEMMA IdleCheckKeeps ==
    ASSUME RunnerInv, NEW c \in Cancels, IdleCheck(c) PROVE RunnerInv'
<1> USE RunnerAssumption DEF RunnerInv, TypeOK, Works, Calls, IdleCheck, Goto, Free
<1>1. TypeOK'
  BY DEF Captured, Accounted, Steps, Outcomes, Fibers, Exits, PlainExits
<1>2. (Attached /\ Alive /\ Locked)'
  BY DEF Attached, Alive, Locked
<1>3. (Captured /\ Accounted)'
  BY DEF Captured, Accounted, Exits, PlainExits
<1>4. (NoStrayWork /\ AbortIsNoFailure)'
  BY DEF NoStrayWork, Current, Doomed, AbortIsNoFailure, Accounted, Captured
<1>5. WaitersHaveOwner'
  BY DEF WaitersHaveOwner, Owned, Accounted, Captured
<1> QED
  BY <1>1, <1>2, <1>3, <1>4, <1>5

\* CancelOnIdle: the cancel is over.
LEMMA CancelOnIdleKeeps ==
    ASSUME RunnerInv, NEW c \in Cancels, CancelOnIdle(c) PROVE RunnerInv'
<1> USE RunnerAssumption DEF RunnerInv, TypeOK, Works, Calls, CancelOnIdle, Goto
<1>1. TypeOK'
  BY DEF Captured, Accounted, Steps, Outcomes, Fibers, Exits, PlainExits
<1>2. (Attached /\ Alive /\ Locked)'
  BY DEF Attached, Alive, Locked
<1>3. (Captured /\ Accounted)'
  BY DEF Captured, Accounted, Exits, PlainExits
<1>4. (NoStrayWork /\ AbortIsNoFailure)'
  BY DEF NoStrayWork, Current, Doomed, AbortIsNoFailure, Accounted, Captured
<1>5. WaitersHaveOwner'
  BY DEF WaitersHaveOwner, Owned, Accounted, Captured
<1> QED
  BY <1>1, <1>2, <1>3, <1>4, <1>5

\* WorkEnds: the fiber has its exit, and its finisher is still to run.
LEMMA WorkEndsKeeps ==
    ASSUME RunnerInv, NEW c \in Works, WorkEnds(c) PROVE RunnerInv'
<1> USE RunnerAssumption DEF RunnerInv, TypeOK, Works, Calls, WorkEnds, FiberTo
<1>1. TypeOK'
  BY DEF Captured, Accounted, Steps, Outcomes, Fibers, Exits, PlainExits
<1>2. (Attached /\ Alive /\ Locked)'
  BY DEF Attached, Alive, Locked
<1>3. (Captured /\ Accounted)'
  BY DEF Captured, Accounted, Exits, PlainExits
<1>4. (NoStrayWork /\ AbortIsNoFailure)'
  BY DEF NoStrayWork, Current, Doomed, AbortIsNoFailure, Accounted, Captured
<1>5. WaitersHaveOwner'
  BY DEF WaitersHaveOwner, Owned, Accounted, Captured
<1> QED
  BY <1>1, <1>2, <1>3, <1>4, <1>5

\* FinishRun: a run that is no longer current leaves the state alone.
LEMMA FinishRunKeeps ==
    ASSUME RunnerInv, NEW c \in Runs, FinishRun(c) PROVE RunnerInv'
<1> DEFINE r == on[c]
<1> USE RunnerAssumption DEF RunnerInv, TypeOK, Works, Calls
<1>1. /\ r \in Runners /\ st[r] \in State /\ sem[r] = None /\ fiber[c] = "exiting"
      /\ UNCHANGED <<sem, on, pc, target, pending, exit, done, ready, stopped>>
  BY DEF FinishRun, Free
<1>2. PICK f \in {"idling", "completing"} : fiber' = [fiber EXCEPT ![c] = f]
  BY DEF FinishRun, FiberTo
<1>3. \/ st[r] = Running(c) /\ st' = [st EXCEPT ![r] = Idle]
      \/ st[r] # Running(c) /\ UNCHANGED st
  BY DEF FinishRun
<1>4. TypeOK'
  BY <1>1, <1>2, <1>3 DEF State, Fibers
<1>5. (Attached /\ Locked)'
  BY <1>1, <1>3 DEF Attached, Locked, Idle
<1>6. Alive'
  <2>1. \A q \in Runners : st'[q].tag = "Running" => st'[q] = st[q] /\ st[q].run # c
    BY <1>1, <1>3, StateCases DEF Attached, Idle
  <2>2. \A q \in Runners : st'[q].shell # None => st'[q] = st[q] /\ st[q].shell # c
    BY <1>1, <1>3, StateCases DEF Idle
  <2> QED
    BY <1>1, <1>2, <2>1, <2>2, StateCases DEF Alive
<1>7. (Captured /\ Accounted /\ AbortIsNoFailure)'
  BY <1>1, <1>2 DEF Captured, Accounted, AbortIsNoFailure
<1>8. NoStrayWork'
  <2>1. ASSUME NEW w \in Works, w # c, Current(w) PROVE Current(w)'
    <3>1. st[r] = Running(c) => on[w] # r
      BY <1>1, <2>1 DEF Current, Running
    <3> QED
      BY <1>1, <1>3, <2>1, <3>1 DEF Current
  <2> QED
    BY <1>1, <1>2, <2>1 DEF NoStrayWork, Doomed
<1>9. WaitersHaveOwner'
  <2>1. ASSUME NEW w \in Runs, Owned(w) PROVE Owned(w)'
    <3>1. st[on[w]].tag = "ShellThenRun" => st'[on[w]] = st[on[w]] /\ st[on[w]].shell # c
      BY <1>1, <1>3, StateCases DEF Running
    <3> QED
      BY <1>1, <1>2, <2>1, <3>1, StateCases DEF Owned
  <2> QED
    BY <1>1, <2>1 DEF WaitersHaveOwner, Accounted
<1> QED
  BY <1>4, <1>5, <1>6, <1>7, <1>8, <1>9

\* Complete: the fiber ends with its deferred settled.
LEMMA CompleteKeeps ==
    ASSUME RunnerInv, NEW c \in Runs, Complete(c) PROVE RunnerInv'
<1> USE RunnerAssumption DEF RunnerInv, TypeOK, Works, Calls, Complete, FiberTo, Settle
<1>1. TypeOK'
  BY DEF Captured, Accounted, Steps, Outcomes, Fibers, Exits, PlainExits
<1>2. (Attached /\ Alive /\ Locked)'
  BY DEF Attached, Alive, Locked
<1>3. (Captured /\ Accounted)'
  BY DEF Captured, Accounted, Exits, PlainExits
<1>4. (NoStrayWork /\ AbortIsNoFailure)'
  BY DEF NoStrayWork, Current, Doomed, AbortIsNoFailure, Accounted, Captured
<1>5. WaitersHaveOwner'
  <2>1. /\ done'[c] # "open" /\ \A w \in Runs \ {c} : done'[w] = done[w] /\ fiber'[w] = fiber[w]
        /\ \A s \in Shells : fiber'[s] = fiber[s]
    BY DEF Accounted, Exits, PlainExits
  <2>2. UNCHANGED <<st, on, pc, target, pending>>
    OBVIOUS
  <2>3. ASSUME NEW w \in Runs \ {c}, Owned(w) PROVE Owned(w)'
    BY <2>1, <2>2, <2>3, StateCases DEF Owned
  <2>4. ASSUME NEW x \in Runs, pc'[x] = "await", done'[target'[x]] = "open"
        PROVE  Owned(target[x])'
    <3>1. target[x] \in Runs \ {c} /\ done[target[x]] = "open" /\ pc[x] = "await"
      BY <2>1, <2>2, <2>4 DEF Accounted
    <3> QED
      BY <2>2, <2>3, <3>1 DEF WaitersHaveOwner
  <2> QED
    BY <2>2, <2>4 DEF WaitersHaveOwner
<1> QED
  BY <1>1, <1>2, <1>3, <1>4, <1>5

\* FinishShell: the run that waited becomes the current one.
LEMMA FinishShellKeeps ==
    ASSUME RunnerInv, NEW c \in Shells, FinishShell(c) PROVE RunnerInv'
<1> DEFINE r == on[c]
<1> USE RunnerAssumption DEF RunnerInv, TypeOK, Works, Calls
<1>1. /\ r \in Runners /\ st[r] \in State /\ sem[r] = None /\ fiber[c] = "exiting"
      /\ UNCHANGED <<sem, on, pc, target, pending, exit, done, ready, stopped>>
  BY DEF FinishShell, Free
<1>2. CASE st[r].tag = "ShellThenRun" /\ st[r].shell = c
  <2>1. PICK n \in Runs :
        /\ n = st[r].run /\ on[n] = r
        /\ st' = [st EXCEPT ![r] = Running(n)]
        /\ fiber' = [fiber EXCEPT ![c] = "ended", ![n] = "working"]
    BY <1>1, <1>2, StateCases DEF FinishShell, Shell, Attached
  <2>2. TypeOK'
    BY <1>1, <2>1, SMTT(30) DEF State, Fibers
  <2>3. (Attached /\ Locked)'
    BY <1>1, <2>1 DEF Attached, Locked, Running, Idle
  <2>4. Alive'
    <3>1. \A q \in Runners \ {r} : st'[q] = st[q] /\ st[q].shell # c
      BY <1>1, <2>1 DEF Attached
    <3>2. \A q \in Runners \ {r} : st[q].tag = "Running" => st[q].run \in Runs
      BY StateCases
    <3>3. \A w \in Works \ {c} : fiber'[w] = fiber[w] \/ fiber'[w] = "working"
      BY <2>1
    <3>4. st'[r] = Running(n) /\ fiber'[n] = "working"
      BY <1>1, <2>1
    <3> QED
      BY <1>1, <2>1, <3>1, <3>2, <3>3, <3>4, StateCases DEF Alive, Running
  <2>5. (Captured /\ Accounted /\ AbortIsNoFailure)'
    BY <1>1, <2>1 DEF Captured, Accounted, AbortIsNoFailure
  <2>6. NoStrayWork'
    <3>1. ASSUME NEW w \in Works, w # c, w # n, Current(w) PROVE Current(w)'
      <4>1. on[w] # r
        BY <1>1, <1>2, <2>1, <3>1 DEF Current, Running
      <4> QED
        BY <1>1, <2>1, <3>1, <4>1 DEF Current
    <3>2. Current(n)'
      BY <1>1, <2>1 DEF Current
    <3> QED
      BY <1>1, <2>1, <3>1, <3>2 DEF NoStrayWork, Doomed
  <2>7. WaitersHaveOwner'
    <3>1. ASSUME NEW w \in Runs, Owned(w) PROVE Owned(w)'
      <4>1. CASE w = n
        BY <1>1, <2>1, <4>1 DEF Owned
      <4>2. CASE w # n /\ on[w] = r
        BY <1>1, <1>2, <2>1, <3>1, <4>2 DEF Owned
      <4>3. CASE on[w] # r
        <5>1. st'[on[w]] = st[on[w]] /\ st[on[w]].shell # c
          BY <1>1, <2>1, <4>3 DEF Attached
        <5> QED
          BY <1>1, <2>1, <3>1, <4>3, <5>1, StateCases DEF Owned
      <4> QED
        BY <4>1, <4>2, <4>3
    <3> QED
      BY <1>1, <3>1 DEF WaitersHaveOwner, Accounted
  <2> QED
    BY <2>2, <2>3, <2>4, <2>5, <2>6, <2>7
<1>3. CASE ~(st[r].tag = "ShellThenRun" /\ st[r].shell = c)
  <2>1. PICK f \in {"idling", "ended"} : fiber' = [fiber EXCEPT ![c] = f]
    BY <1>3 DEF FinishShell, FiberTo
  <2>2. \/ st[r] = Shell(c) /\ st' = [st EXCEPT ![r] = Idle]
        \/ st[r].shell # c /\ UNCHANGED st
    BY <1>1, <1>3, StateCases DEF FinishShell
  <2>3. TypeOK'
    BY <1>1, <2>1, <2>2 DEF State, Fibers
  <2>4. (Attached /\ Locked)'
    BY <1>1, <2>2 DEF Attached, Locked, Idle
  <2>5. Alive'
    <3>1. \A q \in Runners : st'[q].tag = "Running" => st'[q] = st[q] /\ st[q].run \in Runs
      BY <1>1, <2>2, StateCases DEF Idle
    <3>2. \A q \in Runners : st'[q].shell # None => st'[q] = st[q] /\ st[q].shell # c
      BY <1>1, <2>2 DEF Idle, Attached
    <3> QED
      BY <1>1, <2>1, <3>1, <3>2, StateCases DEF Alive
  <2>6. (Captured /\ Accounted /\ AbortIsNoFailure)'
    BY <1>1, <2>1 DEF Captured, Accounted, AbortIsNoFailure
  <2>7. NoStrayWork'
    <3>1. ASSUME NEW w \in Works, w # c, Current(w) PROVE Current(w)'
      <4>1. st[r] = Shell(c) => on[w] # r
        BY <1>1, <3>1 DEF Current, Running, Shell
      <4> QED
        BY <1>1, <2>2, <3>1, <4>1 DEF Current
    <3> QED
      BY <1>1, <2>1, <3>1 DEF NoStrayWork, Doomed
  <2>8. WaitersHaveOwner'
    <3>1. ASSUME NEW w \in Runs, Owned(w) PROVE Owned(w)'
      <4>1. st[on[w]].tag = "ShellThenRun" => st'[on[w]] = st[on[w]] /\ st[on[w]].shell # c
        BY <1>1, <1>3, <2>2, StateCases DEF Shell, Attached
      <4> QED
        BY <1>1, <2>1, <3>1, <4>1, StateCases DEF Owned
    <3> QED
      BY <1>1, <3>1 DEF WaitersHaveOwner, Accounted
  <2> QED
    BY <2>3, <2>4, <2>5, <2>6, <2>7, <2>8
<1> QED
  BY <1>2, <1>3

\* OpenLatch: only the latch changes.
LEMMA OpenLatchKeeps ==
    ASSUME RunnerInv, NEW c \in Shells, OpenLatch(c) PROVE RunnerInv'
<1> USE RunnerAssumption DEF RunnerInv, TypeOK, Works, Calls, OpenLatch
<1>1. TypeOK'
  BY DEF Captured, Accounted, Steps, Outcomes, Fibers, Exits, PlainExits
<1>2. (Attached /\ Alive /\ Locked)'
  BY DEF Attached, Alive, Locked
<1>3. (Captured /\ Accounted)'
  BY DEF Captured, Accounted, Exits, PlainExits
<1>4. (NoStrayWork /\ AbortIsNoFailure)'
  BY DEF NoStrayWork, Current, Doomed, AbortIsNoFailure, Accounted, Captured
<1>5. WaitersHaveOwner'
  BY DEF WaitersHaveOwner, Owned, Accounted, Captured
<1> QED
  BY <1>1, <1>2, <1>3, <1>4, <1>5

\* OnIdle: a run is still to be completed.
LEMMA OnIdleKeeps ==
    ASSUME RunnerInv, NEW c \in Works, OnIdle(c) PROVE RunnerInv'
<1> USE RunnerAssumption DEF RunnerInv, TypeOK, Works, Calls, OnIdle, FiberTo
<1>1. TypeOK'
  BY DEF Captured, Accounted, Steps, Outcomes, Fibers, Exits, PlainExits
<1>2. (Attached /\ Alive /\ Locked)'
  BY DEF Attached, Alive, Locked
<1>3. (Captured /\ Accounted)'
  BY DEF Captured, Accounted, Exits, PlainExits
<1>4. (NoStrayWork /\ AbortIsNoFailure)'
  BY DEF NoStrayWork, Current, Doomed, AbortIsNoFailure, Accounted, Captured
<1>5. WaitersHaveOwner'
  BY DEF WaitersHaveOwner, Owned, Accounted, Captured
<1> QED
  BY <1>1, <1>2, <1>3, <1>4, <1>5

----------------------------------------------------------------------------
\* The invariant holds initially.
LEMMA InitInv == Init => RunnerInv
<1> SUFFICES ASSUME Init PROVE RunnerInv
  OBVIOUS
<1> USE RunnerAssumption DEF Init, Works, Calls
<1>1. TypeOK
  BY DEF TypeOK, State, Steps, Fibers
<1>2. Attached /\ Alive /\ Locked
  BY DEF Attached, Alive, Locked, Idle
<1>3. Captured /\ Accounted
  BY DEF Captured, Accounted, None
<1>4. NoStrayWork /\ WaitersHaveOwner /\ AbortIsNoFailure
  BY DEF NoStrayWork, WaitersHaveOwner, AbortIsNoFailure
<1> QED
  BY <1>1, <1>2, <1>3, <1>4 DEF RunnerInv

\* Every step keeps the invariant.
LEMMA StepInv == RunnerInv /\ [Next]_vars => RunnerInv'
<1> SUFFICES ASSUME RunnerInv, [Next]_vars PROVE RunnerInv'
  OBVIOUS
<1>1. ASSUME NEW c \in Runs, EnsureRunning(c) \/ AwaitDone(c) \/ FinishRun(c) \/ Complete(c)
     PROVE  RunnerInv'
  BY <1>1, EnsureRunningKeeps, AwaitDoneKeeps, FinishRunKeeps, CompleteKeeps
<1>2. ASSUME NEW c \in Shells, StartShell(c) \/ ForkShell(c) \/ AwaitShell(c) \/ CallerGone(c)
            \/ FinishShell(c) \/ OpenLatch(c)
     PROVE  RunnerInv'
  BY <1>2, StartShellKeeps, ForkShellKeeps, AwaitShellKeeps, CallerGoneKeeps, FinishShellKeeps,
     OpenLatchKeeps
<1>3. ASSUME NEW c \in Cancels, Cancel(c) \/ AwaitLatch(c) \/ Interrupt(c) \/ AwaitFiber(c) \/
            AwaitRunDone(c) \/ FailPending(c) \/ IdleCheck(c) \/ CancelOnIdle(c)
     PROVE  RunnerInv'
  BY <1>3, CancelKeeps, AwaitLatchKeeps, InterruptKeeps, AwaitFiberKeeps, AwaitRunDoneKeeps,
     FailPendingKeeps, IdleCheckKeeps, CancelOnIdleKeeps
<1>4. ASSUME NEW c \in Works, WorkEnds(c) \/ OnIdle(c)
     PROVE  RunnerInv'
  BY <1>4, WorkEndsKeeps, OnIdleKeeps
<1>5. CASE UNCHANGED vars
  BY <1>5 DEF RunnerInv, vars, TypeOK, Attached, Alive, Locked, Captured, Accounted, NoStrayWork,
              Current, Doomed, WaitersHaveOwner, Owned, AbortIsNoFailure
<1> QED
  BY <1>1, <1>2, <1>3, <1>4, <1>5 DEF Next, CancelSteps, FiberSteps

\* The inductive invariant holds in every behaviour of Runner.
THEOREM RunnerCorrect == Spec => []RunnerInv
  BY InitInv, StepInv, PTL DEF Spec

\* Runner's variables keep their types.
THEOREM TypeCorrect == Spec => []TypeOK
<1>1. RunnerInv => TypeOK
  BY DEF RunnerInv
<1> QED
  BY <1>1, RunnerCorrect, PTL

\* No runner ever loses track of work that nobody has interrupted.
THEOREM WorkTracked == Spec => []NoStrayWork
<1>1. RunnerInv => NoStrayWork
  BY DEF RunnerInv
<1> QED
  BY <1>1, RunnerCorrect, PTL

\* Whoever awaits a run in ensureRunning awaits something that has an owner.
THEOREM WaitersOwned == Spec => []WaitersHaveOwner
<1>1. RunnerInv => WaitersHaveOwner
  BY DEF RunnerInv
<1> QED
  BY <1>1, RunnerCorrect, PTL

\* startShell never reports the teardown of a shell as a failure of its command.
THEOREM AbortsClean == Spec => []AbortIsNoFailure
<1>1. RunnerInv => AbortIsNoFailure
  BY DEF RunnerInv
<1> QED
  BY <1>1, RunnerCorrect, PTL

----------------------------------------------------------------------------
(* SessionRunState: the runner's invariant                                 *)

\* A cancel that finds nothing to cancel does not come to the runner.
LEMMA CancelLookupKeeps ==
    ASSUME RunnerInv, NEW c \in Cancels, pc[c] = "new", Goto(c, "returned"),
           UNCHANGED <<st, sem, on, target, pending, fiber, exit, done, ready, stopped>>
    PROVE  RunnerInv'
<1> USE RunnerAssumption DEF RunnerInv, TypeOK, Works, Calls, Goto
<1>1. TypeOK'
  BY DEF Steps, Outcomes
<1>2. (Attached /\ Alive /\ Locked)'
  BY DEF Attached, Alive, Locked
<1>3. (Captured /\ Accounted)'
  BY DEF Captured, Accounted, Exits, PlainExits
<1>4. (NoStrayWork /\ AbortIsNoFailure)'
  BY DEF NoStrayWork, Current, Doomed, AbortIsNoFailure
<1>5. WaitersHaveOwner'
  BY DEF WaitersHaveOwner, Owned
<1> QED
  BY <1>1, <1>2, <1>3, <1>4, <1>5

\* Every step of SessionRunState is a step of Runner, but for that.
LEMMA RunnerKept ==
    ASSUME RunnerInv, [RSNext]_allVars
    PROVE  RunnerInv'
<1>1. CASE UNCHANGED vars
  BY <1>1, StepInv
<1>2. ASSUME NEW c \in Calls, CallStep(c)  PROVE RunnerInv'
  <2>1. CASE c \in Cancels /\ CancelLookup(c)
    <3>1. CASE AssertNotBusy
      BY <2>1, <3>1, CancelLookupKeeps DEF CancelLookup
    <3>2. CASE ~AssertNotBusy
      BY <1>1, <2>1, <3>2 DEF CancelLookup, vars
    <3> QED  BY <3>1, <3>2
  <2>2. CASE UNCHANGED vars \/ Next
    BY <2>2, StepInv
  <2> QED  BY <1>2, <2>1, <2>2 DEF CallStep, Lookup, Next, CancelSteps
<1>3. ASSUME NEW w \in Works, FiberStep(w)  PROVE RunnerInv'
  <2>1. CASE UNCHANGED vars \/ Next
    BY <2>1, StepInv
  <2> QED  BY <1>3, <2>1 DEF FiberStep, RunLoopRound, Next, FiberSteps
<1> QED  BY <1>1, <1>2, <1>3 DEF RSNext, allVars

----------------------------------------------------------------------------
(* SessionRunState: a step without onIdle                                  *)

CancelMid == {"latch", "interrupt", "stop", "done", "failPending", "idleCheck", "idling"}

\* Somebody will call onIdle.
Coming ==
    \/ \E r \in Runners : Busy(r)
    \/ \E w \in Works : fiber[w] = "idling"
    \/ \E c \in Cancels : pc[c] \in CancelMid
    \/ \E c \in Calls : Committed(c)

\* When call c may go on, nobody else is in mid-stride, and no lock but its own is taken.
LEMMA OnlyCall ==
    ASSUME RunnerInv, RunStateInv, NEW c \in Calls, CallMay(c)
    PROVE  /\ \A d \in Calls : d # c => /\ ~CallStride(d) /\ ~Committed(d)
                                        /\ pc[d] \notin {"idleCheck", "idling"}
           /\ \A w \in Works : ~FiberStride(w) /\ fiber[w] # "idling"
           /\ pc[c] # "busy" => \A r \in Runners : Free(r)
<1>1. /\ \A d \in Calls : d # c => ~CallStride(d)
      /\ \A w \in Works : ~FiberStride(w)
  BY DEF CallMay
<1>2. \A d \in Calls : d # c => ~Committed(d) /\ pc[d] \notin {"idleCheck", "idling"}
  BY <1>1 DEF RunStateInv, InStride, CallStride, Committed
<1>3. \A w \in Works : fiber[w] # "idling"
  BY <1>1 DEF FiberStride
<1>4. ASSUME pc[c] # "busy", NEW r \in Runners  PROVE Free(r)
  <2>1. CASE sem[r] # None
    <3>1. sem[r] \in Calls /\ pc[sem[r]] = "busy"
      BY <2>1 DEF RunnerInv, TypeOK, Locked, Calls
    <3> QED  BY <1>1, <1>4, <3>1 DEF CallStride
  <2> QED  BY <2>1 DEF Free
<1> QED  BY <1>1, <1>2, <1>3, <1>4

\* The same for a fiber.
LEMMA OnlyFiber ==
    ASSUME RunnerInv, RunStateInv, NEW w \in Works, FiberMay(w)
    PROVE  /\ \A d \in Calls : ~CallStride(d) /\ ~Committed(d) /\ pc[d] \notin {"idleCheck", "idling"}
           /\ \A v \in Works : v # w => ~FiberStride(v) /\ fiber[v] # "idling"
<1>1. /\ \A d \in Calls : ~CallStride(d)
      /\ \A v \in Works : v # w => ~FiberStride(v)
  BY DEF FiberMay
<1>2. \A d \in Calls : ~Committed(d) /\ pc[d] \notin {"idleCheck", "idling"}
  BY <1>1 DEF RunStateInv, InStride, CallStride, Committed
<1> QED  BY <1>1, <1>2 DEF FiberStride

\* A call goes on, and the map stays as it is.
LEMMA CallGoesOn ==
    ASSUME RunnerInv, RunStateInv, NEW c \in Calls, CallMay(c), OwnTypeOK',
           UNCHANGED <<on, registered, deleter>>,
           \A d \in Calls : d # c => pc'[d] = pc[d] /\ target'[d] = target[d] /\ looked'[d] = looked[d],
           \A w \in Works : fiber'[w] = fiber[w] \/ fiber'[w] \in {"working", "stopping"},
           \A r \in Runners : Busy(r)' => Busy(r) \/ registered = r,
           \A r \in Runners : Busy(r) => Busy(r)' \/ (c \in Cancels /\ pc'[c] \in CancelMid),
           status' = "busy" => status = "busy" \/ Coming',
           Committed(c)' => registered = on[c],
           (pc'[c] = "new" /\ looked'[c]) \/ pc'[c] = "idleCheck" => Free(on[c])',
           c \in Cancels => /\ Committed(c)' => Busy(on[c])'
                            /\ pc'[c] \in {"idleCheck", "idling"} => target'[c] # None
                            /\ pc'[c] = "idling" => ~Busy(on[c])',
           (c \in Cancels /\ pc[c] \in CancelMid) \/ Committed(c) => Coming'
    PROVE  RunStateInv'
<1>1. \A d \in Calls : d # c => /\ ~CallStride(d)' /\ ~Committed(d)'
                                /\ pc'[d] \notin {"idleCheck", "idling"}
  <2> TAKE d \in Calls
  <2> HAVE d # c
  <2>1. /\ ~CallStride(d) /\ ~Committed(d) /\ pc[d] \notin {"idleCheck", "idling"}
        /\ pc'[d] = pc[d] /\ looked'[d] = looked[d]
    BY OnlyCall
  <2> QED  BY <2>1 DEF CallStride, Committed
<1>2. \A w \in Works : ~FiberStride(w)' /\ fiber'[w] # "idling"
  BY OnlyCall DEF FiberStride
<1>3. InStride'
  BY <1>1, <1>2 DEF InStride, Committed
<1>4. Cancels \subseteq Calls
  BY DEF Calls
<1>5. StillSo'
  BY <1>1, <1>2, <1>4 DEF StillSo
<1>6. Hidden'
  <2>1. \A r \in Runners : Busy(r)' /\ registered' # r => Busy(r) /\ registered # r
    OBVIOUS
  <2> QED  BY <1>2, <2>1 DEF RunStateInv, Hidden, HiddenByLateCancel
<1>7. IdleToCome'
  <2>1. (registered # None \/ status = "busy") => Coming
    BY DEF RunStateInv, IdleToCome, Coming, CancelMid
  <2>2. Coming => Coming'
    <3>1. ASSUME NEW r \in Runners, Busy(r)  PROVE Coming'
      BY <3>1 DEF Coming
    <3>2. ASSUME NEW d \in Cancels, d # c, pc[d] \in CancelMid  PROVE Coming'
      BY <1>4, <3>2 DEF Coming
    <3> QED  BY <3>1, <3>2, OnlyCall DEF Coming
  <2>3. (registered' # None \/ status' = "busy") => Coming'
    BY <2>1, <2>2
  <2> QED  BY <2>3 DEF IdleToCome, Coming, CancelMid
<1> QED  BY <1>3, <1>5, <1>6, <1>7 DEF RunStateInv

\* A fiber goes on, and the map stays as it is.
LEMMA FiberGoesOn ==
    ASSUME RunnerInv, RunStateInv, NEW w \in Works, FiberMay(w), OwnTypeOK',
           UNCHANGED <<sem, on, pc, target, registered, looked, deleter>>,
           \A v \in Works : v # w => fiber'[v] = fiber[v] \/ fiber'[v] = "working",
           \A r \in Runners : Busy(r)' => Busy(r),
           \A r \in Runners : Busy(r) => Busy(r)' \/ fiber'[w] = "idling",
           status' = "busy" => status = "busy" \/ Coming',
           fiber[w] # "idling", fiber'[w] = "idling" => ~Busy(on[w])' /\ Busy(on[w])
    PROVE  RunStateInv'
<1>1. \A d \in Calls : ~CallStride(d)' /\ ~Committed(d)' /\ pc'[d] \notin {"idleCheck", "idling"}
  BY OnlyFiber DEF CallStride, Committed, Free
<1>2. \A v \in Works : v # w => ~FiberStride(v)' /\ fiber'[v] # "idling"
  BY OnlyFiber DEF FiberStride
<1>3. InStride'
  BY <1>1, <1>2 DEF InStride, Committed
<1>4. Cancels \subseteq Calls
  BY DEF Calls
<1>5. StillSo'
  BY <1>1, <1>2, <1>4 DEF StillSo
<1>6. Hidden'
  <2>1. on[w] \in Runners
    BY DEF RunnerInv, TypeOK, Calls, Works
  <2> QED  BY <1>2, <2>1 DEF RunStateInv, Hidden, HiddenByLateCancel
<1>7. IdleToCome'
  <2>1. (registered # None \/ status = "busy") => Coming
    BY DEF RunStateInv, IdleToCome, Coming, CancelMid
  <2>2. Coming => Coming'
    <3>1. ASSUME NEW r \in Runners, Busy(r)  PROVE Coming'
      BY <3>1 DEF Coming
    <3>2. ASSUME NEW d \in Cancels, pc[d] \in CancelMid  PROVE Coming'
      BY <3>2 DEF Coming
    <3> QED  BY <3>1, <3>2, OnlyFiber DEF Coming
  <2>3. (registered' # None \/ status' = "busy") => Coming'
    BY <2>1, <2>2
  <2> QED  BY <2>3 DEF IdleToCome, Coming, CancelMid
<1> QED  BY <1>3, <1>5, <1>6, <1>7 DEF RunStateInv

\* A call goes on, and nothing of the runners' states changes either.
LEMMA CallJustGoesOn ==
    ASSUME RunnerInv, RunStateInv, NEW c \in Calls, CallMay(c), NEW x,
           UNCHANGED <<st, sem, on, target, own>>, Goto(c, x), x \notin {"new", "busy"},
           pc[c] \notin {"busy", "returned"},
           \A w \in Works : fiber'[w] = fiber[w] \/ fiber'[w] \in {"working", "stopping"},
           c \in Cancels => /\ x \in {"idleCheck", "idling"} => target[c] # None
                            /\ x = "idling" => ~Busy(on[c])
                            /\ pc[c] \in CancelMid => x \in CancelMid \/ Busy(on[c]),
           Committed(c) => Busy(on[c])
    PROVE  RunStateInv'
<1>1. pc'[c] = x /\ \A d \in Calls : d # c => pc'[d] = pc[d]
  BY DEF Goto, RunnerInv, TypeOK
<1>2. on[c] \in Runners /\ Free(on[c])
  BY OnlyCall DEF RunnerInv, TypeOK
<1>3. (Busy(on[c])' <=> Busy(on[c])) /\ \A r \in Runners : Busy(r)' <=> Busy(r)
  BY DEF Busy
<1>4. ~Committed(c)' /\ Free(on[c])'
  BY <1>1, <1>2 DEF Committed, Free
<1>5. OwnTypeOK' /\ UNCHANGED <<registered, looked, status, deleter>>
  BY DEF RunStateInv, OwnTypeOK, own
<1>6. (c \in Cancels /\ pc[c] \in CancelMid) \/ Committed(c) => Coming'
  <2>1. c \in Cancels /\ x \in CancelMid => Coming'
    BY <1>1 DEF Coming
  <2>2. Busy(on[c]) => Coming'
    BY <1>2, <1>3 DEF Coming
  <2> QED  BY <2>1, <2>2
<1> QED  BY <1>1, <1>3, <1>4, <1>5, <1>6, CallGoesOn

----------------------------------------------------------------------------
(* SessionRunState: the calls                                              *)

\* ensureRunning: the runner it finds is the session's, and is busy afterwards.
LEMMA EnsureRunningOwn ==
    ASSUME RunnerInv, RunStateInv, NEW c \in Runs, CallMay(c), looked[c], EnsureRunning(c), UNCHANGED own
    PROVE  RunStateInv'
<1> USE RunnerAssumption
<1>1. c \in Calls /\ c \notin Cancels /\ c \in Works
  BY DEF Calls, Works
<1>2. pc[c] = "new" /\ Committed(c) /\ registered = on[c] /\ on[c] \in Runners /\ st[on[c]] \in State
  BY <1>1 DEF EnsureRunning, Committed, RunStateInv, StillSo, RunnerInv, TypeOK
<1>3. /\ pc'[c] = "await" /\ UNCHANGED <<on, sem>>
      /\ \A d \in Calls : d # c => pc'[d] = pc[d] /\ target'[d] = target[d]
  BY <1>1 DEF EnsureRunning, Goto, RunnerInv, TypeOK
<1>4. Busy(on[c])' /\ \A r \in Runners : r # on[c] => st'[r] = st[r]
  BY <1>2, <1>3, StateCases DEF EnsureRunning, Busy, Running, ShellThenRun, RunnerInv, TypeOK
<1>5. \A w \in Works : fiber'[w] = fiber[w] \/ fiber'[w] \in {"working", "stopping"}
  BY <1>1 DEF EnsureRunning, FiberTo, RunnerInv, TypeOK
<1>6. /\ \A r \in Runners : Busy(r)' => Busy(r) \/ registered = r
      /\ \A r \in Runners : Busy(r) => Busy(r)'
  BY <1>2, <1>3, <1>4 DEF Busy
<1>7. Coming'
  BY <1>2, <1>3, <1>4 DEF Coming
<1>8. OwnTypeOK' /\ UNCHANGED <<registered, looked, status, deleter>> /\ ~Committed(c)'
  BY <1>3 DEF RunStateInv, OwnTypeOK, own, Committed
<1> QED  BY <1>1, <1>2, <1>3, <1>5, <1>6, <1>7, <1>8, CallGoesOn

\* startShell: refused because the runner is busy, or about to make it busy.
LEMMA StartShellOwn ==
    ASSUME RunnerInv, RunStateInv, NEW c \in Shells, CallMay(c), looked[c], StartShell(c), UNCHANGED own
    PROVE  RunStateInv'
<1> USE RunnerAssumption
<1>1. c \in Calls /\ c \notin Cancels
  BY DEF Calls
<1>2. pc[c] = "new" /\ Committed(c) /\ registered = on[c] /\ on[c] \in Runners
  BY <1>1 DEF StartShell, Committed, RunStateInv, StillSo, RunnerInv, TypeOK
<1>3. CASE st[on[c]].tag # "Idle"
  BY <1>1, <1>2, <1>3, CallJustGoesOn DEF StartShell, Busy
<1>4. CASE st[on[c]].tag = "Idle"
  <2>1. /\ pc'[c] = "busy" /\ UNCHANGED <<st, on, target, fiber>>
        /\ \A d \in Calls : d # c => pc'[d] = pc[d]
    BY <1>1, <1>4 DEF StartShell, Goto, RunnerInv, TypeOK
  <2>2. \A r \in Runners : Busy(r)' <=> Busy(r)
    BY <2>1 DEF Busy
  <2>3. Coming'
    BY <1>1, <2>1 DEF Coming, Committed
  <2>4. OwnTypeOK' /\ UNCHANGED <<registered, looked, status, deleter>>
    BY DEF RunStateInv, OwnTypeOK, own
  <2> QED  BY <1>1, <1>2, <2>1, <2>2, <2>3, <2>4, CallGoesOn
<1> QED  BY <1>3, <1>4

LEMMA ForkShellOwn ==
    ASSUME RunnerInv, RunStateInv, NEW c \in Shells, CallMay(c), ForkShell(c), MarkBusy
    PROVE  RunStateInv'
<1> USE RunnerAssumption
<1>1. c \in Calls /\ c \notin Cancels /\ c \in Works
  BY DEF Calls, Works
<1>2. pc[c] = "busy" /\ Committed(c) /\ registered = on[c] /\ on[c] \in Runners
  BY <1>1 DEF ForkShell, Committed, RunStateInv, StillSo, RunnerInv, TypeOK
<1>3. /\ pc'[c] = "await" /\ UNCHANGED on
      /\ \A d \in Calls : d # c => pc'[d] = pc[d] /\ target'[d] = target[d]
  BY <1>1 DEF ForkShell, Goto, RunnerInv, TypeOK
<1>4. Busy(on[c])' /\ \A r \in Runners : r # on[c] => st'[r] = st[r]
  BY <1>2, <1>3 DEF ForkShell, Busy, Shell, RunnerInv, TypeOK
<1>5. \A w \in Works : fiber'[w] = fiber[w] \/ fiber'[w] \in {"working", "stopping"}
  BY <1>1 DEF ForkShell, FiberTo, RunnerInv, TypeOK
<1>6. /\ \A r \in Runners : Busy(r)' => Busy(r) \/ registered = r
      /\ \A r \in Runners : Busy(r) => Busy(r)'
  BY <1>2, <1>3, <1>4 DEF Busy
<1>7. Coming'
  BY <1>2, <1>3, <1>4 DEF Coming
<1>8. OwnTypeOK' /\ UNCHANGED <<registered, looked, deleter>> /\ ~Committed(c)'
  BY <1>3 DEF RunStateInv, OwnTypeOK, MarkBusy, Committed
<1> QED  BY <1>1, <1>2, <1>3, <1>5, <1>6, <1>7, <1>8, CallGoesOn

LEMMA CallerGoneOwn ==
    ASSUME RunnerInv, RunStateInv, NEW c \in Shells, CallMay(c), ~CallStride(c), CallerGone(c),
           UNCHANGED own
    PROVE  RunStateInv'
<1> USE RunnerAssumption
<1>1. c \in Calls /\ c \notin Cancels /\ c \in Works
  BY DEF Calls, Works
<1>2. pc[c] = "await" /\ ~Committed(c)
  BY <1>1 DEF CallerGone, CallStride, Committed
<1>3. /\ pc'[c] = "gone" /\ UNCHANGED <<st, on, target>>
      /\ \A d \in Calls : d # c => pc'[d] = pc[d]
  BY <1>1 DEF CallerGone, Goto, RunnerInv, TypeOK
<1>4. \A w \in Works : fiber'[w] = fiber[w] \/ fiber'[w] \in {"working", "stopping"}
  BY <1>1 DEF CallerGone, RunnerInv, TypeOK
<1>5. \A r \in Runners : Busy(r)' <=> Busy(r)
  BY <1>3 DEF Busy
<1>6. OwnTypeOK' /\ UNCHANGED <<registered, looked, status, deleter>> /\ ~Committed(c)'
  BY <1>3 DEF RunStateInv, OwnTypeOK, own, Committed
<1> QED  BY <1>1, <1>2, <1>3, <1>4, <1>5, <1>6, CallGoesOn

\* cancel of a session that has nothing to cancel, and of one that has.
LEMMA CancelLookupOwn ==
    ASSUME RunnerInv, RunStateInv, NEW c \in Cancels, CallMay(c), CancelLookup(c)
    PROVE  RunStateInv'
<1> USE RunnerAssumption
<1>1. c \in Calls /\ pc[c] = "new" /\ ~Committed(c) /\ on[c] \in Runners /\ c \notin Works
  BY DEF Calls, Works, CancelLookup, Committed, RunnerInv, TypeOK
<1>2. /\ UNCHANGED <<registered, deleter, st, sem, on, target, fiber>> /\ looked'[c] = TRUE
      /\ \A d \in Calls : d # c => pc'[d] = pc[d] /\ looked'[d] = looked[d]
  BY <1>1 DEF CancelLookup, Goto, RunnerInv, TypeOK, RunStateInv, OwnTypeOK
<1>3. OwnTypeOK'
  BY <1>1 DEF CancelLookup, RunStateInv, OwnTypeOK
<1>4. \A r \in Runners : Busy(r)' <=> Busy(r)
  BY <1>2 DEF Busy
<1>5. CASE AssertNotBusy
  <2>1. pc'[c] = "returned" /\ status' = "idle"
    BY <1>1, <1>5 DEF CancelLookup, Goto, RunnerInv, TypeOK
  <2>2. ~Committed(c)'
    BY <2>1 DEF Committed
  <2> QED  BY <1>1, <1>2, <1>3, <1>4, <2>1, <2>2, CallGoesOn DEF CancelMid
<1>6. CASE ~AssertNotBusy
  <2>1. pc'[c] = "new" /\ UNCHANGED status /\ registered = on[c] /\ Busy(on[c])
    BY <1>1, <1>6 DEF CancelLookup, AssertNotBusy
  <2>2. Free(on[c])'
    BY <1>1, <1>2, OnlyCall DEF Free
  <2> QED  BY <1>1, <1>2, <1>3, <1>4, <2>1, <2>2, CallGoesOn DEF CancelMid
<1> QED  BY <1>5, <1>6

LEMMA CancelOwn ==
    ASSUME RunnerInv, RunStateInv, NEW c \in Cancels, CallMay(c), looked[c], Cancel(c), UNCHANGED own
    PROVE  RunStateInv'
<1> USE RunnerAssumption
<1>1. c \in Calls /\ c \notin Works
  BY DEF Calls, Works
<1>2. pc[c] = "new" /\ Committed(c) /\ registered = on[c] /\ Busy(on[c]) /\ on[c] \in Runners
  BY <1>1 DEF Cancel, Committed, RunStateInv, StillSo, RunnerInv, TypeOK
<1>3. /\ pc'[c] \in {"interrupt", "latch"} /\ UNCHANGED <<on, sem, fiber>>
      /\ \A d \in Calls : d # c => pc'[d] = pc[d] /\ target'[d] = target[d]
  BY <1>1, <1>2 DEF Cancel, Goto, Busy, RunnerInv, TypeOK
<1>4. \A r \in Runners : r # on[c] => st'[r] = st[r]
  BY <1>2 DEF Cancel, RunnerInv, TypeOK
<1>5. ~Busy(on[c])'
  BY <1>2, <1>3 DEF Cancel, Busy, Idle, RunnerInv, TypeOK
<1>6. Coming' /\ pc'[c] \in CancelMid
  BY <1>3 DEF Coming, CancelMid
<1>7. OwnTypeOK' /\ UNCHANGED <<registered, looked, status, deleter>> /\ ~Committed(c)'
  BY <1>3 DEF RunStateInv, OwnTypeOK, own, Committed
<1>8. \A r \in Runners : Busy(r)' => Busy(r)
  BY <1>3, <1>4, <1>5 DEF Busy
<1> QED  BY <1>1, <1>2, <1>3, <1>6, <1>7, <1>8, CallGoesOn

LEMMA CancelStepsOwn ==
    ASSUME RunnerInv, RunStateInv, NEW c \in Cancels, CallMay(c), UNCHANGED own,
           \/ AwaitLatch(c) \/ Interrupt(c) \/ AwaitFiber(c) \/ AwaitRunDone(c) \/ FailPending(c)
           \/ IdleCheck(c)
    PROVE  RunStateInv'
<1> USE RunnerAssumption
<1>1. c \in Calls /\ on[c] \in Runners
  BY DEF Calls, RunnerInv, TypeOK
<1>2. PICK x \in {"interrupt", "stop", "done", "failPending", "idleCheck", "idling", "returned"} :
        Goto(c, x)
  BY DEF AwaitLatch, Interrupt, AwaitFiber, AwaitRunDone, FailPending, IdleCheck
<1>3. UNCHANGED <<st, sem, on, target>> /\ pc[c] \in CancelMid /\ ~Committed(c)
  BY DEF AwaitLatch, Interrupt, AwaitFiber, AwaitRunDone, FailPending, IdleCheck, CancelMid, Committed
<1>4. pc'[c] = x
  BY <1>1, <1>2 DEF Goto, RunnerInv, TypeOK
<1>5. x \in {"returned", "idling"} => IdleCheck(c)
  BY <1>4, <1>1 DEF AwaitLatch, Interrupt, AwaitFiber, AwaitRunDone, FailPending, Goto, RunnerInv, TypeOK
<1>6. (x = "returned" => Busy(on[c])) /\ (x = "idling" => ~Busy(on[c]))
  BY <1>1, <1>4, <1>5 DEF IdleCheck, Goto, Busy, RunnerInv, TypeOK
<1>7. target[c] # None
  <2>1. pc[c] \in {"latch", "interrupt", "stop", "done", "failPending", "idleCheck"}
    BY DEF AwaitLatch, Interrupt, AwaitFiber, AwaitRunDone, FailPending, IdleCheck
  <2>2. pc[c] # "idleCheck" => target[c] \in Works
    BY <2>1 DEF RunnerInv, Captured, Works, Calls
  <2> QED  BY <2>1, <2>2 DEF RunStateInv, StillSo, Calls, Works
<1>8. \A w \in Works : fiber'[w] = fiber[w] \/ fiber'[w] \in {"working", "stopping"}
  <2>1. CASE Interrupt(c)
    BY <2>1 DEF Interrupt, RunnerInv, TypeOK
  <2>2. CASE UNCHANGED fiber
    BY <2>2
  <2> QED  BY <2>1, <2>2 DEF AwaitLatch, AwaitFiber, AwaitRunDone, FailPending, IdleCheck
<1>9. x \notin {"new", "busy"} /\ pc[c] \notin {"busy", "returned"} /\ (x = "returned" \/ x \in CancelMid)
  BY <1>3 DEF CancelMid
<1> QED  BY <1>1, <1>2, <1>3, <1>6, <1>7, <1>8, <1>9, CallJustGoesOn

LEMMA AwaitsOwn ==
    ASSUME RunnerInv, RunStateInv, NEW c \in Works, CallMay(c), UNCHANGED own,
           (c \in Runs /\ AwaitDone(c)) \/ (c \in Shells /\ AwaitShell(c))
    PROVE  RunStateInv'
<1> USE RunnerAssumption
<1>1. c \in Calls /\ c \notin Cancels
  BY DEF Calls, Works
<1>2. PICK x : Goto(c, x)
  BY DEF AwaitDone, AwaitShell
<1>3. pc[c] = "await" /\ UNCHANGED <<st, sem, on, target, fiber>> /\ ~Committed(c)
  BY DEF AwaitDone, AwaitShell, Committed
<1>4. pc'[c] = x /\ x \notin {"new", "busy"}
  <2>1. pc'[c] = x
    BY <1>1, <1>2 DEF Goto, RunnerInv, TypeOK
  <2>2. CASE c \in Runs /\ AwaitDone(c)
    <3>1. target[c] \in Runs /\ done[target[c]] \in {"open", "value", "error", "cancelled"}
      BY <1>3, <2>2 DEF RunnerInv, Accounted, TypeOK
    <3> QED  BY <1>1, <2>1, <2>2, <3>1 DEF AwaitDone, Goto, RunnerInv, TypeOK
  <2>3. CASE c \in Shells /\ AwaitShell(c)
    <3>1. exit[c] \in Exits
      BY <2>3 DEF AwaitShell, RunnerInv, Accounted, Works
    <3>2. ShellOutcome(c) \in {"value", "error", "interrupted"}
      BY <3>1 DEF ShellOutcome, Exits, PlainExits
    <3> QED  BY <1>1, <2>1, <2>3, <3>2 DEF AwaitShell, Goto, RunnerInv, TypeOK
  <2> QED  BY <2>1, <2>2, <2>3
<1> QED  BY <1>1, <1>2, <1>3, <1>4, CallJustGoesOn

\* runner(): the entry of the map, or one that nobody has had before.
LEMMA LookupOwn ==
    ASSUME RunnerInv, RunStateInv, NEW c \in Calls, c \notin Cancels, CallMay(c), Lookup(c)
    PROVE  RunStateInv'
<1>1. /\ pc[c] = "new" /\ on[c] \in Runners /\ registered' = on[c]
      /\ looked'[c] = TRUE /\ \A d \in Calls : d # c => looked'[d] = looked[d]
      /\ UNCHANGED <<st, sem, on, pc, target, fiber, status, deleter>>
      /\ registered \in {None, on[c]}
  BY DEF Lookup, vars, RunnerInv, TypeOK, RunStateInv, OwnTypeOK
<1>2. OwnTypeOK'
  BY <1>1 DEF Lookup, RunStateInv, OwnTypeOK
<1>3. \A d \in Calls : d # c => /\ ~CallStride(d)' /\ ~Committed(d)'
                                /\ pc'[d] \notin {"idleCheck", "idling"}
  BY <1>1, OnlyCall DEF CallStride, Committed, Free
<1>4. \A w \in Works : ~FiberStride(w)' /\ fiber'[w] # "idling"
  BY <1>1, OnlyCall DEF FiberStride
<1>5. Free(on[c])' /\ Committed(c)'
  BY <1>1, OnlyCall DEF Free, Committed
<1>6. InStride'
  BY <1>1, <1>3, <1>4, <1>5 DEF InStride, Committed
<1>7. Cancels \subseteq Calls
  BY DEF Calls
<1>8. StillSo'
  BY <1>1, <1>3, <1>4, <1>7 DEF StillSo
<1>9. Hidden'
  <2>1. \A r \in Runners : Busy(r)' /\ registered' # r => Busy(r) /\ registered # r
    BY <1>1, RunStateAssumption DEF Busy
  <2> QED  BY <1>1, <1>4, <2>1 DEF RunStateInv, Hidden, HiddenByLateCancel
<1>10. IdleToCome'
  BY <1>5 DEF IdleToCome
<1> QED  BY <1>2, <1>6, <1>8, <1>9, <1>10 DEF RunStateInv

----------------------------------------------------------------------------
(* SessionRunState: the fibers                                             *)

LEMMA FinishRunOwn ==
    ASSUME RunnerInv, RunStateInv, NEW w \in Runs, FiberMay(w), FinishRun(w), UNCHANGED own
    PROVE  RunStateInv'
<1>1. w \in Works /\ on[w] \in Runners /\ UNCHANGED <<sem, on, pc, target>> /\ fiber[w] # "idling"
  BY DEF FinishRun, RunnerInv, TypeOK, Calls, Works
<1>2. \A v \in Works : v # w => fiber'[v] = fiber[v]
  BY <1>1 DEF FinishRun, FiberTo, RunnerInv, TypeOK
<1>3. OwnTypeOK' /\ UNCHANGED <<registered, looked, status, deleter>>
  BY DEF RunStateInv, OwnTypeOK, own
<1>4. CASE st[on[w]] = Running(w)
  <2>1. fiber'[w] = "idling" /\ st' = [st EXCEPT ![on[w]] = Idle]
    BY <1>1, <1>4 DEF FinishRun, FiberTo, RunnerInv, TypeOK
  <2>2. Busy(on[w]) /\ ~Busy(on[w])' /\ \A r \in Runners : Busy(r)' => Busy(r)
    BY <1>1, <1>4, <2>1 DEF Busy, Running, Idle, RunnerInv, TypeOK
  <2> QED  BY <1>1, <1>2, <1>3, <2>1, <2>2, FiberGoesOn
<1>5. CASE st[on[w]] # Running(w)
  <2>1. fiber'[w] = "completing" /\ UNCHANGED st
    BY <1>1, <1>5 DEF FinishRun, FiberTo, RunnerInv, TypeOK
  <2>2. \A r \in Runners : Busy(r)' <=> Busy(r)
    BY <2>1 DEF Busy
  <2> QED  BY <1>1, <1>2, <1>3, <2>1, <2>2, FiberGoesOn
<1> QED  BY <1>4, <1>5

LEMMA FinishShellOwn ==
    ASSUME RunnerInv, RunStateInv, NEW w \in Shells, FiberMay(w), FinishShell(w), UNCHANGED own
    PROVE  RunStateInv'
<1>1. w \in Works /\ on[w] \in Runners /\ UNCHANGED <<sem, on, pc, target>> /\ fiber[w] # "idling"
  BY DEF FinishShell, RunnerInv, TypeOK, Calls, Works
<1>2. OwnTypeOK' /\ UNCHANGED <<registered, looked, status, deleter>>
  BY DEF RunStateInv, OwnTypeOK, own
<1>3. CASE st[on[w]] = Shell(w)
  <2>1. fiber' = [fiber EXCEPT ![w] = "idling"] /\ st' = [st EXCEPT ![on[w]] = Idle]
    BY <1>3 DEF FinishShell, FiberTo
  <2>2. fiber'[w] = "idling" /\ \A v \in Works : v # w => fiber'[v] = fiber[v]
    BY <1>1, <2>1 DEF RunnerInv, TypeOK
  <2>3. Busy(on[w]) /\ ~Busy(on[w])' /\ \A r \in Runners : Busy(r)' => Busy(r)
    BY <1>1, <1>3, <2>1 DEF Busy, Shell, Idle, RunnerInv, TypeOK
  <2>4. \A r \in Runners : Busy(r) => Busy(r)' \/ fiber'[w] = "idling"
    BY <2>2
  <2> QED  BY <1>1, <1>2, <2>2, <2>3, <2>4, FiberGoesOn
<1>4. CASE st[on[w]] # Shell(w) /\ st[on[w]].tag = "ShellThenRun" /\ st[on[w]].shell = w
  <2>1. /\ st' = [st EXCEPT ![on[w]] = Running(st[on[w]].run)]
        /\ fiber' = [fiber EXCEPT ![w] = "ended", ![st[on[w]].run] = "working"]
    BY <1>4 DEF FinishShell
  <2>2. st[on[w]].run \in Runs /\ st[on[w]].run # w
    BY <1>1, <1>4, StateCases, RunnerAssumption DEF RunnerInv, TypeOK
  <2>3. fiber'[w] = "ended" /\ \A v \in Works : v # w => fiber'[v] = fiber[v] \/ fiber'[v] = "working"
    BY <1>1, <2>1, <2>2 DEF RunnerInv, TypeOK
  <2>4. \A r \in Runners : Busy(r)' <=> Busy(r)
    BY <1>1, <1>4, <2>1 DEF Busy, Running, RunnerInv, TypeOK
  <2> QED  BY <1>1, <1>2, <2>3, <2>4, FiberGoesOn
<1>5. CASE st[on[w]] # Shell(w) /\ ~(st[on[w]].tag = "ShellThenRun" /\ st[on[w]].shell = w)
  <2>1. fiber' = [fiber EXCEPT ![w] = "ended"] /\ UNCHANGED st
    BY <1>5 DEF FinishShell, FiberTo
  <2>2. fiber'[w] = "ended" /\ \A v \in Works : v # w => fiber'[v] = fiber[v]
    BY <1>1, <2>1 DEF RunnerInv, TypeOK
  <2>3. \A r \in Runners : Busy(r)' <=> Busy(r)
    BY <2>1 DEF Busy
  <2> QED  BY <1>1, <1>2, <2>2, <2>3, FiberGoesOn
<1> QED  BY <1>3, <1>4, <1>5

LEMMA OtherFibersOwn ==
    ASSUME RunnerInv, RunStateInv, NEW w \in Works, FiberMay(w), UNCHANGED own,
           (w \in Runs /\ Complete(w)) \/ (w \in Shells /\ OpenLatch(w)) \/ WorkEnds(w)
    PROVE  RunStateInv'
<1>1. UNCHANGED <<st, sem, on, pc, target>> /\ fiber[w] # "idling"
  BY DEF Complete, OpenLatch, WorkEnds
<1>2. fiber'[w] # "idling" /\ \A v \in Works : v # w => fiber'[v] = fiber[v]
  BY <1>1 DEF Complete, OpenLatch, WorkEnds, FiberTo, RunnerInv, TypeOK
<1>3. \A r \in Runners : Busy(r)' <=> Busy(r)
  BY <1>1 DEF Busy
<1>4. OwnTypeOK' /\ UNCHANGED <<registered, looked, status, deleter>>
  BY DEF RunStateInv, OwnTypeOK, own
<1> QED  BY <1>1, <1>2, <1>3, <1>4, FiberGoesOn

\* The run loop marks the session busy while its run is the runner's or a cancel's.
LEMMA RunLoopRoundOwn ==
    ASSUME RunnerInv, RunStateInv, NEW w \in Runs, FiberMay(w), RunLoopRound(w)
    PROVE  RunStateInv'
<1>1. w \in Works /\ on[w] \in Runners /\ fiber[w] = "working" /\ UNCHANGED vars
  BY DEF RunLoopRound, RunnerInv, TypeOK, Calls, Works
<1>2. UNCHANGED <<st, sem, on, pc, target, fiber>>
  BY <1>1 DEF vars
<1>3. \A r \in Runners : Busy(r)' <=> Busy(r)
  BY <1>2 DEF Busy
<1>4. OwnTypeOK' /\ UNCHANGED <<registered, looked, deleter>>
  BY DEF RunStateInv, OwnTypeOK, RunLoopRound, MarkBusy
<1>5. Coming'
  <2>1. CASE Current(w)
    <3>1. Busy(on[w])
      BY <2>1, RunnerAssumption DEF Current, Busy, Running
    <3> QED  BY <1>1, <1>3, <3>1 DEF Coming
  <2>2. CASE Doomed(w)
    BY <1>2, <2>2 DEF Doomed, Coming, CancelMid
  <2> QED  BY <1>1, <2>1, <2>2 DEF RunnerInv, NoStrayWork
<1> QED  BY <1>1, <1>2, <1>3, <1>4, <1>5, FiberGoesOn

\* onIdle of a work that has ended.
LEMMA OnIdleOwn ==
    ASSUME RunnerInv, RunStateInv, NEW w \in Works, FiberMay(w), OnIdle(w), DropEntry(w)
    PROVE  RunStateInv'
<1>0. w \in Calls
  BY DEF Calls, Works
<1>1. /\ fiber[w] = "idling" /\ on[w] \in Runners /\ ~Busy(on[w])
      /\ UNCHANGED <<st, sem, on, pc, target>>
  BY DEF OnIdle, RunnerInv, TypeOK, Calls, Works, RunStateInv, StillSo
<1>2. fiber'[w] # "idling" /\ \A v \in Works : v # w => fiber'[v] = fiber[v]
  BY DEF OnIdle, FiberTo, RunnerInv, TypeOK
<1>3. /\ registered' = None /\ status' = "idle" /\ UNCHANGED looked /\ OwnTypeOK'
      /\ deleter' = IF registered \in {None, on[w]} THEN deleter ELSE [deleter EXCEPT ![registered] = w]
  BY <1>0 DEF DropEntry, Delete, RunStateInv, OwnTypeOK
<1>4. \A d \in Calls : ~CallStride(d)' /\ ~Committed(d)' /\ pc'[d] \notin {"idleCheck", "idling"}
  BY <1>1, <1>3, OnlyFiber DEF CallStride, Committed, Free
<1>5. \A v \in Works : fiber'[v] # "idling" /\ (v # w => ~FiberStride(v)')
  BY <1>2, OnlyFiber DEF FiberStride
<1>6. InStride'
  BY <1>4, <1>5 DEF InStride, Committed
<1>7. Cancels \subseteq Calls
  BY DEF Calls
<1>8. StillSo'
  BY <1>4, <1>5, <1>7 DEF StillSo
<1>9. Hidden'
  <2>1. registered # on[w] => deleter[on[w]] # None
    BY <1>1 DEF RunStateInv, Hidden
  <2>2. \A r \in Runners : deleter[r] # None => deleter'[r] # None
    BY <1>0, <1>3, RunnerAssumption DEF RunStateInv, OwnTypeOK
  <2>3. ASSUME NEW r \in Runners, Busy(r)'
        PROVE  deleter'[r] # None /\ on[deleter'[r]] # r
               /\ (deleter'[r] \in Cancels \/ deleter'[on[deleter'[r]]] # None)
    <3>1. Busy(r) /\ r # on[w]
      BY <1>1, <2>3 DEF Busy
    <3>2. CASE registered = r
      <4>1. deleter'[r] = w
        BY <1>3, <3>1, <3>2, RunStateAssumption DEF RunStateInv, OwnTypeOK
      <4> QED  BY <1>0, <1>1, <2>1, <2>2, <3>1, <3>2, <4>1, RunnerAssumption
    <3>3. CASE registered # r
      <4>1. deleter'[r] = deleter[r]
        BY <1>3, <3>3 DEF RunStateInv, OwnTypeOK
      <4>2. /\ deleter[r] # None /\ on[deleter[r]] # r
            /\ deleter[r] \in Cancels \/ deleter[on[deleter[r]]] # None
        BY <3>1, <3>3 DEF RunStateInv, Hidden, HiddenByLateCancel
      <4>3. on[deleter[r]] \in Runners
        BY <4>2 DEF RunStateInv, OwnTypeOK, RunnerInv, TypeOK
      <4> QED  BY <2>2, <4>1, <4>2, <4>3
    <3> QED  BY <3>2, <3>3
  <2> QED  BY <1>1, <1>3, <1>5, <2>3 DEF Hidden, HiddenByLateCancel
<1>10. IdleToCome'
  BY <1>3 DEF IdleToCome
<1> QED  BY <1>3, <1>6, <1>8, <1>9, <1>10 DEF RunStateInv

\* onIdle of a cancel: if it comes late, the session has another runner.
LEMMA CancelOnIdleOwn ==
    ASSUME RunnerInv, RunStateInv, NEW c \in Cancels, CallMay(c), CancelOnIdle(c), DropEntry(c)
    PROVE  RunStateInv'
<1>0. c \in Calls /\ Cancels \subseteq Calls
  BY DEF Calls
<1>1. /\ pc[c] = "idling" /\ on[c] \in Runners /\ ~Busy(on[c]) /\ target[c] # None
      /\ UNCHANGED <<st, sem, on, fiber, target>>
  BY <1>0 DEF CancelOnIdle, RunnerInv, TypeOK, RunStateInv, StillSo
<1>2. pc'[c] = "returned" /\ \A d \in Calls : d # c => pc'[d] = pc[d]
  BY <1>0 DEF CancelOnIdle, Goto, RunnerInv, TypeOK
<1>3. /\ registered' = None /\ status' = "idle" /\ UNCHANGED looked /\ OwnTypeOK'
      /\ deleter' = IF registered \in {None, on[c]} THEN deleter ELSE [deleter EXCEPT ![registered] = c]
  BY <1>0 DEF DropEntry, Delete, RunStateInv, OwnTypeOK
<1>4. \A d \in Calls : ~CallStride(d)' /\ ~Committed(d)' /\ pc'[d] \notin {"idleCheck", "idling"}
  BY <1>0, <1>1, <1>2, <1>3, OnlyCall DEF CallStride, Committed, Free
<1>5. \A w \in Works : ~FiberStride(w)' /\ fiber'[w] # "idling"
  BY <1>0, <1>1, OnlyCall DEF FiberStride
<1>6. InStride'
  BY <1>4, <1>5 DEF InStride, Committed
<1>7. StillSo'
  BY <1>0, <1>4, <1>5 DEF StillSo
<1>8. Hidden'
  <2>1. \A r \in Runners : deleter[r] # None => deleter'[r] # None
    BY <1>0, <1>3, RunnerAssumption DEF RunStateInv, OwnTypeOK
  <2>2. ASSUME NEW r \in Runners, Busy(r)'
        PROVE  deleter'[r] # None /\ on[deleter'[r]] # r
               /\ (deleter'[r] \in Cancels \/ deleter'[on[deleter'[r]]] # None)
    <3>1. Busy(r) /\ r # on[c]
      BY <1>1, <2>2 DEF Busy
    <3>2. CASE registered = r
      <4>1. deleter'[r] = c
        BY <1>3, <3>1, <3>2, RunStateAssumption DEF RunStateInv, OwnTypeOK
      <4> QED  BY <1>0, <3>1, <4>1, RunnerAssumption
    <3>3. CASE registered # r
      <4>1. deleter'[r] = deleter[r]
        BY <1>3, <3>3 DEF RunStateInv, OwnTypeOK
      <4>2. /\ deleter[r] # None /\ on[deleter[r]] # r
            /\ deleter[r] \in Cancels \/ deleter[on[deleter[r]]] # None
        BY <3>1, <3>3 DEF RunStateInv, Hidden, HiddenByLateCancel
      <4>3. on[deleter[r]] \in Runners
        BY <4>2 DEF RunStateInv, OwnTypeOK, RunnerInv, TypeOK
      <4> QED  BY <2>1, <4>1, <4>2, <4>3
    <3> QED  BY <3>2, <3>3
  <2> QED  BY <1>1, <1>3, <1>5, <2>2 DEF Hidden, HiddenByLateCancel
<1>9. IdleToCome'
  BY <1>3 DEF IdleToCome
<1> QED  BY <1>3, <1>6, <1>7, <1>8, <1>9 DEF RunStateInv

----------------------------------------------------------------------------
(* SessionRunState: the theorems                                           *)

LEMMA InitOwn == RSInit => RunnerInv /\ RunStateInv
<1> SUFFICES ASSUME RSInit  PROVE RunnerInv /\ RunStateInv
  OBVIOUS
<1>1. RunnerInv
  BY InitInv DEF RSInit
<1>2. /\ \A c \in Calls : ~CallStride(c) /\ ~Committed(c) /\ pc[c] = "new" /\ ~looked[c]
      /\ \A w \in Works : ~FiberStride(w) /\ fiber[w] = "none"
      /\ \A r \in Runners : ~Busy(r)
      /\ registered = None /\ status = "idle" /\ \A c \in Calls : target[c] = None
  BY DEF RSInit, Init, CallStride, Committed, FiberStride, Busy, Idle, Works, Calls
<1>3. OwnTypeOK
  BY DEF RSInit, OwnTypeOK
<1>4. Cancels \subseteq Calls
  BY DEF Calls
<1>5. InStride /\ StillSo /\ Hidden /\ IdleToCome
  BY <1>2, <1>4 DEF InStride, StillSo, Hidden, HiddenByLateCancel, IdleToCome, Committed
<1> QED  BY <1>1, <1>3, <1>5 DEF RunStateInv

LEMMA StepOwn ==
    ASSUME RunnerInv, RunStateInv, [RSNext]_allVars
    PROVE  RunStateInv'
<1>1. CASE UNCHANGED allVars
  BY <1>1 DEF allVars, vars, own, RunStateInv, OwnTypeOK, InStride, StillSo, Hidden, HiddenByLateCancel, IdleToCome,
              CallStride, FiberStride, Committed, Busy, Free
<1>2. ASSUME NEW c \in Calls, CallStep(c)  PROVE RunStateInv'
  BY <1>2, LookupOwn, CancelLookupOwn, EnsureRunningOwn, StartShellOwn, CancelOwn, AwaitsOwn, ForkShellOwn,
     CallerGoneOwn, CancelStepsOwn, CancelOnIdleOwn DEF CallStep, Works
<1>3. ASSUME NEW w \in Works, FiberStep(w)  PROVE RunStateInv'
  BY <1>3, FinishRunOwn, FinishShellOwn, OtherFibersOwn, OnIdleOwn, RunLoopRoundOwn DEF FiberStep
<1> QED  BY <1>1, <1>2, <1>3 DEF RSNext

\* The inductive invariant of SessionRunState; the invariant of Runner holds with it.
THEOREM RunStateCorrect == RSSpec => [](RunnerInv /\ RunStateInv)
<1>1. RunnerInv /\ RunStateInv /\ [RSNext]_allVars => (RunnerInv /\ RunStateInv)'
  BY RunnerKept, StepOwn
<1> QED  BY <1>1, InitOwn, PTL DEF RSSpec

\* assertNotBusy and cancel miss work only if its entry was deleted by the onIdle of another runner: of
\* a cancel that came after the session had the new runner, or of a work so hidden itself.
THEOREM HiddenOnlyByLateCancel == RSSpec => []HiddenByLateCancel
<1>1. RunStateInv => HiddenByLateCancel
  BY DEF RunStateInv, Hidden
<1> QED  BY <1>1, RunStateCorrect, PTL

\* A session in which nothing runs and nothing is about to has no entry in the map and is published as
\* idle, however its runs, shells and cancels ended.
THEOREM QuietSessionsAreIdle == RSSpec => []QuietIsIdle
<1>1. RunnerInv /\ RunStateInv => QuietIsIdle
  <2> SUFFICES ASSUME RunnerInv, RunStateInv, Quiet  PROVE registered = None /\ status = "idle"
    BY DEF QuietIsIdle
  <2>1. \A r \in Runners : ~Busy(r)
    <3> SUFFICES ASSUME NEW r \in Runners, Busy(r)  PROVE FALSE
      OBVIOUS
    <3>1. st[r] \in State /\ st[r].tag \in {"Running", "Shell", "ShellThenRun"}
      BY StateCases DEF Busy, RunnerInv, TypeOK
    <3>2. \E w \in Works : fiber[w] \in {"working", "stopping", "exiting"}
      BY <3>1, StateCases, RunnerAssumption DEF RunnerInv, Alive, Works, Calls
    <3> QED  BY <3>2 DEF Quiet
  <2>2. \A c \in Calls : ~Committed(c)
    <3>1. \A c \in Calls : ~CallStride(c)
      BY DEF Quiet
    <3> QED  BY <3>1 DEF Committed, CallStride, RunStateInv, InStride
  <2>3. \A c \in Cancels : pc[c] \in Outcomes \cup {"new"}
    BY DEF Quiet, Calls
  <2>4. \A w \in Works : fiber[w] # "idling"
    BY DEF Quiet
  <2>5. ~(registered # None \/ status = "busy")
    BY <2>1, <2>2, <2>3, <2>4 DEF RunStateInv, IdleToCome, Outcomes
  <2> QED  BY <2>5 DEF RunStateInv, OwnTypeOK
<1> QED  BY <1>1, RunStateCorrect, PTL

=============================================================================
