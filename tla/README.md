# A TLA+ verification of interbase

Interbase is a command-line coding agent with a remote side: sessions in which a model answers a
user's prompts and calls tools, and a runtime host that lets a remote client drive those sessions.
This directory holds TLA+ models of its concurrent core, the TLC configurations that check them, and
proofs that TLAPS checks. `PROJECT.json` is the index: components, runs, the mutants that show each
property can fail, the source lines every definition stands for, the hazards that the properties are
aimed at, the findings and the theorems.

## 1. Inventory

### 1.1 The parts that carry state and concurrency

| Part | State | Operations | Talks to |
| --- | --- | --- | --- |
| Directory lock, `core/src/util/flock.ts` | a lock directory with `heartbeat` and `meta.json`, a breaker directory, both on disk | `acquire`, `withLock`, heartbeat timer, `release`, stale cleanup | any process on the machine that uses the same key (plugin metadata and installation, the model catalogue, themes) |
| Session turn coordinator, `remote-runtime-host/src/session-turn-coordinator.ts`, used through `cli-session-turns` | a map from session to a state object: `draining`, `items`, `persistedPrompts` | `submit`, the two drains, `cleanup` | the host: `runPrompt`, `steerActiveTurn`, or `persistPromptOnly`, `runLoop`, `isSessionBusy`, `waitUntilIdle`, the message list |
| Runner, `cli-host/src/effect/runner.ts` | a synchronised state Idle / Running / Shell / ShellThenRun, a deferred per run, a latch per shell, one fiber per work | `ensureRunning`, `startShell`, `cancel`, `finishRun`, `finishShell` | its owner through the callbacks `onIdle`, `onBusy`, `onInterrupt` |
| SessionRunState and SessionStatus, `cli-host/src/session/run-state.ts`, `status.ts` | a map from session to runner, the session's status | `ensureRunning`, `startShell`, `cancel`, `assertNotBusy` | Runner, and everyone who asks whether a session is busy |
| SessionPrompt, `cli-host/src/session/prompt.ts` | the messages of a session, `queuedTurns`: `messageIDs`, `draining`, `active` | `prompt`, `shell`, `loop`, `runLoop`, `drainQueuedTurns`, `cancel` | SessionRunState, the store, the model provider |
| Permission, `cli-host/src/permission/index.ts` | the map of pending requests with a deferred each, the approved rules | `ask`, `reply`, the finalizer of the instance | tools, which wait in `ask`; the user interface, which calls `reply` |
| RemoteRuntimeManager, `remote-runtime-host/src/remote-runtime-manager.ts` | the runtimes of each account by key, each with a state, an abort signal, a connector loop and its clients' subscriptions | start, stop, reattach with backoff, attach, detach | the gateway through the connector session of `index.ts`, the remote service for tickets |
| Sync events, `cli-host/src/sync`, over `storage/db.ts` | per session a log of numbered events and the row of the last number, next to what the projectors write; one SQLite file per channel | `run`, `replay`, `replayAll`, `remove` | every service that changes a session; the `/sync` routes |
| Instance store, `cli-host/src/project/instance-store.ts`, with `effect/instance-state.ts` | a cache of one entry per directory, each with a deferred; a scoped state per directory and service | `load`, `reload`, `dispose`, `disposeAll`; `get` | every service that keeps state per directory, through the disposers |
| Question, `cli-host/src/question/index.ts` | the map of pending questions with a deferred each, in the state of a directory | `ask`, `reply`, `reject`, the finalizer | tools, which wait in `ask`; the user interface |
| Local state store, `cli-local-state` | JSON files, a lock file and a queue for each | `read`, `update`, `write`, quarantine | the CLI's processes |
| Goals, `cli-goal-plugin`, `remote-runtime-host/src/goal-state.ts` | a goal's status and budget | set, pause, continue, complete | the session loop, the local state store |
| Local gateway and connector, PTY, processor, compaction, revert, snapshot, bus | see `PROJECT.json` | | |

The rest of the repository (the terminal interface, routes, adapters, schemas, catalogues, the
generated SDK, configuration) is sequential code or input and output; `PROJECT.json` lists it part by
part with the reason it is left out.

### 1.2 How the parts interact

A prompt of a remote client enters at the turn coordinator, which decides whether the host may run it
now, must queue it, or stores it and answers it with a later loop. A prompt of the terminal enters at
SessionPrompt directly. Both end in `runLoop`. SessionPrompt makes the loop the work of the session's
Runner by way of SessionRunState, or queues the message and lets a drain call `runLoop` later. A turn
calls tools; a tool that needs leave waits in `Permission.ask` until a `reply` or the end of the
instance settles it; `Question.ask` waits the same way. Both keep their maps in the state of a directory,
which the instance store drops when it disposes of or reloads the directory. What a turn writes goes through
`SyncEvent.run` into the log of its session, and another machine replays that log. A remote client reaches the
coordinator through a runtime that RemoteRuntimeManager has started and that stays attached to the gateway.
`Flock` and the lock of the local state store stand apart: they order separate processes.

### 1.3 What is hard, and what correct means

| Part | Hard behaviour | Correct if |
| --- | --- | --- |
| Flock | crashes of owners and of cleaners, paused processes, several contenders cleaning up, everything addressed by path | one process in the critical section; cleanup and release hit only what they mean to hit; the lock never wedges |
| Turn coordinator | state read before an await and used after it; objects deleted from the map by key while another call still holds them; host calls that throw | one turn at a time (queueing mode); no waiting prompt that nobody will come back to; a failure costs one prompt |
| Runner | a cancel declares the runner idle before the work has stopped, a new run begins meanwhile, finishers of old work come late | no work that nobody tracks; whoever waits is answered; cancel returns; an abort is not reported as a failure |
| SessionRunState | callbacks delete by session, not by runner | a running session is seen as busy; a quiet one as idle |
| SessionPrompt | the busy check precedes a long store; two kinds of loop over one message list | one loop at a time; every message answered; a queue has a drain |
| RemoteRuntimeManager | entries deleted and replaced by key across awaits; stops while a runtime waits for a ticket, sleeps or attaches; clients that come to a runtime being stopped | one live runtime per account; what is reported as stopped is stopped; nothing is forwarded for an ended runtime; calls return |
| Sync events | the sequence number is read outside the transaction that uses it; several processes replay; posts are repeated, overlapping, late or cut off | logs without gaps; a follower has a prefix and applies nothing twice; it catches up |
| Instance store, Question | loads, reloads and disposals of one directory overlap; state belongs to the directory and not to an instance; boots fail | one boot at a time; a late disposal spares its successor; no asker is left with a state that replies do not see; calls return |
| Local state store | crashes with the lock taken, locks that look old, corrupt files, reads without the lock | updates do not overlap; none that is done is lost; every call ends |
| Permission | several replies walk one map; deleting an entry and settling it are separate steps; aborts and disposal in between | nothing granted without a reason; nobody waits for nobody; a reply settles what it is for and nothing else |

`PROJECT.json` lists the hazards one by one at the line where each bites, with the properties
that catch it, and for those without one the reason.

## 2. Plan

Modules in the order of their importance, done ones marked:

1. `Flock`, `FlockProofs` (done): the lock, its crash recovery, exclusion for any number of processes.
2. `SessionTurn` (what both modes share), `TurnFifo` (abstract server), `SessionTurnQueue`, `SessionTurnProofs` (done): the queueing mode refines
   the FIFO server; the safety part of the refinement is proved.
3. `SessionTurnPersist` (done): the persisting mode; its proofs are in `SessionTurnProofs` too.
4. `Runner`, `SessionRunState`, which extends `Runner` and adds the map and the status, and
   `RunnerProofs`, which is about both (done).
5. `SessionPrompt`, `SessionPromptProofs` (done): the two loops, the queue and its drains.
6. `Permission`, `PermissionProofs` (done).
7. `RemoteRuntimeManager`, `RemoteRuntimeManagerProofs` (done): start, stop, reattach and detach for one
   account.
8. `InstanceStore`, `Question`, which extends it, and `QuestionProofs` (done).
9. `SyncEvents` (done): sequence numbers, replay, projectors.
10. `LocalState` (done): lock, recovery, quarantine. `StoreProofs` (done) is about both.
11. Next candidates: the gateway's command lifecycle composed with the manager; the inside of a turn (retry,
    compaction); the delivery of events to remote clients.

The abstract specification is `TurnFifo`; `SyncEvents` has the writer's log as its own reference, of which
every follower must be a prefix. Every module that will be proved about is written without recursive
operators, with its parameters as constants and its invariants as conjunctions of named parts.

## 3. Modules and the code

In each module a label (`pc`, `dpc`, `rpc`, `fiber`) names the await or the yield point at which a call or a
fiber is suspended, and a step is what the code does from one such point to the next. Where the code deletes or
looks up by key or by path, so does the model. Operators whose comment begins with "Mutant" are not part
of a specification; each is the definition that follows it with one plausible slip.

### 3.1 Flock

`TryMkdir` to `Unclaim` are the awaits of `tryAcquireLockDir`, in order; `WriteHeartbeat`, `WriteMeta` and
`RmCompromised` the two exclusive writes and their catch; `Retry` and `GiveUp` the waiting loop of
`acquireLockDir`; `Heartbeat`, `Release`, `ReadMeta`, `RmRelease` the holder. `LockAges` and `BreakerAges` are
the clock, reduced to one bit per directory: older than `staleMs` or not. A live owner's directory ages only
by a *pause* (a suspended machine, a blocked event loop). `Crash` may happen at any await and leaves the disk
as it is. A behaviour follows one of the `FaultPlans`, which bounds its crashes and pauses and says whether a
process may crash while it holds the breaker; `Reliable` names the plans without pauses and without such
crashes, under which exclusion and careful cleanup are claimed. What release does is claimed under all plans.

Abstractions: `rm -r` and the stats inside `stale()` are one step each; a token is named by its
process; meta.json holds the token only; failures of the file system other than the ones named are left out.
`lockMaker` and `breakerMaker` are history: who made the directory at the path. So is `swept`: the releasing
processes whose directory somebody removed after they had found their token in it.

### 3.2 SessionTurn, TurnFifo, SessionTurnQueue, SessionTurnPersist

One session, since the coordinator's map is keyed by session and sessions share nothing else. A state
object is named by the prompt whose `submit` made it, so the model can hold several objects of one
session, of which the map registers one. `SessionTurn` declares the map entry, the flag and the
references, which both modes have. `SessionTurnQueue` is the coordinator for a host without
`persistPromptOnly`; `CanSteer` says whether the host can hand a prompt to the active turn.
`SessionTurnPersist` is the other mode: `SubmitPrompt` is the head of `submit`, `SessionStatus` is the awaited `isSessionBusy`, and the answer
is used in `ResumeBusy` or `ResumeIdle`; `RunDirectly` is the prompt that found the session idle; `Persist` is the host's write and `Persisted` what `submit`
does when it hears of it; `WaitUntilIdle`, `RunLoop`, `LoopReturns`, `CheckNewer` are the drain's awaits.
`DrainThrows`, `PromptThrows`, `SubmitThrows` are the host calls that reject, `SubmitThrows` both `isSessionBusy` and
`persistPromptOnly`. `LocalBegins` and
`LocalEnds` are turns that the host starts on its own.

### 3.3 Runner and SessionRunState

A call of `ensureRunning`, `startShell` or `cancel` is a member of `Runs`, `Shells` or `Cancels`, and
its work, deferred and latch have its name. `sem` is the lock of the synchronised state, which only
`startShell` keeps across an effect (`onBusy`). `WorkEnds` is the work's exit, of any
kind: a shell's may be an error, a defect, an interruption, or an interruption mixed with a failure of the teardown; `FinishRun`,
`FinishShell`, `OnIdle`, `Complete` are the steps of the `onExit` handlers; `CallerGone` is the
interruption of a shell's caller. `Cancel` to `CancelOnIdle` are the awaits of `cancel`.

`SessionRunState` extends `Runner`: `Lookup` is `runner()`, `DropEntry` the `onIdle` that deletes the
session's entry and publishes idle, `MarkBusy` the `onBusy` and the head of each round of the loop. A
session may have several runners, because one that left the map may still be stopping for a cancel.
`deleter[r]` is history: whose `onIdle`, called for another runner, deleted the entry of runner r.
`CallMay` and `FiberMay` say that a fiber that can go on without waiting is not overtaken, which is
how Effect's scheduler treats short stretches; `Runner` and its proofs do without that restriction.

External: Effect's fibers, deferreds and latches. A forked fiber has entered its `onExit` before it can
be interrupted.

### 3.4 SessionPrompt

`Arrive` is the busy check, `Number` and `Store` are `persistPrompt` (id first, row after the parts
are resolved), `Loop` and `Enqueue` the two continuations. `Drain`, `DrainTurn`, `DrainNext` are
`drainQueuedTurns`; `Read`, `StartTurn`, `FinishTurn`, `FailTurn` one round of `runLoop` under the
Runner (`"run"`) or under the drain (`"drain"`). Messages are numbers in the order of their ids;
`TurnIsOver` is the exit test. `EndDrain` and `DrainTurn` leave `draining` up when a drain fails: the reset is
in a `finally` of an Effect generator (`prompt.ts:1836`), and Effect abandons a generator at the yield that
fails instead of returning from it.

`StartShell` to `FailShell` are `shell` and `shellImpl`, which stores a message and a reply of its own before it
runs the command. A shell makes the session busy (`AssertNotBusy`), and a run that is asked for meanwhile is
`"pending"` until `FinishShell`. Of the Runner only joining, ending and cancelling of its run and its shell are
kept. `Cancel` is one step, in which the Runner becomes idle, as the code's `modify` does before the old loop
has stopped; those who awaited the loop go on in steps of their own, at any later time (a run cancelled behind a
shell is settled only once the shell is over: `held`), and what the interrupted loop does until it stops is left
out: it may mark its own unfinished reply as aborted, which no guard of the model looks at. Tool calls,
compaction, subtasks and the plugins' continuation texts only prolong a turn and are left out, which
is why the component counts as partly modelled.

A behaviour has one of the `Environments`. If it is not `overlapping`, a prompt reaches its loop or the queue
before the next arrives and before a loop reads; if it is, everything overlaps. The record also names the
prompts and shells that are called, and bounds failures, cancels and messages.

### 3.5 Permission

`Ask` evaluates the rules and registers the request in one step, since nothing between the two waits;
`Asked` is the published event, `Answered` the await of the deferred with the ensuring that removes the
entry, `Abort` the tool call's interruption at either place. `Reply` deletes the entry,
`SettleReply` settles it, `Visit` and `SettleItem` are the two halves of an iteration of the cascade, and
`EndLoop` its end. `Dispose`, `FailPending` and `Clear` are the finalizer. Wildcard matching is abstracted
to a rule per pattern; a stored approval precedes the ruleset, as `evaluate` takes the last match.
A reply that has begun runs to its end.

### 3.6 RemoteRuntimeManager

One account. A start is a number, in the order of arrival, and the entry it makes has its name, so that
`entries` can hold, lose and replace an entry while another call still works with it. `Start`, `StartGoesOn`,
`NoTicket`, `Ticket` and `StartReturns` are the awaits of `start`; `GoOn` is its loop over the superseded
runtimes and the making of the entry. `StopEntries` and `StopEnded` are `stopEntry` before and after it awaits
the connector loop, for `start` and for `stop`. `run[s]` is the connector loop: in a session, attached, asleep
before a reattachment, in its `finally`, or done. `MarkOnline` and `SessionEnds` are what a connector session
(`index.ts`) reports and how it ends; `LoopEnds` is the `then` and the `catch` of `entry.run`. `StartReturns`
is enabled at any time, because `waitForAttachment` gives up after five seconds.

Left out: the entries that `materializeAllowedDirectoryEntry` makes for further directories of a runtime
(`remote-runtime-manager.ts:750`), the project context with its watchers, the command handlers, what is delivered
to clients, encryption. A child entry has the AbortController of its primary and no loop of its own, so its stop
aborts the primary's session and reports "stopped" without waiting for it: `StoppedIsQuiet` is about entries
that have a loop.
`overlapped` is history: whether a start has come while another was under way.

### 3.7 SyncEvents

One session, a writing machine and a following one whose processes work with the database files that `path`
assigns. `Process` is the transaction of `process`: projector, sequence row, event row, or nothing. `Run` is
`run`, with the number read in the same immediate transaction; `RemoveLog` is what `Session.remove` does after
the deletion event. `Post` is a client that has read the history from some number on and posts it;
`ReplayRead`, `ReplayResolve` and `ReplayWrite` are the three database accesses of `replay`, between which
another process may act. Of the projectors it is kept when they throw and when they ignore what they are
given. `Kill` ends a call in its middle; SQLite keeps what was committed.

### 3.8 InstanceStore and Question

One directory. Calls are numbers in the order of arrival, and a cache entry has the name of the `load` or
`reload` that made it. `fork[c]` is the fiber of that entry (waiting for the entry it replaces, running
disposers, booting), `call[c]` the caller; `Interrupt` may come to any caller that waits, of whichever operation. `Dispose`, `DisposeAll`, `DisposeSettled` and `Disposed` are
`dispose` and `disposeAllOnce` with `disposeEntry`, which looks at the cache before and after the finalizers;
`Joined` is `cachedWithTTL`, which lets concurrent calls of `disposeAll` share one. `gen` numbers the states
that a service makes for the directory: `Get` makes one if there is none, `RunDisposers` drops it, whoever's
instance it served.

`Question` extends the store: `Finalizing` runs the finalizer with the step that drops the state, `Ask` to
`AskInterrupt` are the asker, `Take` and `Settle` the two halves of `reply` and `reject`. The scoped cache and
deferreds are Effect's and external.

### 3.9 LocalState

`Update`, `Begin` and `Finish` are the queue of a process (`enqueue`), `OpenLock` to `Wait` and `Release` the
lock file (`withLock`), with `Stat`, `Judge` and `RemoveStale` the three file operations of
`recoverStaleLock`. A lock file is named by the update that made it, but every operation after its creation
goes by path. `Read`, `Quarantine` and `Write` are the state file; the write of the temporary file and its
rename are one step, since nobody else knows the temporary file. The state is the set of updates it contains.
Age is nondeterministic: any lock may have become older than five seconds, except that a living process fills
the file it made before that. `content` is what the lock file holds: nothing, the process id, or a part of it,
which a process that is killed while it writes, or whose write fails, leaves behind; a recovery takes an empty
file for stale and never removes one that cannot be parsed. The synchronous store is the same protocol without the queue. `raced` is
history: whether a recovery has removed a lock file other than the one it had found to be old.

Left out: the exported `write` (`cli-local-state/src/index.ts:132`), which replaces the file without queue or lock and so may lose
anybody's update by its nature (the goal plugin uses it); the retention of the latest quarantined files
(`:528`), so that the `shelf` of the model only grows; and a failing close of the lock file.

## 4. Runs

| Run | Instance | What it shows |
| --- | --- | --- |
| `flock` | 3 processes; 2 crashes outside the breaker, or 1 crash anywhere and 1 pause; waiters may give up | exclusion, cleanup hits dead owners only, release what it has checked; the lock never wedges |
| `flock_crashed_cleaner` | 3 processes, 2 crashes, the breaker included | violation of `OneCleaner` |
| `turn_queue` | 4 prompts, steering allowed | one turn at a time, no stranded item, refinement of `TurnFifo` with liveness |
| `turn_persist` | 3 prompts, 1 failing host call, 1 turn of the host's own | no lost wake-up; a failure costs one signal; accepted prompts are answered |
| `turn_stranded` | 3 prompts, 1 failing call, a host without busy queries | violation of `RetryReachesSignals` |
| `run_state` | 2 runners in succession, 2 runs, 1 shell, 1 cancel | nothing lost track of, cancel returns, waiters answered; who can hide a running session, and that a quiet one is idle |
| `prompt` | 3 prompts, or 2 and a shell; in turn with 1 failure and 1 cancel, or overlapping with either and at most 5 messages; 3 and a shell in turn without failures | the two loops exclude each other and every prompt is answered; one drain, and no queue without one unless a failed drain left its flag up |
| `permission` | 3 requests of two sessions, 2 replies, aborts, disposal | grants justified, nobody stranded, cascades complete and contained, disposal answers all |
| `manager` | 3 starts of 2 runtimes, 1 stop, 1 client | one live runtime if starts do not overlap; stopped means no session; no subscription outlives its runtime; calls return |
| `sync` | 4 events, 2 processes with 1 or 2 files, 1 of them killed | logs without gaps, followers have a prefix, nothing applied twice, they catch up |
| `question` | 4 calls of the store, 2 states, 1 question | one boot at a time, late disposals spare successors, askers reachable, calls return |
| `local_state` | 3 updates and 1 read in 2 or 3 processes, 1 crash, failing writes of the lock, corrupt or absent file | updates serialized, none lost, every call ends |

Why the bounds are enough. Flock: a bad cleanup needs an owner that is gone, a cleaner and a newcomer: three
processes; two crashes let both the first and the second owner die. Turn coordinator: one prompt whose object
is deleted, one that holds the old object, one that gets the new. Queueing mode has four so that two can wait
in the queue and change places. Runner: a run that is cancelled, one that begins meanwhile, a shell before
them, and the cancel between. SessionPrompt: one prompt with the loop, one with the drain, one that arrives in
between, and a shell before, between or after them; the bound on messages is 16 where it must not bind (three
prompts, a shell, one failure and their replies need fewer) and 4 or 5 where prompts overlap, where it bounds loops that keep each other going. Manager: a runtime under
way, one that supersedes it, a third start that comes to what they left, and a stop between. Sync: a creation,
two events and a removal, or a deletion and a late message; two processes suffice for a stale read. Question:
an entry that boots, a reload that replaces it, a disposal that comes late and one more call; two states, the
dropped one and its successor. Local state: an owner that dies and two that find its lock. Permission: a reply
concerns its own request, one that its approval covers, and one of another session; two replies race.

Deadlock is checked except where everything may legitimately be over: in permission, prompts, run state,
manager, sync, question and local state there is a finite supply of calls, and the liveness properties of
those runs say that nobody is stuck before. Where the check is on, a step `Finished` stands for that end.

Two runs are expected to find a violation, each of something that a comment or a test says:

* `flock_crashed_cleaner`. `flock.ts:185` says "Breaker ownership ensures only one contender performs
  stale cleanup." After a cleaner has crashed, two contenders stat the stale breaker; the faster removes it,
  a third claims a fresh one, and the slower's `rm` removes the fresh one.
* `turn_stranded`. `session-turn-coordinator.ts:122` says "Keep any unstarted persisted signals queued so
  a later submission can retry draining the session." The object that keeps them can be deleted from the map
  by another submit's `cleanup`, which deletes by key; a later submission then gets a new, empty object.

## 5. Fairness

Weak fairness throughout, and only where the code or its libraries guarantee progress.

* `Flock`: the steps of a live process, the end of a critical section, and the clock. Not: acquiring,
  giving up, heartbeats, crashes, restarts.
* `SessionTurnQueue`, `SessionTurnPersist`: the host's promises settle (a host call that never settles
  blocks the session by design) and turns of the host's own end. Not: submitting, throwing.
* `Runner`: handlers and cancels go on when they can, and an interrupted fiber ends; a work that
  nobody interrupts may run for ever. `WaitersAnswered` therefore excepts works that never end, and
  `CancelReturns` does not.
* `SessionPrompt`: fibers go on when they can, a turn of the model ends, and so does a shell's command. Not: arriving,
  failing, cancelling.
* `Permission`: the publishing of events, replies that have begun, and the finalizer. Not: asking, replying,
  aborting, disposing; a request may wait for the user for ever.
* `RemoteRuntimeManager`: calls and loops go on when they can, and a session ends once its signal is aborted,
  which the connector listens to. Not: starting, stopping, a session's end of its own accord, attaching.
* `SyncEvents`: a call of replay goes on; strong fairness of posting the whole history, as a client that
  retries until it is in step does. Not: writing, crashing, other posts.
* `InstanceStore`, `Question`: boots and finalizers end, well or not, and fibers that can go on do. Not:
  calls, interruptions, answers.
* `LocalState`: calls of a living process go on; strong fairness of an update's giving up, since its deadline
  passes however often it finds the lock taken. Not: calling, crashing.

## 6. Proofs

All proofs are for every value of the constants: any sets of processes, prompts, runs, cancels, requests and
rules, any number of calls and questions, and any bounds. Each rests on an inductive invariant; the theorems
that `PROJECT.json` ties to a property of a run state for every instance what the run checks on one. The
inductive invariants were themselves checked by TLC before they were proved.

The assumptions on the constants only keep names apart and give bounds and tables their types: that a call has
one role (a run is no shell and no cancel, an update is no read, a stop is no number), that the values which
stand for nothing (`None`, the absent and the corrupt file) are names of nothing else, and that plans,
placements, stored rules and bounds have the shape in which the modules use them.

* **FlockProofs.** `TypeCorrect`, `TokensLast` and `ReleaseSafe` need no hypothesis: `TokenInv` says that a token,
  once read by its owner, is there until the directory goes, and `ReleaseSafe` that a release removes a directory
  without its token only in that case, and not at all under a `Reliable` plan. `Safe`, `Exclusion`,
  `SingleCleaner` and `CleanupSafe` are about behaviours whose plan is `Reliable`: no pauses past `staleMs`, and no
  crash inside the breaker. Both are needed: the run `flock_crashed_cleaner` refutes the second theorem without the one,
  and section 7 (a) describes what a pause does. The invariant `SafeInv` says that the breaker exists exactly
  while its live maker is inside it and never looks stale, and that whoever is between its mkdir and the end
  of its release made the directory at the path, which is fresh and carries its token once written; and that a
  cleaner about to remove sees an old directory. Exclusion follows, as the directory has one maker.
* **SessionTurnProofs.** `QueueCorrect`, `Serial`, `NobodyStranded`, and `FifoRefinement`: initial states and
  steps of the coordinator are those of `TurnFifo`. The invariant says that the registered object is the one being
  drained, that every other object is empty, and that its queue holds exactly the waiting prompts, each once, with
  one prompt before the host. The second half is about the persisting mode,
  `SessionTurnPersist`: `PersistCorrect`, and from it `NoLostWakeup` and `FailuresCostOneSignal`. For the
  first, `FlagWatched` adds to `SignalsWatched` that a raised flag, too, has somebody who will look at the
  signals, since whoever finds it up relies on that. For the second, `Accounted` says that every accepted
  message that has neither an answer nor a signal is charged to a failure, or is the one that some drain has
  shifted last and that drain's loop will have seen; several drains may be at work on one object, because a
  direct prompt takes the flag whoever has it.
* **RunnerProofs.** `RunnerCorrect`, and from it `WorkTracked`, `WaitersOwned`, `AbortsClean`. `RunnerInv`
  adds to the properties what the state refers to (`Attached`, `Alive`), that only `startShell` holds the lock
  across an effect (`Locked`), what a cancel has captured (`Captured`), and how a finished fiber left its
  deferred (`Accounted`). The second half of the module is about `SessionRunState`: its steps are steps of
  `Runner`, except for a cancel that finds no entry, so `RunnerInv` holds there too (`RunnerKept`), and
  `RunStateCorrect` adds `RunStateInv`. From it follow `HiddenOnlyByLateCancel` and `QuietSessionsAreIdle`.
  Neither property is inductive. The first is about `deleter`, and needs in addition that a work about to call
  `onIdle` without an entry of its own has lost it to somebody (`Hidden`): only then may it delete the next
  runner's. The instance of the run reaches a cancel that hides a runner; a work so hidden that hides the next
  takes three runners, and the theorem covers it. The second needs that an entry or a busy status always has
  somebody who will yet call `onIdle` (`IdleToCome`). Both lean on `InStride` and `StillSo`: what a fiber found when
  it decided is still so when it acts, because a fiber that need not wait is not overtaken.
* **SessionPromptProofs.** `PromptCorrect`, and from it `NeverTwoLoops`, `QueueIsServed`, `OneDrainAtATime` and
  `MessageFound`. `DrainInv` says that a drain at work has the flag up and that the queue's loop is its turn,
  `QueueInv` that a message is queued once, and `JamInv` that the flag is up without a drain only after a failure
  that left something in the queue; `NoStrandedQueue` is inductive with them.
  `InTurn` is the argument for `NeverTwoLoops`: if prompts do not overlap, one that was told the session is idle
  is still right when it stores its message, and the run that a drain waited for is the last before its turn.
  `Grounded` is the argument for `MessageFound`, which needs no such restriction: a prompt is queued only
  because somebody before it found the session idle and stored a message that is never held back, or because a
  shell was started. `prompt.ts:1493` says of a loop that finds no user message "This should never happen"; the
  theorem says when it can: never in a queued turn, and in the Runner's loop only where a shell came that has not
  stored its message or failed before it could. No run checks `MessageFound` on its own; its invariant was checked
  with the instance of the run `prompt`.
* **RemoteRuntimeManagerProofs.** `ManagerCorrect`, and from it `OneRuntime`, `StoppedStaysQuiet` and `EndsClean`.
  `StoppedIsQuiet` is inductive together with `Reported` (a loop begins with the ticket, and a live one never
  reports "stopped"); `OneActive` is not: `WayCleared` adds that, where starts do not overlap, whatever is live is
  ahead of a start in its list of runtimes to stop, and that nothing is live once it asks for its ticket.
* **StoreProofs.** For `LocalState`: `TurnsTaken` (the queues), `LockCorrect` (the lock file), and from them `UpdatesSerialized`
  and `NothingLost`. `LockInv` says that a lock file is made once, so that one that was found old does not come
  back; that one judged to be stale has lost its maker, whatever was left in it; and hence that a holder has the lock file until a
  recovery removes another file than the one it judged, which is what `raced` records. `FileInv` adds what the
  file contains: an update is in no file before it is written, what is written includes what it replaces, and
  what was written is in the file or on the shelf.
  For `SyncEvents`: `SyncCorrect`, and from it `NumberedLogs` and `FollowersFollow`. `Copies` says that a
  follower's log is a copy of the beginning of the writer's and that only the file in use has the session;
  `CallInv` that what is on its way is in the writer's log at the place that its number says, and that an event
  past the comparison of numbers is the next one or an earlier one, whose id the event table then refuses. That
  is the argument for the comparison outside the transaction: it only has to keep gaps out, since the primary
  key keeps repetitions out. `Projected` ties the rows to the log (every event has taken effect up to the
  deletion, which is the last that does), so that followers apply a prefix too; `LoggedInv`, for files that
  differ and logs that begin again, says that what has taken effect is logged, hence never taken twice.
* **PermissionProofs.** `PermissionCorrect`, and from it `GrantsJustified`, `AskersReachable`,
  `CascadesComplete`, `RejectsContained`. `Bookkeeping` says what a reply under way knows of its request;
  `LoopCovers` says that what a cascade still owes lies ahead of its iteration, which is what makes it
  complete at its end although other replies delete entries meanwhile. The lemma `AllowStays` (approvals only
  ever add) carries grants past later replies.
* **QuestionProofs.** `StoreCorrect`, and from it `OneBootAtATime`; `SparesSuccessor` and `NobodyLeftBehind`
  rest on the types alone. That no two entries boot at a time is not inductive: `StoreInv` adds that calls
  come in order (`InOrder`), that the cached entry is the latest and none is at work when none is cached
  (`CacheIsLatest`), that a reload waits for its immediate predecessor (`WaitsForLatest`), and that while an
  entry is at work every later one waits for one that is at work too (`LaterWait`). The last of these is the
  argument: a chain of reloads has one fiber past its wait, the one at the head.

Only model-checked: everything under fairness (`Recovers`, the liveness part of `ImplementsFifo`,
`AcceptedAnswered`, `CancelReturns`, `WaitersAnswered`, `EveryPromptAnswered`, `DisposeFreesAll`, `CatchesUp`,
`CallsReturn`, `CallsEnd`), which is beyond the prover.

## 7. Observations

Behaviours met while modelling that bound what the runs claim:

a. In `Flock` a process paused between the token check (`flock.ts:241`) and the `rm` (`:264`) of its release
   for longer than `staleMs` removes the next owner's directory. The comment at `:259` says
   "Token check prevents deleting a lock that was re-acquired by another process."; `ReleaseRemovesOwnLock` says that
   the check does so for a lock re-acquired before it, and exempts, through `swept`, the directory that changes hands after it. Exclusion has no such remedy, hence
   `Reliable` there.
b. `Recovers` counts "the lock is compromised" as progress: after a pause an owner-to-be may find its directory
   replaced, and its catch removes the replacement.
c. In the persisting mode two submits that are both told the session is idle run at once
   (`session-turn-coordinator.ts:139`); `TurnsSerial` is a property of the queueing mode only.
d. In `SessionRunState` a cancel that comes to its `onIdle` late deletes the entry of the runner that succeeded the
   one it cancelled (`run-state.ts:58`). A runner so hidden may, when its work ends, delete the entry of the runner
   after it in turn. `HiddenByLateCancel` says that these are the only ways a busy runner goes unseen.
e. In `SessionPrompt` with overlapping prompts `OneLoop` and `EveryPromptAnswered` fail: the busy check is
   acted upon after the store (`prompt.ts:1855`), and a message stored but not yet queued is read by the
   active loop. Two overlapping loops may each take the other's unfinished reply for the last message and go on.
   Hence the two environments.
f. In `SessionPrompt` a drain that fails, because its turn does or the loop it joined, leaves `draining` up, since the
   `finally` that resets it (`prompt.ts:1836`) does not run when the yield at `:1831` fails. From then on every
   prompt of the session is queued and no drain begins: `Jammed`. `NoStrandedQueue` and `OneDrain` say that nothing
   else jams a session. After a shell was started in an empty session, the first prompt is queued and hidden from
   the loop that its drain joins; if the shell failed before it stored its message, that loop finds no user message
   at all and throws at `:1493`. And a shell's message that is newer than a queued prompt's makes the exit
   test (`:1507`) look at the wrong message, so that the queued turn may end at once: `EveryPromptAnswered` excepts it.
g. A queued turn's loop is not the Runner's work (`prompt.ts:1818`): while it runs `assertNotBusy` lets
   callers pass, on which `revert.ts` relies, and `cancel` finds nothing to stop. `prompt.test.ts:1518`,
   "assertNotBusy throws BusyError when loop running", is about the Runner's loop only.
h. In `RemoteRuntimeManager` two starts that overlap can leave two runtimes of an account live, because each
   stops what it found before its own awaits; `remote-runtime-manager.test.ts:4544`, "keeps only one active
   runtime per account", starts them one after the other, and `OneActive` assumes that. A start whose ticket
   is refused deletes the entry of its key (`remote-runtime-manager.ts:2543`), which may be that of a later
   start: that runtime goes on and no stop finds it.
i. In `SyncEvents`, `replay` reads the sequence row of the process's current file and writes to the file that
   has the session (`sync/index.ts:74`, `:98`). If these differ, events are refused or applied with gaps;
   `LogsNumbered` and `FollowsWriter` claim numbering and order where the processes share a file.
   `Session.remove` deletes the log together with the deletion event (`session.ts:569`), so a follower never
   hears of it, and late messages begin a new log at zero. Of two processes that replay the same event at
   once, one fails on the primary key instead of ignoring it.
j. In `InstanceStore` a `load` that comes while its entry is being disposed of gets the context that is going
   away. A service state made then outlives the entry, and the next instance of the directory finds it. A
   question whose asker is interrupted while the event is being published stays in the map.
k. In `LocalState` a recovery removes whatever lock file is at the path after it has looked at an older one
   (`cli-local-state/src/index.ts:454`), so two updates that recover one dead lock, or one that was delayed
   past the release of a slow owner, can remove a living owner's file: `raced`. A torn lock file, whose JSON
   is incomplete, is never recovered (`:452`, `:458`): updates then end by timing out, which is all that `CallsEnd`
   asks. A read may quarantine a file that an update has just
   repaired (`:498`); the data is on the shelf, not lost.

## 8. Not modelled

`PROJECT.json` lists every part with its reason. In short: the commands inside a connector session, the
delivery of events and their encryption, schemas, projections and adapters; the inside of a turn (the
processor's consumption of the provider's stream, retry, compaction), which is sequential within a turn that
`SessionPrompt` treats as a whole; goals, which are rules on one record; git and terminals; the terminal
interface, routes, catalogues, configuration and tools, which are sequential or input and output; the SDK,
which is generated. By lines these are most of the repository: the modules cover the parts in which calls,
processes or machines can meet. The status events that services publish are left out of the models, among them
the last `setQueued` of a drain, which can overwrite a newer queue.

## 9. Running

    tlc -config Flock.cfg MCFlock
    tlc -config Permission.cfg MCPermission
    tlapm FlockProofs.tla

`PROJECT.json` names the module and configuration of each run. The longest takes two to three
minutes with two workers; the proofs take about a minute each or less.
