--------------------------- MODULE SessionPrompt ---------------------------
(***************************************************************************)
(* SessionPrompt.prompt, loop, shell and cancel of one session, and the    *)
(* queue of prompts that arrived while it was busy.  A prompt that finds   *)
(* the session idle is stored and answered by a loop under the session's   *)
(* Runner; one that finds it busy, with a loop or with a shell command, is *)
(* stored, queued, and answered by a drain that calls runLoop on its own   *)
(* once the Runner's work is over.                                         *)
(*                                                                         *)
(* Messages are numbered in the order of their ids.  Of the Runner, which  *)
(* has a module of its own, only what loop(), shell and cancel need is     *)
(* kept: the shell and the run there are, and how each run ended.  The     *)
(* model provider is external; tool calls, compaction and subtasks, which  *)
(* only prolong a turn, and the plugin's continuation texts are left out.  *)
(***************************************************************************)
EXTENDS Naturals, Sequences, FiniteSets, FiniteSetsExt, SequencesExt

CONSTANTS
    Prompts,      \* the calls of prompt, each with the message it stores
    Shells,       \* the calls of shell, each with the message it stores
    Environments  \* what may happen around the prompts, one record per kind of behaviour

None == "none"
ASSUME NoneAssumption == None \notin Prompts \cup Shells
ASSUME ShellAssumption == Prompts \cap Shells = {}

Senders == Prompts \cup Shells

\* overlapping: may a prompt arrive, or a loop read the messages, while another prompt is on its way
\* from the store to its loop or the queue?  senders: the prompts and shells that are called.
\* failures, cancels, messages: bounds on the turns and shells that fail, the calls of cancel, and
\* the messages of the session (two loops that each take the other's unfinished reply for the last
\* one keep each other going).
ASSUME PromptAssumption ==
    Environments \subseteq [overlapping : BOOLEAN, senders : SUBSET Senders,
                           failures : Nat, cancels : Nat, messages : Nat]

Loops == {"run", "drain"}   \* runLoop under the Runner, and called by drainQueuedTurns

VARIABLES
    pc,        \* pc[p]: how far the call of prompt p is
    busy,      \* busy[p]: what prompt p took the session for
    clock,     \* the last message id that was given out
    id,        \* id[m]: the id of the message of prompt or shell m, 0 before it has one
    saved,     \* the prompts and shells whose message is in the store
    replies,   \* the assistant messages in the store
    queue,     \* queuedTurns' messageIDs
    draining,  \* queuedTurns' draining, which stays up when a drain fails
    active,    \* queuedTurns' active, or None
    dpc,       \* dpc[p]: how far the drain forked by prompt p is
    joined,    \* joined[p]: the run that prompt p, or the drain it forked, awaits
    lpc,       \* lpc[l]: how far loop l is; "pending" while it waits for a shell
    saw,       \* saw[l]: the messages that the current turn of loop l works from
    reply,     \* reply[l]: the id of the assistant message of that turn
    ended,     \* the number of runs that are over
    broken,    \* the runs among them that failed
    answered,  \* the prompts and shells that a finished turn has worked from
    spc,       \* spc[s]: how far the command of shell s is
    shell,     \* the shell of the Runner, or None
    held,      \* held[s]: the run cancelled with shell s, to be settled once s is over
    env,       \* the environment of this behaviour
    failures, cancels

calls == <<pc, busy, dpc, joined>>
store == <<clock, id, saved, replies>>
queued == <<queue, draining, active>>
loops == <<lpc, saw, reply, answered>>
runs == <<ended, broken>>
shells == <<spc, shell, held>>
counts == <<env, failures, cancels>>
vars == <<calls, store, queued, loops, runs, shells, counts>>

Init ==
    /\ pc = [p \in Prompts |-> "new"] /\ busy = [p \in Prompts |-> FALSE]
    /\ clock = 0 /\ id = [m \in Senders |-> 0] /\ saved = {} /\ replies = {}
    /\ queue = <<>> /\ draining = FALSE /\ active = None
    /\ dpc = [p \in Prompts |-> "off"] /\ joined = [p \in Prompts |-> 0]
    /\ lpc = [l \in Loops |-> "off"] /\ saw = [l \in Loops |-> {}] /\ reply = [l \in Loops |-> 0]
    /\ ended = 0 /\ broken = {} /\ answered = {}
    /\ spc = [s \in Shells |-> "new"] /\ shell = None /\ held = [s \in Shells |-> 0]
    /\ env \in Environments /\ failures = 0 /\ cancels = 0

----------------------------------------------------------------------------
(* loop(): join the run there is, or start one, after the shell if there   *)
(* is one.                                                                 *)

\* Runs are numbered: the one there is, or the next one, is number ended + 1.
Join(p) ==
    /\ joined' = [joined EXCEPT ![p] = ended + 1]
    /\ lpc' = [lpc EXCEPT !["run"] = IF @ # "off" THEN @ ELSE IF shell = None THEN "read" ELSE "pending"]

\* The run that p joined is settled: one that was cancelled with a shell is once the shell is over.
Over(p) ==
    /\ ended >= joined[p]
    /\ \A s \in Shells : held[s] = joined[p] => spc[s] \in {"over", "failed"}

----------------------------------------------------------------------------
(* runLoop                                                                 *)

MaxId(S) == Max({id[m] : m \in S})
LastUser(S) == CHOOSE m \in S : id[m] = MaxId(S)
LastReply == CHOOSE r \in replies : \A s \in replies : s.id <= r.id
Visible == saved \ ToSet(queue)

\* Mutant: a queued turn ends at once if a reply to an older message is newer than it.
TurnIsOverByAge(S) ==
    /\ replies # {} /\ LastReply.finish /\ MaxId(S) < LastReply.id

\* The exit test: the last reply is a finished one to the last message, unless a queued message
\* that is older than the last reply is still waiting for its own.
TurnIsOver(S) ==
    LET user == LastUser(S) IN
    /\ replies # {} /\ LastReply.finish /\ id[user] < LastReply.id
    /\ ~(user = active /\ LastReply.parent # active)

\* How loop l ends; what follows depends on who called it.
EndRun(failed) ==
    /\ ended' = ended + 1
    /\ broken' = IF failed THEN broken \cup {ended + 1} ELSE broken
    /\ UNCHANGED <<queued, dpc>>

\* A failed turn puts its message back and fails the drain.  Its generator is abandoned where the
\* failure is yielded: the finally around the loop does not run, and the flag stays up.
EndDrain(failed) ==
    /\ active' = None
    /\ dpc' = [p \in Prompts |-> IF dpc[p] # "turn" THEN dpc[p] ELSE IF failed THEN "off" ELSE "head"]
    /\ queue' = IF failed THEN <<active>> \o queue ELSE queue
    /\ UNCHANGED <<draining, runs>>

EndLoop(l, failed) ==
    /\ lpc' = [lpc EXCEPT ![l] = "off"]
    /\ IF l = "run" THEN EndRun(failed) ELSE EndDrain(failed)

\* The head of a round: read the messages, and stop or go on to a turn.  A loop that finds no user
\* message throws.
Read(l) ==
    /\ lpc[l] = "read"
    /\ env.overlapping \/ \A p \in Prompts : pc[p] # "stored"
    /\ IF Visible = {} \/ TurnIsOver(Visible)
       THEN EndLoop(l, Visible = {}) /\ UNCHANGED saw
       ELSE /\ lpc' = [lpc EXCEPT ![l] = "start"] /\ saw' = [saw EXCEPT ![l] = Visible]
            /\ UNCHANGED <<queued, dpc, runs>>
    /\ UNCHANGED <<pc, busy, joined, store, reply, answered, shells, counts>>

\* Store the assistant message and call the model.
StartTurn(l) ==
    /\ lpc[l] = "start"
    /\ clock < env.messages
    /\ clock' = clock + 1
    /\ replies' = replies \cup {[id |-> clock + 1, parent |-> LastUser(saw[l]), finish |-> FALSE]}
    /\ reply' = [reply EXCEPT ![l] = clock + 1]
    /\ lpc' = [lpc EXCEPT ![l] = "turn"]
    /\ UNCHANGED <<calls, id, saved, queued, saw, answered, runs, shells, counts>>

\* The model is done: finish the message and go for another round.
FinishTurn(l) ==
    /\ lpc[l] = "turn"
    /\ replies' = {[r EXCEPT !.finish = @ \/ r.id = reply[l]] : r \in replies}
    /\ answered' = answered \cup saw[l]
    /\ lpc' = [lpc EXCEPT ![l] = "read"]
    /\ UNCHANGED <<calls, clock, id, saved, queued, saw, reply, runs, shells, counts>>

\* The model fails: the processor reports "stop" and the loop ends, or the whole loop fails.
FailTurn(l) ==
    /\ lpc[l] = "turn"
    /\ failures < env.failures /\ failures' = failures + 1
    /\ \E failed \in BOOLEAN : EndLoop(l, failed)
    /\ UNCHANGED <<pc, busy, joined, store, saw, reply, answered, shells, env, cancels>>

----------------------------------------------------------------------------
(* prompt                                                                  *)

\* assertNotBusy: does it let its caller pass?  A run, a shell, and a run behind a shell are busy.
AssertNotBusy == lpc["run"] = "off" /\ shell = None

Storing == {"arrived", "numbered", "stored"}

\* Prompt q is not stored yet, or the drain that it forked has not begun.
OnItsWay(q) == pc[q] \in Storing \/ dpc[q] = "forked"

\* Mutant: the queue's own loop does not make the session busy.
ArriveIgnoringDrain(p) ==
    /\ pc[p] = "new" /\ p \in env.senders
    /\ env.overlapping \/ \A q \in Prompts : ~OnItsWay(q)
    /\ pc' = [pc EXCEPT ![p] = "arrived"]
    /\ busy' = [busy EXCEPT ![p] = ~AssertNotBusy]
    /\ UNCHANGED <<dpc, joined, store, queued, loops, runs, shells, counts>>

\* Is the session busy?  The answer is used once the message is stored.
Arrive(p) ==
    /\ pc[p] = "new" /\ p \in env.senders
    /\ env.overlapping \/ \A q \in Prompts : ~OnItsWay(q)
    /\ pc' = [pc EXCEPT ![p] = "arrived"]
    /\ busy' = [busy EXCEPT ![p] = draining \/ ~AssertNotBusy]
    /\ UNCHANGED <<dpc, joined, store, queued, loops, runs, shells, counts>>

\* persistPrompt: the message gets its id ...
Number(p) ==
    /\ pc[p] = "arrived"
    /\ clock < env.messages
    /\ pc' = [pc EXCEPT ![p] = "numbered"]
    /\ clock' = clock + 1 /\ id' = [id EXCEPT ![p] = clock + 1]
    /\ UNCHANGED <<busy, dpc, joined, saved, replies, queued, loops, runs, shells, counts>>

\* ... and is stored once its parts are resolved.
Store(p) ==
    /\ pc[p] = "numbered"
    /\ pc' = [pc EXCEPT ![p] = "stored"]
    /\ saved' = saved \cup {p}
    /\ UNCHANGED <<busy, dpc, joined, clock, id, replies, queued, loops, runs, shells, counts>>

\* An idle session: loop().
Loop(p) ==
    /\ pc[p] = "stored" /\ ~busy[p]
    /\ pc' = [pc EXCEPT ![p] = "await"]
    /\ Join(p)
    /\ UNCHANGED <<busy, dpc, store, queued, saw, reply, answered, runs, shells, counts>>

\* Mutant: the queued prompt relies on whoever is draining.
EnqueueOnly(p) ==
    /\ pc[p] = "stored" /\ busy[p]
    /\ pc' = [pc EXCEPT ![p] = "returned"]
    /\ queue' = Append(queue, p)
    /\ UNCHANGED <<busy, dpc, joined, store, draining, active, loops, runs, shells, counts>>

\* A busy one: queue the message, fork a drain, and return.
Enqueue(p) ==
    /\ pc[p] = "stored" /\ busy[p]
    /\ pc' = [pc EXCEPT ![p] = "returned"]
    /\ queue' = Append(queue, p)
    /\ dpc' = [dpc EXCEPT ![p] = "forked"]
    /\ UNCHANGED <<busy, joined, store, draining, active, loops, runs, shells, counts>>

\* The run that prompt p joined is over.
Answer(p) ==
    /\ pc[p] = "await" /\ Over(p)
    /\ pc' = [pc EXCEPT ![p] = "returned"]
    /\ UNCHANGED <<busy, dpc, joined, store, queued, loops, runs, shells, counts>>

----------------------------------------------------------------------------
(* drainQueuedTurns, forked by prompt p                                    *)

\* The head of the while loop: join the active loop, or be done.
DrainHead(p) ==
    IF queue # <<>>
    THEN /\ draining' = TRUE
         /\ dpc' = [dpc EXCEPT ![p] = "join"]
         /\ Join(p)
    ELSE /\ draining' = FALSE
         /\ dpc' = [dpc EXCEPT ![p] = "off"]
         /\ UNCHANGED <<joined, lpc>>

\* Mutant: a second drain does not notice the first.
DrainUnguarded(p) ==
    /\ dpc[p] = "forked"
    /\ DrainHead(p)
    /\ UNCHANGED <<pc, busy, store, queue, active, saw, reply, answered, runs, shells, counts>>

\* A drain begins, unless there is one.
Drain(p) ==
    /\ dpc[p] = "forked"
    /\ IF draining
       THEN dpc' = [dpc EXCEPT ![p] = "off"] /\ UNCHANGED <<draining, joined, lpc>>
       ELSE DrainHead(p)
    /\ UNCHANGED <<pc, busy, store, queue, active, saw, reply, answered, runs, shells, counts>>

\* The joined loop is over: take the first message and run its turn.  If that loop failed, so does
\* the drain, as a failed turn does (EndDrain).
DrainTurn(p) ==
    /\ dpc[p] = "join" /\ Over(p)
    /\ IF joined[p] \in broken
       THEN dpc' = [dpc EXCEPT ![p] = "off"] /\ UNCHANGED <<queue, active, lpc>>
       ELSE /\ queue' = Tail(queue) /\ active' = Head(queue)
            /\ dpc' = [dpc EXCEPT ![p] = "turn"]
            /\ lpc' = [lpc EXCEPT !["drain"] = "read"]
    /\ UNCHANGED <<pc, busy, joined, store, draining, saw, reply, answered, runs, shells, counts>>

DrainNext(p) ==
    /\ dpc[p] = "head"
    /\ DrainHead(p)
    /\ UNCHANGED <<pc, busy, store, queue, active, saw, reply, answered, runs, shells, counts>>

----------------------------------------------------------------------------
(* shell                                                                   *)

\* startShell throws BusyError unless the Runner is idle; a queued turn does not count.
StartShell(s) ==
    /\ spc[s] = "new" /\ s \in env.senders /\ AssertNotBusy
    /\ spc' = [spc EXCEPT ![s] = "started"] /\ shell' = s
    /\ UNCHANGED <<calls, store, queued, loops, runs, held, counts>>

\* shellImpl stores a user message ...
ShellMessage(s) ==
    /\ spc[s] = "started"
    /\ clock < env.messages
    /\ spc' = [spc EXCEPT ![s] = "asked"]
    /\ clock' = clock + 1 /\ id' = [id EXCEPT ![s] = clock + 1] /\ saved' = saved \cup {s}
    /\ UNCHANGED <<calls, replies, queued, loops, runs, shell, held, counts>>

\* ... and a reply to it, which never gets a finish reason, and runs the command.
ShellReply(s) ==
    /\ spc[s] = "asked"
    /\ clock < env.messages
    /\ spc' = [spc EXCEPT ![s] = "running"]
    /\ clock' = clock + 1
    /\ replies' = replies \cup {[id |-> clock + 1, parent |-> s, finish |-> FALSE]}
    /\ UNCHANGED <<calls, id, saved, queued, loops, runs, shell, held, counts>>

\* finishShell: the run that waited for the shell starts, unless a cancel took both away.
FinishShell(s) ==
    /\ shell' = IF shell = s THEN None ELSE shell
    /\ lpc' = [lpc EXCEPT !["run"] = IF shell = s /\ @ = "pending" THEN "read" ELSE @]

\* The command exits or is interrupted.
EndShell(s) ==
    /\ spc[s] = "running"
    /\ spc' = [spc EXCEPT ![s] = "over"]
    /\ FinishShell(s)
    /\ UNCHANGED <<calls, store, queued, saw, reply, answered, runs, held, counts>>

\* shellImpl fails before the command runs; its agent may not exist.
FailShell(s) ==
    /\ spc[s] \in {"started", "asked"}
    /\ failures < env.failures /\ failures' = failures + 1
    /\ spc' = [spc EXCEPT ![s] = IF @ = "started" THEN "failed" ELSE "over"]
    /\ FinishShell(s)
    /\ UNCHANGED <<calls, store, queued, saw, reply, answered, runs, held, env, cancels>>

----------------------------------------------------------------------------
\* cancel: stop the Runner's loop and its shell, if there are any; those who joined the loop get the
\* last reply.  The Runner is idle at once.  A shell goes on until its messages are stored.
Cancel ==
    /\ cancels < env.cancels /\ cancels' = cancels + 1
    /\ ~AssertNotBusy
    /\ shell' = None
    /\ held' = IF lpc["run"] = "pending" THEN [held EXCEPT ![shell] = ended + 1] ELSE held
    /\ IF lpc["run"] = "off" THEN UNCHANGED <<lpc, queued, dpc, runs>> ELSE EndLoop("run", FALSE)
    /\ UNCHANGED <<pc, busy, joined, store, saw, reply, answered, spc, env, failures>>

LoopSteps(l) == Read(l) \/ StartTurn(l) \/ FinishTurn(l)
PromptSteps(p) == Number(p) \/ Store(p) \/ Loop(p) \/ Enqueue(p) \/ Answer(p)
DrainSteps(p) == Drain(p) \/ DrainTurn(p) \/ DrainNext(p)
ShellSteps(s) == ShellMessage(s) \/ ShellReply(s) \/ EndShell(s)

Next ==
    \/ \E l \in Loops : LoopSteps(l) \/ FailTurn(l)
    \/ \E p \in Prompts : Arrive(p) \/ PromptSteps(p) \/ DrainSteps(p)
    \/ \E s \in Shells : StartShell(s) \/ ShellSteps(s) \/ FailShell(s)
    \/ Cancel

Spec == Init /\ [][Next]_vars

\* Every fiber that can go on does, and a turn of the model and a command end or are ended.
FairSpec ==
    /\ Spec
    /\ \A l \in Loops : WF_vars(LoopSteps(l))
    /\ \A p \in Prompts : WF_vars(PromptSteps(p)) /\ WF_vars(DrainSteps(p))
    /\ \A s \in Shells : WF_vars(ShellSteps(s))

----------------------------------------------------------------------------
(* Properties                                                              *)

\* A queued prompt waits for the active answer: the queue's loop and the Runner's never work on the
\* session at the same time, as long as prompts do not overlap.
OneLoop == env.overlapping \/ ~(lpc["run"] # "off" /\ lpc["drain"] # "off")

AtWork == {p \in Prompts : dpc[p] \in {"join", "turn", "head"}}

\* The flag is up and no drain is at work: whatever is prompted from now on is only queued.
Jammed == draining /\ AtWork = {}

\* A queued message has a drain that is at work or about to begin, whatever overlaps or is cancelled:
\* the drain that stops hands over to the one forked by the message that came in meanwhile.  The one
\* exception is a session that a failed drain has jammed.
NoStrandedQueue == queue # <<>> => Jammed \/ \E p \in Prompts : dpc[p] # "off"

\* One drain is at work at a time, with the flag up.  The flag is left up only by a drain that failed,
\* because its turn did or the loop it had joined, and never with an empty queue.
OneDrain ==
    /\ Cardinality(AtWork) <= 1
    /\ AtWork # {} => draining
    /\ Jammed => queue # <<>> /\ (failures > 0 \/ broken # {})

\* Every prompt reaches the model: some turn that finishes has worked from its message, unless a
\* turn failed or was cancelled, prompts overlap, or a shell stored a message while the prompt was
\* queued (a newer user message hides the one whose turn it is from the exit test).  (A prompt stays
\* arrived and stays answered, so this says for each that its arrival leads to its answer.)
EveryPromptAnswered ==
    <>[](\/ failures > 0 \/ cancels > 0 \/ env.overlapping
         \/ \A p \in Prompts :
                pc[p] # "new" => p \in answered \/ \E s \in Shells : busy[p] /\ id[s] > id[p])

----------------------------------------------------------------------------
(* What makes them hold, step by step                                      *)

TypeOK ==
    /\ pc \in [Prompts -> {"new", "arrived", "numbered", "stored", "await", "returned"}]
    /\ busy \in [Prompts -> BOOLEAN] /\ joined \in [Prompts -> Nat]
    /\ dpc \in [Prompts -> {"off", "forked", "join", "turn", "head"}]
    /\ clock \in Nat /\ id \in [Senders -> 0..clock] /\ saved \in SUBSET Senders
    /\ \A r \in replies : r.id \in Nat
    /\ queue \in Seq(Prompts) /\ draining \in BOOLEAN /\ active \in Prompts \cup {None}
    /\ lpc \in [Loops -> {"off", "pending", "read", "start", "turn"}]
    /\ saw \in [Loops -> SUBSET Senders] /\ reply \in [Loops -> Nat] /\ answered \in SUBSET Senders
    /\ ended \in Nat /\ broken \in SUBSET Nat
    /\ spc \in [Shells -> {"new", "started", "asked", "running", "over", "failed"}]
    /\ shell \in Shells \cup {None} /\ held \in [Shells -> Nat]
    /\ env \in Environments /\ failures \in Nat /\ cancels \in Nat

Draining(p) == dpc[p] \in {"join", "turn", "head"}

\* The drains: each is forked once, one is at work at most, with the flag up; what it has joined for
\* is still queued, and its turn is the queue's loop.
DrainInv ==
    /\ \A p \in Prompts : pc[p] # "returned" => dpc[p] = "off"
    /\ \A p, q \in Prompts : Draining(p) /\ Draining(q) => p = q
    /\ (\E p \in Prompts : Draining(p)) => draining
    /\ \A p \in Prompts : dpc[p] = "join" => queue # <<>>
    /\ lpc["drain"] # "off" <=> \E p \in Prompts : dpc[p] = "turn"
    /\ lpc["drain"] # "off" => active \in Prompts
    /\ lpc["drain"] # "pending"

\* A message is queued once, after it was stored, and is out of the queue while it is its turn.
QueueInv ==
    /\ \A i \in 1..Len(queue) : pc[queue[i]] = "returned"
    /\ \A i, j \in 1..Len(queue) : queue[i] = queue[j] => i = j
    /\ active \in Prompts => pc[active] = "returned" /\ \A i \in 1..Len(queue) : queue[i] # active

\* A session is jammed by a failure that left something in the queue.
JamInv ==
    draining /\ (\A p \in Prompts : ~Draining(p)) => queue # <<>> /\ (failures > 0 \/ broken # {})

\* As long as prompts do not overlap: one is on its way at most, and the one that found the session
\* idle still does; the run that a drain has joined is the last one before its turn.
InTurn ==
    env.overlapping \/
        /\ \A p, q \in Prompts : OnItsWay(p) /\ OnItsWay(q) => p = q
        /\ \A p \in Prompts : pc[p] \in Storing /\ ~busy[p] => ~draining
        /\ \A p \in Prompts : dpc[p] = "join" /\ ended >= joined[p] => lpc["run"] = "off"
        /\ lpc["drain"] # "off" => lpc["run"] = "off"

\* Whatever overlaps: only prompts that found the session busy are queued, and before them somebody
\* stored a message that is never queued, or started a shell.
Grounded ==
    /\ \A p \in Prompts : /\ p \in saved <=> pc[p] \in {"stored", "await", "returned"}
                          /\ pc[p] = "new" => ~busy[p]
    /\ \A s \in Shells : s \in saved <=> spc[s] \in {"asked", "running", "over"}
    /\ shell # None => spc[shell] # "new"
    /\ \A i \in 1..Len(queue) : busy[queue[i]]
    /\ active # None => busy[active]
    /\ lpc["run"] # "off" \/ draining \/ (\E p \in Prompts : busy[p])
       => (\E p \in saved \cap Prompts : ~busy[p]) \/ \E s \in Shells : spc[s] # "new"

\* What a turn works from is not nothing.
TurnsHaveMessages == \A l \in Loops : lpc[l] \in {"start", "turn"} => saw[l] # {}

PromptInv ==
    DrainInv /\ QueueInv /\ JamInv /\ NoStrandedQueue /\ InTurn /\ Grounded /\ TurnsHaveMessages

\* runLoop finds a user message whenever it reads ("This should never happen" if it does not), and a
\* turn works from one.  Only the Runner's loop may find none, and only if a shell came first that has
\* not stored its message, or failed before it could.
LoopFindsMessage ==
    \A l \in Loops :
        /\ lpc[l] = "read" =>
              \/ Visible # {} /\ LastUser(Visible) \in Visible
              \/ l = "run" /\ \E s \in Shells : spc[s] \in {"started", "failed"}
        /\ lpc[l] \in {"start", "turn"} => saw[l] # {} /\ LastUser(saw[l]) \in saw[l]
=============================================================================
