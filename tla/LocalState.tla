----------------------------- MODULE LocalState -----------------------------
(***************************************************************************)
(* The JSON state files of the CLI: updates of one file by several         *)
(* processes, serialized by a queue in each process and by an advisory     *)
(* lock file between them; reads without the lock; quarantine of a file    *)
(* that cannot be parsed; crashes.                                         *)
(*                                                                         *)
(* A file operation is one step.  The state is abstracted to the set of    *)
(* the updates that it contains.  A lock file is named by the update that  *)
(* made it.  Time is abstracted: a lock may always have become old, except *)
(* that a live process fills the lock file that it made before it is old.  *)
(***************************************************************************)
EXTENDS Naturals, Sequences

CONSTANTS
    Procs,       \* the processes
    Updates,     \* the calls of update
    Reads,       \* the calls of read
    None,        \* no lock file
    Placements,  \* the possible assignments of calls to processes
    MaxCrashes   \* bound on the crashes

ASSUME LocalStateAssumption ==
    /\ Placements \subseteq [Updates \cup Reads -> Procs]
    /\ Updates \cap (Reads \cup {None, "corrupt", "absent"}) = {}

Calls == Updates \cup Reads
Corrupt == {"corrupt"}   \* a file that cannot be parsed
Absent == {"absent"}     \* no file

VARIABLES
    proc,      \* proc[c]: the process of call c
    policy,    \* what is done about a corrupt file: "failClosed" or "quarantine"
    alive,     \* the processes that run
    queue,     \* queue[p]: the updates of process p, the first of them at work
    at,        \* at[c]: where call c is
    lock,      \* the lock file: the update that made it, or None
    content,   \* what the lock file holds: nothing, the process id, or a part of it
    seen,      \* seen[u]: the lock file that update u has found to be old
    file,      \* the state file: Absent, Corrupt, or the set of updates in it
    current,   \* current[c]: what call c has read
    shelf,     \* the quarantined files
    raced,     \* has a recovery ever removed a lock file other than the one it had found to be old?
    crashes

vars == <<proc, policy, alive, queue, at, lock, content, seen, file, current, shelf, raced, crashes>>
lockfile == <<lock, content, raced>>
statefile == <<file, shelf>>
world == <<proc, policy, alive, crashes>>

Inside == {"read", "quarantine", "write", "release"}
Ended == {"done", "failed", "crashed"}

Init ==
    /\ proc \in Placements /\ policy \in {"failClosed", "quarantine"}
    /\ file \in {Absent, Corrupt}
    /\ alive = Procs /\ queue = [p \in Procs |-> <<>>] /\ at = [c \in Calls |-> "idle"]
    /\ lock = None /\ content = "empty" /\ raced = FALSE
    /\ seen = [u \in Updates |-> None] /\ current = [c \in Calls |-> {}]
    /\ shelf = {} /\ crashes = 0

Goto(c, step) == at' = [at EXCEPT ![c] = step]

----------------------------------------------------------------------------
(* update: the queue of the process (enqueue)                              *)

Update(u) ==
    /\ at[u] = "idle" /\ proc[u] \in alive
    /\ queue' = [queue EXCEPT ![proc[u]] = Append(@, u)]
    /\ Goto(u, "queued")
    /\ UNCHANGED <<world, lockfile, statefile, seen, current>>

\* An update begins when those before it in its process are over.
Begin(u) ==
    /\ at[u] = "queued" /\ Head(queue[proc[u]]) = u
    /\ Goto(u, "open")
    /\ UNCHANGED <<world, lockfile, statefile, queue, seen, current>>

\* Mutant: a failed update does not let the next one begin.
FinishOnSuccess(u, step) ==
    /\ Goto(u, step)
    /\ queue' = [queue EXCEPT ![proc[u]] = IF step = "done" THEN Tail(@) ELSE @]

\* The call is over, and the next of the process may begin.
Finish(u, step) ==
    /\ Goto(u, step)
    /\ queue' = [queue EXCEPT ![proc[u]] = Tail(@)]

----------------------------------------------------------------------------
(* The lock file (withLock, recoverStaleLock)                              *)

OpenLock(u) ==
    /\ at[u] = "open"
    /\ \/ lock = None /\ lock' = u /\ content' = "empty" /\ Goto(u, "fill")
       \/ lock # None /\ Goto(u, "stat") /\ UNCHANGED <<lock, content>>
    /\ UNCHANGED <<world, statefile, queue, seen, current, raced>>

Contents == {"empty", "pid", "torn"}

\* The process id is written, to the file that was opened.  If that fails the lock file stays, with
\* nothing in it or a part.
FillLock(u) ==
    /\ at[u] = "fill"
    /\ \/ /\ content' = IF lock = u THEN "pid" ELSE content
          /\ Goto(u, "read") /\ UNCHANGED queue
       \/ /\ content' \in IF lock = u THEN {"empty", "torn"} ELSE {content}
          /\ Finish(u, "failed")
    /\ UNCHANGED <<world, statefile, seen, current, lock, raced>>

\* A lock file that is gone may be opened again, a young one is waited for, an old one looked into.
Stat(u) ==
    /\ at[u] = "stat"
    /\ \/ lock = None /\ Goto(u, "open") /\ UNCHANGED seen
       \/ lock # None /\ Goto(u, "wait") /\ UNCHANGED seen
       \/ /\ lock # None /\ (content = "pid" \/ at[lock] \in Ended)
          /\ Goto(u, "judge") /\ seen' = [seen EXCEPT ![u] = lock]
    /\ UNCHANGED <<world, lockfile, statefile, queue, current>>

\* Mutant: an old lock is stale, whoever has it.
JudgeByAge(u) ==
    /\ at[u] = "judge"
    /\ Goto(u, "remove")
    /\ UNCHANGED <<world, lockfile, statefile, queue, seen, current>>

\* The lock file that is there now is stale if it names no process that is alive; so is none.  One
\* that cannot be parsed is not.
Judge(u) ==
    LET living == content = "pid" /\ proc[lock] \in alive IN
    /\ at[u] = "judge"
    /\ Goto(u, IF lock # None /\ (living \/ content = "torn") THEN "wait" ELSE "remove")
    /\ UNCHANGED <<world, lockfile, statefile, queue, seen, current>>

\* Whatever lock file is there now is removed.
RemoveStale(u) ==
    /\ at[u] = "remove"
    /\ raced' = (raced \/ lock \notin {None, seen[u]})
    /\ lock' = None /\ content' = "empty"
    /\ Goto(u, "open")
    /\ UNCHANGED <<world, statefile, queue, seen, current>>

\* A while later, the file is opened again, or the time is up.
Wait(u) ==
    /\ at[u] = "wait"
    /\ \/ Goto(u, "open") /\ UNCHANGED queue
       \/ Finish(u, "failed")
    /\ UNCHANGED <<world, lockfile, statefile, seen, current>>

\* The lock file is removed, whoever's it is.
Release(u) ==
    /\ at[u] = "release"
    /\ lock' = None /\ content' = "empty"
    /\ Finish(u, IF u \in current[u] THEN "done" ELSE "failed")
    /\ UNCHANGED <<world, statefile, seen, current, raced>>

----------------------------------------------------------------------------
(* The state file (read, write, quarantine)                                *)

\* A read that needs no lock begins.
Look(r) ==
    /\ at[r] = "idle" /\ proc[r] \in alive
    /\ Goto(r, "read")
    /\ UNCHANGED <<world, lockfile, statefile, queue, seen, current>>

\* Where a call goes when it has read, and when it cannot.
AfterRead(c) == IF c \in Updates THEN "write" ELSE "done"
Broken(c) == IF c \in Updates THEN "release" ELSE "failed"

Read(c) ==
    /\ at[c] = "read"
    /\ \/ file = Absent /\ Goto(c, AfterRead(c)) /\ current' = [current EXCEPT ![c] = {}]
       \/ file \notin {Absent, Corrupt}
          /\ Goto(c, AfterRead(c)) /\ current' = [current EXCEPT ![c] = file]
       \/ file = Corrupt /\ Goto(c, IF policy = "failClosed" THEN Broken(c) ELSE "quarantine")
          /\ UNCHANGED current
    /\ UNCHANGED <<world, lockfile, statefile, queue, seen>>

\* Mutant: the file is deleted.
QuarantineDelete(c) ==
    /\ at[c] = "quarantine"
    /\ file' = Absent /\ Goto(c, AfterRead(c))
    /\ UNCHANGED <<world, lockfile, shelf, queue, seen, current>>

\* The file that is there now is put aside; if there is none any more the call fails.  (Of the files
\* put aside the code keeps the latest, eight by default.)
Quarantine(c) ==
    /\ at[c] = "quarantine"
    /\ \/ file # Absent /\ shelf' = shelf \cup {file} /\ file' = Absent /\ Goto(c, AfterRead(c))
       \/ file = Absent /\ Goto(c, Broken(c)) /\ UNCHANGED statefile
    /\ UNCHANGED <<world, lockfile, queue, seen, current>>

\* The new state is written to a temporary file, which is then renamed; or that fails, and the
\* temporary file is removed.
Write(u) ==
    /\ at[u] = "write"
    /\ \/ /\ file' = current[u] \cup {u}
          /\ current' = [current EXCEPT ![u] = @ \cup {u}]
       \/ UNCHANGED <<file, current>>
    /\ Goto(u, "release")
    /\ UNCHANGED <<world, lockfile, shelf, queue, seen>>

----------------------------------------------------------------------------
\* A process is killed: its calls are gone, its files are not, and one may be half written.
Crash(p) ==
    /\ p \in alive /\ crashes < MaxCrashes
    /\ crashes' = crashes + 1 /\ alive' = alive \ {p}
    /\ at' = [c \in Calls |-> IF proc[c] = p /\ at[c] \notin {"done", "failed"} THEN "crashed" ELSE at[c]]
    /\ queue' = [queue EXCEPT ![p] = <<>>]
    /\ content' \in IF lock # None /\ at[lock] = "fill" /\ proc[lock] = p THEN {content, "torn"} ELSE {content}
    /\ UNCHANGED <<proc, policy, lock, raced, statefile, seen, current>>

UpdateStep(u) == \/ Begin(u) \/ OpenLock(u) \/ FillLock(u) \/ Stat(u) \/ Judge(u) \/ RemoveStale(u)
                 \/ Wait(u) \/ Write(u) \/ Release(u)
ReadStep(c) == Read(c) \/ Quarantine(c)

Next ==
    \/ \E u \in Updates : Update(u) \/ UpdateStep(u)
    \/ \E r \in Reads : Look(r)
    \/ \E c \in Calls : ReadStep(c)
    \/ \E p \in Procs : Crash(p)

Spec == Init /\ [][Next]_vars

\* Processes that run go on, and the time that an update waits is limited.
FairSpec ==
    /\ Spec
    /\ \A c \in Calls : WF_vars(ReadStep(c))
    /\ \A u \in Updates : WF_vars(UpdateStep(u)) /\ SF_vars(Wait(u) /\ at'[u] = "failed")

----------------------------------------------------------------------------
(* Properties                                                              *)

\* Updates of one process or of several never overlap, whoever crashes, waits or gives up, unless a
\* recovery takes a lock file for the old one that it had looked at before.
Serialized ==
    raced \/ \A u, v \in Updates : at[u] \in Inside /\ at[v] \in Inside => u = v

\* No update that was reported as done is lost: it is in the file, or in a file put aside by somebody
\* who had found the file corrupt a moment before.
NoLostUpdate ==
    raced \/ \A u \in Updates : at[u] = "done" =>
        \E f \in {file} \cup shelf : f \notin {Absent, Corrupt} /\ u \in f

\* Every call ends, in time or with an error, and a crashed process blocks nobody for ever.
CallsEnd == <>[](\A c \in Calls : at[c] \in Ended \cup {"idle"})

----------------------------------------------------------------------------
(* What makes them hold, step by step                                      *)

Holding == {"fill"} \cup Inside
Seeking == {"open", "stat", "judge", "remove", "wait"}
Steps == {"idle", "queued"} \cup Seeking \cup Holding \cup Ended

TypeOK ==
    /\ proc \in [Calls -> Procs] /\ policy \in {"failClosed", "quarantine"} /\ alive \subseteq Procs
    /\ queue \in [Procs -> Seq(Updates)] /\ at \in [Calls -> Steps]
    /\ lock \in Updates \cup {None} /\ content \in Contents /\ raced \in BOOLEAN
    /\ seen \in [Updates -> Updates \cup {None}] /\ current \in [Calls -> SUBSET Updates]
    /\ file \in {Absent, Corrupt} \cup SUBSET Updates
    /\ shelf \subseteq {Absent, Corrupt} \cup SUBSET Updates

\* A call at work is a call of a process that runs, and an update at work is the first in its queue.
InTurn ==
    /\ \A c \in Calls : at[c] \notin {"idle"} \cup Ended => proc[c] \in alive
    /\ \A u \in Updates :
        LET line == queue[proc[u]] IN
        /\ at[u] = "queued" => \E i \in 1..Len(line) : line[i] = u
        /\ at[u] \in Seeking \cup Holding => line # <<>> /\ Head(line) = u

\* An update makes one lock file at most, so one that was found to be old does not come back.
LockMadeOnce ==
    /\ lock # None => at[lock] \in Holding \cup Ended
    /\ \A u \in Updates : seen[u] # None => at[seen[u]] \in Holding \cup Ended

\* A lock file that is still the one found to be old has its process id or its maker has ended, and
\* once it is judged to be stale its maker is past using it.
StaleIsDead ==
    \A u \in Updates : lock # None /\ lock = seen[u] =>
        /\ at[u] = "judge" => content = "pid" \/ at[lock] \in Ended
        /\ at[u] = "remove" => at[lock] \notin Holding

\* Whoever is between the making and the removal of its lock file has the lock file.
HolderHasLock == raced \/ \A u \in Updates : at[u] \in Holding => lock = u

LockInv == LockMadeOnce /\ StaleIsDead /\ HolderHasLock

\* An update that has not been written is nowhere.
NotYetWritten ==
    \A u \in Updates : at[u] \notin {"release"} \cup Ended =>
        u \notin file /\ \A c \in Calls : u \notin current[c]

\* What an update is about to write contains what it will replace.
WritesOnTop ==
    raced \/ \A u \in Updates : at[u] = "write" /\ file \notin {Absent, Corrupt} => file \subseteq current[u]

Kept(u) == \E f \in {file} \cup shelf : f \notin {Absent, Corrupt} /\ u \in f

WrittenIsKept ==
    raced \/ \A u \in Updates : at[u] = "done" \/ (at[u] = "release" /\ u \in current[u]) => Kept(u)

FileInv == NotYetWritten /\ WritesOnTop /\ WrittenIsKept
=============================================================================
