------------------------------- MODULE Flock -------------------------------
(***************************************************************************)
(* The cross-process directory lock of packages/core/src/util/flock.ts.    *)
(*                                                                         *)
(* A lock is a directory made with mkdir (atomic on POSIX).  Its owner     *)
(* writes a heartbeat file and a meta.json carrying a random token, and    *)
(* touches the heartbeat while it holds the lock.  A contender that finds  *)
(* the directory older than staleMs claims a second directory, the         *)
(* breaker, re-checks, removes the lock and makes it again.                *)
(*                                                                         *)
(* Every await of the code is a step of its own.  Files are addressed by   *)
(* PATH, as in the code: a process acts on whatever is at the path when    *)
(* its step runs, whoever put it there.  Wall-clock time is abstracted to  *)
(* one bit per directory, "older than staleMs".                            *)
(***************************************************************************)
EXTENDS Naturals, FiniteSets

CONSTANTS
    Procs,           \* the processes contending for one key
    FaultPlans       \* the fault plans: bounds on what may go wrong in a behaviour

\* A plan bounds the crashes and the pauses (a live owner or cleaner that is stopped for
\* staleMs), and says whether a process may crash while it holds the breaker.
ASSUME FlockAssumption ==
    FaultPlans \subseteq [crashes : Nat, pauses : Nat, inBreaker : BOOLEAN]

None == "none"
ASSUME NoneAssumption == None \notin Procs

VARIABLES
    pc,            \* the await each process is suspended at
    lockDir,       \* does the lock directory exist?
    lockOld,       \* is its heartbeat (or the bare directory) older than staleMs?
    heartbeat,     \* does lockDir/heartbeat exist?
    meta,          \* the token in lockDir/meta.json; a token is named by its process
    breaker,       \* does the breaker directory exist?
    breakerOld,    \* is the breaker older than staleMs?
    lockMaker,     \* history: the process whose mkdir made the lock directory
    breakerMaker,  \* history: the process whose mkdir made the breaker
    swept,         \* history: the releasing processes whose directory went after their token check
    plan,          \* the fault plan of this behaviour
    crashes,       \* number of crashes so far
    pauses         \* number of pauses so far

fs == <<lockDir, lockOld, heartbeat, meta, breaker, breakerOld, lockMaker, breakerMaker, swept>>
faults == <<plan, crashes, pauses>>
vars == <<pc, fs, faults>>

\* The points of acquireLockDir, tryAcquireLockDir and release where a process can be.
BreakerSteps == {"recheck", "rmLock", "remake", "unclaim", "unclaimOwn"}
OwnerSteps == {"unclaimOwn", "writeHeartbeat", "writeMeta", "held", "readMeta", "rmRelease"}
WaitSteps == {"try", "checkStale", "claim", "statBreaker", "rmBreaker", "sleep"}
PCs == {"idle", "crashed", "compromised"} \cup BreakerSteps \cup OwnerSteps \cup WaitSteps

\* A live process owns the lock directory at the path, or holds the breaker at its path.
LiveOwner == lockMaker \in Procs /\ pc[lockMaker] \in OwnerSteps
LiveBreaker == breakerMaker \in Procs /\ pc[breakerMaker] \in BreakerSteps

Init ==
    /\ pc = [p \in Procs |-> "idle"]
    /\ lockDir = FALSE /\ lockOld = FALSE /\ heartbeat = FALSE /\ meta = None
    /\ breaker = FALSE /\ breakerOld = FALSE
    /\ lockMaker = None /\ breakerMaker = None /\ swept = {}
    /\ plan \in FaultPlans /\ crashes = 0 /\ pauses = 0

----------------------------------------------------------------------------
(* File system operations on the two paths.                                *)

Goto(p, label) == pc' = [pc EXCEPT ![p] = label]

LockUnchanged == UNCHANGED <<lockDir, lockOld, heartbeat, meta, lockMaker, swept>>
BreakerUnchanged == UNCHANGED <<breaker, breakerOld, breakerMaker>>

\* mkdir(lockDir): succeeds only where nothing is there.
MakeLock(p) ==
    /\ lockDir' = TRUE /\ lockOld' = FALSE /\ heartbeat' = FALSE /\ meta' = None
    /\ lockMaker' = p /\ UNCHANGED swept

\* rm(lockDir, recursive, force) by p: removes whatever is at the path.
RemoveLock(p) ==
    /\ lockDir' = FALSE /\ lockOld' = FALSE /\ heartbeat' = FALSE /\ meta' = None
    /\ lockMaker' = None
    /\ swept' = {q \in Procs \ {p} : pc[q] = "rmRelease"}

RemoveBreaker ==
    /\ breaker' = FALSE /\ breakerOld' = FALSE /\ breakerMaker' = None

----------------------------------------------------------------------------
(* acquire, acquireLockDir                                                 *)

Acquire(p) ==
    /\ pc[p] = "idle"
    /\ Goto(p, "try")
    /\ UNCHANGED <<fs, faults>>

\* tryAcquireLockDir's first mkdir: we own a new directory, or somebody else has one.
TryMkdir(p) ==
    /\ pc[p] = "try"
    /\ IF lockDir
       THEN Goto(p, "checkStale") /\ LockUnchanged
       ELSE Goto(p, "writeHeartbeat") /\ MakeLock(p)
    /\ BreakerUnchanged /\ UNCHANGED faults

\* Mutant: the age is not compared with staleMs.
StaleIfPresent == lockDir

\* stale(): a directory that is gone is not stale.
Stale == lockDir /\ lockOld

CheckStale(p) ==
    /\ pc[p] = "checkStale"
    /\ Goto(p, IF Stale THEN "claim" ELSE "sleep")
    /\ UNCHANGED <<fs, faults>>

\* mkdir(breakerPath): whoever makes it may clean up.
ClaimBreaker(p) ==
    /\ pc[p] = "claim"
    /\ IF breaker
       THEN Goto(p, "statBreaker") /\ BreakerUnchanged
       ELSE /\ Goto(p, "recheck")
            /\ breaker' = TRUE /\ breakerOld' = FALSE /\ breakerMaker' = p
    /\ LockUnchanged /\ UNCHANGED faults

\* Mutant: a breaker left by a crashed contender is never removed.
StatBreakerIgnored(p) ==
    /\ pc[p] = "statBreaker"
    /\ Goto(p, "sleep")
    /\ UNCHANGED <<fs, faults>>

\* The breaker was taken: is it one that a crashed contender left behind?
StatBreaker(p) ==
    /\ pc[p] = "statBreaker"
    /\ Goto(p, IF breaker /\ breakerOld THEN "rmBreaker" ELSE "sleep")
    /\ UNCHANGED <<fs, faults>>

RmStaleBreaker(p) ==
    /\ pc[p] = "rmBreaker"
    /\ Goto(p, "sleep") /\ RemoveBreaker
    /\ LockUnchanged /\ UNCHANGED faults

\* Mutant: the second staleness check is left out.
RecheckSkipped(p) ==
    /\ pc[p] = "recheck"
    /\ Goto(p, "rmLock")
    /\ UNCHANGED <<fs, faults>>

\* Under the breaker: the second staleness check.
Recheck(p) ==
    /\ pc[p] = "recheck"
    /\ Goto(p, IF Stale THEN "rmLock" ELSE "unclaim")
    /\ UNCHANGED <<fs, faults>>

RmStaleLock(p) ==
    /\ pc[p] = "rmLock"
    /\ Goto(p, "remake") /\ RemoveLock(p)
    /\ BreakerUnchanged /\ UNCHANGED faults

\* The second mkdir may lose against a newcomer's first one.
Remake(p) ==
    /\ pc[p] = "remake"
    /\ IF lockDir
       THEN Goto(p, "unclaim") /\ LockUnchanged
       ELSE Goto(p, "unclaimOwn") /\ MakeLock(p)
    /\ BreakerUnchanged /\ UNCHANGED faults

\* finally: rm(breakerPath)
Unclaim(p) ==
    /\ pc[p] \in {"unclaim", "unclaimOwn"}
    /\ Goto(p, IF pc[p] = "unclaim" THEN "sleep" ELSE "writeHeartbeat")
    /\ RemoveBreaker /\ LockUnchanged /\ UNCHANGED faults

\* writeFile(heartbeat, flag wx): fails when the file is there or the directory is not.
WriteHeartbeat(p) ==
    /\ pc[p] = "writeHeartbeat"
    /\ IF lockDir /\ ~heartbeat
       THEN Goto(p, "writeMeta") /\ heartbeat' = TRUE /\ lockOld' = FALSE
       ELSE Goto(p, "compromised") /\ UNCHANGED <<heartbeat, lockOld>>
    /\ BreakerUnchanged /\ UNCHANGED <<lockDir, meta, lockMaker, swept, faults>>

WriteMeta(p) ==
    /\ pc[p] = "writeMeta"
    /\ IF lockDir /\ meta = None
       THEN Goto(p, "held") /\ meta' = p
       ELSE Goto(p, "compromised") /\ UNCHANGED meta
    /\ BreakerUnchanged /\ UNCHANGED <<lockDir, lockOld, heartbeat, lockMaker, swept, faults>>

\* The catch of either exclusive write: remove the directory, then throw.
RmCompromised(p) ==
    /\ pc[p] = "compromised"
    /\ Goto(p, "idle") /\ RemoveLock(p)
    /\ BreakerUnchanged /\ UNCHANGED faults

\* sleep(jitter(delay)) and the next attempt, with a new token.
Retry(p) ==
    /\ pc[p] = "sleep"
    /\ Goto(p, "try")
    /\ UNCHANGED <<fs, faults>>

\* "Timed out waiting for lock", or the caller's AbortSignal.
GiveUp(p) ==
    /\ pc[p] = "sleep"
    /\ Goto(p, "idle")
    /\ UNCHANGED <<fs, faults>>

----------------------------------------------------------------------------
(* The holder                                                              *)

\* startHeartbeat's interval: utimes on the path; the rejection of a missing file is dropped.
Heartbeat(p) ==
    /\ pc[p] = "held"
    /\ lockDir /\ heartbeat /\ lockOld
    /\ lockOld' = FALSE
    /\ BreakerUnchanged /\ UNCHANGED <<pc, lockDir, heartbeat, meta, lockMaker, swept, faults>>

\* release: the interval is cleared first.
Release(p) ==
    /\ pc[p] = "held"
    /\ Goto(p, "readMeta")
    /\ UNCHANGED <<fs, faults>>

\* Mutant: release only looks whether there is a meta.json.
ReadMetaAnyToken(p) ==
    /\ pc[p] = "readMeta"
    /\ Goto(p, IF lockDir /\ meta # None THEN "rmRelease" ELSE "idle")
    /\ swept' = swept \ {p}
    /\ UNCHANGED <<lockDir, lockOld, heartbeat, meta, lockMaker, faults>> /\ BreakerUnchanged

\* release refuses when meta.json is missing or carries another token.
ReadMeta(p) ==
    /\ pc[p] = "readMeta"
    /\ Goto(p, IF lockDir /\ meta = p THEN "rmRelease" ELSE "idle")
    /\ swept' = swept \ {p}
    /\ UNCHANGED <<lockDir, lockOld, heartbeat, meta, lockMaker, faults>> /\ BreakerUnchanged

RmRelease(p) ==
    /\ pc[p] = "rmRelease"
    /\ Goto(p, "idle") /\ RemoveLock(p)
    /\ BreakerUnchanged /\ UNCHANGED faults

----------------------------------------------------------------------------
(* The environment: time and crashes                                       *)

\* Time passes over a live process only if the process is paused (a suspended
\* laptop, a blocked event loop): otherwise it acts, or touches its heartbeat, in time.
PausedIf(live) ==
    IF live THEN pauses < plan.pauses /\ pauses' = pauses + 1 ELSE pauses' = pauses

\* staleMs passes since the last touch.
LockAges ==
    /\ lockDir /\ ~lockOld
    /\ PausedIf(LiveOwner)
    /\ lockOld' = TRUE
    /\ BreakerUnchanged /\ UNCHANGED <<pc, lockDir, heartbeat, meta, lockMaker, swept, plan, crashes>>

BreakerAges ==
    /\ breaker /\ ~breakerOld
    /\ PausedIf(LiveBreaker)
    /\ breakerOld' = TRUE
    /\ LockUnchanged /\ UNCHANGED <<pc, breaker, breakerMaker, plan, crashes>>

Crash(p) ==
    /\ crashes < plan.crashes
    /\ pc[p] \notin {"idle", "crashed"}
    /\ plan.inBreaker \/ pc[p] \notin BreakerSteps
    /\ Goto(p, "crashed")
    /\ crashes' = crashes + 1
    /\ UNCHANGED <<fs, plan, pauses>>

\* A new process takes the crashed one's place.
Restart(p) ==
    /\ pc[p] = "crashed"
    /\ Goto(p, "idle")
    /\ UNCHANGED <<fs, faults>>

----------------------------------------------------------------------------

\* The steps of tryAcquireLockDir and of release: code that runs to its end once begun.
Step(p) ==
    \/ TryMkdir(p) \/ CheckStale(p) \/ ClaimBreaker(p) \/ StatBreaker(p) \/ RmStaleBreaker(p)
    \/ Recheck(p) \/ RmStaleLock(p) \/ Remake(p) \/ Unclaim(p)
    \/ WriteHeartbeat(p) \/ WriteMeta(p) \/ RmCompromised(p)
    \/ Retry(p) \/ ReadMeta(p) \/ RmRelease(p)

Next ==
    \/ \E p \in Procs :
        \/ Acquire(p) \/ Step(p) \/ GiveUp(p)
        \/ Heartbeat(p) \/ Release(p)
        \/ Crash(p) \/ Restart(p)
    \/ LockAges
    \/ BreakerAges

Spec == Init /\ [][Next]_vars

\* The holder finishes its critical section, awaits resume, and time passes.
Fairness ==
    /\ \A p \in Procs : WF_vars(Step(p)) /\ WF_vars(Release(p))
    /\ WF_vars(LockAges) /\ WF_vars(BreakerAges)

FairSpec == Spec /\ Fairness

----------------------------------------------------------------------------
(* Properties                                                              *)

Types ==
    /\ pc \in [Procs -> PCs]
    /\ lockDir \in BOOLEAN /\ lockOld \in BOOLEAN /\ heartbeat \in BOOLEAN
    /\ meta \in Procs \cup {None}
    /\ breaker \in BOOLEAN /\ breakerOld \in BOOLEAN
    /\ lockMaker \in Procs \cup {None}
    /\ breakerMaker \in Procs \cup {None}
    /\ swept \in SUBSET Procs
    /\ plan \in FaultPlans /\ crashes \in Nat /\ pauses \in Nat

FilesInDirs ==
    /\ ~lockDir => ~heartbeat /\ meta = None /\ lockMaker = None /\ ~lockOld
    /\ ~breaker => breakerMaker = None

\* The types of the variables; files exist only inside an existing lock directory, and
\* only an existing directory has a maker.
TypeOK == Types /\ FilesInDirs

\* What exclusion rests on: live processes are not stopped for staleMs, cleaners do not crash.
Reliable == plan.pauses = 0 /\ ~plan.inBreaker

\* withLock runs its body in at most one process at a time, however crashes,
\* stale cleanups and late newcomers interleave (flock.ts withLock, acquireLockDir).
MutualExclusion ==
    Reliable => \A p, q \in Procs : pc[p] = "held" /\ pc[q] = "held" => p = q

\* "Breaker ownership ensures only one contender performs stale cleanup"
\* (flock.ts:185): two processes are never inside the breaker's try block.
OneCleaner ==
    \A p, q \in Procs : pc[p] \in BreakerSteps /\ pc[q] \in BreakerSteps => p = q

\* "Token check prevents deleting a lock that was re-acquired by another process" (flock.ts:259): a
\* release that comes after its owner lost the lock, to a cleaner that took a pause for a death or to
\* cleaners that got in each other's way, removes no directory that carries another token or none yet.
\* The one gap is between the check and the rm, and it takes a pause or a crashed cleaner to fall in.
ReleaseRemovesOwnLock ==
    [][\A p \in Procs : RmRelease(p) /\ lockDir => meta = p \/ (p \in swept /\ ~Reliable)]_vars

\* Stale cleanup removes the directory of a dead owner only: no live process is
\* between its mkdir and the end of its release when its directory is swept away.
CleanupSparesTheLiving ==
    [][\A p \in Procs : RmStaleLock(p) /\ Reliable => ~LiveOwner]_vars

\* Crashed owners, crashed cleaners and pauses never wedge the lock for good: while a
\* process is waiting, somebody eventually enters the critical section or is told that
\* the lock is compromised, unless every process that wanted it has crashed or gone
\* (flock.ts:128, "Stale detection allows automatic recovery after crashed owners").
Recovers ==
    (\E p \in Procs : pc[p] \in WaitSteps)
        ~> \/ \E p \in Procs : pc[p] \in {"held", "compromised"}
           \/ \A p \in Procs : pc[p] \in {"idle", "crashed"}

\* The parts of the inductive invariant behind MutualExclusion.
BreakerInv ==
    /\ ~breakerOld
    /\ \A p \in Procs : pc[p] # "rmBreaker"
    /\ \A p \in Procs : pc[p] \in BreakerSteps => breaker /\ breakerMaker = p
    /\ breaker => LiveBreaker

OwnerInv ==
    /\ \A p \in Procs : pc[p] \in OwnerSteps => lockDir /\ lockMaker = p /\ ~lockOld
    /\ \A p \in Procs : pc[p] \in {"unclaimOwn", "writeHeartbeat"} => ~heartbeat /\ meta = None
    /\ \A p \in Procs : pc[p] = "writeMeta" => meta = None
    /\ \A p \in Procs : pc[p] \in {"held", "readMeta", "rmRelease"} => meta = p
    /\ \A p \in Procs : pc[p] = "rmLock" => lockDir /\ lockOld
    /\ \A p \in Procs : pc[p] # "compromised"

\* The inductive invariant: under a reliable plan the breaker exists exactly while its live maker is
\* inside, and whoever is between its mkdir and the end of its release made the directory at the path.
SafeInv == TypeOK /\ (Reliable => BreakerInv /\ OwnerInv)

\* What the token check rests on, under any plan: a directory whose token was checked stays as it is
\* until it is removed.
TokenInv == \A p \in Procs : pc[p] = "rmRelease" => p \in swept \/ (lockDir /\ meta = p)
=============================================================================
