---------------------------- MODULE FlockProofs ----------------------------
(***************************************************************************)
(* Proofs about Flock, for every set of processes and of fault plans.      *)
(* TypeCorrect and ReleaseSafe need no hypothesis.  Exclusion is proved    *)
(* for behaviours under a reliable plan: a pause in release, or a crash    *)
(* inside the breaker (the run of FlockCrashedCleaner.cfg), takes it away. *)
(***************************************************************************)
EXTENDS Flock, TLAPS

----------------------------------------------------------------------------
(* Type correctness                                                        *)

\* The initial file system holds neither directory and every process is idle.
LEMMA InitTypes == Init => Types
<1> SUFFICES ASSUME Init PROVE Types
  OBVIOUS
<1>1. pc \in [Procs -> PCs]
  BY DEF Init, PCs
<1>2. lockDir \in BOOLEAN /\ lockOld \in BOOLEAN /\ heartbeat \in BOOLEAN
      /\ breaker \in BOOLEAN /\ breakerOld \in BOOLEAN
  BY Zenon DEF Init
<1>3. /\ meta \in Procs \cup {None} /\ lockMaker \in Procs \cup {None}
      /\ breakerMaker \in Procs \cup {None}
      /\ swept \in SUBSET Procs
      /\ plan \in FaultPlans /\ crashes \in Nat /\ pauses \in Nat
  BY DEF Init
<1> QED
  BY <1>1, <1>2, <1>3, Zenon DEF Types

\* Every step of acquire, release and the environment preserves the types.
LEMMA StepTypes == Types /\ [Next]_vars => Types'
<1> SUFFICES ASSUME Types, [Next]_vars PROVE Types'
  OBVIOUS
<1> USE DEF Types, PCs, BreakerSteps, OwnerSteps, WaitSteps, None
<1>1. ASSUME NEW p \in Procs, Acquire(p) \/ TryMkdir(p) \/ CheckStale(p) \/ ClaimBreaker(p)
                              \/ StatBreaker(p) \/ RmStaleBreaker(p) \/ Recheck(p)
      PROVE Types'
  BY <1>1 DEF Acquire, TryMkdir, CheckStale, ClaimBreaker, StatBreaker, RmStaleBreaker, Recheck,
     Goto, LockUnchanged, BreakerUnchanged, MakeLock, RemoveBreaker, fs, faults
<1>2. ASSUME NEW p \in Procs, RmStaleLock(p) \/ Remake(p) \/ Unclaim(p) \/ WriteHeartbeat(p)
                              \/ WriteMeta(p) \/ RmCompromised(p) \/ Retry(p)
      PROVE Types'
  BY <1>2, ZenonT(30) DEF RmStaleLock, Remake, Unclaim, WriteHeartbeat, WriteMeta, RmCompromised, Retry,
     Goto, LockUnchanged, BreakerUnchanged, MakeLock, RemoveLock, RemoveBreaker, fs, faults
<1>3. ASSUME NEW p \in Procs, GiveUp(p) \/ Heartbeat(p) \/ Release(p) \/ ReadMeta(p)
                              \/ RmRelease(p) \/ Restart(p)
      PROVE Types'
  BY <1>3 DEF GiveUp, Heartbeat, Release, ReadMeta, RmRelease, Restart,
     Goto, BreakerUnchanged, RemoveLock, fs, faults
<1>4. ASSUME NEW p \in Procs, Crash(p)
      PROVE Types'
  <2>1. crashes' \in Nat
    BY <1>4 DEF Crash
  <2>2. pc' \in [Procs -> PCs]
    BY <1>4 DEF Crash, Goto
  <2> QED
    BY <2>1, <2>2, <1>4, Zenon DEF Crash, fs
<1>5. CASE LockAges \/ BreakerAges
  <2>1. pauses' \in Nat
    BY <1>5 DEF LockAges, BreakerAges, PausedIf
  <2>2. lockOld' \in BOOLEAN /\ breakerOld' \in BOOLEAN
    BY <1>5, Zenon DEF LockAges, BreakerAges, LockUnchanged, BreakerUnchanged
  <2> QED
    BY <2>1, <2>2, <1>5 DEF LockAges, BreakerAges, LockUnchanged, BreakerUnchanged
<1>6. CASE UNCHANGED vars
  BY <1>6 DEF vars, fs, faults
<1> QED
  BY <1>1, <1>2, <1>3, <1>4, <1>5, <1>6 DEF Next, Step

\* A removal takes the files with the directory, and every write needs the directory.
LEMMA StepFiles == TypeOK /\ [Next]_vars => FilesInDirs'
<1> SUFFICES ASSUME TypeOK, [Next]_vars PROVE FilesInDirs'
  OBVIOUS
<1> USE DEF TypeOK, FilesInDirs
<1>1. ASSUME NEW p \in Procs,
             Acquire(p) \/ CheckStale(p) \/ StatBreaker(p) \/ Recheck(p) \/ Retry(p) \/ GiveUp(p)
               \/ Release(p) \/ ReadMeta(p) \/ Crash(p) \/ Restart(p)
      PROVE FilesInDirs'
  BY <1>1 DEF Acquire, CheckStale, StatBreaker, Recheck, Retry, GiveUp, Release, ReadMeta,
     Crash, Restart, BreakerUnchanged, fs
<1>2. ASSUME NEW p \in Procs,
             TryMkdir(p) \/ ClaimBreaker(p) \/ RmStaleBreaker(p) \/ RmStaleLock(p)
               \/ Remake(p) \/ Unclaim(p) \/ RmCompromised(p) \/ RmRelease(p)
      PROVE FilesInDirs'
  BY <1>2 DEF TryMkdir, ClaimBreaker, RmStaleBreaker, RmStaleLock, Remake, Unclaim,
     RmCompromised, RmRelease, LockUnchanged, BreakerUnchanged, MakeLock, RemoveLock, RemoveBreaker
<1>3. ASSUME NEW p \in Procs, WriteHeartbeat(p) \/ WriteMeta(p) \/ Heartbeat(p)
      PROVE FilesInDirs'
  BY <1>3 DEF WriteHeartbeat, WriteMeta, Heartbeat, BreakerUnchanged
<1>4. CASE LockAges \/ BreakerAges
  BY <1>4 DEF LockAges, BreakerAges, LockUnchanged, BreakerUnchanged
<1>5. CASE UNCHANGED vars
  BY <1>5 DEF vars, fs, faults
<1> QED
  BY <1>1, <1>2, <1>3, <1>4, <1>5 DEF Next, Step

\* Both parts of the type invariant hold of the empty lock root.
LEMMA InitType == Init => TypeOK
BY InitTypes DEF Init, TypeOK, FilesInDirs

\* Both parts of the type invariant are preserved by every step.
LEMMA StepType == TypeOK /\ [Next]_vars => TypeOK'
BY StepTypes, StepFiles DEF TypeOK

\* Every variable of the lock protocol keeps its type, whatever crashes and pauses happen.
THEOREM TypeCorrect == Spec => []TypeOK
BY InitType, StepType, PTL DEF Spec

----------------------------------------------------------------------------
(* The inductive invariant                                                 *)

\* Nobody owns anything at the start.
LEMMA InitSafe == Init => SafeInv
BY InitType DEF Init, SafeInv, BreakerInv, OwnerInv, BreakerSteps, OwnerSteps

\* A process that only moves between points outside the breaker and the lock,
\* and leaves the file system alone, preserves the invariant.
LEMMA WaitSafe ==
  ASSUME SafeInv, Reliable, NEW p \in Procs,
         Acquire(p) \/ CheckStale(p) \/ StatBreaker(p) \/ Retry(p) \/ GiveUp(p) \/ Restart(p)
  PROVE  BreakerInv' /\ OwnerInv'
BY DEF SafeInv, BreakerInv, OwnerInv, TypeOK, Types, BreakerSteps, OwnerSteps, LiveBreaker, LiveOwner,
   Acquire, CheckStale, StatBreaker, Retry, GiveUp, Restart, Goto, fs, faults

\* The owner's own steps: its directory is there, young, and carries what it wrote.
LEMMA OwnerSafe ==
  ASSUME SafeInv, Reliable, NEW p \in Procs,
         TryMkdir(p) \/ WriteHeartbeat(p) \/ WriteMeta(p) \/ RmCompromised(p) \/ Heartbeat(p)
           \/ Release(p) \/ ReadMeta(p) \/ RmRelease(p)
  PROVE  BreakerInv' /\ OwnerInv'
BY NoneAssumption DEF SafeInv, BreakerInv, OwnerInv, TypeOK, Types, BreakerSteps, OwnerSteps, LiveBreaker, LiveOwner,
   TryMkdir, WriteHeartbeat, WriteMeta, RmCompromised, Heartbeat, Release, ReadMeta, RmRelease,
   MakeLock, RemoveLock, BreakerUnchanged, LockUnchanged, Goto, fs, faults

\* The cleaner's steps: it alone is in the breaker, and what it removes has no live owner.
LEMMA CleanerSafe ==
  ASSUME SafeInv, Reliable, NEW p \in Procs,
         ClaimBreaker(p) \/ RmStaleBreaker(p) \/ Recheck(p) \/ RmStaleLock(p) \/ Remake(p) \/ Unclaim(p)
  PROVE  BreakerInv' /\ OwnerInv'
BY NoneAssumption DEF SafeInv, BreakerInv, OwnerInv, TypeOK, Types, BreakerSteps, OwnerSteps, LiveBreaker, LiveOwner,
   ClaimBreaker, RmStaleBreaker, Recheck, RmStaleLock, Remake, Unclaim, Stale,
   MakeLock, RemoveLock, RemoveBreaker, BreakerUnchanged, LockUnchanged, Goto, fs, faults

\* Under Reliable, only abandoned directories age, and a crash never abandons the breaker.
LEMMA EnvSafe ==
  ASSUME Reliable, SafeInv,
         LockAges \/ BreakerAges \/ (\E p \in Procs : Crash(p))
  PROVE  BreakerInv' /\ OwnerInv'
<1>1. CASE LockAges
  BY <1>1 DEF Reliable, SafeInv, BreakerInv, OwnerInv, TypeOK, Types, BreakerSteps, OwnerSteps, LiveBreaker, LiveOwner,
     LockAges, PausedIf, BreakerUnchanged
<1>2. CASE BreakerAges
  BY <1>2 DEF Reliable, SafeInv, BreakerInv, OwnerInv, TypeOK, Types, LiveBreaker,
     BreakerAges, PausedIf, LockUnchanged
<1>3. CASE \E p \in Procs : Crash(p)
  BY <1>3 DEF Reliable, SafeInv, BreakerInv, OwnerInv, TypeOK, Types, BreakerSteps, OwnerSteps, LiveBreaker,
     Crash, Goto, fs, faults
<1> QED
  BY <1>1, <1>2, <1>3

\* The fault plan of a behaviour is chosen at the start.
LEMMA PlanKept == [Next]_vars => plan' = plan
BY DEF Next, Step, vars, faults, Acquire, TryMkdir, CheckStale, ClaimBreaker, StatBreaker, RmStaleBreaker,
   Recheck, RmStaleLock, Remake, Unclaim, WriteHeartbeat, WriteMeta, RmCompromised, Retry, GiveUp,
   Heartbeat, Release, ReadMeta, RmRelease, LockAges, BreakerAges, Crash, Restart

\* SafeInv is inductive.
LEMMA StepSafe ==
  ASSUME SafeInv, [Next]_vars
  PROVE  SafeInv'
<1>1. TypeOK'
  BY StepType DEF SafeInv
<1>2. ASSUME Reliable' PROVE BreakerInv' /\ OwnerInv'
  <2> Reliable
    BY <1>2, PlanKept DEF Reliable
  <2>1. CASE UNCHANGED vars
    BY <2>1 DEF vars, fs, SafeInv, BreakerInv, OwnerInv, LiveBreaker
  <2>2. CASE Next
    BY <2>2, WaitSafe, OwnerSafe, CleanerSafe, EnvSafe DEF Next, Step
  <2> QED
    BY <2>1, <2>2
<1> QED
  BY <1>1, <1>2 DEF SafeInv

\* Every reachable state satisfies the inductive invariant.
THEOREM Safe == Spec => []SafeInv
<1>1. SafeInv /\ [Next]_vars => SafeInv'
  BY StepSafe
<1> QED
  BY <1>1, InitSafe, PTL DEF Spec

\* Under a reliable plan at most one process is inside withLock's body.
THEOREM Exclusion == Spec => []MutualExclusion
<1>1. SafeInv => MutualExclusion
  BY DEF SafeInv, OwnerInv, MutualExclusion, OwnerSteps
<1> QED
  BY <1>1, Safe, PTL

\* Under a reliable plan at most one contender is inside the breaker's try block.
THEOREM SingleCleaner == Spec => [](Reliable => OneCleaner)
<1>1. SafeInv => (Reliable => OneCleaner)
  BY DEF SafeInv, BreakerInv, OneCleaner
<1> QED
  BY <1>1, Safe, PTL

\* A directory whose token was checked keeps the token until somebody removes it, and whoever removes
\* it sweeps the processes that have checked.
LEMMA StepToken ==
  ASSUME TypeOK, TokenInv, [Next]_vars
  PROVE  TokenInv'
<1> USE DEF TypeOK, Types, FilesInDirs, TokenInv
<1>1. ASSUME NEW p \in Procs,
             Acquire(p) \/ CheckStale(p) \/ ClaimBreaker(p) \/ StatBreaker(p) \/ RmStaleBreaker(p)
               \/ Recheck(p) \/ Unclaim(p) \/ Retry(p) \/ GiveUp(p) \/ Release(p) \/ Crash(p) \/ Restart(p)
      PROVE  TokenInv'
  BY <1>1 DEF Acquire, CheckStale, ClaimBreaker, StatBreaker, RmStaleBreaker, Recheck, Unclaim, Retry,
     GiveUp, Release, Crash, Restart, LockUnchanged, Goto, fs
<1>2. ASSUME NEW p \in Procs, TryMkdir(p) \/ Remake(p)
      PROVE  TokenInv'
  BY <1>2 DEF TryMkdir, Remake, MakeLock, LockUnchanged, Goto
<1>3. ASSUME NEW p \in Procs, RmStaleLock(p) \/ RmCompromised(p) \/ RmRelease(p)
      PROVE  TokenInv'
  BY <1>3 DEF RmStaleLock, RmCompromised, RmRelease, RemoveLock, Goto
<1>4. ASSUME NEW p \in Procs, WriteHeartbeat(p) \/ WriteMeta(p) \/ Heartbeat(p)
      PROVE  TokenInv'
  BY <1>4, NoneAssumption DEF WriteHeartbeat, WriteMeta, Heartbeat, Goto
<1>5. ASSUME NEW p \in Procs, ReadMeta(p)
      PROVE  TokenInv'
  BY <1>5 DEF ReadMeta, Goto
<1>6. CASE LockAges \/ BreakerAges \/ UNCHANGED vars
  BY <1>6 DEF LockAges, BreakerAges, LockUnchanged, vars, fs
<1> QED
  BY <1>1, <1>2, <1>3, <1>4, <1>5, <1>6 DEF Next, Step

\* What the token check establishes lasts until the directory goes, under any plan.
THEOREM TokensLast == Spec => []TokenInv
<1>1. Init => TokenInv
  BY DEF Init, TokenInv
<1>2. TypeOK /\ TokenInv /\ [Next]_vars => TokenInv'
  BY StepToken
<1> QED
  BY <1>1, <1>2, TypeCorrect, PTL DEF Spec

\* However often processes are paused and cleaners crash, a release removes a directory without its own
\* token only if the one it checked was removed between the check and the rm; under a reliable plan never.
THEOREM ReleaseSafe == Spec => ReleaseRemovesOwnLock
<1>1. SafeInv /\ TokenInv =>
        \A p \in Procs : RmRelease(p) /\ lockDir => meta = p \/ (p \in swept /\ ~Reliable)
  BY DEF SafeInv, OwnerInv, TokenInv, RmRelease
<1> QED
  BY <1>1, Safe, TokensLast, PTL DEF ReleaseRemovesOwnLock

\* Under a reliable plan stale cleanup never removes the directory of a live owner.
THEOREM CleanupSafe == Spec => CleanupSparesTheLiving
<1>1. SafeInv => \A p \in Procs : RmStaleLock(p) /\ Reliable => ~LiveOwner
  BY DEF SafeInv, OwnerInv, LiveOwner, RmStaleLock
<1> QED
  BY <1>1, Safe, PTL DEF CleanupSparesTheLiving
=============================================================================
