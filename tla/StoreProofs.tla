---------------------------- MODULE StoreProofs -----------------------------
(***************************************************************************)
(* Proofs about what the CLI keeps on disk.  LocalState: updates of a      *)
(* state file, for any sets of processes and calls, any placement of the   *)
(* calls, and any number of crashes.  SyncEvents: the event log and its    *)
(* replay on another machine, for any sets of server processes and files,  *)
(* any layout, and any number of events and kills.                         *)
(***************************************************************************)
EXTENDS LocalState, SyncEvents, TLAPS


\* Only call c moves, to the given step.
LEMMA Moves ==
    ASSUME TypeOK, NEW c \in Calls, NEW step \in Steps, Goto(c, step)
    PROVE  /\ at' \in [Calls -> Steps] /\ at'[c] = step
           /\ \A d \in Calls : d # c => at'[d] = at[d]
BY DEF TypeOK, Goto

\* Updates and reads are calls, and the names of files that hold no state are no updates.
LEMMA Distinct ==
    /\ Updates \subseteq Calls /\ Reads \subseteq Calls
    /\ None \notin Updates /\ "corrupt" \notin Updates /\ "absent" \notin Updates
BY LocalStateAssumption DEF Calls

\* The call at work takes itself off its queue.
LEMMA Dequeued ==
    ASSUME TypeOK, InTurn, NEW u \in Updates, at[u] \in Seeking \cup Holding,
           queue' = [queue EXCEPT ![proc[u]] = Tail(@)]
    PROVE  /\ queue' \in [Procs -> Seq(Updates)]
           /\ \A p \in Procs : p # proc[u] => queue'[p] = queue[p]
           /\ queue'[proc[u]] = Tail(queue[proc[u]])
           /\ queue[proc[u]] # <<>> /\ Head(queue[proc[u]]) = u
           /\ proc[u] \in Procs /\ queue[proc[u]] \in Seq(Updates)
BY Distinct DEF TypeOK, InTurn

LEMMA InitLocal == Init => TypeOK /\ InTurn /\ LockInv /\ FileInv
<1> SUFFICES ASSUME Init  PROVE TypeOK /\ InTurn /\ LockInv /\ FileInv
  OBVIOUS
<1> USE LocalStateAssumption, Distinct DEF Init, Absent, Corrupt
<1>1. TypeOK
  <2>1. proc \in [Calls -> Procs]
    BY DEF Calls
  <2>2. at \in [Calls -> Steps]
    BY DEF Steps
  <2>3. queue \in [Procs -> Seq(Updates)]
    OBVIOUS
  <2> QED  BY <2>1, <2>2, <2>3 DEF TypeOK, Contents
<1>2. InTurn
  BY DEF InTurn, Seeking, Holding, Inside, Ended
<1>3. LockInv
  BY DEF LockInv, LockMadeOnce, StaleIsDead, HolderHasLock, Holding, Inside, Ended
<1>4. FileInv
  BY DEF FileInv, NotYetWritten, WritesOnTop, WrittenIsKept, Ended
<1> QED  BY <1>1, <1>2, <1>3, <1>4

----------------------------------------------------------------------------
(* Types                                                                   *)

LEMMA TypesKept ==
    ASSUME TypeOK, InTurn, [Next]_vars
    PROVE  TypeOK'
<1> USE Distinct DEF world, lockfile, statefile
<1>1. CASE UNCHANGED vars
  BY <1>1 DEF TypeOK, vars
<1>2. ASSUME NEW u \in Updates, Update(u) \/ UpdateStep(u)  PROVE TypeOK'
  <2>4. /\ current' \in [Calls -> SUBSET Updates] /\ shelf' = shelf
        /\ file' \in {Absent, Corrupt} \cup SUBSET Updates
    <3>1. CASE Write(u)
      <4> DEFINE new == current[u] \cup {u}
      <4>1. u \in Calls /\ new \in SUBSET Updates
        BY DEF TypeOK
      <4>2. /\ file' \in {file, new} /\ shelf' = shelf
            /\ current' = current \/ current' = [current EXCEPT ![u] = new]
        BY <3>1 DEF Write
      <4> HIDE DEF new
      <4> QED  BY <4>1, <4>2 DEF TypeOK
    <3>2. CASE UNCHANGED <<file, shelf, current>>
      BY <3>2 DEF TypeOK
    <3> QED  BY <1>2, <3>1, <3>2 DEF Update, UpdateStep, Begin, OpenLock, FillLock, Stat, Judge, RemoveStale,
                                     Wait, Release
  <2> USE DEF Update, UpdateStep, Begin, OpenLock, FillLock, Stat, Judge, RemoveStale, Wait, Write,
              Release
  <2>1. UNCHANGED world /\ lock' \in Updates \cup {None}
    BY <1>2 DEF TypeOK
  <2>5. content' \in Contents /\ raced' \in BOOLEAN
    <3>1. raced' \in BOOLEAN
      BY <1>2, Zenon DEF TypeOK
    <3>2. content' \in {content, "empty", "pid", "torn"}
      BY <1>2
    <3> QED  BY <3>1, <3>2 DEF TypeOK, Contents
  <2>6. seen' \in [Updates -> Updates \cup {None}]
    BY <1>2 DEF TypeOK
  <2>2. PICK step \in Steps : Goto(u, step)
    <3>1. "queued" \in Steps /\ "open" \in Steps /\ "fill" \in Steps /\ "stat" \in Steps
          /\ "read" \in Steps /\ "wait" \in Steps /\ "judge" \in Steps /\ "remove" \in Steps
          /\ "failed" \in Steps /\ "done" \in Steps /\ "release" \in Steps
      BY DEF Steps, Seeking, Holding, Inside, Ended
    <3> QED  BY <1>2, <3>1 DEF Finish
  <2>3. queue' \in [Procs -> Seq(Updates)]
    <3>1. CASE Update(u)
      BY <3>1 DEF TypeOK
    <3>2. CASE at[u] \in {"fill", "wait", "release"} /\ queue' = [queue EXCEPT ![proc[u]] = Tail(@)]
      BY <3>2, Dequeued DEF Seeking, Holding, Inside
    <3>3. CASE UNCHANGED queue
      BY <3>3 DEF TypeOK
    <3> QED  BY <1>2, <3>1, <3>2, <3>3 DEF Finish
  <2> QED  BY <2>1, <2>2, <2>3, <2>4, <2>5, <2>6, Moves DEF TypeOK
<1>3. ASSUME NEW c \in Calls, (c \in Reads /\ Look(c)) \/ ReadStep(c)  PROVE TypeOK'
  <2>1. UNCHANGED <<world, lockfile, queue, seen>>
    BY <1>3 DEF Look, ReadStep, Read, Quarantine
  <2>2. PICK step \in Steps : Goto(c, step)
    <3>1. "read" \in Steps /\ AfterRead(c) \in Steps /\ Broken(c) \in Steps /\ "quarantine" \in Steps
      BY DEF Steps, AfterRead, Broken, Holding, Inside, Ended
    <3> QED  BY <1>3, <3>1 DEF Look, ReadStep, Read, Quarantine
  <2>3. /\ current' \in [Calls -> SUBSET Updates]
        /\ file' \in {Absent, Corrupt} \cup SUBSET Updates
        /\ shelf' \subseteq {Absent, Corrupt} \cup SUBSET Updates
    BY <1>3 DEF TypeOK, Look, ReadStep, Read, Quarantine
  <2> QED  BY <2>1, <2>2, <2>3, Moves DEF TypeOK
<1>4. ASSUME NEW p \in Procs, Crash(p)  PROVE TypeOK'
  <2>1. at' \in [Calls -> Steps]
    BY <1>4 DEF Crash, TypeOK, Steps, Ended
  <2>2. content' \in Contents
    BY <1>4 DEF Crash, TypeOK, Contents
  <2>3. queue' \in [Procs -> Seq(Updates)]
    BY <1>4 DEF Crash, TypeOK
  <2> QED  BY <1>4, <2>1, <2>2, <2>3 DEF Crash, TypeOK
<1> QED  BY <1>1, <1>2, <1>3, <1>4 DEF Next

----------------------------------------------------------------------------
(* The queues of the processes                                             *)

\* A call goes on; an update does so only as the first in its queue.
LEMMA GoesOnInTurn ==
    ASSUME TypeOK, InTurn, NEW c \in Calls, NEW step \in Steps, Goto(c, step),
           UNCHANGED <<proc, alive, queue>>, proc[c] \in alive,
           c \in Updates => /\ step \in Seeking \cup Holding
                            /\ \/ at[c] \in Seeking \cup Holding
                               \/ at[c] = "queued" /\ Head(queue[proc[c]]) = c
    PROVE  InTurn'
<1> USE Distinct
<1>1. at'[c] = step /\ \A d \in Calls : d # c => at'[d] = at[d]
  BY Moves
<1>2. \A d \in Calls : at'[d] \notin {"idle"} \cup Ended => proc'[d] \in alive'
  BY <1>1 DEF InTurn
<1>3. ASSUME NEW u \in Updates
      PROVE  LET line == queue[proc[u]] IN
             /\ at'[u] = "queued" => \E i \in 1..Len(line) : line[i] = u
             /\ at'[u] \in Seeking \cup Holding => line # <<>> /\ Head(line) = u
  <2>1. CASE u = c
    <3>1. at[u] = "queued" => queue[proc[u]] # <<>>
      BY DEF InTurn
    <3> QED  BY <1>1, <2>1, <3>1 DEF InTurn, Seeking, Holding, Inside
  <2>2. CASE u # c
    BY <1>1, <2>2 DEF InTurn
  <2> QED  BY <2>1, <2>2
<1> QED  BY <1>2, <1>3 DEF InTurn

\* The update at work is over.
LEMMA FinishInTurn ==
    ASSUME TypeOK, InTurn, NEW u \in Updates, at[u] \in Seeking \cup Holding,
           NEW step \in Ended, Finish(u, step), UNCHANGED <<proc, alive>>
    PROVE  InTurn'
<1> USE Distinct
<1>1. at'[u] = step /\ \A d \in Calls : d # u => at'[d] = at[d]
  BY Moves DEF Finish, Steps
<1>2. \A d \in Calls : at'[d] \notin {"idle"} \cup Ended => proc'[d] \in alive'
  BY <1>1 DEF InTurn
<1>3. /\ \A p \in Procs : p # proc[u] => queue'[p] = queue[p]
      /\ queue'[proc[u]] = Tail(queue[proc[u]])
      /\ queue[proc[u]] # <<>> /\ Head(queue[proc[u]]) = u
      /\ proc[u] \in Procs /\ queue[proc[u]] \in Seq(Updates)
  BY Dequeued DEF Finish
<1>4. ASSUME NEW v \in Updates
      PROVE  LET line == queue'[proc[v]] IN
             /\ at'[v] = "queued" => \E i \in 1..Len(line) : line[i] = v
             /\ at'[v] \in Seeking \cup Holding => line # <<>> /\ Head(line) = v
  <2>1. CASE v = u
    BY <1>1, <2>1 DEF Seeking, Holding, Inside, Ended
  <2>2. CASE v # u /\ proc[v] = proc[u]
    <3> DEFINE line == queue[proc[u]]
    <3>1. at'[v] = at[v] /\ at[v] \notin Seeking \cup Holding
      BY <1>1, <1>3, <2>2 DEF InTurn
    <3>2. ASSUME at[v] = "queued"
          PROVE  \E i \in 1..Len(Tail(line)) : Tail(line)[i] = v
      <4>1. PICK i \in 1..Len(line) : line[i] = v
        BY <2>2, <3>2 DEF InTurn
      <4>2. line \in Seq(Updates) /\ line # <<>> /\ line[1] = u
        BY <1>3
      <4> HIDE DEF line
      <4>3. i - 1 \in 1..Len(Tail(line)) /\ Tail(line)[i - 1] = v
        BY <4>1, <4>2, <2>2
      <4> QED  BY <4>3
    <3> QED  BY <1>3, <2>2, <3>1, <3>2
  <2>3. CASE v # u /\ proc[v] # proc[u]
    <3>1. queue'[proc[v]] = queue[proc[v]] /\ at'[v] = at[v]
      BY <1>1, <1>3, <2>3 DEF TypeOK
    <3> QED  BY <3>1 DEF InTurn
  <2> QED  BY <2>1, <2>2, <2>3
<1> QED  BY <1>2, <1>4 DEF InTurn

LEMMA TurnKept ==
    ASSUME TypeOK, InTurn, [Next]_vars
    PROVE  InTurn'
<1> USE Distinct DEF world, lockfile, statefile
<1>1. CASE UNCHANGED vars
  BY <1>1 DEF InTurn, vars
<1>2. ASSUME NEW u \in Updates, Update(u)  PROVE InTurn'
  <2>1. at'[u] = "queued" /\ \A d \in Calls : d # u => at'[d] = at[d]
    BY <1>2, Moves DEF Update, Steps
  <2>2. /\ UNCHANGED <<proc, alive>> /\ proc[u] \in alive
        /\ queue' = [queue EXCEPT ![proc[u]] = Append(@, u)]
    BY <1>2 DEF Update
  <2>3. \A d \in Calls : at'[d] \notin {"idle"} \cup Ended => proc'[d] \in alive'
    BY <2>1, <2>2 DEF InTurn
  <2>4. ASSUME NEW v \in Updates
        PROVE  LET line == queue'[proc[v]] IN
               /\ at'[v] = "queued" => \E i \in 1..Len(line) : line[i] = v
               /\ at'[v] \in Seeking \cup Holding => line # <<>> /\ Head(line) = v
    <3> DEFINE old == queue[proc[v]]
    <3>1. old \in Seq(Updates)
      BY DEF TypeOK
    <3>2. CASE proc[v] # proc[u]
      <4>1. queue'[proc[v]] = old /\ v # u
        BY <2>2, <3>2 DEF TypeOK
      <4> QED  BY <4>1, <2>1 DEF InTurn
    <3>3. CASE proc[v] = proc[u]
      <4>1. queue'[proc[v]] = Append(old, u)
        BY <2>2, <3>3 DEF TypeOK
      <4>2. CASE v = u
        <5>1. Len(old) + 1 \in 1..Len(Append(old, u)) /\ Append(old, u)[Len(old) + 1] = u
          BY <3>1
        <5> QED  BY <5>1, <4>1, <4>2, <2>1 DEF Seeking, Holding, Inside
      <4>3. CASE v # u
        <5>1. /\ at[v] = "queued" => \E i \in 1..Len(old) : old[i] = v
              /\ at[v] \in Seeking \cup Holding => old # <<>> /\ Head(old) = v
          BY DEF InTurn
        <5>2. \A i \in 1..Len(old) : i \in 1..Len(Append(old, u)) /\ Append(old, u)[i] = old[i]
          BY <3>1
        <5>3. old # <<>> => Append(old, u) # <<>> /\ Head(Append(old, u)) = Head(old)
          BY <3>1
        <5> HIDE DEF old
        <5> QED  BY <5>1, <5>2, <5>3, <4>1, <4>3, <2>1
      <4> QED  BY <4>2, <4>3
    <3> QED  BY <3>2, <3>3
  <2> QED  BY <2>2, <2>3, <2>4 DEF InTurn
<1>3. ASSUME NEW u \in Updates, UpdateStep(u)  PROVE InTurn'
  <2>1. CASE at[u] \in {"fill", "wait", "release"} /\ \E step \in Ended : Finish(u, step)
    BY <1>3, <2>1, FinishInTurn DEF UpdateStep, Begin, OpenLock, FillLock, Stat, Judge, RemoveStale, Wait,
                                    Write, Release, Seeking, Holding, Inside
  <2>2. CASE UNCHANGED queue /\ \E step \in Seeking \cup Holding : Goto(u, step)
    <3>1. /\ UNCHANGED <<proc, alive>>
          /\ at[u] \in Seeking \cup Holding \/ (at[u] = "queued" /\ Head(queue[proc[u]]) = u)
      BY <1>3 DEF UpdateStep, Begin, OpenLock, FillLock, Stat, Judge, RemoveStale, Wait, Write, Release,
                  Seeking, Holding, Inside
    <3>2. proc[u] \in alive
      BY <3>1 DEF InTurn, Seeking, Holding, Inside, Ended
    <3> QED  BY <2>2, <3>1, <3>2, GoesOnInTurn DEF Steps
  <2> QED  BY <1>3, <2>1, <2>2 DEF UpdateStep, Begin, OpenLock, FillLock, Stat, Judge, RemoveStale, Wait,
                                   Write, Release, Finish, Seeking, Holding, Inside, Ended
<1>4. ASSUME NEW c \in Calls, (c \in Reads /\ Look(c)) \/ ReadStep(c)  PROVE InTurn'
  <2>1. UNCHANGED <<proc, alive, queue>>
    BY <1>4 DEF Look, ReadStep, Read, Quarantine
  <2>2. proc[c] \in alive /\ (c \in Updates => at[c] \in Holding)
    BY <1>4, LocalStateAssumption DEF Look, ReadStep, Read, Quarantine, InTurn, Ended, Holding, Inside
  <2>3. PICK step \in Steps : Goto(c, step) /\ (c \in Updates => step \in Holding)
    BY <1>4, LocalStateAssumption
       DEF Look, ReadStep, Read, Quarantine, AfterRead, Broken, Steps, Holding, Inside, Ended
  <2> QED  BY <2>1, <2>2, <2>3, GoesOnInTurn
<1>5. ASSUME NEW p \in Procs, Crash(p)  PROVE InTurn'
  <2>1. /\ \A c \in Calls : at'[c] = IF proc[c] = p /\ at[c] \notin {"done", "failed"}
                                     THEN "crashed" ELSE at[c]
        /\ proc' = proc /\ alive' = alive \ {p}
        /\ \A r \in Procs : r # p => queue'[r] = queue[r]
    BY <1>5 DEF Crash, TypeOK
  <2>2. ASSUME NEW c \in Calls, at'[c] \notin {"idle"} \cup Ended
        PROVE  at'[c] = at[c] /\ proc[c] # p /\ proc'[c] \in alive'
    BY <2>1, <2>2 DEF InTurn, Ended
  <2>3. ASSUME NEW u \in Updates, at'[u] = "queued" \/ at'[u] \in Seeking \cup Holding
        PROVE  at'[u] = at[u] /\ queue'[proc'[u]] = queue[proc[u]]
    <3>1. at'[u] \notin {"idle"} \cup Ended
      BY <2>3 DEF Seeking, Holding, Inside, Ended
    <3> QED  BY <2>1, <2>2, <3>1 DEF TypeOK
  <2> QED  BY <2>2, <2>3 DEF InTurn
<1> QED  BY <1>1, <1>2, <1>3, <1>4, <1>5 DEF Next

----------------------------------------------------------------------------
(* The lock file                                                           *)

\* A call moves, and neither the lock file nor what is thought of it changes.
LEMMA LockApart ==
    ASSUME TypeOK, LockInv, NEW c \in Calls, NEW step \in Steps, Goto(c, step),
           UNCHANGED <<lock, content, raced, seen>>,
           c \in Updates => /\ step \notin {"judge", "remove"} /\ at[c] \notin Ended
                            /\ at[c] \in Holding => step \in Holding
                            /\ step \in Holding => at[c] \in Holding
    PROVE  LockInv'
<1> USE Distinct
<1>1. at'[c] = step /\ \A d \in Calls : d # c => at'[d] = at[d]
  BY Moves
<1>2. \A u \in Updates : /\ at[u] \in Holding \cup Ended => at'[u] \in Holding \cup Ended
                         /\ at'[u] \in Holding => at[u] \in Holding
                         /\ at'[u] \in {"judge", "remove"} => at'[u] = at[u]
                         /\ at[u] \in Ended => at'[u] \in Ended
  BY <1>1
<1>3. lock # None => lock \in Updates
  BY DEF TypeOK
<1>4. \A u \in Updates : seen[u] # None => seen[u] \in Updates
  BY DEF TypeOK
<1>5. LockMadeOnce'
  BY <1>2, <1>3, <1>4 DEF LockInv, LockMadeOnce
<1>6. StaleIsDead'
  BY <1>2, <1>3, <1>4 DEF LockInv, StaleIsDead
<1>7. HolderHasLock'
  BY <1>2 DEF LockInv, HolderHasLock
<1> QED  BY <1>5, <1>6, <1>7 DEF LockInv

\* The lock file goes, and the call that removes it is past using one of its own or has none yet.
LEMMA LockGone ==
    ASSUME TypeOK, LockInv, NEW u \in Updates, NEW step \in Steps, Goto(u, step),
           lock' = None, seen' = seen, raced => raced',
           (at[u] = "remove" /\ step = "open") \/ (at[u] = "release" /\ step \in Ended),
           raced' \/ \A v \in Updates : v # u => at[v] \notin Holding
    PROVE  LockInv'
<1> USE Distinct
<1>1. at'[u] = step /\ \A d \in Calls : d # u => at'[d] = at[d]
  BY Moves
<1>2. LockMadeOnce'
  <2> SUFFICES ASSUME NEW v \in Updates, seen[v] # None
               PROVE  at'[seen[v]] \in Holding \cup Ended
    BY DEF LockMadeOnce
  <2>1. seen[v] \in Updates /\ at[seen[v]] \in Holding \cup Ended
    BY DEF TypeOK, LockInv, LockMadeOnce
  <2>2. seen[v] = u => at[u] = "release"
    BY <2>1 DEF Holding, Inside, Ended
  <2> QED  BY <1>1, <2>1, <2>2
<1>3. StaleIsDead'
  BY DEF StaleIsDead
<1>4. HolderHasLock'
  BY <1>1 DEF HolderHasLock, Holding, Inside, Ended
<1> QED  BY <1>2, <1>3, <1>4 DEF LockInv

LEMMA OpenKeepsLock ==
    ASSUME TypeOK, LockInv, NEW u \in Updates, OpenLock(u)
    PROVE  LockInv'
<1> USE Distinct
<1>1. CASE lock # None
  <2>1. Goto(u, "stat") /\ UNCHANGED <<lock, content, raced, seen>> /\ at[u] = "open"
    BY <1>1 DEF OpenLock
  <2> QED  BY <2>1, LockApart DEF Steps, Seeking, Holding, Inside, Ended
<1>2. CASE lock = None
  <2>1. Goto(u, "fill") /\ lock' = u /\ UNCHANGED <<raced, seen>> /\ at[u] = "open"
    BY <1>2 DEF OpenLock
  <2>2. at'[u] = "fill" /\ \A d \in Calls : d # u => at'[d] = at[d]
    BY <2>1, Moves DEF Steps, Holding
  <2>3. \A v \in Updates : seen[v] # u
    BY <2>1 DEF LockInv, LockMadeOnce, Holding, Inside, Ended
  <2>4. LockMadeOnce'
    <3>1. \A v \in Updates : seen[v] # None => seen[v] \in Updates
      BY DEF TypeOK
    <3> QED  BY <2>1, <2>2, <2>3, <3>1 DEF LockInv, LockMadeOnce, Holding
  <2>5. StaleIsDead'
    BY <2>1, <2>3 DEF StaleIsDead
  <2>6. HolderHasLock'
    BY <1>2, <2>1, <2>2 DEF LockInv, HolderHasLock
  <2> QED  BY <2>4, <2>5, <2>6 DEF LockInv
<1> QED  BY <1>1, <1>2

LEMMA StatKeepsLock ==
    ASSUME TypeOK, LockInv, NEW u \in Updates, Stat(u)
    PROVE  LockInv'
<1> USE Distinct DEF lockfile
<1>1. CASE UNCHANGED seen /\ (Goto(u, "open") \/ Goto(u, "wait"))
  BY <1>1, LockApart DEF Stat, Steps, Seeking, Holding, Inside, Ended
<1>2. CASE /\ lock # None /\ (content = "pid" \/ at[lock] \in Ended)
           /\ Goto(u, "judge") /\ seen' = [seen EXCEPT ![u] = lock]
  <2>1. at[u] = "stat" /\ UNCHANGED <<lock, content, raced>>
    BY DEF Stat
  <2>2. at'[u] = "judge" /\ \A d \in Calls : d # u => at'[d] = at[d]
    BY <1>2, Moves DEF Steps, Seeking
  <2>3. lock \in Updates /\ at[lock] \in Holding \cup Ended /\ lock # u
    BY <1>2, <2>1 DEF TypeOK, LockInv, LockMadeOnce, Holding, Inside, Ended
  <2>4. \A v \in Updates : seen[v] # None => /\ seen[v] \in Updates \ {u}
                                             /\ at[seen[v]] \in Holding \cup Ended
    BY <2>1 DEF TypeOK, LockInv, LockMadeOnce, Holding, Inside, Ended
  <2>5. seen'[u] = lock /\ \A v \in Updates : v # u => seen'[v] = seen[v]
    BY <1>2 DEF TypeOK
  <2>6. LockMadeOnce'
    BY <2>1, <2>2, <2>3, <2>4, <2>5 DEF LockMadeOnce
  <2>7. StaleIsDead'
    BY <1>2, <2>1, <2>2, <2>3, <2>5 DEF LockInv, StaleIsDead
  <2>8. HolderHasLock'
    BY <2>1, <2>2 DEF LockInv, HolderHasLock, Holding, Inside
  <2> QED  BY <2>6, <2>7, <2>8 DEF LockInv
<1> QED  BY <1>1, <1>2 DEF Stat

LEMMA JudgeKeepsLock ==
    ASSUME TypeOK, InTurn, LockInv, NEW u \in Updates, Judge(u)
    PROVE  LockInv'
<1> USE Distinct DEF lockfile
<1>1. at[u] = "judge" /\ UNCHANGED <<lock, content, raced, seen>>
  BY DEF Judge
<1>2. CASE Goto(u, "wait")
  BY <1>1, <1>2, LockApart DEF Steps, Seeking, Holding, Inside, Ended
<1>3. CASE Goto(u, "remove") /\ ~(lock # None /\ ((content = "pid" /\ proc[lock] \in alive) \/ content = "torn"))
  <2>1. at'[u] = "remove" /\ \A d \in Calls : d # u => at'[d] = at[d]
    BY <1>3, Moves DEF Steps, Seeking
  <2>2. lock # None => lock \in Updates /\ lock # u
    BY <1>1 DEF TypeOK, LockInv, LockMadeOnce, Holding, Inside, Ended
  <2>3. LockMadeOnce'
    <3>1. \A v \in Updates : seen[v] # None => seen[v] \in Updates \ {u}
      BY <1>1 DEF TypeOK, LockInv, LockMadeOnce, Holding, Inside, Ended
    <3> QED  BY <1>1, <2>1, <2>2, <3>1 DEF LockInv, LockMadeOnce
  <2>4. StaleIsDead'
    <3>1. ASSUME lock # None, lock = seen[u]  PROVE at[lock] \notin Holding
      <4>1. content = "pid" \/ at[lock] \in Ended
        BY <1>1, <3>1 DEF LockInv, StaleIsDead
      <4>2. at[lock] \in {"idle"} \cup Ended \/ proc[lock] \in alive
        BY <2>2, <3>1 DEF InTurn
      <4> QED  BY <1>3, <3>1, <4>1, <4>2 DEF Holding, Inside, Ended
    <3> QED  BY <1>1, <2>1, <2>2, <3>1 DEF LockInv, StaleIsDead
  <2>5. HolderHasLock'
    BY <1>1, <2>1 DEF LockInv, HolderHasLock, Holding, Inside
  <2> QED  BY <2>3, <2>4, <2>5 DEF LockInv
<1> QED  BY <1>2, <1>3 DEF Judge

LEMMA LockKept ==
    ASSUME TypeOK, InTurn, LockInv, [Next]_vars
    PROVE  LockInv'
<1> USE Distinct DEF world, lockfile, statefile
<1>1. CASE UNCHANGED vars
  BY <1>1 DEF LockInv, LockMadeOnce, StaleIsDead, HolderHasLock, vars
<1>2. ASSUME NEW u \in Updates, Update(u) \/ Begin(u) \/ Write(u)  PROVE LockInv'
  <2>1. /\ UNCHANGED <<lock, content, raced, seen>>
        /\ \/ at[u] \in {"idle", "queued"} /\ (Goto(u, "queued") \/ Goto(u, "open"))
           \/ at[u] = "write" /\ Goto(u, "release")
    BY <1>2 DEF Update, Begin, Write
  <2> QED  BY <2>1, LockApart DEF Steps, Seeking, Holding, Inside, Ended
<1>3. ASSUME NEW u \in Updates, Wait(u)  PROVE LockInv'
  <2>1. /\ UNCHANGED <<lock, content, raced, seen>> /\ at[u] = "wait"
        /\ Goto(u, "open") \/ Goto(u, "failed")
    BY <1>3 DEF Wait, Finish
  <2> QED  BY <2>1, LockApart DEF Steps, Seeking, Holding, Inside, Ended
<1>4. ASSUME NEW u \in Updates, FillLock(u)  PROVE LockInv'
  <2>1. /\ at[u] = "fill" /\ UNCHANGED <<lock, raced, seen>>
        /\ \/ Goto(u, "read") /\ content' = IF lock = u THEN "pid" ELSE content
           \/ Goto(u, "failed") /\ (lock # u => content' = content)
    BY <1>4 DEF FillLock, Finish
  <2>2. /\ at'[u] \in {"read", "failed"} /\ \A d \in Calls : d # u => at'[d] = at[d]
        /\ lock # u => content' = content
        /\ at'[u] = "read" => content' = IF lock = u THEN "pid" ELSE content
    BY <2>1, Moves DEF Steps, Holding, Inside, Ended
  <2>3. lock # None => lock \in Updates
    BY DEF TypeOK
  <2>4. LockMadeOnce'
    <3>1. \A v \in Updates : seen[v] # None => seen[v] \in Updates
      BY DEF TypeOK
    <3> QED  BY <2>1, <2>2, <2>3, <3>1 DEF LockInv, LockMadeOnce, Holding, Inside, Ended
  <2>5. StaleIsDead'
    <3> SUFFICES ASSUME NEW v \in Updates, lock # None, lock = seen[v]
                 PROVE  /\ at'[v] = "judge" => content' = "pid" \/ at'[lock] \in Ended
                        /\ at'[v] = "remove" => at'[lock] \notin Holding
      BY <2>1 DEF StaleIsDead
    <3>1. /\ at[v] = "judge" => content = "pid" \/ at[lock] \in Ended
          /\ at[v] = "remove" => at[lock] \notin Holding
      BY DEF LockInv, StaleIsDead
    <3>2. at'[v] \in {"judge", "remove"} => at'[v] = at[v]
      BY <2>2
    <3>3. CASE lock = u
      BY <2>1, <2>2, <3>1, <3>2, <3>3 DEF Holding, Ended
    <3>4. CASE lock # u
      BY <2>2, <2>3, <3>1, <3>2, <3>4
    <3> QED  BY <3>3, <3>4
  <2>6. HolderHasLock'
    BY <2>1, <2>2 DEF LockInv, HolderHasLock, Holding, Inside
  <2> QED  BY <2>4, <2>5, <2>6 DEF LockInv
<1>5. ASSUME NEW u \in Updates, RemoveStale(u)  PROVE LockInv'
  <2>1. /\ at[u] = "remove" /\ Goto(u, "open") /\ lock' = None /\ seen' = seen
        /\ raced' = (raced \/ lock \notin {None, seen[u]})
    BY <1>5 DEF RemoveStale
  <2>2. raced' \/ \A v \in Updates : at[v] \notin Holding
    BY <2>1 DEF LockInv, HolderHasLock, StaleIsDead
  <2> QED  BY <2>1, <2>2, LockGone DEF Steps, Seeking
<1>6. ASSUME NEW u \in Updates, Release(u)  PROVE LockInv'
  <2>1. PICK step \in {"done", "failed"} :
          at[u] = "release" /\ Goto(u, step) /\ lock' = None /\ seen' = seen /\ raced' = raced
    BY <1>6 DEF Release, Finish
  <2>2. raced' \/ \A v \in Updates : v # u => at[v] \notin Holding
    BY <2>1 DEF LockInv, HolderHasLock, Holding, Inside
  <2> QED  BY <2>1, <2>2, LockGone DEF Steps, Ended
<1>7. ASSUME NEW c \in Calls, (c \in Reads /\ Look(c)) \/ ReadStep(c)  PROVE LockInv'
  <2>1. UNCHANGED <<lock, content, raced, seen>>
    BY <1>7 DEF Look, ReadStep, Read, Quarantine
  <2>2. PICK step \in Steps : Goto(c, step) /\ (c \in Updates => step \in Holding /\ at[c] \in Holding)
    BY <1>7, LocalStateAssumption
       DEF Look, ReadStep, Read, Quarantine, AfterRead, Broken, Steps, Holding, Inside, Ended
  <2> QED  BY <2>1, <2>2, LockApart DEF Holding, Inside, Ended
<1>8. ASSUME NEW p \in Procs, Crash(p)  PROVE LockInv'
  <2>1. lock # None => lock \in Calls
    BY DEF TypeOK
  <2>2. \A u \in Updates : seen[u] # None => seen[u] \in Calls
    BY DEF TypeOK
  <2>3. /\ UNCHANGED <<lock, raced, seen>>
        /\ \A c \in Calls : at'[c] = at[c] \/ at'[c] = "crashed"
        /\ content' = content \/ (lock # None /\ at'[lock] = "crashed")
    <3>1. /\ \A c \in Calls : at'[c] = IF proc[c] = p /\ at[c] \notin {"done", "failed"}
                                       THEN "crashed" ELSE at[c]
          /\ content' = content \/ (lock # None /\ at[lock] = "fill" /\ proc[lock] = p)
      BY <1>8 DEF Crash
    <3> QED  BY <1>8, <2>1, <3>1 DEF Crash
  <2>4. LockMadeOnce'
    BY <2>1, <2>2, <2>3 DEF LockInv, LockMadeOnce, Ended
  <2>5. StaleIsDead'
    BY <2>1, <2>2, <2>3 DEF LockInv, StaleIsDead, Holding, Inside, Ended
  <2>6. HolderHasLock'
    BY <2>3 DEF LockInv, HolderHasLock, Holding, Inside
  <2> QED  BY <2>4, <2>5, <2>6 DEF LockInv
<1> QED  BY <1>1, <1>2, <1>3, <1>4, <1>5, <1>6, <1>7, <1>8, OpenKeepsLock, StatKeepsLock, JudgeKeepsLock
         DEF Next, UpdateStep

----------------------------------------------------------------------------
(* The state file                                                          *)

\* A call moves, and no file but the lock file changes.
LEMMA FileApart ==
    ASSUME TypeOK, FileInv, NEW c \in Calls, NEW step \in Steps, Goto(c, step),
           UNCHANGED <<file, shelf, current>>, raced => raced',
           c \in Updates => step \notin {"write", "release"},
           c \in Updates /\ at[c] \in {"release"} \cup Ended => step \in Ended,
           c \in Updates /\ step = "done" => at[c] = "release" /\ c \in current[c]
    PROVE  FileInv'
<1> USE Distinct
<1>1. at'[c] = step /\ \A d \in Calls : d # c => at'[d] = at[d]
  BY Moves
<1>2. NotYetWritten'
  BY <1>1 DEF FileInv, NotYetWritten
<1>3. WritesOnTop'
  BY <1>1 DEF FileInv, WritesOnTop
<1>4. WrittenIsKept'
  BY <1>1 DEF FileInv, WrittenIsKept, Kept
<1> QED  BY <1>2, <1>3, <1>4 DEF FileInv

LEMMA ReadKeepsFile ==
    ASSUME TypeOK, FileInv, NEW c \in Calls, Read(c)
    PROVE  FileInv'
<1> USE Distinct, LocalStateAssumption DEF lockfile, statefile
<1>1. /\ at[c] = "read" /\ UNCHANGED <<file, shelf, raced>>
      /\ \A d \in Calls : d # c => current'[d] = current[d]
      /\ current'[c] \in {{}, file, current[c]}
      /\ file \notin {Absent, Corrupt} => current'[c] = file
  BY DEF Read, TypeOK
<1>2. PICK step \in Steps :
        /\ Goto(c, step)
        /\ c \in Updates => step \in Inside
        /\ step = "release" => current'[c] = current[c]
  BY DEF Read, AfterRead, Broken, Steps, Holding, Inside, Ended
<1>3. at'[c] = step /\ \A d \in Calls : d # c => at'[d] = at[d]
  BY <1>2, Moves
<1>4. NotYetWritten'
  BY <1>1, <1>2, <1>3 DEF FileInv, NotYetWritten, Ended
<1>5. WritesOnTop'
  BY <1>1, <1>3 DEF FileInv, WritesOnTop
<1>6. WrittenIsKept'
  <2>1. c \in Updates => c \notin current[c]
    BY <1>1 DEF FileInv, NotYetWritten, Ended
  <2>2. c \in Updates => step # "done"
    BY <1>2 DEF Inside
  <2> QED  BY <1>1, <1>2, <1>3, <2>1, <2>2 DEF FileInv, WrittenIsKept, Kept
<1> QED  BY <1>4, <1>5, <1>6 DEF FileInv

LEMMA QuarantineKeepsFile ==
    ASSUME TypeOK, FileInv, NEW c \in Calls, Quarantine(c)
    PROVE  FileInv'
<1> USE Distinct, LocalStateAssumption DEF lockfile, statefile
<1>1. /\ at[c] = "quarantine" /\ UNCHANGED <<raced, current>>
      /\ file' = Absent /\ (file = Absent \/ file \in shelf') /\ shelf \subseteq shelf'
  BY DEF Quarantine
<1>2. PICK step \in Steps : Goto(c, step) /\ (c \in Updates => step \in Inside)
  BY DEF Quarantine, AfterRead, Broken, Steps, Holding, Inside, Ended
<1>3. at'[c] = step /\ \A d \in Calls : d # c => at'[d] = at[d]
  BY <1>2, Moves
<1>4. NotYetWritten'
  BY <1>1, <1>2, <1>3 DEF FileInv, NotYetWritten, Ended, Absent
<1>5. WritesOnTop'
  BY <1>1 DEF WritesOnTop
<1>6. WrittenIsKept'
  <2>1. c \in Updates => c \notin current[c] /\ step # "done"
    BY <1>1, <1>2 DEF FileInv, NotYetWritten, Ended, Inside
  <2>2. \A u \in Updates : Kept(u) => Kept(u)'
    BY <1>1 DEF Kept
  <2> QED  BY <1>1, <1>3, <2>1, <2>2 DEF FileInv, WrittenIsKept
<1> QED  BY <1>4, <1>5, <1>6 DEF FileInv

LEMMA WriteKeepsFile ==
    ASSUME TypeOK, LockInv, FileInv, NEW u \in Updates, Write(u)
    PROVE  FileInv'
<1> USE Distinct DEF lockfile
<1>1. at[u] = "write" /\ Goto(u, "release") /\ UNCHANGED <<raced, shelf>>
  BY DEF Write
<1>2. at'[u] = "release" /\ \A d \in Calls : d # u => at'[d] = at[d]
  BY <1>1, Moves DEF Steps, Holding, Inside
<1>3. raced \/ \A v \in Updates : v # u => at[v] # "write"
  BY <1>1 DEF LockInv, HolderHasLock, Holding, Inside
<1>4. CASE UNCHANGED <<file, current>>
  <2>1. u \notin current[u]
    BY <1>1 DEF FileInv, NotYetWritten, Ended
  <2>2. NotYetWritten'
    BY <1>2, <1>4 DEF FileInv, NotYetWritten
  <2>3. WritesOnTop'
    BY <1>1, <1>2, <1>4 DEF FileInv, WritesOnTop
  <2>4. WrittenIsKept'
    BY <1>1, <1>2, <1>4, <2>1 DEF FileInv, WrittenIsKept, Kept
  <2> QED  BY <2>2, <2>3, <2>4 DEF FileInv
<1>5. CASE file' = current[u] \cup {u} /\ current' = [current EXCEPT ![u] = @ \cup {u}]
  <2>1. /\ current'[u] = current[u] \cup {u}
        /\ \A d \in Calls : d # u => current'[d] = current[d]
    BY <1>5 DEF TypeOK
  <2>2. file' \notin {Absent, Corrupt} /\ u \in file'
    BY <1>5 DEF Absent, Corrupt
  <2>3. NotYetWritten'
    BY <1>2, <1>5, <2>1 DEF FileInv, NotYetWritten
  <2>4. WritesOnTop'
    BY <1>1, <1>2, <1>3 DEF WritesOnTop
  <2>5. WrittenIsKept'
    <3> SUFFICES ASSUME ~raced, NEW v \in Updates,
                        at'[v] = "done" \/ (at'[v] = "release" /\ v \in current'[v])
                 PROVE  Kept(v)'
      BY <1>1 DEF WrittenIsKept
    <3>1. CASE v = u
      BY <2>2, <3>1 DEF Kept
    <3>2. CASE v # u
      <4>1. Kept(v)
        BY <1>2, <2>1, <3>2 DEF FileInv, WrittenIsKept
      <4>2. file \notin {Absent, Corrupt} => file \subseteq file'
        BY <1>1, <1>5 DEF FileInv, WritesOnTop
      <4> QED  BY <4>1, <4>2, <2>2, <1>1 DEF Kept
    <3> QED  BY <3>1, <3>2
  <2> QED  BY <2>3, <2>4, <2>5 DEF FileInv
<1> QED  BY <1>4, <1>5 DEF Write

LEMMA FileKept ==
    ASSUME TypeOK, LockInv, FileInv, [Next]_vars
    PROVE  FileInv'
<1> USE Distinct DEF world, lockfile, statefile
<1>1. CASE UNCHANGED vars
  BY <1>1 DEF FileInv, NotYetWritten, WritesOnTop, WrittenIsKept, Kept, vars
<1>2. ASSUME NEW u \in Updates,
             \/ Update(u) \/ Begin(u) \/ OpenLock(u) \/ FillLock(u) \/ Stat(u) \/ Judge(u)
             \/ RemoveStale(u) \/ Wait(u) \/ Release(u)
      PROVE  FileInv'
  <2>1. UNCHANGED <<file, shelf, current>>
    BY <1>2 DEF Update, Begin, OpenLock, FillLock, Stat, Judge, RemoveStale, Wait, Release
  <2>3. raced => raced'
    <3>1. CASE RemoveStale(u)
      BY <3>1 DEF RemoveStale
    <3>2. CASE raced' = raced
      BY <3>2
    <3> QED  BY <1>2, <3>1, <3>2 DEF Update, Begin, OpenLock, FillLock, Stat, Judge, Wait, Release
  <2>2. PICK step \in Steps \ {"write", "release"} :
          /\ Goto(u, step)
          /\ at[u] \in {"release"} \cup Ended => step \in Ended
          /\ step = "done" => at[u] = "release" /\ u \in current[u]
    <3>1. CASE Release(u)
      BY <3>1 DEF Release, Finish, Steps, Ended
    <3>2. CASE \/ Update(u) \/ Begin(u) \/ OpenLock(u) \/ FillLock(u) \/ Stat(u) \/ Judge(u)
               \/ RemoveStale(u) \/ Wait(u)
      <4>1. at[u] \notin {"release"} \cup Ended
        BY <3>2 DEF Update, Begin, OpenLock, FillLock, Stat, Judge, RemoveStale, Wait, Ended
      <4>2. PICK step \in {"queued", "open", "fill", "read", "stat", "wait", "judge", "remove", "failed"} :
              Goto(u, step)
        BY <3>2 DEF Update, Begin, OpenLock, FillLock, Stat, Judge, RemoveStale, Wait, Finish
      <4> QED  BY <4>1, <4>2 DEF Steps, Seeking, Holding, Inside, Ended
    <3> QED  BY <1>2, <3>1, <3>2
  <2> QED  BY <2>1, <2>2, <2>3, FileApart
<1>3. ASSUME NEW r \in Reads, Look(r)  PROVE FileInv'
  BY <1>3, FileApart, LocalStateAssumption DEF Look, Steps, Holding, Inside
<1>4. ASSUME NEW p \in Procs, Crash(p)  PROVE FileInv'
  <2>1. /\ UNCHANGED <<file, shelf, current, raced>>
        /\ \A c \in Calls : at'[c] = at[c] \/ at'[c] = "crashed"
    BY <1>4 DEF Crash
  <2> QED  BY <2>1 DEF FileInv, NotYetWritten, WritesOnTop, WrittenIsKept, Kept, Ended
<1> QED  BY <1>1, <1>2, <1>3, <1>4, ReadKeepsFile, QuarantineKeepsFile, WriteKeepsFile
         DEF Next, UpdateStep, ReadStep

----------------------------------------------------------------------------
(* The theorems                                                            *)

\* The types, and the turns: in one process the updates that have been asked for begin in their order,
\* each when the one before it is over, and no call of a crashed process goes on.
THEOREM TurnsTaken == Spec => [](TypeOK /\ InTurn)
<1>1. TypeOK /\ InTurn /\ [Next]_vars => (TypeOK /\ InTurn)'
  BY TypesKept, TurnKept
<1> QED  BY <1>1, InitLocal, PTL DEF Spec

\* The inductive invariant of the lock file: a lock file that was found to be old never comes back,
\* so what a recovery removes is the lock file of a dead update, unless a new one has taken its place.
THEOREM LockCorrect == Spec => []LockInv
<1>1. TypeOK /\ InTurn /\ LockInv /\ [Next]_vars => LockInv'
  BY LockKept
<1> QED  BY <1>1, InitLocal, TurnsTaken, PTL DEF Spec

\* Updates of one process or of several never overlap, whoever crashes, waits or gives up, unless a
\* recovery takes a new lock file for the old one.
THEOREM UpdatesSerialized == Spec => []Serialized
<1>1. LockInv => Serialized
  BY DEF LockInv, HolderHasLock, Serialized, Holding
<1> QED  BY <1>1, LockCorrect, PTL

\* No update that was reported as done is lost, under the same proviso: an update writes on top of all
\* that it replaces, and what is quarantined is kept.
THEOREM NothingLost == Spec => []NoLostUpdate
<1>1. TypeOK /\ LockInv /\ FileInv /\ [Next]_vars => FileInv'
  BY FileKept
<1>2. FileInv => NoLostUpdate
  BY DEF FileInv, WrittenIsKept, Kept, NoLostUpdate
<1> QED  BY <1>1, <1>2, InitLocal, TurnsTaken, LockCorrect, PTL DEF Spec

----------------------------------------------------------------------------
(* SyncEvents                                                              *)

\* A process that is in no call owes nothing.
LEMMA NoCallInv == \A p \in Servers : NoCall \in Replays /\ CallInv(p, NoCall)
BY DEF NoCall, CallInv, Replays, Dbs

\* Nothing is logged at the start.
LEMMA SyncInitInv == SyncInit => SyncInv
<1> SUFFICES ASSUME SyncInit PROVE SyncInv
  OBVIOUS
<1> USE DEF SyncInit
<1>1. \A d \in Dbs : log[d] = <<>> /\ seq[d] = -1 /\ ~row[d] /\ applied[d] = <<>>
  OBVIOUS
<1>2. Writer \in Dbs /\ \A f \in Files : f \in Dbs
  BY DEF Dbs
<1>3. SyncTypeOK
  <2>1. path \in [Servers -> Files]
    BY SyncAssumption
  <2>2. row \in [Dbs -> BOOLEAN] /\ log \in [Dbs -> Seq(Events)]
    OBVIOUS
  <2>3. seq \in [Dbs -> Int] /\ applied \in [Dbs -> Seq(Nat)]
    OBVIOUS
  <2>4. call \in [Servers -> Replays]
    BY NoCallInv
  <2>5. ids \in Nat /\ deleting \in BOOLEAN /\ removed \in BOOLEAN
    OBVIOUS
  <2> QED  BY <2>1, <2>2, <2>3, <2>4, <2>5 DEF SyncTypeOK
<1>4. CallsInv
  BY NoCallInv DEF CallsInv
<1>5. WriterInv /\ Copies
  BY <1>1, <1>2 DEF WriterInv, Copies
<1>6. ProjectedInv
  BY <1>1, <1>2 DEF ProjectedInv, Projected
<1>7. LoggedInv
  BY <1>1, <1>2 DEF LoggedInv, IsInjective
<1> QED  BY <1>3, <1>4, <1>5, <1>6, <1>7 DEF SyncInv

\* What a transaction on database d does to its tables, and to no others.
LEMMA ProcessEffect ==
    ASSUME SyncTypeOK, NEW d \in Dbs, NEW e \in Events, Process(d, e)
    PROVE  /\ \A x \in Dbs \ {d} : /\ log'[x] = log[x] /\ seq'[x] = seq[x]
                                   /\ row'[x] = row[x] /\ applied'[x] = applied[x]
           /\ log'[d] = Append(log[d], e) /\ seq'[d] = e.seq
           /\ Len(log'[d]) = Len(log[d]) + 1 /\ log'[d][Len(log[d]) + 1] = e
           /\ \A i \in 1..Len(log[d]) : log'[d][i] = log[d][i]
           /\ row'[d] = (IF e.kind = "message" THEN row[d] ELSE e.kind # "deleted")
           /\ applied'[d] = IF e.kind = "created" \/ row[d]
                            THEN Append(applied[d], e.id) ELSE applied[d]
           /\ e.id \notin Logged(d)
<1>1. /\ \A x \in Dbs \ {d} : log'[x] = log[x] /\ seq'[x] = seq[x]
      /\ log'[d] = Append(log[d], e) /\ seq'[d] = e.seq
  BY DEF Process, SyncTypeOK
<1>2. log[d] \in Seq(Events)
  BY DEF SyncTypeOK
<1>3. /\ Len(log'[d]) = Len(log[d]) + 1 /\ log'[d][Len(log[d]) + 1] = e
      /\ \A i \in 1..Len(log[d]) : log'[d][i] = log[d][i]
  BY <1>1, <1>2
<1>4. /\ \A x \in Dbs \ {d} : row'[x] = row[x]
      /\ row'[d] = (IF e.kind = "message" THEN row[d] ELSE e.kind # "deleted")
  BY DEF Process, SyncTypeOK
<1>5. /\ \A x \in Dbs \ {d} : applied'[x] = applied[x]
      /\ applied'[d] = IF e.kind = "created" \/ row[d] THEN Append(applied[d], e.id) ELSE applied[d]
  BY DEF Process, ProjectorActs, SyncTypeOK
<1> QED  BY <1>1, <1>3, <1>4, <1>5 DEF Process

\* A transaction keeps the types of the tables.
LEMMA ProcessTypes ==
    ASSUME SyncTypeOK, NEW d \in Dbs, NEW e \in Events, Process(d, e)
    PROVE  /\ log' \in [Dbs -> Seq(Events)] /\ seq' \in [Dbs -> Int]
           /\ applied' \in [Dbs -> Seq(Nat)] /\ row' \in [Dbs -> BOOLEAN]
<1>1. Append(log[d], e) \in Seq(Events) /\ e.seq \in Int /\ e.id \in Nat
  <2>1. log[d] \in Seq(Events)
    BY DEF SyncTypeOK
  <2>2. e.seq \in Int /\ e.id \in Nat
    BY DEF Events
  <2> QED  BY <2>1, <2>2
<1>2. log' \in [Dbs -> Seq(Events)] /\ seq' \in [Dbs -> Int]
  BY <1>1 DEF Process, SyncTypeOK
<1>3. applied' \in [Dbs -> Seq(Nat)]
  <2>1. Append(applied[d], e.id) \in Seq(Nat) /\ applied[d] \in Seq(Nat)
    BY <1>1 DEF SyncTypeOK
  <2>2. \E s \in Seq(Nat) : applied' = [applied EXCEPT ![d] = s]
    BY <2>1 DEF Process
  <2> QED  BY <2>2 DEF SyncTypeOK
<1>4. row' \in [Dbs -> BOOLEAN]
  <2>1. row[d] \in BOOLEAN
    BY DEF SyncTypeOK
  <2>2. \E b \in BOOLEAN : row' = [row EXCEPT ![d] = b]
    BY <2>1 DEF Process
  <2> QED  BY <2>2 DEF SyncTypeOK
<1> QED  BY <1>2, <1>3, <1>4

\* A transaction keeps what the projectors have made of a log that begins with its creation.
LEMMA ProcessProjects ==
    ASSUME SyncTypeOK, NEW d \in Dbs, NEW e \in Events, Process(d, e), Projected(d),
           (e.kind = "created") <=> (log[d] = <<>>)
    PROVE  Projected(d)'
<1> DEFINE n == Len(applied[d])
           m == Len(log[d])
<1>1. /\ log[d] \in Seq(Events) /\ applied[d] \in Seq(Nat) /\ n \in Nat /\ m \in Nat /\ e.id \in Nat
      /\ row[d] \in BOOLEAN /\ (log[d] = <<>> <=> m = 0)
  <2>1. log[d] \in Seq(Events) /\ applied[d] \in Seq(Nat) /\ row[d] \in BOOLEAN
    BY DEF SyncTypeOK
  <2>2. e.id \in Nat
    BY DEF Events
  <2> QED  BY <2>1, <2>2
<1>2. /\ Len(log'[d]) = m + 1 /\ log'[d][m + 1] = e /\ \A i \in 1..m : log'[d][i] = log[d][i]
      /\ log'[d] \in Seq(Events) /\ log'[d] # <<>>
  BY <1>1, ProcessEffect, ProcessTypes
<1>3. \A i \in 1..(m + 1) : i = m + 1 \/ i \in 1..m
  BY <1>1
<1>4. /\ n <= m /\ \A i \in 1..n : applied[d][i] = log[d][i].id
      /\ \A i \in 1..m : log[d][i].kind = "deleted" => ~row[d] /\ i >= n
      /\ row[d] => n = m
      /\ ~row[d] /\ m # 0 => n # 0 /\ log[d][n].kind = "deleted"
  BY <1>1 DEF Projected
<1>5. ASSUME NEW k \in 0..(m + 1), Len(applied'[d]) = k,
             \A i \in 1..k : applied'[d][i] = log'[d][i].id,
             \A i \in 1..(m + 1) : log'[d][i].kind = "deleted" => ~row'[d] /\ i >= k,
             row'[d] => k = m + 1,
             ~row'[d] => k # 0 /\ log'[d][k].kind = "deleted"
      PROVE  Projected(d)'
  BY <1>1, <1>2, <1>5 DEF Projected
<1> HIDE DEF n, m
<1>6. CASE e.kind = "created" \/ row[d]
  <2>1. applied'[d] = Append(applied[d], e.id)
    BY <1>6, ProcessEffect
  <2>2. n = m
    BY <1>1, <1>4, <1>6
  <2>3. /\ Len(applied'[d]) = m + 1 /\ applied'[d][m + 1] = e.id
        /\ \A i \in 1..m : applied'[d][i] = applied[d][i]
    BY <1>1, <2>1, <2>2 DEF n
  <2>4. \A i \in 1..m : log[d][i].kind # "deleted"
    BY <1>1, <1>4, <1>6
  <2>5. row'[d] <=> e.kind # "deleted"
    BY <1>1, <1>6, ProcessEffect
  <2>6. \A i \in 1..(m + 1) : applied'[d][i] = log'[d][i].id
    <3> SUFFICES ASSUME NEW i \in 1..(m + 1) PROVE applied'[d][i] = log'[d][i].id
      OBVIOUS
    <3>1. CASE i = m + 1
      BY <1>2, <2>3, <3>1
    <3>2. CASE i \in 1..m
      BY <1>2, <1>4, <2>2, <2>3, <3>2
    <3> QED  BY <1>3, <3>1, <3>2
  <2>7. \A i \in 1..(m + 1) : log'[d][i].kind = "deleted" => i = m + 1 /\ e.kind = "deleted"
    BY <1>2, <1>3, <2>4
  <2>8. m + 1 \in 0..(m + 1) /\ m + 1 \in 1..(m + 1) /\ m + 1 # 0 /\ m + 1 >= m + 1
    BY <1>1
  <2> QED  BY <1>2, <1>5, <2>3, <2>5, <2>6, <2>7, <2>8
<1>7. CASE ~(e.kind = "created" \/ row[d])
  <2>1. applied'[d] = applied[d]
    BY <1>7, ProcessEffect
  <2>2. ~row'[d]
    <3>1. e.kind \in {"message", "deleted"}
      BY <1>7 DEF Events, Kinds, Process, ProjectorThrows
    <3> QED  BY <1>7, <3>1, ProcessEffect
  <2>3. n # 0 /\ n \in 1..m /\ n \in 0..(m + 1) /\ log[d][n].kind = "deleted"
    BY <1>1, <1>4, <1>7
  <2>4. \A i \in 1..n : i \in 1..m
    BY <1>1, <1>4
  <2>5. \A i \in 1..n : applied'[d][i] = log'[d][i].id
    BY <1>2, <1>4, <2>1, <2>4
  <2>6. \A i \in 1..(m + 1) : log'[d][i].kind = "deleted" => i >= n
    <3> SUFFICES ASSUME NEW i \in 1..(m + 1), log'[d][i].kind = "deleted" PROVE i >= n
      OBVIOUS
    <3>1. CASE i = m + 1
      BY <1>1, <1>4, <3>1
    <3>2. CASE i \in 1..m
      BY <1>2, <1>4, <3>2
    <3> QED  BY <1>3, <3>1, <3>2
  <2>7. log'[d][n].kind = "deleted"
    BY <1>2, <2>3
  <2>8. Len(applied'[d]) = n
    BY <2>1 DEF n
  <2> QED  BY <1>5, <2>2, <2>3, <2>5, <2>6, <2>7, <2>8
<1> QED  BY <1>6, <1>7

----------------------------------------------------------------------------

\* A step that only changes what process p is in, to something that p may be in.
LEMMA CallMoves ==
    ASSUME SyncInv, NEW p \in Servers, NEW c \in Replays, CallInv(p, c),
           call' = [call EXCEPT ![p] = c], UNCHANGED <<path, tables, ids, deleting, removed>>
    PROVE  SyncInv'
<1>1. /\ path' = path /\ log' = log /\ seq' = seq /\ row' = row /\ applied' = applied
      /\ ids' = ids /\ deleting' = deleting /\ removed' = removed
  BY DEF tables
<1>2. SyncTypeOK'
  BY <1>1 DEF SyncInv, SyncTypeOK
<1>3. WriterInv' /\ Copies' /\ ProjectedInv' /\ LoggedInv'
  BY <1>1 DEF SyncInv, WriterInv, Copies, Undisturbed, ProjectedInv, Projected, LoggedInv, Logged
<1>4. CallsInv'
  <2> SUFFICES ASSUME NEW r \in Servers PROVE CallInv(r, call[r])'
    BY DEF CallsInv
  <2>1. CallInv(r, call'[r])
    BY DEF SyncInv, SyncTypeOK, CallsInv
  <2> QED  BY <1>1, <2>1 DEF CallInv, Undisturbed, FromWriter
<1> QED  BY <1>2, <1>3, <1>4 DEF SyncInv

\* The rest of a call is something that its process may be in.
LEMMA RestInv ==
    ASSUME SyncTypeOK, NEW p \in Servers, CallInv(p, call[p]), call[p].pc # "idle"
    PROVE  Rest(p) \in Replays /\ CallInv(p, Rest(p))
<1> DEFINE es == call[p].events
<1>1. es \in Seq(Events) /\ es # <<>>
  BY DEF SyncTypeOK, Replays, CallInv, NoCall
<1>2. /\ Tail(es) \in Seq(Events) /\ Len(es) \in Nat /\ Len(Tail(es)) = Len(es) - 1
      /\ \A k \in 1..Len(Tail(es)) : Tail(es)[k] = es[k + 1]
  BY <1>1
<1>3. ~removed => \A k \in DOMAIN Tail(es) : FromWriter(Tail(es)[k])
  BY <1>1, <1>2 DEF CallInv
<1>4. CASE Tail(es) = <<>>
  BY <1>4, NoCallInv DEF Rest
<1>5. CASE Tail(es) # <<>>
  <2> DEFINE c == [pc |-> "read", events |-> Tail(es), home |-> Writer]
  <2>1. Rest(p) = c
    BY <1>5 DEF Rest, NoCall
  <2>2. c \in Replays
    BY <1>2 DEF Replays, Dbs
  <2>3. CallInv(p, c)
    BY <1>3, <1>5 DEF CallInv
  <2> QED  BY <2>1, <2>2, <2>3
<1> QED  BY <1>4, <1>5

\* The end of a sequence.
LEMMA Suffix ==
    ASSUME NEW S, NEW w \in Seq(S), NEW first \in 1..Len(w)
    PROVE  /\ SubSeq(w, first, Len(w)) \in Seq(S)
           /\ Len(SubSeq(w, first, Len(w))) = Len(w) - first + 1
           /\ \A k \in 1..(Len(w) - first + 1) : SubSeq(w, first, Len(w))[k] = w[first + k - 1]
<1>1. SubSeq(w, first, Len(w)) = [k \in 1..(Len(w) - first + 1) |-> w[first + k - 1]]
  OBVIOUS
<1>2. Len(w) - first + 1 \in Nat
  OBVIOUS
<1>3. \A k \in 1..(Len(w) - first + 1) : first + k - 1 \in 1..Len(w) /\ w[first + k - 1] \in S
  OBVIOUS
<1> QED  BY <1>1, <1>2, <1>3

\* A client posts the end of the writer's log.
LEMMA PostInv ==
    ASSUME SyncInv, NEW p \in Servers, NEW n \in 0..MaxEvents, Post(p, n)
    PROVE  SyncInv'
<1> DEFINE w == log[Writer]
<1>1. w \in Seq(Events)
  BY DEF SyncInv, SyncTypeOK, Dbs
<1>2. PICK first \in DOMAIN w :
         call' = [call EXCEPT ![p] = [pc |-> "read", home |-> Writer,
                                      events |-> SubSeq(w, first, Len(w))]]
  BY DEF Post
<1> DEFINE es == SubSeq(w, first, Len(w))
           c == [pc |-> "read", home |-> Writer, events |-> es]
<1>3. /\ es \in Seq(Events) /\ es # <<>>
      /\ \A k \in 1..Len(es) : \E i \in 1..Len(w) : es[k] = w[i]
  <2>1. Len(w) \in Nat /\ first \in 1..Len(w)
    BY <1>1
  <2>2. /\ es \in Seq(Events) /\ Len(es) = Len(w) - first + 1
        /\ \A k \in 1..(Len(w) - first + 1) : es[k] = w[first + k - 1]
    BY <1>1, <2>1, Suffix
  <2> HIDE DEF w, es
  <2>3. \A k \in 1..Len(es) : first + k - 1 \in 1..Len(w)
    BY <2>1, <2>2
  <2> QED  BY <2>1, <2>2, <2>3
<1> HIDE DEF w, es
<1>4. \A k \in DOMAIN es : FromWriter(es[k])
  <2> SUFFICES ASSUME NEW k \in 1..Len(es) PROVE FromWriter(es[k])
    BY <1>3
  <2>1. PICK i \in 1..Len(w) : es[k] = w[i]
    BY <1>3
  <2>2. w[i].seq = i - 1 /\ i \in DOMAIN w
    BY <1>1 DEF SyncInv, WriterInv, w
  <2>3. es[k].seq + 1 = i
    BY <1>1, <2>1, <2>2
  <2> QED  BY <2>1, <2>2, <2>3 DEF FromWriter, w
<1>5. call' = [call EXCEPT ![p] = c]
  BY <1>2 DEF es
<1>6. c \in Replays
  BY <1>3 DEF Replays, Dbs
<1>7. CallInv(p, c)
  BY <1>3, <1>4 DEF CallInv
<1> QED  BY <1>5, <1>6, <1>7, CallMoves DEF Post

\* The comparison of numbers.
LEMMA ReplayReadInv ==
    ASSUME SyncInv, NEW p \in Servers, ReplayRead(p)
    PROVE  SyncInv'
<1>1. CallInv(p, call[p]) /\ call[p].pc = "read" /\ call[p] \in Replays
  BY DEF SyncInv, CallsInv, SyncTypeOK, ReplayRead
<1>2. Rest(p) \in Replays /\ CallInv(p, Rest(p))
  BY <1>1, RestInv DEF SyncInv
<1> DEFINE c == [call[p] EXCEPT !.pc = "resolve"]
<1>3. Next1(p).seq = seq[path[p]] + 1 => c \in Replays /\ CallInv(p, c)
  <2> SUFFICES ASSUME Next1(p).seq = seq[path[p]] + 1 PROVE c \in Replays /\ CallInv(p, c)
    OBVIOUS
  <2>1. c = [pc |-> "resolve", events |-> call[p].events, home |-> call[p].home] /\ c \in Replays
    BY <1>1 DEF Replays
  <2>2. path[p] \in Files
    BY DEF SyncInv, SyncTypeOK
  <2>3. Undisturbed => Next1(p).seq = Len(log[path[p]])
    <3>1. Len(log[path[p]]) \in Nat
      BY <2>2 DEF SyncInv, SyncTypeOK, Dbs
    <3>2. Undisturbed => seq[path[p]] = Len(log[path[p]]) - 1
      BY <2>2 DEF SyncInv, Copies
    <3> QED  BY <3>1, <3>2
  <2>4. Undisturbed => Head(call[p].events).seq <= Len(log[path[p]])
    <3>1. Len(log[path[p]]) \in Nat
      BY <2>2 DEF SyncInv, SyncTypeOK, Dbs
    <3> QED  BY <2>3, <3>1 DEF Next1
  <2>5. call[p].events # <<>>
    BY <1>1 DEF CallInv, NoCall
  <2> QED  BY <1>1, <2>1, <2>4, <2>5 DEF CallInv
<1>4. CASE Next1(p).seq <= seq[path[p]]
  <2>1. call' = [call EXCEPT ![p] = Rest(p)]
    BY <1>4 DEF ReplayRead
  <2> QED  BY <1>2, <2>1, CallMoves DEF ReplayRead
<1>5. CASE ~(Next1(p).seq <= seq[path[p]]) /\ Next1(p).seq = seq[path[p]] + 1
  <2>1. call' = [call EXCEPT ![p] = c]
    BY <1>5 DEF ReplayRead
  <2> QED  BY <1>3, <1>5, <2>1, CallMoves DEF ReplayRead
<1>6. CASE ~(Next1(p).seq <= seq[path[p]]) /\ Next1(p).seq # seq[path[p]] + 1
  <2>1. call' = [call EXCEPT ![p] = NoCall]
    BY <1>6 DEF ReplayRead
  <2> QED  BY NoCallInv, <2>1, CallMoves DEF ReplayRead
<1> QED  BY <1>4, <1>5, <1>6

\* The file is looked up: while all work with one, it is that one.
LEMMA ReplayResolveInv ==
    ASSUME SyncInv, NEW p \in Servers, ReplayResolve(p)
    PROVE  SyncInv'
<1> DEFINE h == SessionPath(p)
           c == [pc |-> "write", events |-> call[p].events, home |-> h]
<1>1. CallInv(p, call[p]) /\ call[p].pc = "resolve" /\ call[p] \in Replays
  BY DEF SyncInv, CallsInv, SyncTypeOK, ReplayResolve
<1>2. path \in [Servers -> Files]
  BY DEF SyncInv, SyncTypeOK
<1>3. h = path[p] \/ (h \in Files /\ row[h])
  BY <1>2 DEF SessionPath
<1>4. h \in Files /\ (Undisturbed => h = path[p])
  BY <1>2, <1>3 DEF SyncInv, Copies, Undisturbed
<1>5. call' = [call EXCEPT ![p] = c]
  BY DEF ReplayResolve, SyncInv, SyncTypeOK
<1> HIDE DEF h
<1>6. c \in Replays
  BY <1>1, <1>4 DEF Replays, Dbs
<1>7. CallInv(p, c)
  BY <1>1, <1>4 DEF CallInv, NoCall
<1> QED  BY <1>5, <1>6, <1>7, CallMoves DEF ReplayResolve

\* A process dies; what it has committed stays.
LEMMA KillInv ==
    ASSUME SyncInv, NEW p \in Servers, Kill(p)
    PROVE  SyncInv'
BY NoCallInv, CallMoves DEF Kill

----------------------------------------------------------------------------

\* What a process may be in, it may be in when the logs have grown.
LEMMA CallKept ==
    ASSUME SyncTypeOK, NEW p \in Servers, NEW c, CallInv(p, c), path' = path, removed' = removed,
           \A i \in DOMAIN log[Writer] : i \in DOMAIN log'[Writer] /\ log'[Writer][i] = log[Writer][i],
           \A f \in Files : Len(log[f]) \in Nat /\ Len(log'[f]) \in {Len(log[f]), Len(log[f]) + 1},
           c \in Replays
    PROVE  CallInv(p, c)'
<1>1. Undisturbed' = Undisturbed
  BY DEF Undisturbed
<1>2. \A e : FromWriter(e) => FromWriter(e)'
  BY DEF FromWriter
<1>3. c.pc \in {"resolve", "write"} /\ Undisturbed => Head(c.events).seq <= Len(log'[path[p]])
  <2> SUFFICES ASSUME c.pc \in {"resolve", "write"}, Undisturbed
               PROVE  Head(c.events).seq <= Len(log'[path[p]])
    OBVIOUS
  <2>1. Head(c.events).seq <= Len(log[path[p]])
    BY DEF CallInv
  <2>2. Head(c.events).seq \in Int
    <3>1. c.events \in Seq(Events) /\ c.events # <<>>
      BY DEF Replays, CallInv, NoCall
    <3>2. Head(c.events) \in Events
      BY <3>1
    <3> QED  BY <3>2 DEF Events
  <2>3. path[p] \in Files
    BY DEF SyncTypeOK
  <2> QED  BY <2>1, <2>2, <2>3
<1> QED  BY <1>1, <1>2, <1>3 DEF CallInv

\* A session's machine writes an event.
LEMMA RunInv ==
    ASSUME SyncInv, NEW kind \in Kinds, Run(kind)
    PROVE  SyncInv'
<1> DEFINE e == [id |-> ids + 1, seq |-> seq[Writer] + 1, kind |-> kind]
           w == log[Writer]
           m == Len(log[Writer])
<1>1. Writer \in Dbs /\ \A f \in Files : f \in Dbs /\ f # Writer
  BY WriterAssumption DEF Dbs
<1>2. SyncTypeOK /\ w \in Seq(Events) /\ m \in Nat /\ seq[Writer] \in Int /\ ids \in Nat
  BY <1>1 DEF SyncInv, SyncTypeOK
<1>3. e \in Events
  BY <1>2 DEF Events
<1>4. Process(Writer, e) /\ UNCHANGED <<path, removed, call>> /\ ids' = ids + 1
  BY DEF Run
<1>5. /\ \A f \in Files : /\ log'[f] = log[f] /\ seq'[f] = seq[f]
                          /\ row'[f] = row[f] /\ applied'[f] = applied[f]
      /\ seq'[Writer] = e.seq /\ Len(log'[Writer]) = m + 1 /\ log'[Writer][m + 1] = e
      /\ \A i \in 1..m : log'[Writer][i] = w[i]
  BY <1>1, <1>2, <1>3, <1>4, ProcessEffect
<1>6. SyncTypeOK'
  <2>1. /\ log' \in [Dbs -> Seq(Events)] /\ seq' \in [Dbs -> Int] /\ applied' \in [Dbs -> Seq(Nat)]
        /\ row' \in [Dbs -> BOOLEAN]
    BY <1>1, <1>2, <1>3, <1>4, ProcessTypes
  <2>2. path' = path /\ removed' = removed /\ call' = call /\ ids' \in Nat
    BY <1>2, <1>4
  <2>3. deleting' \in BOOLEAN
    BY <1>2 DEF Run, SyncTypeOK
  <2> QED  BY <1>2, <2>1, <2>2, <2>3 DEF SyncTypeOK
<1>7. DOMAIN w = 1..m /\ DOMAIN log'[Writer] = 1..(m + 1)
  <2>1. log'[Writer] \in Seq(Events)
    BY <1>1, <1>6 DEF SyncTypeOK
  <2> QED  BY <1>2, <1>5, <2>1
<1>8. \A i \in 1..(m + 1) : i = m + 1 \/ i \in 1..m
  BY <1>2
<1>9. m \in Nat /\ m + 1 \in 1..(m + 1) /\ \A i \in 1..m : i \in 1..(m + 1) /\ i # m + 1
  BY <1>2
<1> DEFINE w1 == log'[Writer]
<1>10. /\ seq[Writer] = m - 1 /\ \A i \in 1..m : w[i].seq = i - 1
       /\ ~removed => ids = m /\ \A i \in 1..m : w[i].id = i /\ (w[i].kind = "created" <=> i = 1)
  BY <1>7 DEF SyncInv, WriterInv
<1>11. WriterInv'
  <2>1. seq'[Writer] = Len(w1) - 1
    BY <1>5, <1>9, <1>10
  <2>2. ASSUME NEW i \in 1..(m + 1)  PROVE w1[i].seq = i - 1
    <3>1. CASE i = m + 1
      BY <1>5, <1>9, <1>10, <3>1
    <3>2. CASE i \in 1..m
      BY <1>5, <1>10, <3>2
    <3> QED  BY <1>8, <3>1, <3>2
  <2>3. ASSUME ~removed  PROVE ids' = Len(w1)
    BY <1>4, <1>5, <1>9, <1>10, <2>3
  <2>4. ASSUME ~removed, NEW i \in 1..(m + 1)
        PROVE  w1[i].id = i /\ (w1[i].kind = "created" <=> i = 1)
    <3>1. CASE i \in 1..m
      BY <1>5, <1>10, <2>4, <3>1
    <3>2. CASE i = m + 1
      <4>1. w1[i].id = ids + 1 /\ w1[i].kind = kind
        BY <1>5, <3>2
      <4>2. kind = "created" <=> ids = 0
        BY DEF Run
      <4> QED  BY <1>9, <1>10, <2>4, <3>2, <4>1, <4>2
    <3> QED  BY <1>8, <3>1, <3>2
  <2> QED  BY <1>4, <1>7, <2>1, <2>2, <2>3, <2>4 DEF WriterInv
<1>12. Undisturbed' = Undisturbed
  BY <1>4 DEF Undisturbed
<1>13. Copies'
  <2> SUFFICES ASSUME Undisturbed, NEW f \in Files
               PROVE  /\ Len(log[f]) <= m + 1 /\ seq[f] = Len(log[f]) - 1
                      /\ \A i \in DOMAIN log[f] : log[f][i] = w1[i]
                      /\ row[f] => \E p \in Servers : path[p] = f
    BY <1>4, <1>5, <1>12 DEF Copies
  <2>1. /\ Len(log[f]) <= m /\ seq[f] = Len(log[f]) - 1
        /\ \A i \in DOMAIN log[f] : log[f][i] = w[i]
        /\ row[f] => \E p \in Servers : path[p] = f
    BY DEF SyncInv, Copies
  <2>2. log[f] \in Seq(Events) /\ Len(log[f]) \in Nat /\ DOMAIN log[f] = 1..Len(log[f])
    BY <1>1, <1>2 DEF SyncTypeOK
  <2>3. \A i \in DOMAIN log[f] : i \in 1..m
    BY <1>9, <2>1, <2>2
  <2>4. Len(log[f]) <= m + 1
    BY <1>9, <2>1, <2>2
  <2> QED  BY <1>5, <2>1, <2>3, <2>4
<1>14. CallsInv'
  <2> SUFFICES ASSUME NEW p \in Servers PROVE CallInv(p, call[p])'
    BY DEF CallsInv
  <2>1. CallInv(p, call[p]) /\ call[p] \in Replays
    BY DEF SyncInv, CallsInv, SyncTypeOK
  <2>2. \A f \in Files : Len(log[f]) \in Nat /\ Len(log'[f]) \in {Len(log[f]), Len(log[f]) + 1}
    BY <1>1, <1>2, <1>5 DEF SyncTypeOK
  <2> HIDE DEF w, m
  <2> QED  BY <1>2, <1>4, <1>5, <1>7, <1>9, <2>1, <2>2, CallKept DEF w, m
<1>15. ProjectedInv'
  <2>1. ASSUME ~removed  PROVE Projected(Writer)'
    <3>1. (e.kind = "created") <=> (log[Writer] = <<>>)
      <4>1. kind = "created" <=> ids = 0
        BY DEF Run
      <4>2. ids = m
        BY <1>10, <2>1
      <4> QED  BY <1>2, <4>1, <4>2
    <3>2. Projected(Writer)
      BY <2>1 DEF SyncInv, ProjectedInv
    <3> QED  BY <1>1, <1>2, <1>3, <1>4, <3>1, <3>2, ProcessProjects
  <2>2. ASSUME Undisturbed, NEW f \in Files  PROVE Projected(f)'
    <3>1. Projected(f)
      BY <2>2 DEF SyncInv, ProjectedInv
    <3> QED  BY <1>5, <3>1 DEF Projected
  <2> QED  BY <1>4, <1>12, <2>1, <2>2 DEF ProjectedInv
<1>16. LoggedInv'
  BY <1>5 DEF SyncInv, LoggedInv, Logged
<1> QED  BY <1>6, <1>11, <1>13, <1>14, <1>15, <1>16 DEF SyncInv

\* The writer's log is removed; from now on its numbers begin again.
LEMMA RemoveLogInv ==
    ASSUME SyncInv, RemoveLog
    PROVE  SyncInv'
<1>1. Writer \in Dbs /\ \A f \in Files : f \in Dbs /\ f # Writer
  BY WriterAssumption DEF Dbs
<1>2. /\ log' = [log EXCEPT ![Writer] = <<>>] /\ seq' = [seq EXCEPT ![Writer] = -1]
      /\ path' = path /\ row' = row /\ applied' = applied /\ ids' = ids /\ call' = call
      /\ deleting' = FALSE /\ removed' = TRUE
  BY DEF RemoveLog
<1>3. SyncTypeOK'
  <2>1. log \in [Dbs -> Seq(Events)] /\ seq \in [Dbs -> Int]
    BY DEF SyncInv, SyncTypeOK
  <2>2. log' \in [Dbs -> Seq(Events)]
    <3>1. log' = [log EXCEPT ![Writer] = <<>>] /\ <<>> \in Seq(Events)
      BY <1>2
    <3> QED  BY <2>1, <3>1
  <2>3. seq' \in [Dbs -> Int]
    <3>1. seq' = [seq EXCEPT ![Writer] = -1] /\ -1 \in Int
      BY <1>2
    <3> QED  BY <2>1, <3>1
  <2> QED  BY <1>2, <2>2, <2>3 DEF SyncInv, SyncTypeOK
<1>4. ~Undisturbed'
  BY <1>2 DEF Undisturbed
<1>5. log'[Writer] = <<>> /\ seq'[Writer] = -1 /\ \A f \in Files : log'[f] = log[f]
  BY <1>1, <1>2 DEF SyncInv, SyncTypeOK
<1>6. WriterInv'
  BY <1>2, <1>5 DEF WriterInv
<1>7. Copies' /\ ProjectedInv'
  BY <1>2, <1>4 DEF Copies, ProjectedInv
<1>8. CallsInv'
  BY <1>2, <1>4 DEF SyncInv, CallsInv, CallInv
<1>9. LoggedInv'
  BY <1>2, <1>5 DEF SyncInv, LoggedInv, Logged
<1> QED  BY <1>3, <1>6, <1>7, <1>8, <1>9 DEF SyncInv

\* An event takes effect on a file at most once, since its id is in the log from then on.
LEMMA ProcessOnce ==
    ASSUME SyncTypeOK, LoggedInv, NEW d \in Files, NEW e \in Events, Process(d, e)
    PROVE  LoggedInv'
<1> DEFINE n == Len(applied[d])
           m == Len(log[d])
<1>1. d \in Dbs /\ \A f \in Files : f \in Dbs
  BY DEF Dbs
<1>2. ASSUME NEW f \in Files \ {d}
      PROVE  IsInjective(applied'[f]) /\ \A i \in DOMAIN applied'[f] : applied'[f][i] \in Logged(f)'
  BY <1>1, ProcessEffect DEF LoggedInv, Logged
<1>3. /\ applied[d] \in Seq(Nat) /\ log[d] \in Seq(Events) /\ log'[d] \in Seq(Events)
      /\ n \in Nat /\ m \in Nat /\ e.id \in Nat
  <2>1. applied[d] \in Seq(Nat) /\ log[d] \in Seq(Events)
    BY <1>1 DEF SyncTypeOK
  <2>2. log'[d] \in Seq(Events)
    BY <1>1, ProcessTypes
  <2>3. e.id \in Nat
    BY DEF Events
  <2> QED  BY <2>1, <2>2, <2>3
<1>4. /\ DOMAIN log[d] = 1..m /\ DOMAIN log'[d] = 1..(m + 1) /\ log'[d][m + 1] = e
      /\ \A i \in 1..m : log'[d][i] = log[d][i]
  BY <1>1, <1>3, ProcessEffect
<1>5. e.id \in Logged(d)' /\ e.id \notin Logged(d)
  <2>1. m + 1 \in DOMAIN log'[d]
    BY <1>3, <1>4
  <2> QED  BY <1>1, <1>4, <2>1, ProcessEffect DEF Logged
<1>6. \A x \in Logged(d) : x \in Logged(d)'
  <2>1. \A i \in 1..m : i \in 1..(m + 1)
    BY <1>3
  <2> QED  BY <1>4, <2>1 DEF Logged
<1>7. IsInjective(applied[d]) /\ \A i \in DOMAIN applied[d] : applied[d][i] \in Logged(d)
  BY DEF LoggedInv
<1>8. CASE applied'[d] = applied[d]
  BY <1>2, <1>6, <1>7, <1>8 DEF LoggedInv
<1>9. CASE applied'[d] = Append(applied[d], e.id)
  <2>1. /\ DOMAIN applied[d] = 1..n /\ DOMAIN applied'[d] = 1..(n + 1) /\ applied'[d][n + 1] = e.id
        /\ \A i \in 1..n : applied'[d][i] = applied[d][i]
    BY <1>3, <1>9
  <2>2. \A i \in 1..(n + 1) : i = n + 1 \/ i \in 1..n
    BY <1>3
  <2>3. \A i \in DOMAIN applied'[d] : applied'[d][i] \in Logged(d)'
    BY <1>5, <1>6, <1>7, <2>1, <2>2
  <2>4. \A i \in 1..n : applied'[d][i] # e.id
    BY <1>5, <1>7, <2>1
  <2>5. IsInjective(applied'[d])
    BY <1>7, <2>1, <2>2, <2>4 DEF IsInjective
  <2> QED  BY <1>2, <2>3, <2>5 DEF LoggedInv
<1> QED  BY <1>1, <1>8, <1>9, ProcessEffect

\* An event is written to the file that was looked up.
LEMMA ReplayWritesInv ==
    ASSUME SyncInv, NEW p \in Servers, call[p].pc = "write", Process(call[p].home, Next1(p)),
           call' = [call EXCEPT ![p] = Rest(p)], UNCHANGED <<path, ids, deleting, removed>>
    PROVE  SyncInv'
<1> DEFINE d == call[p].home
           e == Next1(p)
           m == Len(log[d])
<1>1. Writer \in Dbs /\ \A f \in Files : f \in Dbs /\ f # Writer
  BY WriterAssumption DEF Dbs
<1>2. SyncTypeOK /\ CallInv(p, call[p]) /\ call[p] \in Replays
  BY DEF SyncInv, SyncTypeOK, CallsInv
<1>3. d \in Files
  BY <1>2 DEF CallInv
<1>4. e \in Events /\ (~removed => FromWriter(e)) /\ (Undisturbed => e.seq <= m /\ d = path[p])
  <2>1. call[p].events \in Seq(Events) /\ call[p].events # <<>>
    BY <1>2 DEF Replays, CallInv, NoCall
  <2>2. 1 \in DOMAIN call[p].events /\ e = call[p].events[1] /\ e \in Events
    BY <2>1 DEF Next1
  <2>3. ~removed => FromWriter(e)
    BY <1>2, <2>2 DEF CallInv
  <2> QED  BY <1>2, <2>2, <2>3 DEF CallInv, Next1
<1>5. /\ \A f \in Dbs \ {d} : /\ log'[f] = log[f] /\ seq'[f] = seq[f]
                              /\ row'[f] = row[f] /\ applied'[f] = applied[f]
      /\ seq'[d] = e.seq /\ Len(log'[d]) = m + 1 /\ log'[d][m + 1] = e
      /\ \A i \in 1..m : log'[d][i] = log[d][i]
      /\ e.id \notin Logged(d)
  BY <1>1, <1>2, <1>3, <1>4, ProcessEffect
<1>6. Rest(p) \in Replays /\ CallInv(p, Rest(p))
  BY <1>2, RestInv
<1>7. SyncTypeOK'
  <2>1. /\ log' \in [Dbs -> Seq(Events)] /\ seq' \in [Dbs -> Int] /\ applied' \in [Dbs -> Seq(Nat)]
        /\ row' \in [Dbs -> BOOLEAN]
    BY <1>1, <1>2, <1>3, <1>4, ProcessTypes
  <2>2. call' \in [Servers -> Replays]
    BY <1>2, <1>6 DEF SyncTypeOK
  <2> QED  BY <1>2, <2>1, <2>2 DEF SyncTypeOK
<1> HIDE DEF d, e, m
<1>8. /\ log[d] \in Seq(Events) /\ m \in Nat /\ e.seq \in Int
      /\ DOMAIN log[d] = 1..m /\ DOMAIN log'[d] = 1..(m + 1)
  <2>1. log[d] \in Seq(Events) /\ log'[d] \in Seq(Events)
    BY <1>1, <1>2, <1>3, <1>7 DEF SyncTypeOK
  <2>2. e.seq \in Int
    BY <1>4 DEF Events
  <2> QED  BY <1>5, <2>1, <2>2 DEF m
<1>9. log'[Writer] = log[Writer] /\ seq'[Writer] = seq[Writer] /\ row'[Writer] = row[Writer]
      /\ applied'[Writer] = applied[Writer]
  BY <1>1, <1>3, <1>5
<1>10. WriterInv'
  BY <1>9 DEF SyncInv, WriterInv
<1>11. Undisturbed' = Undisturbed
  BY DEF Undisturbed
<1>12. ASSUME Undisturbed
       PROVE  /\ e.seq = m /\ m + 1 \in DOMAIN log[Writer] /\ e = log[Writer][m + 1]
              /\ (e.kind = "created") <=> (log[d] = <<>>)
  <2>1. ~removed
    BY <1>12 DEF Undisturbed
  <2>2. e.seq + 1 \in DOMAIN log[Writer] /\ e = log[Writer][e.seq + 1] /\ e.seq <= m
    BY <1>4, <1>12, <2>1 DEF FromWriter
  <2>3. e.seq + 1 >= 1
    BY <1>1, <1>2, <2>2 DEF SyncTypeOK
  <2>4. e.seq = m
    <3> SUFFICES ASSUME e.seq # m PROVE FALSE
      OBVIOUS
    <3>1. e.seq + 1 \in 1..m
      BY <1>8, <2>2, <2>3
    <3>2. log[d][e.seq + 1] = e
      BY <1>3, <1>8, <1>12, <2>2, <3>1 DEF SyncInv, Copies
    <3> QED  BY <1>5, <1>8, <3>1, <3>2 DEF Logged
  <2>5. (e.kind = "created") <=> (e.seq + 1 = 1)
    BY <2>1, <2>2 DEF SyncInv, WriterInv
  <2> QED  BY <1>8, <2>2, <2>4, <2>5 DEF m
<1>13. Copies'
  <2> SUFFICES ASSUME Undisturbed, NEW f \in Files
               PROVE  /\ Len(log'[f]) <= Len(log[Writer]) /\ seq'[f] = Len(log'[f]) - 1
                      /\ \A i \in DOMAIN log'[f] : log'[f][i] = log[Writer][i]
                      /\ row'[f] => \E r \in Servers : path[r] = f
    BY <1>9, <1>11 DEF Copies
  <2>1. CASE f # d
    BY <1>1, <1>5, <2>1 DEF SyncInv, Copies
  <2>2. CASE f = d
    <3>1. \A i \in 1..(m + 1) : i = m + 1 \/ i \in 1..m
      BY <1>8
    <3>2. \A i \in 1..m : log[d][i] = log[Writer][i]
      BY <1>3, <1>8 DEF SyncInv, Copies
    <3>3. m + 1 <= Len(log[Writer])
      BY <1>1, <1>2, <1>8, <1>12 DEF SyncTypeOK
    <3>4. \A i \in 1..(m + 1) : log'[d][i] = log[Writer][i]
      BY <1>5, <1>12, <3>1, <3>2
    <3>5. seq'[d] = Len(log'[d]) - 1
      BY <1>5, <1>8, <1>12
    <3>6. path[p] = d
      BY <1>4
    <3> QED  BY <1>5, <1>8, <2>2, <3>3, <3>4, <3>5, <3>6
  <2> QED  BY <2>1, <2>2
<1>14. CallsInv'
  <2> SUFFICES ASSUME NEW r \in Servers PROVE CallInv(r, call[r])'
    BY DEF CallsInv
  <2>1. CallInv(r, call'[r]) /\ call'[r] \in Replays
    BY <1>2, <1>6, <1>7 DEF SyncInv, CallsInv, SyncTypeOK
  <2>2. \A f \in Files : Len(log[f]) \in Nat /\ Len(log'[f]) \in {Len(log[f]), Len(log[f]) + 1}
    <3> SUFFICES ASSUME NEW f \in Files
                 PROVE  Len(log[f]) \in Nat /\ Len(log'[f]) \in {Len(log[f]), Len(log[f]) + 1}
      OBVIOUS
    <3>1. log[f] \in Seq(Events)
      BY <1>1, <1>2 DEF SyncTypeOK
    <3> QED  BY <1>1, <1>5, <3>1 DEF m
  <2> QED  BY <1>2, <1>9, <2>1, <2>2, CallKept
<1>15. ProjectedInv'
  <2>1. ASSUME ~removed  PROVE Projected(Writer)'
    BY <1>9, <2>1 DEF SyncInv, ProjectedInv, Projected
  <2>2. ASSUME Undisturbed, NEW f \in Files  PROVE Projected(f)'
    <3>1. Projected(f)
      BY <2>2 DEF SyncInv, ProjectedInv
    <3>2. CASE f # d
      BY <1>1, <1>5, <3>1, <3>2 DEF Projected
    <3>3. CASE f = d
      BY <1>1, <1>2, <1>3, <1>4, <1>12, <2>2, <3>1, <3>3, ProcessProjects DEF d, e
    <3> QED  BY <3>2, <3>3
  <2> QED  BY <1>11, <2>1, <2>2 DEF ProjectedInv
<1>16. LoggedInv'
  BY <1>2, <1>3, <1>4, ProcessOnce DEF SyncInv, d, e
<1> QED  BY <1>7, <1>10, <1>13, <1>14, <1>15, <1>16 DEF SyncInv

\* Either the write succeeds, or nothing is written and the call ends.
LEMMA ReplayWriteInv ==
    ASSUME SyncInv, NEW p \in Servers, ReplayWrite(p)
    PROVE  SyncInv'
<1>1. CASE Process(call[p].home, Next1(p)) /\ call' = [call EXCEPT ![p] = Rest(p)]
  BY <1>1, ReplayWritesInv DEF ReplayWrite
<1>2. CASE call' = [call EXCEPT ![p] = NoCall] /\ UNCHANGED tables
  BY <1>2, NoCallInv, CallMoves DEF ReplayWrite
<1> QED  BY <1>1, <1>2 DEF ReplayWrite

----------------------------------------------------------------------------

\* The inductive invariant of the sync events holds for any number of server processes and files, any
\* layout, and any number of events and kills.
THEOREM SyncCorrect == SyncSpec => []SyncInv
<1>1. SyncInv /\ [SyncNext]_syncVars => SyncInv'
  <2> SUFFICES ASSUME SyncInv, [SyncNext]_syncVars PROVE SyncInv'
    OBVIOUS
  <2>1. CASE \E kind \in Kinds : Run(kind)
    BY <2>1, RunInv
  <2>2. CASE RemoveLog
    BY <2>2, RemoveLogInv
  <2>3. ASSUME NEW p \in Servers, Replay(p)  PROVE SyncInv'
    BY <2>3, ReplayReadInv, ReplayResolveInv, ReplayWriteInv DEF Replay
  <2>4. ASSUME NEW p \in Servers, Kill(p)  PROVE SyncInv'
    BY <2>4, KillInv
  <2>5. ASSUME NEW p \in Servers, NEW n \in 0..MaxEvents, Post(p, n)  PROVE SyncInv'
    BY <2>5, PostInv
  <2>6. CASE UNCHANGED syncVars
    <3>1. /\ path' = path /\ log' = log /\ seq' = seq /\ row' = row /\ applied' = applied
          /\ ids' = ids /\ deleting' = deleting /\ removed' = removed /\ call' = call
      BY <2>6 DEF syncVars, tables
    <3> QED  BY <3>1 DEF SyncInv, SyncTypeOK, WriterInv, Copies, CallsInv, CallInv, FromWriter,
                         Undisturbed, ProjectedInv, Projected, LoggedInv, Logged
  <2> QED  BY <2>1, <2>2, <2>3, <2>4, <2>5, <2>6 DEF SyncNext
<1> QED  BY SyncInitInv, <1>1, PTL DEF SyncSpec

\* Every log is numbered from zero without gaps or repetitions, and its sequence row is its last
\* number: the writer's always, the followers' while their processes work with one file and the
\* writer's log has not begun again (replay's comparison outside the transaction, sync/index.ts).
THEOREM NumberedLogs == SyncSpec => []LogsNumbered
<1>1. SyncInv => LogsNumbered
  <2> SUFFICES ASSUME SyncInv PROVE LogsNumbered
    OBVIOUS
  <2>1. path \in [Servers -> Files] /\ row \in [Dbs -> BOOLEAN]
    BY DEF SyncInv, SyncTypeOK
  <2>2. \A p \in Servers : call[p] = NoCall \/ call[p].events # <<>>
    BY DEF SyncInv, CallsInv, CallInv
  <2>3. ASSUME NEW d \in Dbs, d \in Files => Undisturbed
        PROVE  seq[d] = Len(log[d]) - 1 /\ \A i \in DOMAIN log[d] : log[d][i].seq = i - 1
    <3>1. CASE d = Writer
      BY <3>1 DEF SyncInv, WriterInv
    <3>2. CASE d \in Files
      <4>1. /\ Len(log[d]) <= Len(log[Writer]) /\ seq[d] = Len(log[d]) - 1
            /\ \A i \in DOMAIN log[d] : log[d][i] = log[Writer][i]
        BY <2>3, <3>2 DEF SyncInv, Copies
      <4>2. log[d] \in Seq(Events) /\ log[Writer] \in Seq(Events)
        BY <3>2 DEF SyncInv, SyncTypeOK, Dbs
      <4>3. \A i \in DOMAIN log[d] : i \in DOMAIN log[Writer]
        BY <4>1, <4>2
      <4> QED  BY <4>1, <4>3 DEF SyncInv, WriterInv
    <3> QED  BY <3>1, <3>2 DEF Dbs
  <2> QED  BY <2>1, <2>2, <2>3 DEF LogsNumbered
<1> QED  BY <1>1, SyncCorrect, PTL

\* Prefixes of sequences, element by element.
LEMMA PrefixByElements ==
    ASSUME NEW S, NEW s \in Seq(S), NEW t \in Seq(S), Len(s) <= Len(t),
           \A i \in 1..Len(s) : s[i] = t[i]
    PROVE  IsPrefix(s, t)
BY DEF IsPrefix

\* A follower has a prefix of the writer's events, and they took effect in their order; even where
\* its processes work with different files, no event takes effect twice in one of them.
THEOREM FollowersFollow == SyncSpec => []FollowsWriter
<1>1. SyncInv => FollowsWriter
  <2> SUFFICES ASSUME SyncInv, NEW f \in Files
               PROVE  /\ IsInjective(applied[f])
                      /\ Undisturbed => /\ IsPrefix(Ids(log[f]), Ids(log[Writer]))
                                        /\ IsPrefix(applied[f], applied[Writer])
    BY DEF FollowsWriter
  <2>1. IsInjective(applied[f])
    BY DEF SyncInv, LoggedInv
  <2>2. ASSUME Undisturbed
        PROVE  IsPrefix(Ids(log[f]), Ids(log[Writer])) /\ IsPrefix(applied[f], applied[Writer])
    <3> DEFINE w == log[Writer]
               v == log[f]
               a == applied[f]
               b == applied[Writer]
    <3>1. v \in Seq(Events) /\ w \in Seq(Events) /\ a \in Seq(Nat) /\ b \in Seq(Nat)
      BY DEF SyncInv, SyncTypeOK, Dbs
    <3>2. Len(v) <= Len(w) /\ \A i \in 1..Len(v) : v[i] = w[i]
      BY <2>2, <3>1 DEF SyncInv, Copies
    <3>3. Projected(f) /\ Projected(Writer)
      BY <2>2 DEF SyncInv, ProjectedInv, Undisturbed
    <3>4. /\ Len(a) <= Len(v) /\ \A i \in 1..Len(a) : a[i] = v[i].id
          /\ \A i \in 1..Len(v) : v[i].kind = "deleted" => i >= Len(a)
      BY <3>1, <3>3 DEF Projected
    <3>5. /\ Len(b) <= Len(w) /\ \A i \in 1..Len(b) : b[i] = w[i].id
          /\ Len(b) = Len(w) \/ (Len(b) # 0 /\ w[Len(b)].kind = "deleted")
      BY <3>1, <3>3 DEF Projected
    <3> HIDE DEF v, w, a, b
    <3>6. Len(v) \in Nat /\ Len(w) \in Nat /\ Len(a) \in Nat /\ Len(b) \in Nat
      BY <3>1
    <3>7. Len(a) <= Len(b)
      <4> SUFFICES ASSUME Len(b) < Len(a) PROVE FALSE
        BY <3>6
      <4>1. Len(b) # 0 /\ w[Len(b)].kind = "deleted"
        BY <3>2, <3>4, <3>5, <3>6
      <4>2. Len(b) \in 1..Len(v)
        BY <3>4, <3>6, <4>1
      <4>3. v[Len(b)].kind = "deleted"
        BY <3>2, <4>1, <4>2
      <4> QED  BY <3>4, <3>6, <4>2, <4>3
    <3>8. \A i \in 1..Len(a) : a[i] = b[i]
      <4> SUFFICES ASSUME NEW i \in 1..Len(a) PROVE a[i] = b[i]
        OBVIOUS
      <4>1. i \in 1..Len(v) /\ i \in 1..Len(b)
        BY <3>4, <3>6, <3>7
      <4> QED  BY <3>2, <3>4, <3>5, <4>1
    <3>9. IsPrefix(a, b)
      BY <3>1, <3>7, <3>8, PrefixByElements
    <3>10. /\ Ids(v) \in Seq(Nat) /\ Len(Ids(v)) = Len(v) /\ \A i \in 1..Len(v) : Ids(v)[i] = v[i].id
           /\ Ids(w) \in Seq(Nat) /\ Len(Ids(w)) = Len(w) /\ \A i \in 1..Len(w) : Ids(w)[i] = w[i].id
      <4>1. ASSUME NEW s \in Seq(Events)
            PROVE  /\ Ids(s) \in Seq(Nat) /\ Len(Ids(s)) = Len(s)
                   /\ \A i \in 1..Len(s) : Ids(s)[i] = s[i].id
        <5>1. \A i \in 1..Len(s) : s[i].id \in Nat
          <6>1. \A i \in 1..Len(s) : s[i] \in Events
            OBVIOUS
          <6> QED  BY <6>1 DEF Events
        <5>2. Ids(s) = [i \in 1..Len(s) |-> s[i].id] /\ Len(s) \in Nat
          BY DEF Ids
        <5> QED  BY <5>1, <5>2
      <4> QED  BY <3>1, <4>1
    <3>11. \A i \in 1..Len(v) : i \in 1..Len(w)
      BY <3>2, <3>6
    <3>12. IsPrefix(Ids(v), Ids(w))
      <4>1. \A i \in 1..Len(Ids(v)) : Ids(v)[i] = Ids(w)[i]
        BY <3>2, <3>10, <3>11
      <4> QED  BY <3>2, <3>10, <4>1, PrefixByElements
    <3> QED  BY <3>9, <3>12 DEF v, w, a, b
  <2> QED  BY <2>1, <2>2
<1> QED  BY <1>1, SyncCorrect, PTL
=============================================================================
