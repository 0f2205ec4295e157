--------------------------- MODULE QuestionProofs ---------------------------
(***************************************************************************)
(* Proofs about the instance store and the question service, for any       *)
(* number of calls, states and questions.                                  *)
(***************************************************************************)
EXTENDS Question, TLAPS

\* What a step of the question service is to the store: a step of the store, a use, or nothing.
LEMMA StoreView ==
    ASSUME [QNext]_allvars
    PROVE  StoreStep \/ Use \/ UNCHANGED vars
<1>1. CASE UNCHANGED allvars
  BY <1>1 DEF allvars, store
<1>2. CASE Finalizing(StoreStep)
  BY <1>2 DEF Finalizing
<1>3. ASSUME NEW q \in Questions,
             \/ Ask(q) \/ AskInterrupt(q) \/ QuestionStep(q)
             \/ \E with \in {"answered", "rejected"} : Take(q, with)
      PROVE  Use \/ UNCHANGED vars
  BY <1>3 DEF Ask, AskInterrupt, QuestionStep, AskAwait, AskReturn, Settle, Take, store
<1> QED  BY <1>1, <1>2, <1>3 DEF QNext

----------------------------------------------------------------------------
(* Types                                                                   *)

LEMMA CallTypes ==
    ASSUME TypeOK, NEW c \in Calls, NEW at \in CallSteps, NEW job \in Jobs,
           NEW entry \in Calls \cup {None}, NEW ctx \in Calls \cup {None},
           call' = [call EXCEPT ![c] = [at |-> at, job |-> job, entry |-> entry, ctx |-> ctx]]
    PROVE  call' \in [Calls -> [at : CallSteps, job : Jobs,
                                entry : Calls \cup {None}, ctx : Calls \cup {None}]]
BY DEF TypeOK

LEMMA GotoTypes ==
    ASSUME TypeOK, NEW c \in Calls, NEW at \in CallSteps, Goto(c, at)
    PROVE  call' \in [Calls -> [at : CallSteps, job : Jobs,
                                entry : Calls \cup {None}, ctx : Calls \cup {None}]]
BY DEF TypeOK, Goto

LEMMA StoreTypes ==
    ASSUME TypeOK, StoreStep \/ Use \/ UNCHANGED vars
    PROVE  TypeOK'
<1> USE StoreAssumption DEF None
<1>1. CASE UNCHANGED vars
  BY <1>1 DEF TypeOK, vars
<1>2. CASE Use
  BY <1>2 DEF TypeOK, Use, Get
<1>3. ASSUME NEW c \in Calls, NEW step \in ForkSteps, NewEntry(c, step)
      PROVE  /\ cache' \in Calls \cup {None}
             /\ deferred' \in [Calls -> {"none", "open", "ok", "failed"}]
             /\ fork' \in [Calls -> ForkSteps]
             /\ call' \in [Calls -> [at : CallSteps, job : Jobs,
                                     entry : Calls \cup {None}, ctx : Calls \cup {None}]]
  <2>1. call' \in [Calls -> [at : CallSteps, job : Jobs,
                             entry : Calls \cup {None}, ctx : Calls \cup {None}]]
    BY <1>3, CallTypes DEF NewEntry, CallSteps, Jobs
  <2> QED  BY <1>3, <2>1 DEF NewEntry, TypeOK
<1>4. ASSUME NEW c \in Calls, Load(c)  PROVE TypeOK'
  <2>1. CASE NewEntry(c, "boot")
    BY <1>4, <2>1, <1>3 DEF Load, TypeOK, ForkSteps
  <2>2. CASE call' = [call EXCEPT ![c] =
                        [at |-> "loading", job |-> "load", entry |-> cache, ctx |-> None]]
             /\ UNCHANGED <<cache, deferred, fork>>
    <3>1. cache \in Calls \cup {None} /\ "loading" \in CallSteps /\ "load" \in Jobs
      BY DEF TypeOK, CallSteps, Jobs
    <3> QED  BY <1>4, <2>2, <3>1, CallTypes DEF Load, TypeOK
  <2> QED  BY <1>4, <2>1, <2>2 DEF Load
<1>5. ASSUME NEW c \in Calls, Reload(c)  PROVE TypeOK'
  <2>1. NewEntry(c, IF cache = None THEN "boot" ELSE "await")
    BY <1>5 DEF Reload
  <2> QED  BY <1>5, <2>1, <1>3 DEF Reload, TypeOK, ForkSteps
<1>6. ASSUME NEW c \in Calls, DisposeAll(c)  PROVE TypeOK'
  <2> DEFINE step == IF DisposingAll THEN "join" ELSE IF cache = None THEN "returned" ELSE "await"
  <2>1. step \in CallSteps /\ "all" \in Jobs
    BY DEF CallSteps, Jobs
  <2>2. cache \in Calls \cup {None}
    BY DEF TypeOK
  <2>3. call' = [call EXCEPT ![c] = [at |-> step, job |-> "all", entry |-> cache, ctx |-> None]]
    BY <1>6 DEF DisposeAll
  <2> HIDE DEF step
  <2>4. call' \in [Calls -> [at : CallSteps, job : Jobs,
                             entry : Calls \cup {None}, ctx : Calls \cup {None}]]
    BY <2>1, <2>2, <2>3, CallTypes
  <2> QED  BY <1>6, <2>4 DEF DisposeAll, TypeOK
<1>7. ASSUME NEW c \in Calls, NEW ctx \in Held, Dispose(c, ctx)  PROVE TypeOK'
  <2> DEFINE step == IF cache = None THEN "direct" ELSE "await"
  <2>1. step \in CallSteps /\ "dispose" \in Jobs
    BY DEF CallSteps, Jobs
  <2>2. cache \in Calls \cup {None} /\ ctx \in Calls \cup {None}
    BY DEF TypeOK, Held
  <2>3. call' = [call EXCEPT ![c] = [at |-> step, job |-> "dispose", entry |-> cache, ctx |-> ctx]]
    BY <1>7 DEF Dispose
  <2> HIDE DEF step
  <2>4. call' \in [Calls -> [at : CallSteps, job : Jobs,
                             entry : Calls \cup {None}, ctx : Calls \cup {None}]]
    BY <2>1, <2>2, <2>3, CallTypes
  <2> QED  BY <1>7, <2>4 DEF Dispose, TypeOK, RunDisposers
<1>8. ASSUME NEW c \in Calls, Interrupt(c) \/ Joined(c)  PROVE TypeOK'
  BY <1>8, GotoTypes DEF Interrupt, Joined, TypeOK, CallSteps
<1>9. ASSUME NEW c \in Calls, ForkStep(c)  PROVE TypeOK'
  BY <1>9 DEF ForkStep, ReloadDispose, ReloadDisposed, CompleteLoad, RunDisposers, RemoveEntry,
              TypeOK, ForkSteps
<1>10. ASSUME NEW c \in Calls, LoadReturn(c)  PROVE TypeOK'
  <2> DEFINE got == IF deferred[call[c].entry] = "ok" THEN call[c].entry ELSE None
             CallType == [at : CallSteps, job : Jobs, entry : Calls \cup {None}, ctx : Calls \cup {None}]
             moved == [call EXCEPT ![c].at = "returned"]
  <2>1. call[c].entry \in Calls \cup {None}
    BY DEF TypeOK
  <2>2. got \in Calls \cup {None}
    BY <2>1
  <2>3. moved \in [Calls -> CallType]
    BY DEF TypeOK, CallSteps
  <2>4. call' = [moved EXCEPT ![c].ctx = got]
    BY <1>10 DEF LoadReturn
  <2> HIDE DEF got, moved
  <2>5. call' \in [Calls -> CallType]
    BY <2>2, <2>3, <2>4
  <2> QED  BY <1>10, <2>5 DEF LoadReturn, TypeOK
<1>11. ASSUME NEW c \in Calls, DisposeSettled(c) \/ Disposed(c)  PROVE TypeOK'
  BY <1>11, GotoTypes DEF DisposeSettled, Disposed, RemoveEntry, RunDisposers, TypeOK, CallSteps
<1>12. ASSUME StoreStep  PROVE TypeOK'
  BY <1>12, <1>4, <1>5, <1>6, <1>7, <1>8, <1>9, <1>10, <1>11 DEF StoreStep, CallStep
<1> QED  BY <1>1, <1>2, <1>12

\* The types of the question service and of the store under it.
THEOREM TypeCorrect == QSpec => []QTypeOK
<1> USE StoreAssumption
<1>1. QInit => QTypeOK
  BY DEF QInit, Init, QTypeOK, TypeOK, Idle, None, ForkSteps, CallSteps, Jobs
<1>2. QTypeOK /\ [QNext]_allvars => QTypeOK'
  <2> SUFFICES ASSUME QTypeOK, [QNext]_allvars  PROVE QTypeOK'
    OBVIOUS
  <2>1. TypeOK'
    BY StoreView, StoreTypes DEF QTypeOK
  <2>2. gen' \in 0..MaxGens
    BY <2>1 DEF TypeOK
  <2>3. CASE UNCHANGED allvars
    BY <2>1, <2>3 DEF QTypeOK, allvars, qvars
  <2>4. CASE Finalizing(StoreStep)
    BY <2>1, <2>4 DEF QTypeOK, Finalizing, Finalize
  <2>5. ASSUME NEW q \in Questions, Ask(q) \/ AskInterrupt(q) \/ QuestionStep(q)
        PROVE  QTypeOK'
    BY <2>1, <2>2, <2>5 DEF QTypeOK, Ask, AskInterrupt, QuestionStep, AskAwait, AskReturn, Settle
  <2>6. ASSUME NEW q \in Questions, NEW with \in {"answered", "rejected"}, Take(q, with)
        PROVE  QTypeOK'
    BY <2>1, <2>6 DEF QTypeOK, Take
  <2> QED  BY <2>3, <2>4, <2>5, <2>6 DEF QNext
<1> QED  BY <1>1, <1>2, PTL DEF QSpec

----------------------------------------------------------------------------
(* One boot at a time                                                      *)

\* A call comes, or goes on.
LEMMA CallMoves ==
    ASSUME TypeOK, InOrder, NEW c \in Calls,
           Arrives(c) \/ call[c].at # "idle",
           call'[c].at # "idle",
           \A d \in Calls : d # c => call'[d] = call[d],
           \A d \in Calls : d # c /\ deferred[d] = "none" => deferred'[d] = "none"
    PROVE  InOrder'
BY StoreAssumption DEF InOrder, Arrives, Calls

\* Once the cached entry has settled, no entry is at work.
LEMMA NoneOpen ==
    ASSUME TypeOK, StoreInv, cache # None, Settled(cache)
    PROVE  \A c \in Calls : ~Open(c)
<1> SUFFICES ASSUME NEW c \in Calls, Open(c)  PROVE FALSE
  OBVIOUS
<1>1. cache \in Calls /\ c \in Nat /\ cache \in Nat
  BY StoreAssumption DEF TypeOK, Calls, None
<1>2. c # cache /\ ~(cache < c)
  BY <1>1 DEF StoreInv, CacheIsLatest, Open, Settled
<1>3. fork[cache] = "await"
  BY <1>1, <1>2 DEF StoreInv, LaterWait, CacheIsLatest
<1> QED  BY <1>1, <1>3 DEF StoreInv, ForksAtWork, Settled, Open

\* Steps of a caller that leave the entries and their fibers alone.
LEMMA CallerStep ==
    ASSUME TypeOK, StoreInv, UNCHANGED <<deferred, previous, fork>>,
           cache' = cache \/ (cache' = None /\ cache # None /\ Settled(cache)),
           InOrder', EntriesKnown'
    PROVE  StoreInv'
<1>1. CacheIsLatest'
  BY NoneOpen DEF StoreInv, CacheIsLatest, Open
<1>2. ForksAtWork' /\ WaitsForLatest' /\ LaterWait'
  BY DEF StoreInv, ForksAtWork, WaitsForLatest, LaterWait, Open
<1> QED  BY <1>1, <1>2 DEF StoreInv

LEMMA EntryAdded ==
    ASSUME TypeOK, StoreInv, NEW c \in Calls, (Load(c) /\ cache = None) \/ Reload(c)
    PROVE  StoreInv'
<1> USE StoreAssumption DEF None
<1>0. Calls \subseteq Nat \ {0} /\ \A d \in Calls : 1..(d - 1) \subseteq Calls
  BY DEF Calls
<1>1. PICK step \in {"boot", "await"} :
        /\ NewEntry(c, step)
        /\ step = "boot" <=> cache = None
        /\ step = "await" => previous'[c] = cache
        /\ \A d \in Calls : d # c => previous'[d] = previous[d]
  BY DEF Load, Reload, NewEntry, TypeOK
<1>2. Arrives(c)
  BY DEF Load, Reload
<1>3. \A d \in Calls : c <= d => deferred[d] = "none" /\ fork[d] = "none"
  BY <1>0, <1>2 DEF Arrives, StoreInv, InOrder, ForksAtWork
<1>4. /\ cache' = c /\ deferred'[c] = "open" /\ fork'[c] = step /\ call'[c].at = "loading"
      /\ \A d \in Calls : d # c => /\ deferred'[d] = deferred[d] /\ fork'[d] = fork[d]
                                   /\ call'[d] = call[d]
  BY <1>1 DEF NewEntry, TypeOK
<1>5. InOrder'
  BY <1>2, <1>4, CallMoves DEF StoreInv
<1>6. ForksAtWork'
  BY <1>1, <1>4 DEF StoreInv, ForksAtWork, Open
<1>7. CacheIsLatest'
  BY <1>0, <1>3, <1>4 DEF CacheIsLatest
<1>8. EntriesKnown'
  BY <1>3, <1>4, <1>0 DEF StoreInv, EntriesKnown
<1>9. cache # None => /\ cache \in Calls /\ cache < c /\ deferred[cache] # "none"
                      /\ \A d \in Calls : cache < d => deferred[d] = "none"
  BY <1>0, <1>3 DEF TypeOK, StoreInv, CacheIsLatest
<1>10. WaitsForLatest'
  <2> SUFFICES ASSUME NEW d \in Calls, fork'[d] = "await"
               PROVE  /\ previous'[d] \in 1..(d - 1) /\ deferred'[previous'[d]] # "none"
                      /\ \A e \in Calls : previous'[d] < e /\ e < d => deferred'[e] = "none"
    BY DEF WaitsForLatest
  <2>1. CASE d = c
    <3>1. previous'[d] = cache /\ cache # None
      BY <2>1, <1>1, <1>4
    <3>2. cache \in Nat /\ cache > 0 /\ cache < d /\ d \in Nat
      <4>1. cache \in Calls /\ cache < c
        BY <3>1, <1>9
      <4>2. Calls \subseteq Nat \ {0}
        BY <1>0
      <4> QED  BY <4>1, <4>2, <2>1
    <3>3. cache \in 1..(d - 1)
      BY <3>2
    <3>4. cache # c /\ deferred'[cache] # "none"
      BY <2>1, <3>1, <3>2, <1>4, <1>9
    <3>5. ASSUME NEW e \in Calls, cache < e, e < d  PROVE deferred'[e] = "none"
      <4>1. e # c
        BY <3>5, <2>1, <1>0
      <4> QED  BY <3>5, <4>1, <3>1, <1>4, <1>9
    <3> QED  BY <3>1, <3>3, <3>4, <3>5
  <2>2. CASE d # c
    <3>1. fork[d] = "await" /\ previous'[d] = previous[d] /\ d < c
      BY <2>2, <1>0, <1>1, <1>3, <1>4
    <3> QED  BY <3>1, <1>0, <1>4 DEF StoreInv, WaitsForLatest
  <2> QED  BY <2>1, <2>2
<1>11. LaterWait'
  <2> SUFFICES ASSUME NEW x \in Calls, NEW d \in Calls, x < d,
                      deferred'[x] = "open", deferred'[d] # "none"
               PROVE  fork'[d] = "await" /\ deferred'[previous'[d]] = "open"
    BY DEF LaterWait, Open
  <2>1. x # c /\ deferred[x] = "open" /\ x < c
    BY <1>0, <1>3, <1>4
  <2>2. CASE d = c
    <3>1. cache # None /\ step = "await"
      BY <1>1, <2>1 DEF StoreInv, CacheIsLatest, Open
    <3>2. x <= cache
      <4>1. cache \in Nat /\ x \in Nat
        BY <1>0, <1>9, <3>1
      <4>2. ~(cache < x)
        BY <1>9, <2>1, <3>1
      <4> QED  BY <4>1, <4>2
    <3>3. deferred[cache] = "open"
      <4>1. CASE x < cache
        <5>1. fork[cache] = "await"
          BY <4>1, <1>9, <2>1, <3>1 DEF StoreInv, LaterWait, Open
        <5> QED  BY <5>1, <1>9, <3>1 DEF StoreInv, ForksAtWork, Open
      <4>2. CASE x = cache
        BY <4>2, <2>1
      <4>3. cache \in Nat /\ x \in Nat
        BY <1>0, <1>9, <3>1
      <4> QED  BY <4>1, <4>2, <4>3, <3>2
    <3> QED  BY <2>2, <3>1, <3>3, <1>1, <1>4, <1>9, <1>0
  <2>3. CASE d # c
    <3>1. fork[d] = "await" /\ deferred[previous[d]] = "open"
      BY <2>1, <2>3, <1>4 DEF StoreInv, LaterWait, Open
    <3>2. previous[d] \in Calls
      BY <3>1, <1>0 DEF StoreInv, WaitsForLatest
    <3> QED  BY <2>3, <3>1, <3>2, <1>1, <1>4
  <2> QED  BY <2>2, <2>3
<1> QED  BY <1>5, <1>6, <1>7, <1>8, <1>10, <1>11 DEF StoreInv

LEMMA ForkMoves ==
    ASSUME TypeOK, StoreInv, NEW c \in Calls, ForkStep(c)
    PROVE  StoreInv'
<1> USE StoreAssumption DEF None
<1>0. Calls \subseteq Nat \ {0} /\ \A d \in Calls : 1..(d - 1) \subseteq Calls
  BY DEF Calls
<1>1. ASSUME ReloadDispose(c) \/ ReloadDisposed(c)  PROVE StoreInv'
  <2>1. /\ UNCHANGED <<cache, deferred, previous, call>>
        /\ fork[c] \in {"await", "disposers"} /\ fork'[c] \in {"disposers", "boot"}
        /\ \A d \in Calls : d # c => fork'[d] = fork[d]
    BY <1>1 DEF ReloadDispose, ReloadDisposed, TypeOK
  <2>2. ~ \E x \in Calls : x < c /\ Open(x)
    <3> SUFFICES ASSUME NEW x \in Calls, x < c, Open(x)  PROVE FALSE
      OBVIOUS
    <3>1. deferred[c] # "none"
      BY <2>1 DEF StoreInv, ForksAtWork
    <3>2. fork[c] = "await" /\ Open(previous[c])
      BY <3>1 DEF StoreInv, LaterWait
    <3> QED  BY <3>2, <1>1 DEF ReloadDispose, ReloadDisposed, Settled, Open
  <2>3. ForksAtWork'
    BY <2>1 DEF StoreInv, ForksAtWork, Open
  <2>4. InOrder' /\ CacheIsLatest' /\ EntriesKnown'
    BY <2>1 DEF StoreInv, InOrder, CacheIsLatest, EntriesKnown, Open
  <2>5. WaitsForLatest'
    BY <2>1 DEF StoreInv, WaitsForLatest
  <2>6. LaterWait'
    BY <2>1, <2>2 DEF StoreInv, LaterWait, Open
  <2> QED  BY <2>3, <2>4, <2>5, <2>6 DEF StoreInv
<1>2. ASSUME NEW r \in {"ok", "failed"}, CompleteLoad(c, r)  PROVE StoreInv'
  <2>1. /\ UNCHANGED <<previous, call>>
        /\ fork[c] = "boot" /\ fork'[c] = "done" /\ deferred'[c] = r
        /\ \A d \in Calls : d # c => fork'[d] = fork[d] /\ deferred'[d] = deferred[d]
    <3>1. /\ fork[c] = "boot" /\ fork' = [fork EXCEPT ![c] = "done"]
          /\ deferred' = [deferred EXCEPT ![c] = r] /\ UNCHANGED <<previous, call>>
      BY <1>2 DEF CompleteLoad
    <3> QED  BY <3>1 DEF TypeOK
  <2>0. cache' = cache \/ (cache = c /\ cache' = None)
    <3>1. CASE r = "failed"
      <4>1. RemoveEntry(c)
        BY <1>2, <3>1 DEF CompleteLoad
      <4> QED  BY <4>1 DEF RemoveEntry
    <3>2. CASE r # "failed"
      BY <1>2, <3>2 DEF CompleteLoad
    <3> QED  BY <3>1, <3>2
  <2>2. deferred[c] = "open"
    BY <2>1 DEF StoreInv, ForksAtWork, Open
  <2>3. \A x \in Calls : x < c => ~Open(x)
    BY <2>1, <2>2 DEF StoreInv, LaterWait
  <2>4. ForksAtWork'
    BY <2>1 DEF StoreInv, ForksAtWork, Open
  <2>5. InOrder'
    BY <2>1, <2>2 DEF StoreInv, InOrder
  <2>6. EntriesKnown'
    BY <2>1, <2>2 DEF StoreInv, EntriesKnown
  <2>7. CacheIsLatest'
    <3>1. CASE cache' = cache
      BY <3>1, <2>1, <2>2, <1>2 DEF StoreInv, CacheIsLatest, Open, TypeOK
    <3>2. CASE cache = c /\ cache' = None
      <4>1. \A x \in Calls : x # c => deferred[x] # "open"
        BY <3>2, <2>3, <1>0 DEF StoreInv, CacheIsLatest, Open
      <4> QED  BY <4>1, <3>2, <2>1 DEF CacheIsLatest, Open
    <3> QED  BY <3>1, <3>2, <2>0
  <2>8. WaitsForLatest'
    <3> SUFFICES ASSUME NEW d \in Calls, fork'[d] = "await"
                 PROVE  /\ previous[d] \in 1..(d - 1) /\ deferred'[previous[d]] # "none"
                        /\ \A e \in Calls : previous[d] < e /\ e < d => deferred'[e] = "none"
      BY <2>1 DEF WaitsForLatest
    <3>1. fork[d] = "await"
      BY <2>1
    <3> QED  BY <3>1, <2>1, <2>2, <1>0 DEF StoreInv, WaitsForLatest
  <2>9. LaterWait'
    <3> SUFFICES ASSUME NEW x \in Calls, NEW d \in Calls, x < d,
                        deferred'[x] = "open", deferred'[d] # "none"
                 PROVE  fork'[d] = "await" /\ deferred'[previous[d]] = "open"
      BY <2>1 DEF LaterWait, Open
    <3>1. deferred[x] = "open" /\ x # c /\ c < x
      BY <2>1, <2>3, <1>0 DEF Open
    <3>2. d # c /\ deferred[d] # "none"
      BY <2>1, <3>1, <1>0
    <3>3. fork[d] = "await" /\ deferred[previous[d]] = "open" /\ previous[d] \in Calls
      BY <3>1, <3>2, <1>0 DEF StoreInv, LaterWait, WaitsForLatest, Open
    <3>4. previous[d] # c
      BY <3>1, <3>3 DEF StoreInv, WaitsForLatest
    <3> QED  BY <3>2, <3>3, <3>4, <2>1
  <2> QED  BY <2>4, <2>5, <2>6, <2>7, <2>8, <2>9 DEF StoreInv
<1> QED  BY <1>1, <1>2 DEF ForkStep

LEMMA DisposalMoves ==
    ASSUME TypeOK, StoreInv, NEW c \in Calls, DisposeSettled(c) \/ Disposed(c)
    PROVE  StoreInv'
<1>1. /\ call[c].at \in {"await", "disposers", "direct"}
      /\ UNCHANGED <<deferred, previous, fork>>
  BY DEF DisposeSettled, Disposed
<1>2. PICK step \in {"returned", "disposers"} :
        /\ Goto(c, step)
        /\ step = "disposers" => call[c].at = "await" /\ deferred[call[c].entry] = "ok"
  BY DEF DisposeSettled, Disposed
<1>3. /\ call'[c].at = step /\ call'[c].entry = call[c].entry
      /\ \A d \in Calls : d # c => call'[d] = call[d]
  BY <1>2 DEF Goto, TypeOK
<1>4. InOrder'
  BY <1>1, <1>3, CallMoves DEF StoreInv
<1>5. EntriesKnown'
  BY <1>1, <1>2, <1>3 DEF StoreInv, EntriesKnown
<1>6. cache' = cache \/ (cache' = None /\ cache # None /\ Settled(cache))
  <2>1. CASE DisposeSettled(c)
    <3>1. cache' = cache \/ (RemoveEntry(call[c].entry) /\ Settled(call[c].entry))
      BY <2>1 DEF DisposeSettled, Settled
    <3> QED  BY <3>1 DEF RemoveEntry
  <2>2. CASE Disposed(c)
    <3>1. CASE call[c].at = "disposers"
      <4>1. RemoveEntry(call[c].entry) /\ Settled(call[c].entry)
        BY <2>2, <3>1 DEF Disposed, StoreInv, EntriesKnown, Settled
      <4> QED  BY <4>1 DEF RemoveEntry
    <3>2. CASE call[c].at # "disposers"
      BY <2>2, <3>2 DEF Disposed
    <3> QED  BY <3>1, <3>2
  <2> QED  BY <2>1, <2>2
<1> QED  BY <1>1, <1>4, <1>5, <1>6, CallerStep

\* The calls that only come, and the ones that only return.
LEMMA CallerMoves ==
    ASSUME TypeOK, StoreInv, NEW c \in Calls,
           \/ (Load(c) /\ cache # None) \/ DisposeAll(c) \/ \E ctx \in Held : Dispose(c, ctx)
           \/ Interrupt(c) \/ LoadReturn(c) \/ Joined(c)
    PROVE  StoreInv'
<1> USE DEF None
<1>1. UNCHANGED <<cache, deferred, previous, fork>>
  BY DEF Load, DisposeAll, Dispose, Interrupt, LoadReturn, Joined, NewEntry
<1>2. \/ Arrives(c) \/ call[c].at # "idle"
  BY DEF Load, DisposeAll, Dispose, Interrupt, LoadReturn, Joined
<1>3. /\ call'[c].at \in CallSteps \ {"idle", "disposers"}
      /\ call'[c].at = "await" => call'[c].entry \in Calls
      /\ \A d \in Calls : d # c => call'[d] = call[d]
  <2>1. CASE Load(c) /\ cache # None
    BY <2>1 DEF Load, TypeOK, CallSteps
  <2>2. CASE DisposeAll(c)
    BY <2>2 DEF DisposeAll, TypeOK, CallSteps
  <2>3. CASE \E ctx \in Held : Dispose(c, ctx)
    BY <2>3 DEF Dispose, TypeOK, CallSteps
  <2>4. CASE Interrupt(c) \/ Joined(c)
    BY <2>4 DEF Interrupt, Joined, Goto, TypeOK, CallSteps
  <2>5. CASE LoadReturn(c)
    BY <2>5 DEF LoadReturn, TypeOK, CallSteps
  <2> QED  BY <2>1, <2>2, <2>3, <2>4, <2>5
<1>4. InOrder'
  BY <1>1, <1>2, <1>3, CallMoves DEF StoreInv
<1>5. EntriesKnown'
  BY <1>1, <1>3 DEF StoreInv, EntriesKnown
<1> QED  BY <1>1, <1>4, <1>5, CallerStep

\* A step of the store preserves the invariant.
LEMMA StoreInvKept ==
    ASSUME TypeOK, StoreInv, StoreStep \/ Use \/ UNCHANGED vars
    PROVE  StoreInv'
<1>1. CASE Use \/ UNCHANGED vars
  <2>1. UNCHANGED <<cache, deferred, previous, fork, call>>
    BY <1>1 DEF Use, vars
  <2> QED  BY <2>1 DEF StoreInv, ForksAtWork, InOrder, CacheIsLatest, EntriesKnown,
                       WaitsForLatest, LaterWait, Open
<1>2. CASE StoreStep
  <2>1. PICK c \in Calls :
          \/ Load(c) \/ Reload(c) \/ DisposeAll(c) \/ Interrupt(c) \/ ForkStep(c) \/ CallStep(c)
          \/ \E ctx \in Held : Dispose(c, ctx)
    BY <1>2 DEF StoreStep
  <2>2. CASE (Load(c) /\ cache = None) \/ Reload(c)
    BY <2>2, EntryAdded
  <2>3. CASE ForkStep(c)
    BY <2>3, ForkMoves
  <2>4. CASE DisposeSettled(c) \/ Disposed(c)
    BY <2>4, DisposalMoves
  <2>5. CASE \/ (Load(c) /\ cache # None) \/ DisposeAll(c) \/ \E ctx \in Held : Dispose(c, ctx)
             \/ Interrupt(c) \/ LoadReturn(c) \/ Joined(c)
    BY <2>5, CallerMoves
  <2> QED  BY <2>1, <2>2, <2>3, <2>4, <2>5 DEF CallStep
<1> QED  BY <1>1, <1>2

\* The inductive invariant of the store: calls come in order, the cached entry is the latest, and
\* while an entry is at work every later one waits for one that is.
THEOREM StoreCorrect == QSpec => []StoreInv
<1>1. QInit => StoreInv
  BY DEF QInit, Init, StoreInv, ForksAtWork, InOrder, CacheIsLatest, EntriesKnown, WaitsForLatest,
         LaterWait, Open, Idle, None
<1>2. QTypeOK /\ StoreInv /\ [QNext]_allvars => StoreInv'
  BY StoreView, StoreInvKept DEF QTypeOK
<1> QED  BY <1>1, <1>2, TypeCorrect, PTL DEF QSpec

\* However loads, reloads and disposals overlap, the directory is never booted twice at a time.
THEOREM OneBootAtATime == QSpec => []BootsSerial
<1>1. StoreInv => BootsSerial
  <2> SUFFICES ASSUME StoreInv, NEW c \in Calls, NEW d \in Calls,
                      fork[c] = "boot", fork[d] = "boot", c # d
               PROVE  FALSE
    BY DEF BootsSerial
  <2>1. Open(c) /\ Open(d)
    BY DEF StoreInv, ForksAtWork
  <2>2. c < d \/ d < c
    BY StoreAssumption DEF Calls
  <2> QED  BY <2>1, <2>2 DEF StoreInv, LaterWait, Open
<1> QED  BY <1>1, StoreCorrect, PTL

\* An entry leaves the cache only for a successor, after a failed boot, or by its own disposal: a
\* disposal that comes late spares the entry of a reload.
THEOREM SparesSuccessor == QSpec => DisposeSparesSuccessor
<1> DEFINE Spares == cache # None /\ cache' = None =>
                       \/ deferred'[cache] = "failed"
                       \/ \E c \in Calls : call[c].at = "disposers" /\ call[c].entry = cache
                                           /\ call'[c].at = "returned"
<1>1. ASSUME TypeOK, StoreStep  PROVE Spares
  <2> SUFFICES ASSUME cache # None, cache' = None  PROVE Spares
    OBVIOUS
  <2>1. PICK c \in Calls :
          \/ Load(c) \/ Reload(c) \/ DisposeAll(c) \/ Interrupt(c) \/ ForkStep(c) \/ CallStep(c)
          \/ \E ctx \in Held : Dispose(c, ctx)
    BY <1>1 DEF StoreStep
  <2>2. c # None
    BY StoreAssumption DEF Calls, None
  <2>3. cache' # cache /\ cache' # c
    BY <2>2
  <2>4. (\E r \in {"ok", "failed"} : CompleteLoad(c, r)) \/ DisposeSettled(c) \/ Disposed(c)
    BY <2>1, <2>3 DEF Load, Reload, NewEntry, DisposeAll, Dispose, Interrupt, ForkStep, ReloadDispose,
                      ReloadDisposed, CallStep, LoadReturn, Joined
  <2>5. ASSUME NEW r \in {"ok", "failed"}, CompleteLoad(c, r)  PROVE Spares
    <3>1. CASE r = "failed"
      <4>1. RemoveEntry(c) /\ deferred' = [deferred EXCEPT ![c] = "failed"]
        BY <2>5, <3>1 DEF CompleteLoad
      <4>2. cache = c
        BY <4>1, <2>3 DEF RemoveEntry
      <4> QED  BY <4>1, <4>2, <1>1 DEF TypeOK
    <3>2. CASE r # "failed"
      BY <2>5, <3>2, <2>3 DEF CompleteLoad
    <3> QED  BY <3>1, <3>2
  <2>6. CASE DisposeSettled(c)
    <3>1. /\ deferred[call[c].entry] = "failed" /\ RemoveEntry(call[c].entry) /\ deferred' = deferred
      BY <2>6, <2>3 DEF DisposeSettled
    <3> QED  BY <3>1, <2>3 DEF RemoveEntry
  <2>7. CASE Disposed(c)
    <3>1. call[c].at = "disposers"
      BY <2>7, <2>3 DEF Disposed
    <3>2. RemoveEntry(call[c].entry) /\ Goto(c, "returned")
      BY <2>7, <3>1 DEF Disposed
    <3>3. cache = call[c].entry /\ call'[c].at = "returned"
      BY <3>2, <2>3, <1>1 DEF RemoveEntry, Goto, TypeOK
    <3> QED  BY <3>1, <3>3
  <2> QED  BY <2>4, <2>5, <2>6, <2>7
<1>2. QTypeOK /\ [QNext]_allvars => [Spares]_vars
  <2> SUFFICES ASSUME QTypeOK, [QNext]_allvars  PROVE Spares \/ UNCHANGED vars
    OBVIOUS
  <2>1. CASE Use
    BY <2>1 DEF Use
  <2> QED  BY <2>1, <1>1, StoreView DEF QTypeOK
<1> QED  BY <1>2, TypeCorrect, PTL DEF QSpec, DisposeSparesSuccessor

----------------------------------------------------------------------------
(* Nobody is left behind                                                   *)

\* A step of the store keeps the services' state or drops it.
LEMMA StateKeptOrDropped ==
    ASSUME StoreStep
    PROVE  gen' = gen \/ gen' = 0
BY DEF StoreStep, Load, Reload, NewEntry, DisposeAll, Dispose, Interrupt, ForkStep, ReloadDispose,
       ReloadDisposed, CompleteLoad, CallStep, LoadReturn, Joined, DisposeSettled, Disposed, RunDisposers

\* A use keeps the state, or makes one where there was none.
LEMMA StateMade ==
    ASSUME TypeOK, Use
    PROVE  gen' # 0 /\ (gen # 0 => gen' = gen)
<1>1. made \in Nat
  BY StoreAssumption DEF TypeOK
<1> QED  BY <1>1 DEF Use, Get

\* Whoever waits for an answer can still get one, however the state is replaced under its question.
THEOREM NobodyLeftBehind == QSpec => []AskerReachable
<1>1. QInit => AskerReachable
  BY DEF QInit, AskerReachable
<1>2. QTypeOK /\ AskerReachable /\ [QNext]_allvars => AskerReachable'
  <2> SUFFICES ASSUME QTypeOK, AskerReachable, [QNext]_allvars,
                      NEW p \in Questions,
                      asker'[p] \in {"publishing", "waiting"}, outcome'[p] = "open"
               PROVE  (gen' # 0 /\ pending'[p] = gen') \/ replying'[p] # "none"
    BY DEF AskerReachable
  <2>1. CASE UNCHANGED allvars
    BY <2>1 DEF AskerReachable, allvars, store, vars, qvars
  <2>2. CASE Finalizing(StoreStep)
    <3>1. CASE gen # 0 /\ gen' = 0
      <4>1. Finalize /\ UNCHANGED <<asker, replying>>
        BY <2>2, <3>1 DEF Finalizing
      <4> QED  BY <4>1 DEF Finalize, AskerReachable
    <3>2. CASE ~(gen # 0 /\ gen' = 0)
      <4>1. UNCHANGED <<pending, outcome, asker, replying>>
        BY <2>2, <3>2 DEF Finalizing
      <4>2. gen' = gen
        BY <2>2, <3>2, StateKeptOrDropped DEF Finalizing
      <4> QED  BY <4>1, <4>2 DEF AskerReachable
    <3> QED  BY <3>1, <3>2
  <2>3. ASSUME NEW q \in Questions, Ask(q)
        PROVE  (gen' # 0 /\ pending'[p] = gen') \/ replying'[p] # "none"
    <3>1. gen' # 0 /\ (gen # 0 => gen' = gen)
      BY <2>3, StateMade DEF Ask, QTypeOK
    <3> QED  BY <2>3, <3>1 DEF Ask, AskerReachable, QTypeOK
  <2>4. ASSUME NEW q \in Questions, AskInterrupt(q) \/ AskAwait(q) \/ AskReturn(q)
        PROVE  (gen' # 0 /\ pending'[p] = gen') \/ replying'[p] # "none"
    BY <2>4 DEF AskInterrupt, AskAwait, AskReturn, AskerReachable, QTypeOK, store, vars
  <2>5. ASSUME NEW q \in Questions, NEW with \in {"answered", "rejected"}, Take(q, with)
        PROVE  (gen' # 0 /\ pending'[p] = gen') \/ replying'[p] # "none"
    <3>1. gen' # 0 /\ (gen # 0 => gen' = gen)
      BY <2>5, StateMade DEF Take, QTypeOK
    <3> QED  BY <2>5, <3>1 DEF Take, AskerReachable, QTypeOK
  <2>6. ASSUME NEW q \in Questions, Settle(q)
        PROVE  (gen' # 0 /\ pending'[p] = gen') \/ replying'[p] # "none"
    BY <2>6 DEF Settle, AskerReachable, QTypeOK, store, vars
  <2> QED  BY <2>1, <2>2, <2>3, <2>4, <2>5, <2>6 DEF QNext, QuestionStep
<1> QED  BY <1>1, <1>2, TypeCorrect, PTL DEF QSpec
=============================================================================
