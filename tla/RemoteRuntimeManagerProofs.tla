--------------------- MODULE RemoteRuntimeManagerProofs ---------------------
(***************************************************************************)
(* Proofs about RemoteRuntimeManager, for any number of starts, and any    *)
(* sets of stops, keys and clients.                                        *)
(***************************************************************************)
EXTENDS RemoteRuntimeManager, TLAPS

\* The calls of start are positive numbers, and no calls of stop.
LEMMA Numbers ==
    /\ Starts \subseteq Nat /\ None \notin Starts
    /\ \A s \in Starts : s \notin Stops
BY ManagerAssumption DEF Starts, None

\* What the first part of stopEntry does to the entries of S.
LEMMA StopFacts ==
    ASSUME TypeOK, NEW c \in Starts \cup Stops, NEW S \in SUBSET Starts, StopEntries(c, S)
    PROVE  /\ UNCHANGED <<key, run>>
           /\ state' \in [Starts -> {"none", "starting", "online", "stopping", "stopped", "errored"}]
           /\ aborted' \in [Starts -> BOOLEAN] /\ clients' \in [Starts -> SUBSET Clients]
           /\ waits' \in [Starts \cup Stops -> SUBSET Starts]
           /\ \A e \in Starts : e \notin S => /\ state'[e] = state[e] /\ clients'[e] = clients[e]
                                              /\ aborted'[e] = aborted[e]
           /\ \A e \in S : /\ aborted'[e] /\ clients'[e] = {}
                           /\ state'[e] = IF run[e] = "none" THEN "stopped" ELSE "stopping"
<1>1. UNCHANGED <<key, run>>
  BY DEF StopEntries
<1>2. /\ state' \in [Starts -> {"none", "starting", "online", "stopping", "stopped", "errored"}]
      /\ \A e \in Starts : e \notin S => state'[e] = state[e]
      /\ \A e \in S : state'[e] = IF run[e] = "none" THEN "stopped" ELSE "stopping"
  BY DEF StopEntries, TypeOK
<1>3. aborted' = [e \in Starts |-> aborted[e] \/ e \in S]
  BY DEF StopEntries
<1>4. /\ \A e \in Starts : e \notin S => aborted'[e] = aborted[e]
      /\ \A e \in S : aborted'[e]
      /\ aborted' \in [Starts -> BOOLEAN]
  BY <1>3, Zenon DEF TypeOK
<1>5. /\ clients' \in [Starts -> SUBSET Clients]
      /\ \A e \in Starts : e \notin S => clients'[e] = clients[e]
      /\ \A e \in S : clients'[e] = {}
  BY DEF StopEntries, TypeOK
<1>6. waits' \in [Starts \cup Stops -> SUBSET Starts]
  <2> DEFINE W == {e \in S : run[e] # "none"}
  <2>1. W \in SUBSET Starts /\ waits' = [waits EXCEPT ![c] = W]
    BY DEF StopEntries
  <2> HIDE DEF W
  <2> QED  BY <2>1 DEF TypeOK
<1> QED  BY <1>1, <1>2, <1>4, <1>5, <1>6

\* The entries that start and stop find are entries that starts have made.
LEMMA Found ==
    ASSUME TypeOK
    PROVE  /\ \A s \in Starts : Others(s) \in SUBSET Starts
           /\ \A K \in SUBSET Keys :
                {e \in {entries[k] : k \in K} \ {None} : state[e] # "stopped"} \in SUBSET Starts
BY DEF TypeOK, Others

\* The two ways for start to go on.
Made(s, S) ==
    /\ \A e \in S : state[e] = "stopped"
    /\ entries' = [entries EXCEPT ![key[s]] = s]
    /\ state' = [state EXCEPT ![s] = "starting"]
    /\ at' = [at EXCEPT ![s] = "ticket"] /\ todo' = [todo EXCEPT ![s] = {}]
    /\ UNCHANGED <<key, aborted, run, clients, waits>>

Stopping(s, S, e) ==
    /\ StopEntries(s, {e})
    /\ at' = [at EXCEPT ![s] = "stopping"] /\ todo' = [todo EXCEPT ![s] = S \ {e}]
    /\ UNCHANGED entries

LEMMA GoOnWays ==
    ASSUME NEW s, NEW S, GoOn(s, S)
    PROVE  Made(s, S) \/ \E e \in S : Stopping(s, S, e)
BY DEF GoOn, Made, Stopping

----------------------------------------------------------------------------
(* Types                                                                   *)

LEMMA InitManager == Init => TypeOK /\ ManagerInv
<1> SUFFICES ASSUME Init  PROVE TypeOK /\ ManagerInv
  OBVIOUS
<1> USE Numbers DEF Init
<1>1. TypeOK
  BY DEF TypeOK
<1>2. \A s \in Starts : ~Live(s) /\ ~UnderWay(s)
  BY DEF Live, Running, UnderWay
<1>3. ManagerInv
  BY <1>2 DEF ManagerInv, Reported, StoppedIsQuiet, EndedIsClean, OneStart, WayCleared, OneActive
<1> QED  BY <1>1, <1>3

LEMMA GoOnTypes ==
    ASSUME TypeOK, NEW s \in Starts, NEW S \in SUBSET Starts, GoOn(s, S), overlapped' \in BOOLEAN
    PROVE  TypeOK'
<1>1. CASE Made(s, S)
  BY <1>1 DEF Made, TypeOK
<1>2. ASSUME NEW e \in S, Stopping(s, S, e)  PROVE TypeOK'
  <2>1. {e} \in SUBSET Starts /\ S \ {e} \in SUBSET Starts
    OBVIOUS
  <2> QED  BY <1>2, <2>1, StopFacts DEF Stopping, TypeOK
<1> QED  BY <1>1, <1>2, GoOnWays

LEMMA TypesKept ==
    ASSUME TypeOK, [Next]_vars
    PROVE  TypeOK'
<1> USE DEF entry, calls
<1>1. CASE UNCHANGED vars
  BY <1>1 DEF TypeOK, vars
<1>2. ASSUME NEW s \in Starts, Start(s)  PROVE TypeOK'
  <2>1. overlapped' \in BOOLEAN
    BY <1>2, Zenon DEF Start
  <2>2. CASE GoOn(s, Others(s))
    BY <2>1, <2>2, Found, GoOnTypes
  <2>3. CASE at' = [at EXCEPT ![s] = "returned"] /\ UNCHANGED <<entry, todo, waits>>
    BY <2>1, <2>3 DEF TypeOK
  <2>4. CASE /\ entries[key[s]] # None /\ StopEntries(s, {entries[key[s]]})
             /\ at' = [at EXCEPT ![s] = "refreshing"] /\ UNCHANGED <<entries, todo>>
    <3>1. {entries[key[s]]} \in SUBSET Starts
      BY <2>4 DEF TypeOK
    <3> QED  BY <2>1, <2>4, <3>1, StopFacts DEF TypeOK
  <2> QED  BY <1>2, <2>2, <2>3, <2>4 DEF Start
<1>3. ASSUME NEW s \in Starts, StartGoesOn(s)  PROVE TypeOK'
  <2>1. overlapped' \in BOOLEAN
    BY <1>3 DEF StartGoesOn, TypeOK
  <2>2. PICK S \in SUBSET Starts : GoOn(s, S)
    BY <1>3, Found DEF StartGoesOn, TypeOK
  <2> QED  BY <2>1, <2>2, GoOnTypes
<1>4. ASSUME NEW s \in Starts, Ticket(s) \/ NoTicket(s) \/ StartReturns(s)  PROVE TypeOK'
  BY <1>4 DEF Ticket, NoTicket, StartReturns, TypeOK, Running
<1>5. ASSUME NEW s \in Starts, MarkOnline(s) \/ Reattach(s) \/ WakeUp(s) \/ CleanUp(s)  PROVE TypeOK'
  BY <1>5 DEF MarkOnline, Reattach, WakeUp, CleanUp, LoopEnds, TypeOK, Running
<1>6. ASSUME NEW s \in Starts, NEW failed \in BOOLEAN, SessionEnds(s, failed)  PROVE TypeOK'
  BY <1>6 DEF SessionEnds, LoopEnds, TypeOK, Running
<1>7. ASSUME NEW s \in Starts, NEW m \in Clients, Attach(s, m) \/ Detach(s, m)  PROVE TypeOK'
  BY <1>7 DEF Attach, Detach, TypeOK
<1>8. ASSUME NEW c \in Stops, NEW K \in SUBSET Keys, Stop(c, K)  PROVE TypeOK'
  BY <1>8, Found, StopFacts DEF Stop, TypeOK
<1>9. ASSUME NEW c \in Stops, StopReturns(c)  PROVE TypeOK'
  BY <1>9 DEF StopReturns, TypeOK
<1>10. ASSUME NEW c \in Starts \cup Stops, NEW e \in Starts, StopEnded(c, e)  PROVE TypeOK'
  BY <1>10 DEF StopEnded, TypeOK
<1> QED  BY <1>1, <1>2, <1>3, <1>4, <1>5, <1>6, <1>7, <1>8, <1>9, <1>10
         DEF Next, StartStep, LoopStep, SessionOver

----------------------------------------------------------------------------
(* Each runtime by itself                                                  *)

Alone == Reported /\ StoppedIsQuiet /\ EndedIsClean
Early == {"idle", "refreshing", "stopping", "ticket"}

\* stopEntry: what is stopped is aborted, and is quiet already if its loop has not begun.
LEMMA StopAlone ==
    ASSUME TypeOK, Alone, NEW c \in Starts \cup Stops, NEW S \in SUBSET Starts, StopEntries(c, S),
           \A r \in Starts : at'[r] \in Early => at[r] \in Early
    PROVE  Alone'
<1>1. Reported'
  BY StopFacts DEF Alone, Reported, Live, Running, Early, TypeOK
<1>2. StoppedIsQuiet'
  BY StopFacts DEF Alone, StoppedIsQuiet, TypeOK
<1>3. EndedIsClean'
  BY StopFacts DEF Alone, EndedIsClean, TypeOK
<1> QED  BY <1>1, <1>2, <1>3 DEF Alone

LEMMA GoOnByItself ==
    ASSUME TypeOK, Alone, NEW s \in Starts, NEW S \in SUBSET Starts, GoOn(s, S), at[s] \in Early
    PROVE  Alone'
<1>1. CASE Made(s, S)
  BY <1>1 DEF Made, Alone, Reported, StoppedIsQuiet, EndedIsClean, Live, Running, Early, TypeOK
<1>2. ASSUME NEW e \in S, Stopping(s, S, e)  PROVE Alone'
  <2>1. \A r \in Starts : at'[r] \in Early => at[r] \in Early
    BY <1>2 DEF Stopping, TypeOK
  <2> QED  BY <1>2, <2>1, StopAlone DEF Stopping
<1> QED  BY <1>1, <1>2, GoOnWays

LEMMA AloneKept ==
    ASSUME TypeOK, Alone, [Next]_vars
    PROVE  Alone'
<1> USE DEF entry, calls
<1>1. CASE UNCHANGED vars
  BY <1>1 DEF vars, Alone, Reported, StoppedIsQuiet, EndedIsClean, Live
<1>2. ASSUME NEW s \in Starts, Start(s)  PROVE Alone'
  <2>0. at[s] \in Early
    BY <1>2 DEF Start, Early
  <2>1. CASE GoOn(s, Others(s))
    BY <2>0, <2>1, Found, GoOnByItself
  <2>2. CASE at' = [at EXCEPT ![s] = "returned"] /\ UNCHANGED <<entry, todo, waits>>
    BY <2>2 DEF Alone, Reported, StoppedIsQuiet, EndedIsClean, Live, TypeOK
  <2>3. CASE /\ entries[key[s]] # None /\ StopEntries(s, {entries[key[s]]})
             /\ at' = [at EXCEPT ![s] = "refreshing"]
    <3>1. {entries[key[s]]} \in SUBSET Starts
      BY <2>3 DEF TypeOK
    <3>2. \A r \in Starts : at'[r] \in Early => at[r] \in Early
      BY <2>0, <2>3 DEF TypeOK
    <3> QED  BY <2>3, <3>1, <3>2, StopAlone
  <2> QED  BY <1>2, <2>1, <2>2, <2>3 DEF Start
<1>3. ASSUME NEW s \in Starts, StartGoesOn(s)  PROVE Alone'
  <2>1. PICK S \in SUBSET Starts : GoOn(s, S)
    BY <1>3, Found DEF StartGoesOn, TypeOK
  <2> QED  BY <1>3, <2>1, GoOnByItself DEF StartGoesOn, Early
<1>4. ASSUME NEW s \in Starts, NoTicket(s) \/ StartReturns(s)  PROVE Alone'
  BY <1>4 DEF NoTicket, StartReturns, Alone, Reported, StoppedIsQuiet, EndedIsClean, Live, Running, TypeOK
<1>5. ASSUME NEW s \in Starts, Ticket(s)  PROVE Alone'
  BY <1>5 DEF Ticket, Alone, Reported, StoppedIsQuiet, EndedIsClean, Live, Running, TypeOK
<1>6. ASSUME NEW s \in Starts, MarkOnline(s) \/ Reattach(s) \/ CleanUp(s)  PROVE Alone'
  BY <1>6 DEF MarkOnline, Reattach, CleanUp, Alone, Reported, StoppedIsQuiet, EndedIsClean, Live,
              Running, TypeOK
<1>7. ASSUME NEW s \in Starts, NEW failed \in BOOLEAN, run[s] \in Running, LoopEnds(s, failed),
             UNCHANGED <<aborted, clients, at>>
      PROVE  Alone'
  <2>1. run' = [run EXCEPT ![s] = "ending"] /\ \A r \in Starts : r # s => state'[r] = state[r]
    BY <1>7 DEF LoopEnds, TypeOK
  <2> QED  BY <1>7, <2>1 DEF Alone, Reported, StoppedIsQuiet, EndedIsClean, Live, Running, TypeOK
<1>8. ASSUME NEW s \in Starts, NEW failed \in BOOLEAN, SessionEnds(s, failed)  PROVE Alone'
  BY <1>7, <1>8 DEF SessionEnds, Running
<1>9. ASSUME NEW s \in Starts, WakeUp(s)  PROVE Alone'
  <2>1. CASE aborted[s]
    BY <1>7, <1>9, <2>1 DEF WakeUp, Running
  <2>2. CASE ~aborted[s]
    BY <1>9, <2>2 DEF WakeUp, Alone, Reported, StoppedIsQuiet, EndedIsClean, Live, Running, TypeOK
  <2> QED  BY <2>1, <2>2
<1>10. ASSUME NEW s \in Starts, NEW m \in Clients, Attach(s, m) \/ Detach(s, m)  PROVE Alone'
  BY <1>10 DEF Attach, Detach, Alone, Reported, StoppedIsQuiet, EndedIsClean, Live, TypeOK
<1>11. ASSUME NEW c \in Stops, NEW K \in SUBSET Keys, Stop(c, K)  PROVE Alone'
  <2>1. \A r \in Starts : at'[r] = at[r]
    BY <1>11, Numbers DEF Stop, TypeOK
  <2> QED  BY <1>11, <2>1, Found, StopAlone DEF Stop
<1>12. ASSUME NEW c \in Stops, StopReturns(c)  PROVE Alone'
  <2>1. \A r \in Starts : at'[r] = at[r]
    BY <1>12, Numbers DEF StopReturns, TypeOK
  <2> QED  BY <1>12, <2>1 DEF StopReturns, Alone, Reported, StoppedIsQuiet, EndedIsClean, Live
<1>13. ASSUME NEW c \in Starts \cup Stops, NEW e \in Starts, StopEnded(c, e)  PROVE Alone'
  BY <1>13 DEF StopEnded, Alone, Reported, StoppedIsQuiet, EndedIsClean, Live, Running, TypeOK
<1> QED  BY <1>1, <1>2, <1>3, <1>4, <1>5, <1>6, <1>8, <1>9, <1>10, <1>11, <1>12, <1>13
         DEF Next, StartStep, LoopStep, SessionOver

----------------------------------------------------------------------------
(* One runtime at a time                                                   *)

Together == OneStart /\ WayCleared /\ OneActive

\* A step that makes no runtime live and lets no start get ahead.
LEMMA Bystander ==
    ASSUME Together, UNCHANGED <<entries, key, todo>>, overlapped => overlapped',
           \A r \in Starts : Live(r)' => Live(r),
           \A r \in Starts : at'[r] = at[r] \/ at'[r] = "returned"
    PROVE  Together'
<1>1. \A r \in Starts : UnderWay(r)' => UnderWay(r) /\ at'[r] = at[r]
  BY DEF UnderWay
<1>2. OneStart'
  BY <1>1 DEF Together, OneStart
<1>3. WayCleared'
  BY DEF Together, WayCleared
<1>4. OneActive'
  BY DEF Together, OneActive
<1> QED  BY <1>2, <1>3, <1>4 DEF Together

\* The same for the start that goes on, if it is the only one: what it leaves live must be in its way.
LEMMA Leads ==
    ASSUME TypeOK, Together, NEW s \in Starts, UNCHANGED key,
           ~overlapped' => ~overlapped /\ \A r \in Starts : r # s => ~UnderWay(r),
           \A r \in Starts : r # s => at'[r] = at[r],
           \A r \in Starts : Live(r)' => Live(r),
           \A r \in Starts : ~overlapped' /\ Live(r)' =>
                /\ entries'[key[r]] = entries[key[r]] /\ at'[s] # "ticket"
                /\ at'[s] = "refreshing" => key[r] # key[s]
                /\ at'[s] = "stopping" => r \in todo'[s],
           at'[s] = "ticket" => entries'[key[s]] = s
    PROVE  Together'
<1> SUFFICES ASSUME ~overlapped'  PROVE Together'
  BY DEF Together, OneStart, WayCleared, OneActive
<1>1. \A r \in Starts : r # s => ~UnderWay(r)' /\ at'[r] \notin {"refreshing", "stopping", "ticket"}
  BY DEF UnderWay
<1>2. OneStart'
  BY <1>1 DEF OneStart
<1>3. WayCleared'
  BY <1>1 DEF WayCleared
<1>4. OneActive'
  BY DEF Together, OneActive
<1> QED  BY <1>2, <1>3, <1>4 DEF Together

\* A start goes on, with all that is live in its way.
LEMMA GoesOn ==
    ASSUME TypeOK, Alone, Together, NEW s \in Starts, NEW S \in SUBSET Starts, GoOn(s, S),
           ~overlapped' => ~overlapped /\ \A r \in Starts : r # s => ~UnderWay(r),
           ~overlapped' => \A r \in Starts : Live(r) => r \in S
    PROVE  Together'
<1>1. CASE Made(s, S)
  <2>1. \A r \in Starts : Live(r)' <=> Live(r)
    BY <1>1 DEF Made, Live
  <2>2. \A e \in S : ~Live(e)
    BY <1>1 DEF Made, Live, Running, Alone, StoppedIsQuiet
  <2>3. \A r \in Starts : ~(~overlapped' /\ Live(r)')
    BY <2>1, <2>2
  <2>4. UNCHANGED key /\ entries'[key[s]] = s /\ \A r \in Starts : r # s => at'[r] = at[r]
    BY <1>1 DEF Made, TypeOK
  <2> QED  BY <2>1, <2>3, <2>4, Leads
<1>2. ASSUME NEW e \in S, Stopping(s, S, e)  PROVE Together'
  <2>1. {e} \in SUBSET Starts /\ StopEntries(s, {e})
    BY <1>2 DEF Stopping
  <2>2. UNCHANGED <<key, run>> /\ aborted'[e]
        /\ \A r \in Starts : r # e => aborted'[r] = aborted[r]
    BY <2>1, StopFacts
  <2>3. \A r \in Starts : Live(r)' => Live(r) /\ r # e
    BY <2>2 DEF Live
  <2>4. /\ UNCHANGED entries /\ at'[s] = "stopping" /\ todo'[s] = S \ {e}
        /\ \A r \in Starts : r # s => at'[r] = at[r]
    BY <1>2 DEF Stopping, TypeOK
  <2>5. \A r \in Starts : ~overlapped' /\ Live(r)' => r \in todo'[s]
    BY <2>3, <2>4
  <2> QED  BY <2>2, <2>3, <2>4, <2>5, Leads
<1> QED  BY <1>1, <1>2, GoOnWays

\* A runtime that is live under another key is found by start.
LEMMA LiveFound ==
    ASSUME TypeOK, Together, ~overlapped, NEW s \in Starts, NEW r \in Starts, Live(r), key[r] # key[s]
    PROVE  r \in Others(s)
<1>1. entries[key[r]] = r /\ key[r] \in Keys \ {key[s]} /\ r # None
  BY Numbers DEF Together, OneActive, TypeOK
<1> QED  BY <1>1 DEF Others

LEMMA StartTogether ==
    ASSUME TypeOK, Alone, Together, NEW s \in Starts, Start(s)
    PROVE  Together'
<1> USE DEF entry, calls
<1> DEFINE existing == entries[key[s]]
<1>1. /\ overlapped => overlapped'
      /\ ~overlapped' => ~overlapped /\ \A r \in Starts : ~UnderWay(r)
  BY DEF Start
<1>2. \A r \in Starts : ~overlapped /\ Live(r) =>
        /\ entries[key[r]] = r /\ r # None /\ state[r] \in {"starting", "online"}
  BY Numbers DEF Together, OneActive, Alone, Reported
<1>3. CASE /\ at' = [at EXCEPT ![s] = "returned"] /\ UNCHANGED <<entry, todo, waits>>
  <2>1. \A r \in Starts : Live(r)' => Live(r)
    BY <1>3 DEF Live
  <2>2. \A r \in Starts : at'[r] = at[r] \/ at'[r] = "returned"
    BY <1>3 DEF TypeOK
  <2> QED  BY <1>1, <1>3, <2>1, <2>2, Bystander
<1>4. CASE /\ existing # None /\ StopEntries(s, {existing})
           /\ at' = [at EXCEPT ![s] = "refreshing"] /\ UNCHANGED <<entries, todo>>
  <2>1. existing \in Starts /\ {existing} \in SUBSET Starts
    BY <1>4 DEF TypeOK
  <2>2. UNCHANGED <<key, run>> /\ aborted'[existing]
        /\ \A r \in Starts : r # existing => aborted'[r] = aborted[r]
    BY <1>4, <2>1, StopFacts
  <2>3. \A r \in Starts : Live(r)' => Live(r) /\ r # existing
    BY <2>1, <2>2 DEF Live
  <2>4. at'[s] = "refreshing" /\ \A r \in Starts : r # s => at'[r] = at[r]
    BY <1>4 DEF TypeOK
  <2>5. \A r \in Starts : ~overlapped' /\ Live(r)' => key[r] # key[s]
    BY <1>1, <1>2, <2>3
  <2> QED  BY <1>1, <1>4, <2>2, <2>3, <2>4, <2>5, Leads
<1>5. CASE /\ existing # None => state[existing] \notin {"starting", "online"}
           /\ GoOn(s, Others(s))
  <2>1. ~overlapped' => \A r \in Starts : Live(r) => r \in Others(s)
    BY <1>1, <1>2, <1>5, LiveFound
  <2> QED  BY <1>1, <1>5, <2>1, Found, GoesOn
<1> QED  BY <1>3, <1>4, <1>5 DEF Start

LEMMA StartStepTogether ==
    ASSUME TypeOK, Alone, Together, NEW s \in Starts, StartStep(s)
    PROVE  Together'
<1> USE DEF entry, calls
<1>1. UNCHANGED overlapped
  BY DEF StartStep, StartGoesOn, Ticket, NoTicket, StartReturns
<1>2. UnderWay(s)
  BY DEF StartStep, StartGoesOn, Ticket, NoTicket, StartReturns, UnderWay
<1>3. ~overlapped => \A r \in Starts : r # s => ~UnderWay(r)
  BY <1>2 DEF Together, OneStart
<1>4. CASE StartGoesOn(s)
  <2>1. CASE at[s] = "refreshing"
    <3>1. ~overlapped => \A r \in Starts : Live(r) => r \in Others(s)
      BY <2>1, LiveFound DEF Together, WayCleared
    <3> QED  BY <1>1, <1>3, <1>4, <2>1, <3>1, Found, GoesOn DEF StartGoesOn
  <2>2. CASE at[s] = "stopping"
    <3>1. GoOn(s, todo[s]) /\ todo[s] \in SUBSET Starts
      BY <1>4, <2>2 DEF StartGoesOn, TypeOK
    <3>2. ~overlapped => \A r \in Starts : Live(r) => r \in todo[s]
      BY <2>2 DEF Together, WayCleared
    <3> QED  BY <1>1, <1>3, <3>1, <3>2, GoesOn
  <2> QED  BY <1>4, <2>1, <2>2 DEF StartGoesOn
<1>5. CASE Ticket(s)
  <2>1. at[s] = "ticket" /\ UNCHANGED <<entries, key, aborted, todo>>
        /\ at'[s] = "waiting" /\ \A r \in Starts : r # s => at'[r] = at[r] /\ run'[r] = run[r]
    BY <1>5 DEF Ticket, TypeOK
  <2> SUFFICES ASSUME ~overlapped  PROVE Together'
    BY <1>1 DEF Together, OneStart, WayCleared, OneActive
  <2>2. entries[key[s]] = s /\ \A r \in Starts : ~Live(r)
    BY <2>1 DEF Together, WayCleared
  <2>3. \A r \in Starts : Live(r)' => r = s
    BY <2>1, <2>2 DEF Live
  <2>4. \A r \in Starts : ~UnderWay(r)' \/ r = s
    BY <1>3, <2>1 DEF UnderWay
  <2>5. OneStart'
    BY <2>4 DEF OneStart
  <2>6. WayCleared'
    BY <2>1, <2>4 DEF WayCleared, UnderWay
  <2>7. OneActive'
    BY <2>1, <2>2, <2>3 DEF OneActive
  <2> QED  BY <2>5, <2>6, <2>7 DEF Together
<1>6. CASE NoTicket(s)
  <2>1. at[s] = "ticket" /\ UNCHANGED <<key, aborted, run>>
        /\ at'[s] = "returned" /\ \A r \in Starts : r # s => at'[r] = at[r]
    BY <1>6 DEF NoTicket, TypeOK
  <2>2. \A r \in Starts : Live(r)' <=> Live(r)
    BY <2>1 DEF Live
  <2>3. ~overlapped => \A r \in Starts : ~Live(r)
    BY <2>1 DEF Together, WayCleared
  <2> QED  BY <1>1, <1>3, <2>1, <2>2, <2>3, Leads
<1>7. CASE StartReturns(s)
  <2>1. \A r \in Starts : Live(r)' => Live(r)
    BY <1>7 DEF StartReturns, Live
  <2>2. \A r \in Starts : at'[r] = at[r] \/ at'[r] = "returned"
    BY <1>7 DEF StartReturns, TypeOK
  <2> QED  BY <1>7, <2>1, <2>2, Bystander DEF StartReturns
<1> QED  BY <1>4, <1>5, <1>6, <1>7 DEF StartStep

LEMMA TogetherKept ==
    ASSUME TypeOK, Alone, Together, [Next]_vars
    PROVE  Together'
<1> USE DEF entry, calls
<1>1. CASE UNCHANGED vars
  BY <1>1, Bystander DEF vars, Live
<1>2. ASSUME NEW s \in Starts,
             \/ MarkOnline(s) \/ Reattach(s) \/ LoopStep(s) \/ SessionOver(s)
             \/ \E m \in Clients : Attach(s, m) \/ Detach(s, m)
      PROVE  Together'
  <2>1. UNCHANGED <<entries, key, aborted, calls, overlapped>>
    BY <1>2 DEF MarkOnline, Reattach, LoopStep, WakeUp, CleanUp, SessionOver, SessionEnds, Attach, Detach
  <2>2. \A r \in Starts : r # s => run'[r] = run[r]
    BY <1>2 DEF MarkOnline, Reattach, LoopStep, WakeUp, CleanUp, SessionOver, SessionEnds, LoopEnds,
                Attach, Detach, TypeOK
  <2>3. run'[s] = run[s] \/ run[s] \in Running \/ run'[s] = "done"
    BY <1>2 DEF MarkOnline, Reattach, LoopStep, WakeUp, CleanUp, SessionOver, SessionEnds, Attach,
                Detach, TypeOK, Running
  <2>4. \A r \in Starts : Live(r)' => Live(r)
    BY <2>1, <2>2, <2>3 DEF Live, Running
  <2> QED  BY <2>1, <2>4, Bystander
<1>3. ASSUME NEW c \in Stops, NEW K \in SUBSET Keys, Stop(c, K)  PROVE Together'
  <2>1. \A r \in Starts : at'[r] = at[r]
    BY <1>3, Numbers DEF Stop, TypeOK
  <2>2. PICK S \in SUBSET Starts : StopEntries(c, S)
    BY <1>3, Found DEF Stop
  <2>3. UNCHANGED <<key, run>> /\ \A r \in Starts : aborted'[r] = aborted[r] \/ aborted'[r] = TRUE
    <3>1. \A r \in Starts : aborted'[r] <=> aborted[r] \/ r \in S
      BY <2>2, Zenon DEF StopEntries
    <3> QED  BY <2>2, <3>1, StopFacts DEF TypeOK
  <2>4. \A r \in Starts : Live(r)' => Live(r)
    BY <2>3 DEF Live
  <2> QED  BY <1>3, <2>1, <2>3, <2>4, Bystander DEF Stop
<1>4. ASSUME NEW c \in Stops, StopReturns(c)  PROVE Together'
  <2>1. \A r \in Starts : at'[r] = at[r]
    BY <1>4, Numbers DEF StopReturns, TypeOK
  <2>2. \A r \in Starts : Live(r)' => Live(r)
    BY <1>4 DEF StopReturns, Live
  <2> QED  BY <1>4, <2>1, <2>2, Bystander DEF StopReturns
<1>5. ASSUME NEW c \in Starts \cup Stops, NEW e \in Starts, StopEnded(c, e)  PROVE Together'
  <2>1. \A r \in Starts : Live(r)' => Live(r)
    BY <1>5 DEF StopEnded, Live
  <2> QED  BY <1>5, <2>1, Bystander DEF StopEnded
<1> QED  BY <1>1, <1>2, <1>3, <1>4, <1>5, StartTogether, StartStepTogether DEF Next

----------------------------------------------------------------------------
(* The theorems                                                            *)

\* Every variable keeps its type: in particular stop and start only ever come to entries that were made.
THEOREM TypeCorrect == Spec => []TypeOK
<1>1. Init => TypeOK
  BY InitManager
<1>2. TypeOK /\ [Next]_vars => TypeOK'
  BY TypesKept
<1> QED  BY <1>1, <1>2, PTL DEF Spec

\* The inductive invariant of start, stop and the connector loops.
THEOREM ManagerCorrect == Spec => []ManagerInv
<1>1. ManagerInv <=> Alone /\ Together
  BY DEF ManagerInv, Alone, Together
<1>2. Init => TypeOK /\ Alone /\ Together
  BY <1>1, InitManager
<1>3. TypeOK /\ Alone /\ Together /\ [Next]_vars => (TypeOK /\ Alone /\ Together)'
  BY TypesKept, AloneKept, TogetherKept
<1> QED  BY <1>1, <1>2, <1>3, PTL DEF Spec

\* start stops every runtime in its way, and waits for it, before it asks for a ticket: unless starts
\* overlap, no two runtimes of the account are live, and the live one is found under its key.
THEOREM OneRuntime == Spec => []OneActive
<1>1. ManagerInv => OneActive
  BY DEF ManagerInv
<1> QED  BY <1>1, ManagerCorrect, PTL

\* stopEntry reports "stopped" only of a runtime whose loop has ended or will never begin.
THEOREM StoppedStaysQuiet == Spec => []StoppedIsQuiet
<1>1. ManagerInv => StoppedIsQuiet
  BY DEF ManagerInv
<1> QED  BY <1>1, ManagerCorrect, PTL

\* The connector loop's finally leaves no subscription, and none is added after it.
THEOREM EndsClean == Spec => []EndedIsClean
<1>1. ManagerInv => EndedIsClean
  BY DEF ManagerInv
<1> QED  BY <1>1, ManagerCorrect, PTL
=============================================================================
