------------------------ MODULE RemoteRuntimeManager ------------------------
(***************************************************************************)
(* The life of the remote runtimes of one account: start, stop, the        *)
(* connector loop of a runtime with its reattachments, and the clients'    *)
(* subscriptions to its events.                                            *)
(*                                                                         *)
(* A runtime has a key, here its directory; an entry is named by the call  *)
(* of start that made it.  What runs between two awaits is one step.  The  *)
(* project context of an entry and what is sent to the clients are left    *)
(* out.                                                                    *)
(***************************************************************************)
EXTENDS Naturals, FiniteSets

CONSTANTS
    MaxStarts,  \* bound on the calls of start
    Stops,      \* the calls of stop
    Keys,       \* the keys of runtimes
    Clients     \* the client attachments

ASSUME ManagerAssumption == MaxStarts \in Nat /\ Stops \cap Nat = {}

Starts == 1..MaxStarts   \* the calls of start, in the order in which they come
None == 0

VARIABLES
    entries,     \* entries[k]: the entry of key k, or None
    key,         \* key[s]: the key of start s
    state,       \* state[s]: the state that the entry of s reports
    aborted,     \* has the entry's signal been aborted?
    run,         \* run[s]: where the connector loop of the entry is
    clients,     \* clients[s]: the clients that have a subscription
    at,          \* at[c]: where the call c of start or stop is
    todo,        \* todo[s]: the entries that start s found in its way and has not come to
    waits,       \* waits[c]: the entries for whose end call c waits
    overlapped   \* has a start ever come while another was under way?

entry == <<entries, key, state, aborted, run, clients>>
calls == <<at, todo, waits>>
vars == <<entry, calls, overlapped>>

Running == {"session", "attached", "sleep"}
UnderWay(s) == at[s] \in {"refreshing", "stopping", "ticket", "waiting"}

Init ==
    /\ entries = [k \in Keys |-> None] /\ key \in [Starts -> Keys]
    /\ state = [s \in Starts |-> "none"] /\ aborted = [s \in Starts |-> FALSE]
    /\ run = [s \in Starts |-> "none"] /\ clients = [s \in Starts |-> {}]
    /\ at = [c \in Starts \cup Stops |-> "idle"] /\ todo = [s \in Starts |-> {}]
    /\ waits = [c \in Starts \cup Stops |-> {}] /\ overlapped = FALSE

----------------------------------------------------------------------------
(* stopEntry                                                               *)

\* Mutant: the end of a loop that has not begun is waited for too.
StopEntriesWaitLong(c, S) ==
    /\ state' = [e \in Starts |-> IF e \in S THEN "stopping" ELSE state[e]]
    /\ aborted' = [e \in Starts |-> aborted[e] \/ e \in S]
    /\ clients' = [e \in Starts |-> IF e \in S THEN {} ELSE clients[e]]
    /\ waits' = [waits EXCEPT ![c] = S]
    /\ UNCHANGED <<key, run>>

\* Its first part, for the entries of S: nothing more is forwarded, the signal is aborted, and call c
\* waits for the connector loop, if there is one yet.
StopEntries(c, S) ==
    /\ state' = [e \in Starts |-> IF e \notin S THEN state[e]
                                  ELSE IF run[e] = "none" THEN "stopped" ELSE "stopping"]
    /\ aborted' = [e \in Starts |-> aborted[e] \/ e \in S]
    /\ clients' = [e \in Starts |-> IF e \in S THEN {} ELSE clients[e]]
    /\ waits' = [waits EXCEPT ![c] = {e \in S : run[e] # "none"}]
    /\ UNCHANGED <<key, run>>

\* Mutant: the entry is stopped as soon as its signal is aborted.
StopEndedEarly(c, e) ==
    /\ e \in waits[c]
    /\ state' = [state EXCEPT ![e] = "stopped"]
    /\ waits' = [waits EXCEPT ![c] = @ \ {e}]
    /\ UNCHANGED <<entries, key, aborted, run, clients, at, todo, overlapped>>

\* Its second part: the loop of e has ended.
StopEnded(c, e) ==
    /\ e \in waits[c] /\ run[e] = "done"
    /\ state' = [state EXCEPT ![e] = "stopped"]
    /\ waits' = [waits EXCEPT ![c] = @ \ {e}]
    /\ UNCHANGED <<entries, key, aborted, run, clients, at, todo, overlapped>>

----------------------------------------------------------------------------
(* start                                                                   *)

\* The runtimes of the account under other keys (supersededRuntimeEntries).
Others(s) == {entries[k] : k \in Keys \ {key[s]}} \ {None}

\* Mutant: the runtimes of other keys are left running.
GoOnAlone(s, S) ==
    /\ entries' = [entries EXCEPT ![key[s]] = s]
    /\ state' = [state EXCEPT ![s] = "starting"]
    /\ at' = [at EXCEPT ![s] = "ticket"] /\ todo' = [todo EXCEPT ![s] = {}]
    /\ UNCHANGED <<key, aborted, run, clients, waits>>

\* The next of the entries S that is not stopped is stopped; when there is none the new entry is made,
\* and a ticket asked for.
GoOn(s, S) ==
    \/ /\ \A e \in S : state[e] = "stopped"
       /\ entries' = [entries EXCEPT ![key[s]] = s]
       /\ state' = [state EXCEPT ![s] = "starting"]
       /\ at' = [at EXCEPT ![s] = "ticket"] /\ todo' = [todo EXCEPT ![s] = {}]
       /\ UNCHANGED <<key, aborted, run, clients, waits>>
    \/ \E e \in S :
       /\ state[e] # "stopped"
       /\ StopEntries(s, {e})
       /\ at' = [at EXCEPT ![s] = "stopping"] /\ todo' = [todo EXCEPT ![s] = S \ {e}]
       /\ UNCHANGED entries

\* A runtime of the key that is starting is left alone, one that is online is stopped first.
Start(s) ==
    LET existing == entries[key[s]]
        is(st) == existing # None /\ state[existing] = st IN
    /\ at[s] = "idle" /\ \A r \in 1..(s - 1) : at[r] # "idle"
    /\ overlapped' = (overlapped \/ \E r \in Starts : UnderWay(r))
    /\ \/ /\ is("starting")
          /\ at' = [at EXCEPT ![s] = "returned"]
          /\ UNCHANGED <<entry, todo, waits>>
       \/ /\ is("online")
          /\ StopEntries(s, {existing})
          /\ at' = [at EXCEPT ![s] = "refreshing"]
          /\ UNCHANGED <<entries, todo>>
       \/ /\ ~is("starting") /\ ~is("online")
          /\ GoOn(s, Others(s))

\* The stop that start waited for is over.
StartGoesOn(s) ==
    /\ at[s] \in {"refreshing", "stopping"} /\ waits[s] = {}
    /\ GoOn(s, IF at[s] = "refreshing" THEN Others(s) ELSE todo[s])
    /\ UNCHANGED overlapped

\* No ticket: the entry of the key is deleted, whoever's it is by now.
NoTicket(s) ==
    /\ at[s] = "ticket"
    /\ entries' = [entries EXCEPT ![key[s]] = None]
    /\ state' = [state EXCEPT ![s] = "errored"]
    /\ at' = [at EXCEPT ![s] = "returned"]
    /\ UNCHANGED <<key, aborted, run, clients, todo, waits, overlapped>>

\* The loop begins, unless the entry has been stopped meanwhile; start waits for the attachment.
Ticket(s) ==
    /\ at[s] = "ticket"
    /\ IF aborted[s]
       THEN run' = [run EXCEPT ![s] = "ending"] /\ UNCHANGED state
       ELSE run' = [run EXCEPT ![s] = "session"] /\ state' = [state EXCEPT ![s] = "starting"]
    /\ at' = [at EXCEPT ![s] = "waiting"]
    /\ UNCHANGED <<entries, key, aborted, clients, todo, waits, overlapped>>

\* waitForAttachment: online, errored, or not in time; the entry stays in any case.
StartReturns(s) ==
    /\ at[s] = "waiting"
    /\ at' = [at EXCEPT ![s] = "returned"]
    /\ UNCHANGED <<entry, todo, waits, overlapped>>

----------------------------------------------------------------------------
(* The connector loop                                                      *)

\* onAttachment: the entry is online, whatever it was.
MarkOnline(s) ==
    /\ run[s] = "session"
    /\ run' = [run EXCEPT ![s] = "attached"] /\ state' = [state EXCEPT ![s] = "online"]
    /\ UNCHANGED <<entries, key, aborted, clients, calls, overlapped>>

\* The loop is left: how the entry's state ends depends on how, and on the signal.
LoopEnds(s, failed) ==
    /\ run' = [run EXCEPT ![s] = "ending"]
    /\ state' = [state EXCEPT ![s] = CASE ~failed /\ @ = "stopping" -> "stopping"
                                       [] failed /\ ~aborted[s]     -> "errored"
                                       [] OTHER                     -> "stopped"]

\* A session ends, or fails for good; the first ticket of a later session may not be had either.
SessionEnds(s, failed) ==
    /\ run[s] \in {"session", "attached"}
    /\ LoopEnds(s, failed)
    /\ UNCHANGED <<entries, key, aborted, clients, calls, overlapped>>

\* The gateway has lost the attachment: after a while the runtime attaches again.
Reattach(s) ==
    /\ run[s] \in {"session", "attached"} /\ ~aborted[s]
    /\ run' = [run EXCEPT ![s] = "sleep"] /\ state' = [state EXCEPT ![s] = "starting"]
    /\ clients' = [clients EXCEPT ![s] = {}]
    /\ UNCHANGED <<entries, key, aborted, calls, overlapped>>

WakeUp(s) ==
    /\ run[s] = "sleep"
    /\ IF aborted[s] THEN LoopEnds(s, FALSE)
       ELSE run' = [run EXCEPT ![s] = "session"] /\ state' = [state EXCEPT ![s] = "starting"]
    /\ UNCHANGED <<entries, key, aborted, clients, calls, overlapped>>

\* Mutant: the subscriptions are left to the stop that aborts the signal.
CleanUpNot(s) ==
    /\ run[s] = "ending"
    /\ run' = [run EXCEPT ![s] = "done"]
    /\ UNCHANGED <<entries, key, state, aborted, clients, calls, overlapped>>

\* The loop's finally: nothing is forwarded any more, the context is disposed of.
CleanUp(s) ==
    /\ run[s] = "ending"
    /\ run' = [run EXCEPT ![s] = "done"] /\ clients' = [clients EXCEPT ![s] = {}]
    /\ UNCHANGED <<entries, key, state, aborted, calls, overlapped>>

----------------------------------------------------------------------------
(* Clients and stop                                                        *)

\* A client attaches, through the gateway or locally: either way there is a session.
Attach(s, m) ==
    /\ run[s] = "attached"
    /\ clients' = [clients EXCEPT ![s] = @ \cup {m}]
    /\ UNCHANGED <<entries, key, state, aborted, run, calls, overlapped>>

\* A client detaches, or too many deliveries to it have failed.
Detach(s, m) ==
    /\ m \in clients[s]
    /\ clients' = [clients EXCEPT ![s] = @ \ {m}]
    /\ UNCHANGED <<entries, key, state, aborted, run, calls, overlapped>>

\* stop of the runtimes K that are not stopped.
Stop(c, K) ==
    /\ at[c] = "idle"
    /\ StopEntries(c, {e \in {entries[k] : k \in K} \ {None} : state[e] # "stopped"})
    /\ at' = [at EXCEPT ![c] = "waiting"]
    /\ UNCHANGED <<entries, todo, overlapped>>

StopReturns(c) ==
    /\ at[c] = "waiting" /\ waits[c] = {}
    /\ at' = [at EXCEPT ![c] = "returned"]
    /\ UNCHANGED <<entry, todo, waits, overlapped>>

----------------------------------------------------------------------------
StartStep(s) == StartGoesOn(s) \/ Ticket(s) \/ NoTicket(s) \/ StartReturns(s)
LoopStep(s) == WakeUp(s) \/ CleanUp(s)
SessionOver(s) == \E failed \in BOOLEAN : SessionEnds(s, failed)

Next ==
    \/ \E s \in Starts :
        \/ Start(s) \/ StartStep(s) \/ LoopStep(s)
        \/ MarkOnline(s) \/ SessionOver(s) \/ Reattach(s)
        \/ \E m \in Clients : Attach(s, m) \/ Detach(s, m)
    \/ \E c \in Stops : StopReturns(c) \/ \E K \in SUBSET Keys : Stop(c, K)
    \/ \E c \in Starts \cup Stops, e \in Starts : StopEnded(c, e)

Spec == Init /\ [][Next]_vars

\* Calls and loops go on when they can; a session ends once its signal is aborted.
FairSpec ==
    /\ Spec
    /\ \A s \in Starts : /\ WF_vars(StartStep(s)) /\ WF_vars(LoopStep(s))
                         /\ WF_vars(aborted[s] /\ SessionOver(s))
    /\ \A c \in Stops : WF_vars(StopReturns(c))
    /\ \A c \in Starts \cup Stops, e \in Starts : WF_vars(StopEnded(c, e))

----------------------------------------------------------------------------
(* Properties                                                              *)

Live(s) == run[s] \in Running /\ ~aborted[s]

\* If starts come one after another, at most one runtime of the account is live, and it can be found
\* under its key, however they overlap with stops, reattachments and starts that gave up waiting.
OneActive ==
    ~overlapped => \A s \in Starts : Live(s) =>
        entries[key[s]] = s /\ \A r \in Starts : Live(r) => r = s

\* A runtime that reports "stopped" has no session and will have none, also if it was stopped while
\* it waited for its ticket or slept.
StoppedIsQuiet ==
    \A s \in Starts : state[s] = "stopped" => \/ run[s] \in {"ending", "done"}
                                              \/ run[s] = "none" /\ aborted[s]

\* The end of a runtime leaves no subscription behind, not even of a client that came to a runtime
\* that was being stopped.
EndedIsClean == \A s \in Starts : run[s] = "done" => clients[s] = {}

\* Every start and every stop returns.
CallsReturn == <>[](\A c \in Starts \cup Stops : at[c] \in {"idle", "returned"})

----------------------------------------------------------------------------
(* What makes them hold, step by step                                      *)

TypeOK ==
    /\ entries \in [Keys -> Starts \cup {None}] /\ key \in [Starts -> Keys]
    /\ state \in [Starts -> {"none", "starting", "online", "stopping", "stopped", "errored"}]
    /\ aborted \in [Starts -> BOOLEAN] /\ run \in [Starts -> {"none", "ending", "done"} \cup Running]
    /\ clients \in [Starts -> SUBSET Clients]
    /\ at \in [Starts \cup Stops ->
                 {"idle", "refreshing", "stopping", "ticket", "waiting", "returned"}]
    /\ todo \in [Starts -> SUBSET Starts] /\ waits \in [Starts \cup Stops -> SUBSET Starts]
    /\ overlapped \in BOOLEAN

\* A loop begins with the ticket, and one that is live says so.
Reported ==
    \A s \in Starts :
        /\ at[s] \in {"idle", "refreshing", "stopping", "ticket"} => run[s] = "none"
        /\ Live(s) => state[s] \in {"starting", "online"}

\* If no starts overlapped, one is under way at most.
OneStart == ~overlapped => \A r, s \in Starts : UnderWay(r) /\ UnderWay(s) => r = s

\* A start comes to ask for its ticket only when it has stopped all that was live; until then what is
\* live is among what it will come to.  The entry it has made is under its key.
WayCleared ==
    ~overlapped => \A s \in Starts :
        /\ at[s] = "ticket" => entries[key[s]] = s
        /\ \A r \in Starts : Live(r) => /\ at[s] # "ticket"
                                        /\ at[s] = "refreshing" => key[r] # key[s]
                                        /\ at[s] = "stopping" => r \in todo[s]

ManagerInv == Reported /\ StoppedIsQuiet /\ EndedIsClean /\ OneStart /\ WayCleared /\ OneActive
=============================================================================
