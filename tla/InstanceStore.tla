--------------------------- MODULE InstanceStore ---------------------------
(***************************************************************************)
(* The instances of one project directory: a cache of at most one entry,   *)
(* which load, reload, dispose and disposeAll share, and the state that    *)
(* the services keep for the directory (InstanceState), which is made when *)
(* it is first wanted and dropped when the directory is disposed of.       *)
(*                                                                         *)
(* An entry is named by the call that put it into the cache, and so is the *)
(* context that its boot yields.  The fiber that a load or a reload forks  *)
(* outlives an interrupted caller.                                         *)
(***************************************************************************)
EXTENDS Naturals, FiniteSets

CONSTANTS
    MaxCalls,  \* bound on the calls of load, reload, dispose and disposeAll
    MaxGens    \* bound on the states that a service makes for the directory

ASSUME StoreAssumption == MaxCalls \in Nat /\ MaxGens \in Nat

Calls == 1..MaxCalls   \* the calls, in the order in which they come
None == 0              \* no entry, no context

VARIABLES
    cache,     \* the entry in the cache, or None
    deferred,  \* deferred[c]: "none" before the entry exists, "open", then "ok" or "failed"
    previous,  \* previous[c]: the entry that reload c replaced, or None
    fork,      \* fork[c]: where the fiber of entry c is
    call,      \* call[c]: where the caller of c is, what it does and the entry it looks at
    gen,       \* the number of the services' state for the directory, 0 if there is none
    made       \* the number of such states made so far

vars == <<cache, deferred, previous, fork, call, gen, made>>

ForkSteps == {"none", "await", "disposers", "boot", "done"}
CallSteps == {"idle", "loading", "await", "disposers", "direct", "join", "returned"}
Jobs == {"none", "load", "dispose", "all"}
Idle == [at |-> "idle", job |-> "none", entry |-> None, ctx |-> None]

Init ==
    /\ cache = None /\ deferred = [c \in Calls |-> "none"] /\ previous = [c \in Calls |-> None]
    /\ fork = [c \in Calls |-> "none"] /\ call = [c \in Calls |-> Idle]
    /\ gen = 0 /\ made = 0

\* The next call to come.
Arrives(c) == call[c].at = "idle" /\ \A d \in 1..(c - 1) : call[d].at # "idle"

Settled(e) == deferred[e] \in {"ok", "failed"}

Goto(c, step) == call' = [call EXCEPT ![c].at = step]

\* runDisposers: every service drops what it keeps for the directory, at once; it is not looked at
\* whose it is.  What the finalizers then do takes time.
RunDisposers == gen' = 0 /\ UNCHANGED made

\* InstanceState.get of a service, by anyone who has a context.
Get == IF gen # 0 THEN UNCHANGED <<gen, made>>
       ELSE made < MaxGens /\ made' = made + 1 /\ gen' = made + 1

\* removeEntry
RemoveEntry(e) == cache' = IF cache = e THEN None ELSE cache

----------------------------------------------------------------------------
(* load, reload and their fibers                                           *)

\* A new entry c, whose fiber begins at once.
NewEntry(c, step) ==
    /\ cache' = c
    /\ deferred' = [deferred EXCEPT ![c] = "open"]
    /\ fork' = [fork EXCEPT ![c] = step]
    /\ call' = [call EXCEPT ![c] = [at |-> "loading", job |-> "load", entry |-> c, ctx |-> None]]

Load(c) ==
    /\ Arrives(c)
    /\ \/ /\ cache = None
          /\ NewEntry(c, "boot")
       \/ /\ cache # None
          /\ call' = [call EXCEPT ![c] =
                        [at |-> "loading", job |-> "load", entry |-> cache, ctx |-> None]]
          /\ UNCHANGED <<cache, deferred, fork>>
    /\ UNCHANGED <<previous, gen, made>>

Reload(c) ==
    /\ Arrives(c)
    /\ previous' = [previous EXCEPT ![c] = cache]
    /\ NewEntry(c, IF cache = None THEN "boot" ELSE "await")
    /\ UNCHANGED <<gen, made>>

\* Mutant: the replaced entry is disposed of while it may still boot.
ReloadDisposeEarly(c) ==
    /\ fork[c] = "await"
    /\ RunDisposers
    /\ fork' = [fork EXCEPT ![c] = "disposers"]
    /\ UNCHANGED <<cache, deferred, previous, call>>

\* The fiber of a reload: the replaced entry has settled.
ReloadDispose(c) ==
    /\ fork[c] = "await" /\ Settled(previous[c])
    /\ RunDisposers
    /\ fork' = [fork EXCEPT ![c] = "disposers"]
    /\ UNCHANGED <<cache, deferred, previous, call>>

ReloadDisposed(c) ==
    /\ fork[c] = "disposers"
    /\ fork' = [fork EXCEPT ![c] = "boot"]
    /\ UNCHANGED <<cache, deferred, previous, call, gen, made>>


\* completeLoad: the boot ends, well or not.
CompleteLoad(c, result) ==
    /\ fork[c] = "boot"
    /\ fork' = [fork EXCEPT ![c] = "done"]
    /\ IF result = "failed" THEN RemoveEntry(c) ELSE UNCHANGED cache
    /\ deferred' = [deferred EXCEPT ![c] = result]
    /\ UNCHANGED <<previous, call, gen, made>>

\* The caller of load or reload gets the context of its entry, or its failure.
LoadReturn(c) ==
    /\ call[c].at = "loading" /\ Settled(call[c].entry)
    /\ call' = [call EXCEPT ![c].at = "returned",
                            ![c].ctx = IF deferred[call[c].entry] = "ok" THEN call[c].entry ELSE None]
    /\ UNCHANGED <<cache, deferred, previous, fork, gen, made>>

----------------------------------------------------------------------------
(* dispose and disposeAll                                                  *)

\* The contexts that somebody has.
Held == {call[c].ctx : c \in Calls} \ {None}

\* dispose of a context: if nothing is cached the directory is disposed of all the same.
Dispose(c, ctx) ==
    /\ Arrives(c)
    /\ call' = [call EXCEPT ![c] = [at |-> IF cache = None THEN "direct" ELSE "await",
                                    job |-> "dispose", entry |-> cache, ctx |-> ctx]]
    /\ IF cache = None THEN RunDisposers ELSE UNCHANGED <<gen, made>>
    /\ UNCHANGED <<cache, deferred, previous, fork>>

DisposingAll == \E d \in Calls : call[d].job = "all" /\ call[d].at \in {"await", "disposers"}

\* disposeAll: a call that comes while another is at work waits for it (cachedWithTTL).
DisposeAll(c) ==
    /\ Arrives(c)
    /\ call' = [call EXCEPT ![c] = [at |-> IF DisposingAll THEN "join"
                                           ELSE IF cache = None THEN "returned" ELSE "await",
                                    job |-> "all", entry |-> cache, ctx |-> None]]
    /\ UNCHANGED <<cache, deferred, previous, fork, gen, made>>

\* The entry has settled: a failed one is removed, one of another context is left alone, and so is
\* one that is no longer cached; any other is disposed of.
DisposeSettled(c) ==
    LET e == call[c].entry IN
    /\ call[c].at = "await" /\ Settled(e)
    /\ \/ /\ deferred[e] = "failed"
          /\ RemoveEntry(e) /\ Goto(c, "returned") /\ UNCHANGED <<gen, made>>
       \/ /\ deferred[e] = "ok"
          /\ (call[c].job = "dispose" /\ e # call[c].ctx) \/ cache # e
          /\ Goto(c, "returned") /\ UNCHANGED <<cache, gen, made>>
       \/ /\ deferred[e] = "ok" /\ cache = e
          /\ call[c].job = "dispose" => e = call[c].ctx
          /\ RunDisposers /\ Goto(c, "disposers") /\ UNCHANGED cache
    /\ UNCHANGED <<deferred, previous, fork>>

\* Mutant: disposeEntry does not look at the cache again.
DisposedUnchecked(c) ==
    /\ call[c].at \in {"disposers", "direct"}
    /\ IF call[c].at = "disposers" THEN cache' = None ELSE UNCHANGED cache
    /\ Goto(c, "returned")
    /\ UNCHANGED <<deferred, previous, fork, gen, made>>

\* The finalizers are done; the entry is deleted if it is still the cached one.
Disposed(c) ==
    /\ call[c].at \in {"disposers", "direct"}
    /\ IF call[c].at = "disposers" THEN RemoveEntry(call[c].entry) ELSE UNCHANGED cache
    /\ Goto(c, "returned")
    /\ UNCHANGED <<deferred, previous, fork, gen, made>>

Joined(c) ==
    /\ call[c].at = "join" /\ ~DisposingAll
    /\ Goto(c, "returned")
    /\ UNCHANGED <<cache, deferred, previous, fork, gen, made>>

\* A caller is interrupted where it waits.  The fiber of an entry goes on, and so do finalizers that
\* have begun, but the entry that they are for stays in the cache.
Interrupt(c) ==
    /\ call[c].at \notin {"idle", "returned"}
    /\ Goto(c, "returned")
    /\ UNCHANGED <<cache, deferred, previous, fork, gen, made>>

----------------------------------------------------------------------------
ForkStep(c) == ReloadDispose(c) \/ ReloadDisposed(c) \/ \E r \in {"ok", "failed"} : CompleteLoad(c, r)
CallStep(c) == LoadReturn(c) \/ DisposeSettled(c) \/ Disposed(c) \/ Joined(c)

StoreStep ==
    \E c \in Calls :
        \/ Load(c) \/ Reload(c) \/ DisposeAll(c) \/ Interrupt(c) \/ ForkStep(c) \/ CallStep(c)
        \/ \E ctx \in Held : Dispose(c, ctx)

\* A service is used by somebody who has a context.
Use == Held # {} /\ Get /\ UNCHANGED <<cache, deferred, previous, fork, call>>

StoreSpec == Init /\ [][StoreStep \/ Use]_vars

----------------------------------------------------------------------------
(* Properties                                                              *)

TypeOK ==
    /\ cache \in Calls \cup {None}
    /\ deferred \in [Calls -> {"none", "open", "ok", "failed"}]
    /\ previous \in [Calls -> Calls \cup {None}]
    /\ fork \in [Calls -> ForkSteps]
    /\ call \in [Calls -> [at : CallSteps, job : Jobs,
                           entry : Calls \cup {None}, ctx : Calls \cup {None}]]
    /\ gen \in 0..made /\ made \in 0..MaxGens

\* However loads, reloads and disposals overlap, the directory is never booted twice at a time.
BootsSerial == \A c, d \in Calls : fork[c] = "boot" /\ fork[d] = "boot" => c = d

\* The parts of the inductive invariant behind BootsSerial.  An entry is open while its fiber is at work.
Open(c) == deferred[c] = "open"

ForksAtWork ==
    \A c \in Calls : /\ Open(c) <=> fork[c] \in {"await", "disposers", "boot"}
                     /\ deferred[c] = "none" <=> fork[c] = "none"

\* Calls come in their order, and one that has not come has no entry.
InOrder ==
    \A c \in Calls : call[c].at = "idle" =>
        deferred[c] = "none" /\ \A d \in Calls : c < d => call[d].at = "idle"

\* The cached entry is the latest; if none is cached, none is at work.
CacheIsLatest ==
    /\ cache # None => deferred[cache] # "none" /\ \A d \in Calls : cache < d => deferred[d] = "none"
    /\ cache = None => \A c \in Calls : ~Open(c)

\* A call waits for an entry, and disposes of one only if it has booted.
EntriesKnown ==
    \A c \in Calls :
        /\ call[c].at \in {"await", "disposers"} => call[c].entry \in Calls
        /\ call[c].at = "disposers" => deferred[call[c].entry] = "ok"

\* A reload waits for the entry that came before its own.
WaitsForLatest ==
    \A d \in Calls : fork[d] = "await" =>
        /\ previous[d] \in 1..(d - 1) /\ deferred[previous[d]] # "none"
        /\ \A c \in Calls : previous[d] < c /\ c < d => deferred[c] = "none"

\* While an entry is at work, all later ones wait, each for one that is at work too.
LaterWait ==
    \A c, d \in Calls : c < d /\ Open(c) /\ deferred[d] # "none" => fork[d] = "await" /\ Open(previous[d])

StoreInv ==
    ForksAtWork /\ InOrder /\ CacheIsLatest /\ EntriesKnown /\ WaitsForLatest /\ LaterWait

\* An entry leaves the cache only for the entry of a reload, because its own boot failed, or at the
\* end of its own disposal: a disposal that comes late spares its successor.
DisposeSparesSuccessor ==
    [][cache # None /\ cache' = None =>
         \/ deferred'[cache] = "failed"
         \/ \E c \in Calls : call[c].at = "disposers" /\ call[c].entry = cache
                             /\ call'[c].at = "returned"]_vars

=============================================================================
