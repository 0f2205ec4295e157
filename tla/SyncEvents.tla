----------------------------- MODULE SyncEvents -----------------------------
(***************************************************************************)
(* Sync events of one session: the numbered log that SyncEvent.run writes  *)
(* together with what its projectors do, and the replay of that log on     *)
(* another machine, where several processes share the database files.      *)
(*                                                                         *)
(* One machine writes, one follows.  A process works with one database     *)
(* file, its current path, and looks for a session in the other files too. *)
(* A SQLite transaction is one step.  Of an event, its id, its sequence    *)
(* number and its kind are kept; ids are numbered as they are made.        *)
(***************************************************************************)
EXTENDS Integers, Sequences, SequencesExt

CONSTANTS
    Servers,    \* the server processes of the following machine
    Files,      \* its database files
    Layouts,    \* the possible assignments of current paths: functions from Servers to Files
    MaxEvents,  \* bound on the events of the writer
    MaxKills    \* bound on the server processes that are killed

ASSUME SyncAssumption ==
    /\ Layouts \subseteq [Servers -> Files]
    /\ MaxEvents \in Nat /\ MaxKills \in Nat

Writer == "writer"   \* the writer's database
ASSUME WriterAssumption == Writer \notin Files

Dbs == Files \cup {Writer}
Kinds == {"created", "updated", "message", "deleted"}
NoCall == [pc |-> "idle", events |-> <<>>, home |-> Writer]

VARIABLES
    path,     \* path[p]: the current database of process p
    log,      \* log[d]: the event table of database d, in the order of insertion
    seq,      \* seq[d]: the sequence row of the session, -1 if there is none
    row,      \* row[d]: is there a session row?
    applied,  \* applied[d]: the ids of the events whose projector changed something
    ids,      \* the number of event ids given out
    deleting, \* has the writer run session.deleted and not yet removed the log?
    removed,  \* has the writer ever removed the log?
    call,     \* call[p]: the call of replayAll that process p is in, with the events left and,
              \* once it is known, the file to write to
    kills     \* the server processes killed so far

tables == <<log, seq, row, applied>>
syncVars == <<path, tables, ids, deleting, removed, call, kills>>

SyncInit ==
    /\ path \in Layouts
    /\ log = [d \in Dbs |-> <<>>] /\ seq = [d \in Dbs |-> -1]
    /\ row = [d \in Dbs |-> FALSE] /\ applied = [d \in Dbs |-> <<>>]
    /\ ids = 0 /\ deleting = FALSE /\ removed = FALSE
    /\ call = [p \in Servers |-> NoCall] /\ kills = 0

----------------------------------------------------------------------------
(* process: one transaction on database d                                  *)

Logged(d) == {log[d][i].id : i \in DOMAIN log[d]}

\* The projector throws: a second session row, or an update of no session.
ProjectorThrows(d, e) == (e.kind = "created" /\ row[d]) \/ (e.kind = "updated" /\ ~row[d])

\* A message of a session that is gone is ignored, and so is a second deletion.
ProjectorActs(d, e) == e.kind = "created" \/ row[d]

\* Mutant: the event is inserted with onConflictDoNothing.
ProcessLenient(d, e) ==
    /\ ~ProjectorThrows(d, e)
    /\ row' = [row EXCEPT ![d] = IF e.kind = "message" THEN @ ELSE e.kind # "deleted"]
    /\ applied' = [applied EXCEPT ![d] = IF ProjectorActs(d, e) THEN Append(@, e.id) ELSE @]
    /\ seq' = [seq EXCEPT ![d] = e.seq]
    /\ log' = [log EXCEPT ![d] = IF e.id \in Logged(d) THEN @ ELSE Append(@, e)]

\* Projector, sequence row and event row, unless the projector throws or the id is taken.
Process(d, e) ==
    /\ ~ProjectorThrows(d, e) /\ e.id \notin Logged(d)
    /\ row' = [row EXCEPT ![d] = IF e.kind = "message" THEN @ ELSE e.kind # "deleted"]
    /\ applied' = [applied EXCEPT ![d] = IF ProjectorActs(d, e) THEN Append(@, e.id) ELSE @]
    /\ seq' = [seq EXCEPT ![d] = e.seq]
    /\ log' = [log EXCEPT ![d] = Append(@, e)]

----------------------------------------------------------------------------
(* The writer                                                              *)

\* run: a session begins with its creation, and only what exists is deleted.  The number is read and
\* the event written in one immediate transaction.
Run(kind) ==
    /\ ids < MaxEvents
    /\ kind = "created" <=> ids = 0
    /\ kind = "deleted" => ~deleting /\ row[Writer]
    /\ Process(Writer, [id |-> ids + 1, seq |-> seq[Writer] + 1, kind |-> kind])
    /\ ids' = ids + 1
    /\ deleting' = (deleting \/ kind = "deleted")
    /\ UNCHANGED <<path, removed, call, kills>>

\* Session.remove goes on to remove the log, the event of the deletion included.
RemoveLog ==
    /\ deleting
    /\ log' = [log EXCEPT ![Writer] = <<>>] /\ seq' = [seq EXCEPT ![Writer] = -1]
    /\ deleting' = FALSE /\ removed' = TRUE
    /\ UNCHANGED <<path, row, applied, ids, call, kills>>

----------------------------------------------------------------------------
(* The following machine                                                   *)

\* resolveSessionPath: the current file if the session is there, or another that has it.
SessionPath(p) ==
    LET homes == {f \in Files : row[f]} IN
    IF row[path[p]] \/ homes = {} THEN path[p] ELSE CHOOSE f \in homes : TRUE

\* A client has read the history from number n on, and posts it to process p.  The rows come in the
\* order of their numbers.
Post(p, n) ==
    /\ call[p].pc = "idle"
    /\ n \in 0..seq[Writer]
    /\ \E first \in DOMAIN log[Writer] :
        /\ \A i \in DOMAIN log[Writer] : log[Writer][i].seq >= n <=> i >= first
        /\ call' = [call EXCEPT ![p] = [pc |-> "read", home |-> Writer,
                       events |-> SubSeq(log[Writer], first, Len(log[Writer]))]]
    /\ UNCHANGED <<path, tables, ids, deleting, removed, kills>>

Next1(p) == Head(call[p].events)
Rest(p) == LET es == Tail(call[p].events) IN
           IF es = <<>> THEN NoCall ELSE [NoCall EXCEPT !.pc = "read", !.events = es]

\* Mutant: the sequence numbers are not compared.
ReplayReadUnchecked(p) ==
    /\ call[p].pc = "read"
    /\ LET latest == seq[path[p]] IN
       call' = [call EXCEPT ![p] =
                  IF Next1(p).seq <= latest THEN Rest(p) ELSE [@ EXCEPT !.pc = "resolve"]]
    /\ UNCHANGED <<path, tables, ids, deleting, removed, kills>>

\* Mutant: an event that is there already is an error.
ReplayReadStrict(p) ==
    /\ call[p].pc = "read"
    /\ LET latest == seq[path[p]] IN
       call' = [call EXCEPT ![p] =
                  IF Next1(p).seq = latest + 1 THEN [@ EXCEPT !.pc = "resolve"] ELSE NoCall]
    /\ UNCHANGED <<path, tables, ids, deleting, removed, kills>>

\* replay: what does the sequence row of the current file say?  An event that it covers is skipped;
\* one that does not follow it ends the whole call with an error.
ReplayRead(p) ==
    /\ call[p].pc = "read"
    /\ LET latest == seq[path[p]] IN
       call' = [call EXCEPT ![p] =
                  IF Next1(p).seq <= latest THEN Rest(p)
                  ELSE IF Next1(p).seq = latest + 1 THEN [@ EXCEPT !.pc = "resolve"] ELSE NoCall]
    /\ UNCHANGED <<path, tables, ids, deleting, removed, kills>>

\* Which file has the session?  Another process may make it in another file before
\* the transaction begins.
ReplayResolve(p) ==
    /\ call[p].pc = "resolve"
    /\ call' = [call EXCEPT ![p] = [pc |-> "write", home |-> SessionPath(p), events |-> @.events]]
    /\ UNCHANGED <<path, tables, ids, deleting, removed, kills>>

\* The event is written to that file.  If that fails, so does the call.
ReplayWrite(p) ==
    /\ call[p].pc = "write"
    /\ LET d == call[p].home IN
       \/ /\ Process(d, Next1(p))
          /\ call' = [call EXCEPT ![p] = Rest(p)]
       \/ /\ ProjectorThrows(d, Next1(p)) \/ Next1(p).id \in Logged(d)
          /\ call' = [call EXCEPT ![p] = NoCall]
          /\ UNCHANGED tables
    /\ UNCHANGED <<path, ids, deleting, removed, kills>>

Kill(p) ==
    /\ call[p] # NoCall
    /\ kills < MaxKills /\ kills' = kills + 1
    /\ call' = [call EXCEPT ![p] = NoCall]
    /\ UNCHANGED <<path, tables, ids, deleting, removed>>

Replay(p) == ReplayRead(p) \/ ReplayResolve(p) \/ ReplayWrite(p)

SyncNext ==
    \/ \E kind \in Kinds : Run(kind)
    \/ RemoveLog
    \/ \E p \in Servers : Replay(p) \/ Kill(p) \/ \E n \in 0..MaxEvents : Post(p, n)

SyncSpec == SyncInit /\ [][SyncNext]_syncVars

\* A call goes on to its end, and clients keep posting the complete history.
FairSyncSpec == SyncSpec /\ \A p \in Servers : WF_syncVars(Replay(p)) /\ SF_syncVars(Post(p, 0))

----------------------------------------------------------------------------
(* Properties                                                              *)

Ids(s) == [i \in DOMAIN s |-> s[i].id]

\* The processes of the machine work with one file, and the writer's log has not begun again.
Undisturbed == ~removed /\ \A p, q \in Servers : path[p] = path[q]

\* The types, and: every log is numbered from zero without gaps or repetitions, and its sequence
\* row is its last number, however many processes replay at once.  (Late messages of a deleted
\* session begin a new log, which a follower may mix with the old one.)
LogsNumbered ==
    /\ path \in [Servers -> Files] /\ row \in [Dbs -> BOOLEAN]
    /\ \A p \in Servers : call[p] = NoCall \/ call[p].events # <<>>
    /\ \A d \in Dbs :
        (d \in Files => Undisturbed) => /\ seq[d] = Len(log[d]) - 1
                                        /\ \A i \in DOMAIN log[d] : log[d][i].seq = i - 1

\* A follower has a prefix of the writer's events, and they took effect in their order, whatever is
\* posted twice, late or by several clients.  Even where the processes work with different files, no
\* event takes effect twice in one of them (sync/index.ts:272, "idempotent").
FollowsWriter ==
    \A f \in Files : /\ IsInjective(applied[f])
                     /\ Undisturbed => /\ IsPrefix(Ids(log[f]), Ids(log[Writer]))
                                       /\ IsPrefix(applied[f], applied[Writer])

\* The following machine catches up with the writer.
CatchesUp == <>[](Undisturbed => \A p \in Servers : Ids(log[path[p]]) = Ids(log[Writer]))

----------------------------------------------------------------------------
(* What makes them hold, step by step                                      *)

Events == [id : Nat, seq : Int, kind : Kinds]
Replays == [pc : {"idle", "read", "resolve", "write"}, events : Seq(Events), home : Dbs]

SyncTypeOK ==
    /\ path \in [Servers -> Files] /\ row \in [Dbs -> BOOLEAN]
    /\ log \in [Dbs -> Seq(Events)] /\ seq \in [Dbs -> Int] /\ applied \in [Dbs -> Seq(Nat)]
    /\ ids \in Nat /\ deleting \in BOOLEAN /\ removed \in BOOLEAN
    /\ call \in [Servers -> Replays]

\* The writer numbers its log; until that is removed, ids are given out in the same order, and the
\* creation comes first and only then.
WriterInv ==
    /\ seq[Writer] = Len(log[Writer]) - 1
    /\ \A i \in DOMAIN log[Writer] : log[Writer][i].seq = i - 1
    /\ ~removed => /\ ids = Len(log[Writer])
                   /\ \A i \in DOMAIN log[Writer] : /\ log[Writer][i].id = i
                                                    /\ log[Writer][i].kind = "created" <=> i = 1

\* A follower's log is a copy of the beginning of the writer's, and only the file that the processes
\* work with has the session.
Copies ==
    Undisturbed => \A f \in Files :
        /\ Len(log[f]) <= Len(log[Writer]) /\ seq[f] = Len(log[f]) - 1
        /\ \A i \in DOMAIN log[f] : log[f][i] = log[Writer][i]
        /\ row[f] => \E p \in Servers : path[p] = f

\* Event e is in the writer's log, at the place that its number says.
FromWriter(e) == e.seq + 1 \in DOMAIN log[Writer] /\ e = log[Writer][e.seq + 1]

\* A call c of process p has events as long as it lasts, which come from the writer, and writes to a
\* file of the machine.  An event that passed the comparison of numbers is the next one or has been
\* written meanwhile.
CallInv(p, c) ==
    /\ c = NoCall \/ (c.pc # "idle" /\ c.events # <<>>)
    /\ c.pc = "write" => c.home \in Files
    /\ ~removed => \A k \in DOMAIN c.events : FromWriter(c.events[k])
    /\ Undisturbed => /\ c.pc \in {"resolve", "write"} => Head(c.events).seq <= Len(log[path[p]])
                      /\ c.pc = "write" => c.home = path[p]

CallsInv == \A p \in Servers : CallInv(p, call[p])

\* What the projectors have made of the log of database d: every event has taken effect up to the
\* deletion, which is the last that does.
Projected(d) ==
    LET n == Len(applied[d]) IN
    /\ n <= Len(log[d]) /\ \A i \in 1..n : applied[d][i] = log[d][i].id
    /\ \A i \in DOMAIN log[d] : log[d][i].kind = "deleted" => ~row[d] /\ i >= n
    /\ row[d] => n = Len(log[d])
    /\ ~row[d] /\ log[d] # <<>> => n # 0 /\ log[d][n].kind = "deleted"

ProjectedInv ==
    /\ ~removed => Projected(Writer)
    /\ Undisturbed => \A f \in Files : Projected(f)

\* Whatever disturbs them, followers log what takes effect, and nothing takes effect twice.
LoggedInv ==
    \A f \in Files : /\ IsInjective(applied[f])
                     /\ \A i \in DOMAIN applied[f] : applied[f][i] \in Logged(f)

SyncInv ==
    SyncTypeOK /\ WriterInv /\ Copies /\ CallsInv /\ ProjectedInv /\ LoggedInv
=============================================================================
