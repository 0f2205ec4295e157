-------------------------- MODULE PermissionProofs --------------------------
(***************************************************************************)
(* Proofs about Permission, for every set of requests, replies, sessions   *)
(* and rules.                                                              *)
(***************************************************************************)
EXTENDS Permission, TLAPS

\* What a request is made of.
LEMMA InfoFacts ==
    ASSUME Types, NEW r \in Requests
    PROVE  /\ info[r].patterns \subseteq Patterns /\ info[r].always \subseteq Patterns
           /\ info[r].session \in Sessions
           /\ \A p \in Patterns : info[r].ruleset[p] \in Actions
BY DEF Types, Info

\* Requests, once made, are as they were, and approvals only add "allow": what the rules allow they
\* go on allowing.
LEMMA AllowStays ==
    ASSUME Types, NEW r \in Requests, RulesAllow(r),
           info' = info,
           \A p \in Patterns : approved'[p] = approved[p] \/ approved'[p] = "allow"
    PROVE  RulesAllow(r)'
<1> SUFFICES ASSUME NEW p \in info[r].patterns
             PROVE  Evaluate(r, p)' = "allow"
  BY DEF RulesAllow
<1>1. p \in Patterns
  BY InfoFacts
<1>2. Evaluate(r, p) = "allow"
  BY DEF RulesAllow
<1> QED
  BY <1>1, <1>2 DEF Evaluate, None

\* Nobody has asked at the start.
LEMMA InitPermission == Init => PermissionInv
<1> SUFFICES ASSUME Init PROVE PermissionInv
  OBVIOUS
<1>1. Types
  BY PermissionAssumption DEF Init, Types, Asking, Outcomes
<1>2. GrantJustified /\ AskerReachable /\ CascadeComplete /\ RejectsStayInSession
  BY DEF Init, GrantJustified, AskerReachable, CascadeComplete, RejectsStayInSession, Asking
<1>3. Bookkeeping /\ LoopCovers
  BY DEF Init, Bookkeeping, LoopCovers
<1> QED
  BY <1>1, <1>2, <1>3 DEF PermissionInv

\* Asking, waiting and leaving preserve the invariant.
LEMMA AskPreserves ==
    ASSUME PermissionInv, NEW r \in Requests, Ask(r) \/ Asked(r) \/ Answered(r) \/ Abort(r)
    PROVE  PermissionInv'
<1> USE DEF PermissionInv
<1>0. /\ UNCHANGED <<info, approved, done, replies, disposal>>
      /\ pc' \in [Requests -> {"new"} \cup Asking \cup Outcomes]
      /\ \A x \in Requests : x # r => pc'[x] = pc[x] /\ (x \in pending' <=> x \in pending)
      /\ pending' \subseteq Requests
  BY DEF Ask, Asked, Answered, Abort, Types, Asking, Outcomes
<1> USE DEF replies
<1>1. Types'
  BY <1>0, Zenon DEF Types
<1>2. GrantJustified'
  <2> SUFFICES ASSUME NEW x \in Requests, pc'[x] = "granted" \/ done'[x] = "granted"
               PROVE  SaidYes(x)' \/ RulesAllow(x)'
    BY DEF GrantJustified
  <2>1. SaidYes(x)' = SaidYes(x) /\ RulesAllow(x)' = RulesAllow(x)
    BY <1>0 DEF SaidYes, RulesAllow, Evaluate
  <2>2. CASE x # r \/ done[x] = "granted"
    BY <1>0, <2>1, <2>2 DEF GrantJustified
  <2>3. CASE x = r /\ done[x] # "granted"
    <3>1. Ask(r) /\ RulesAllow(r)
      BY <1>0, <2>3 DEF Ask, Asked, Answered, Abort, RulesAllow, Types
    <3> QED
      BY <3>1, <2>1, <2>3
  <2> QED
    BY <2>2, <2>3
<1>3. AskerReachable'
  BY <1>0 DEF AskerReachable, TakenBy, Ask, Asked, Answered, Abort, Types, Asking, Bookkeeping
<1>4. CascadeComplete' /\ LoopCovers'
  <2>1. r \in pending' => r \in pending \/ pc[r] = "new"
    BY DEF Ask, Asked, Answered, Abort
  <2> QED
    BY <1>0, <2>1 DEF CascadeComplete, LoopCovers, Types, Bookkeeping
<1>5. RejectsStayInSession'
  BY <1>0 DEF RejectsStayInSession
<1>6. Bookkeeping'
  <2>1. \A x \in Requests : RulesAllow(x)' = RulesAllow(x)
    BY <1>0 DEF RulesAllow, Evaluate
  <2>2. /\ pc'[r] # "new"
        /\ r \in pending' => pc'[r] \in Asking \cup {"gone"} /\ (r \in pending \/ pc[r] = "new")
        /\ disposal = "done" => pending' \subseteq pending
    BY DEF Ask, Asked, Answered, Abort, Types, Asking, Bookkeeping
  <2> QED
    BY <1>0, <2>1, <2>2 DEF Bookkeeping, Types, Concerns
<1> QED
  BY <1>1, <1>2, <1>3, <1>4, <1>5, <1>6

\* A reply that comes in takes its request from the map.
LEMMA ReplyPreserves ==
    ASSUME PermissionInv, NEW c \in Replies, NEW r \in Requests, NEW k \in Kinds, Reply(c, r, k)
    PROVE  PermissionInv'
<1> USE DEF PermissionInv
<1>0. UNCHANGED <<info, approved, done, pc, visited, item, disposal>> /\ disposal = "no"
  BY DEF Reply
<1>1. CASE r \notin pending
  <2>1. UNCHANGED <<pending, to, kind, due>> /\ rpc' = [rpc EXCEPT ![c] = "returned"] /\ rpc[c] = "new"
    BY <1>1 DEF Reply
  <2>2. due[c] = {}
    BY <2>1 DEF Bookkeeping
  <2>3. Types' /\ GrantJustified' /\ RejectsStayInSession'
    BY <1>0, <2>1 DEF Types, GrantJustified, SaidYes, RulesAllow, Evaluate, RejectsStayInSession
  <2>4. AskerReachable' /\ CascadeComplete' /\ LoopCovers'
    BY <1>0, <2>1, <2>2 DEF AskerReachable, TakenBy, CascadeComplete, LoopCovers, Types
  <2>5. Bookkeeping'
    BY <1>0, <2>1 DEF Bookkeeping, Concerns, RulesAllow, Evaluate, Types
  <2> QED
    BY <2>3, <2>4, <2>5
<1>2. CASE r \in pending
  <2>1. /\ pending' = pending \ {r}
        /\ to' = [to EXCEPT ![c] = r] /\ kind' = [kind EXCEPT ![c] = k]
        /\ rpc' = [rpc EXCEPT ![c] = "settle"]
        /\ due' = [due EXCEPT ![c] = {x \in pending \ {r} : Concerns(r, k, x)}]
        /\ rpc[c] = "new" /\ pc[r] # "new"
    BY <1>2 DEF Reply
  <2>2. Types'
    BY <1>0, <2>1 DEF Types
  <2>3. to[c] = None /\ kind[c] = None
    BY <2>1 DEF Bookkeeping
  <2>4. GrantJustified'
    BY <1>0, <2>1, <2>3, PermissionAssumption
    DEF GrantJustified, SaidYes, RulesAllow, Evaluate, Types
  <2>5. AskerReachable'
    BY <1>0, <2>1 DEF AskerReachable, TakenBy, Types
  <2>6. CascadeComplete' /\ LoopCovers'
    BY <1>0, <2>1 DEF CascadeComplete, LoopCovers, Types
  <2>7. RejectsStayInSession'
    BY <1>0, <2>1, <2>3, PermissionAssumption DEF RejectsStayInSession, Types
  <2>8. Bookkeeping'
    BY <1>0, <2>1, SMTT(30) DEF Bookkeeping, RulesAllow, Evaluate, Types, Asking, Concerns
  <2> QED
    BY <2>2, <2>4, <2>5, <2>6, <2>7, <2>8
<1> QED
  BY <1>1, <1>2

\* The request is settled and, with "always", its patterns approved.
LEMMA SettleReplyPreserves ==
    ASSUME PermissionInv, NEW c \in Replies, SettleReply(c)
    PROVE  PermissionInv'
<1> USE DEF PermissionInv
<1> DEFINE t == to[c]
<1>0. /\ UNCHANGED <<info, pending, pc, to, kind, visited, item, due, disposal>>
      /\ rpc[c] = "settle" /\ t \in Requests /\ kind[c] \in Kinds
      /\ t \notin pending /\ pc[t] # "new"
      /\ rpc' = [rpc EXCEPT ![c] = IF kind[c] = "once" THEN "returned" ELSE "loop"]
  BY DEF SettleReply, Bookkeeping
<1>1. /\ done' \in [Requests -> {"open", "granted", "rejected"}]
      /\ \A x \in Requests : x # t => done'[x] = done[x]
      /\ done[t] # "open" => done'[t] = done[t]
      /\ done[t] = "open" => done'[t] = IF kind[c] = "reject" THEN "rejected" ELSE "granted"
  BY <1>0 DEF SettleReply, Settle, Types
<1>2. /\ approved' \in [Patterns -> Actions \cup {None}]
      /\ \A p \in Patterns : approved'[p] = approved[p] \/ approved'[p] = "allow"
      /\ kind[c] = "always" => \A p \in info[t].always : approved'[p] = "allow"
  BY <1>0, InfoFacts DEF SettleReply, Types, Actions
<1>3. Types'
  BY <1>0, <1>1, <1>2 DEF Types
<1>4. \A x \in Requests : RulesAllow(x) => RulesAllow(x)'
  BY <1>0, <1>2, AllowStays
<1>5. GrantJustified'
  <2>1. \A x \in Requests : SaidYes(x)' = SaidYes(x)
    BY <1>0 DEF SaidYes
  <2>2. done'[t] = "granted" /\ done[t] # "granted" => SaidYes(t)
    BY <1>0, <1>1 DEF SaidYes, Kinds
  <2> QED
    BY <1>0, <1>1, <1>4, <2>1, <2>2 DEF GrantJustified
<1>6. AskerReachable'
  BY <1>0, <1>1 DEF AskerReachable, TakenBy, Types
<1>7. CascadeComplete' /\ LoopCovers'
  BY <1>0 DEF CascadeComplete, LoopCovers, Types, Bookkeeping, Concerns
<1>8. RejectsStayInSession'
  BY <1>0, <1>1 DEF RejectsStayInSession, Types
<1>9. Bookkeeping'
  <2>1. \A x \in Requests : pc[x] = "new" => done'[x] = "open"
    BY <1>0, <1>1 DEF Bookkeeping
  <2>2. disposal = "no" => \A x \in pending : done'[x] = "open"
    BY <1>0, <1>1 DEF Bookkeeping, Types
  <2>3. ASSUME NEW d \in Replies, NEW p \in info[to[d]].always, to[d] \in Requests, approved[p] = "allow"
        PROVE  approved'[p] = "allow"
    BY <1>2, <2>3, InfoFacts
  <2> QED
    BY <1>0, <1>2, <1>4, <2>1, <2>2, <2>3 DEF Bookkeeping, Concerns, Types
<1> QED
  BY <1>3, <1>5, <1>6, <1>7, <1>8, <1>9

\* The loop of a reply looks at an entry, and takes it if the reply is for it.
LEMMA VisitPreserves ==
    ASSUME PermissionInv, NEW c \in Replies, NEW x \in Requests, Visit(c, x)
    PROVE  PermissionInv'
<1> USE DEF PermissionInv
<1>0. /\ UNCHANGED <<info, approved, done, pc, to, kind, due, disposal>>
      /\ rpc[c] = "loop" /\ x \in pending
      /\ to[c] \in Requests /\ kind[c] \in {"always", "reject"}
      /\ visited' = [visited EXCEPT ![c] = @ \cup {x}]
      /\ pending' \subseteq pending
  BY DEF Visit, Bookkeeping, Kinds
<1>a. \A y \in Requests : RulesAllow(y)' = RulesAllow(y) /\ SaidYes(y)' = SaidYes(y)
  BY <1>0 DEF RulesAllow, Evaluate, SaidYes
<1>1. CASE Settles(c, x)
  <2>1. /\ pending' = pending \ {x} /\ item' = [item EXCEPT ![c] = x]
        /\ rpc' = [rpc EXCEPT ![c] = "item"]
    BY <1>1 DEF Visit
  <2>2. kind[c] = "reject" \/ RulesAllow(x)
    BY <1>1, InfoFacts DEF Settles, RulesAllow, Evaluate, None
  <2>3. Types' /\ GrantJustified' /\ RejectsStayInSession'
    BY <1>0, <1>a, <2>1 DEF Types, GrantJustified, RejectsStayInSession
  <2>4. AskerReachable'
    BY <1>0, <2>1 DEF AskerReachable, TakenBy, Types
  <2>5. CascadeComplete' /\ LoopCovers'
    BY <1>0, <2>1 DEF CascadeComplete, LoopCovers, Types
  <2>6. Bookkeeping'
    BY <1>0, <1>1, <1>a, <2>1, <2>2 DEF Bookkeeping, Settles, Concerns, Types, Asking
  <2> QED
    BY <2>3, <2>4, <2>5, <2>6
<1>2. CASE ~Settles(c, x)
  <2>1. UNCHANGED <<pending, item, rpc>>
    BY <1>2 DEF Visit
  <2>2. x \notin due[c]
    BY <1>0, <1>2 DEF Settles, Bookkeeping, Concerns
  <2>3. Types' /\ GrantJustified' /\ RejectsStayInSession' /\ AskerReachable' /\ CascadeComplete'
    BY <1>0, <1>a, <2>1
    DEF Types, GrantJustified, RejectsStayInSession, AskerReachable, TakenBy, CascadeComplete
  <2>4. LoopCovers'
    BY <1>0, <2>1, <2>2 DEF LoopCovers, Types
  <2>5. Bookkeeping'
    BY <1>0, <1>a, <2>1 DEF Bookkeeping, Concerns, Types
  <2> QED
    BY <2>3, <2>4, <2>5
<1> QED
  BY <1>1, <1>2

\* The entry that the loop has taken is settled.
LEMMA SettleItemPreserves ==
    ASSUME PermissionInv, NEW c \in Replies, SettleItem(c)
    PROVE  PermissionInv'
<1> USE DEF PermissionInv
<1> DEFINE x == item[c]
<1>0. /\ UNCHANGED <<info, approved, pending, pc, to, kind, visited, due, disposal>>
      /\ rpc[c] = "item" /\ x \in Requests \ pending /\ pc[x] # "new"
      /\ to[c] \in Requests /\ kind[c] \in {"always", "reject"}
      /\ info[x].session = info[to[c]].session /\ (kind[c] = "reject" \/ RulesAllow(x))
      /\ rpc' = [rpc EXCEPT ![c] = "loop"] /\ item' = [item EXCEPT ![c] = None]
  BY DEF SettleItem, Bookkeeping, Kinds
<1>1. /\ done' \in [Requests -> {"open", "granted", "rejected"}]
      /\ \A y \in Requests : y # x => done'[y] = done[y]
      /\ done[x] # "open" => done'[x] = done[x]
      /\ done[x] = "open" => done'[x] = IF kind[c] = "reject" THEN "rejected" ELSE "granted"
  BY <1>0 DEF SettleItem, Settle, Types
<1>a. \A y \in Requests : RulesAllow(y)' = RulesAllow(y) /\ SaidYes(y)' = SaidYes(y)
  BY <1>0 DEF RulesAllow, Evaluate, SaidYes
<1>2. Types'
  BY <1>0, <1>1 DEF Types
<1>3. GrantJustified'
  BY <1>0, <1>1, <1>a DEF GrantJustified
<1>4. AskerReachable'
  BY <1>0, <1>1 DEF AskerReachable, TakenBy, Types
<1>5. CascadeComplete' /\ LoopCovers'
  BY <1>0 DEF CascadeComplete, LoopCovers, Types
<1>6. RejectsStayInSession'
  BY <1>0, <1>1 DEF RejectsStayInSession
<1>7. Bookkeeping'
  BY <1>0, <1>1, <1>a DEF Bookkeeping, Concerns, Types
<1> QED
  BY <1>2, <1>3, <1>4, <1>5, <1>6, <1>7

\* The loop ends when it has been at every entry.
LEMMA EndLoopPreserves ==
    ASSUME PermissionInv, NEW c \in Replies, EndLoop(c)
    PROVE  PermissionInv'
<1> USE DEF PermissionInv
<1>0. /\ UNCHANGED <<info, approved, pending, done, pc, to, kind, item, due, disposal>>
      /\ rpc[c] = "loop" /\ pending \subseteq visited[c]
      /\ rpc' = [rpc EXCEPT ![c] = "returned"] /\ visited' = [visited EXCEPT ![c] = {}]
  BY DEF EndLoop
<1>a. \A y \in Requests : RulesAllow(y)' = RulesAllow(y) /\ SaidYes(y)' = SaidYes(y)
  BY <1>0 DEF RulesAllow, Evaluate, SaidYes
<1>1. Types' /\ GrantJustified' /\ RejectsStayInSession' /\ AskerReachable'
  BY <1>0, <1>a DEF Types, GrantJustified, RejectsStayInSession, AskerReachable, TakenBy
<1>2. CascadeComplete' /\ LoopCovers'
  <2>1. due[c] \cap pending = {}
    BY <1>0 DEF LoopCovers
  <2> QED
    BY <1>0, <2>1 DEF CascadeComplete, LoopCovers, Types
<1>3. Bookkeeping'
  BY <1>0, <1>a DEF Bookkeeping, Concerns, Types
<1> QED
  BY <1>1, <1>2, <1>3

\* The finalizer answers whoever is left, and clears the map.
LEMMA DisposePreserves ==
    ASSUME PermissionInv, Dispose \/ Clear \/ \E x \in Requests : FailPending(x)
    PROVE  PermissionInv'
<1> USE DEF PermissionInv, replies
<1>0. /\ UNCHANGED <<info, approved, pc, rpc, to, kind, visited, item, due>>
      /\ disposal' \in {"failing", "done"} /\ (disposal' = "done" => pending' = {})
      /\ pending' \subseteq pending /\ (\A x \in pending \ pending' : done[x] # "open")
      /\ done' \in [Requests -> {"open", "granted", "rejected"}]
      /\ \A x \in Requests : done'[x] = done[x] \/ (done'[x] = "rejected" /\ pc[x] # "new")
      /\ \A x \in Requests : done'[x] = "open" => done[x] = "open"
  BY DEF Dispose, Clear, FailPending, Settle, Bookkeeping, Types, Asking
<1>a. \A y \in Requests : RulesAllow(y)' = RulesAllow(y) /\ SaidYes(y)' = SaidYes(y)
  BY <1>0 DEF RulesAllow, Evaluate, SaidYes
<1>1. Types'
  BY <1>0 DEF Types
<1>2. GrantJustified' /\ RejectsStayInSession'
  BY <1>0, <1>a DEF GrantJustified, RejectsStayInSession
<1>3. AskerReachable'
  BY <1>0 DEF AskerReachable, TakenBy, Types
<1>4. CascadeComplete' /\ LoopCovers'
  BY <1>0 DEF CascadeComplete, LoopCovers
<1>5. Bookkeeping'
  BY <1>0, <1>a DEF Bookkeeping, Concerns, Types
<1> QED
  BY <1>1, <1>2, <1>3, <1>4, <1>5

\* Whatever tools, users and the finalizer of the instance do, the invariant of the permission
\* service holds (Permission.ask, Permission.reply).
THEOREM PermissionCorrect == Spec => []PermissionInv
<1>1. PermissionInv /\ [Next]_vars => PermissionInv'
  <2> SUFFICES ASSUME PermissionInv, [Next]_vars PROVE PermissionInv'
    OBVIOUS
  <2>1. CASE UNCHANGED vars
    BY <2>1
    DEF vars, PermissionInv, Types, GrantJustified, SaidYes, RulesAllow, Evaluate, AskerReachable, TakenBy,
        CascadeComplete, RejectsStayInSession, Bookkeeping, Concerns, LoopCovers
  <2>2. CASE Next
    BY <2>2, AskPreserves, ReplyPreserves, SettleReplyPreserves, VisitPreserves, SettleItemPreserves,
       EndLoopPreserves, DisposePreserves
    DEF Next, AskSteps, ReplySteps, DisposeSteps
  <2> QED
    BY <2>1, <2>2
<1> QED
  BY <1>1, InitPermission, PTL DEF Spec

\* Nothing is granted that neither the user nor the rules allow.
THEOREM GrantsJustified == Spec => []GrantJustified
BY PermissionCorrect, PTL DEF PermissionInv

\* No tool call waits for an answer that nobody can give.
THEOREM AskersReachable == Spec => []AskerReachable
BY PermissionCorrect, PTL DEF PermissionInv

\* A reply that returns has settled all it was for.
THEOREM CascadesComplete == Spec => []CascadeComplete
BY PermissionCorrect, PTL DEF PermissionInv

\* A rejection stays in its session.
THEOREM RejectsContained == Spec => []RejectsStayInSession
BY PermissionCorrect, PTL DEF PermissionInv

=============================================================================
