SPECIFICATION FairSpec
CONSTANTS
    Requests = {r1, r2, r3}
    Replies = {c1, c2}
    p = p
    q = q
    s = s
    t = t
    Sessions = {s, t}
    Patterns = {p, q}
    r1 = r1
    r2 = r2
    r3 = r3
    Plans <- MCPlans
    Stored <- MCStored
INVARIANTS GrantJustified AskerReachable CascadeComplete RejectsStayInSession
PROPERTY DisposeFreesAll
CHECK_DEADLOCK FALSE
