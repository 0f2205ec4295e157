SPECIFICATION FairSpec
CONSTANTS
    p = p
    q = q
    s = s
    u = u
    v = v
    w = w
    r = r
    Procs = {p, q, s}
    Updates = {u, v, w}
    Reads = {r}
    None = None
    Placements <- MCPlacements
    MaxCrashes = 1
INVARIANTS
    Serialized
    NoLostUpdate
PROPERTIES
    CallsEnd
CHECK_DEADLOCK FALSE
