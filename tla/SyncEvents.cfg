SPECIFICATION FairSyncSpec
CONSTANTS
    p = p
    q = q
    prod = prod
    dev = dev
    Servers = {p, q}
    Files = {prod, dev}
    Layouts <- OneOrTwoFiles
    MaxEvents = 4
    MaxKills = 1
INVARIANTS LogsNumbered FollowsWriter
PROPERTIES CatchesUp
CHECK_DEADLOCK FALSE
