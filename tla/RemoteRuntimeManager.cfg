SPECIFICATION FairSpec
CONSTANTS
    MaxStarts = 3
    Stops = {x}
    Keys = {k1, k2}
    Clients = {m}
INVARIANTS
    OneActive
    StoppedIsQuiet
    EndedIsClean
PROPERTIES
    CallsReturn
CHECK_DEADLOCK FALSE
