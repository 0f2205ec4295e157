SPECIFICATION FairPersistSpec
CONSTANTS
    Inputs = {i1, i2, i3}
    HostAware = TRUE
    MaxFailures = 1
    MaxLocalTurns = 1
INVARIANT SignalsWatched
INVARIANT FailureCostsOneSignal
PROPERTY AcceptedAnswered
