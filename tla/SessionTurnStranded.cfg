SPECIFICATION PersistSpec
CONSTANTS
    Inputs = {i1, i2, i3}
    HostAware = FALSE
    MaxFailures = 1
    MaxLocalTurns = 0
INVARIANT RetryReachesSignals
