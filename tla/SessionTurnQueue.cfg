SPECIFICATION FairSpec
CONSTANTS
    Inputs = {i1, i2, i3, i4}
    CanSteer = TRUE
INVARIANT TurnsSerial
INVARIANT NoStrandedItem
PROPERTY ImplementsFifo
