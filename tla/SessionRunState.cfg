SPECIFICATION FairRSSpec
CONSTANTS
    Runners = {r1, r2}
    Runs = {a, b}
    Shells = {s}
    Cancels = {x}
INVARIANTS
    NoStrayWork
    WaitersHaveOwner
    AbortIsNoFailure
    HiddenByLateCancel
    QuietIsIdle
PROPERTIES
    CancelReturns
    WaitersAnswered
CHECK_DEADLOCK FALSE
