SPECIFICATION FairSpec
CONSTANTS
    Procs = {p1, p2, p3}
    FaultPlans <- Plans
INVARIANT MutualExclusion
PROPERTY ReleaseRemovesOwnLock
PROPERTY CleanupSparesTheLiving
PROPERTY Recovers
