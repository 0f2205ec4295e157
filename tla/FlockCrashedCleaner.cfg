SPECIFICATION Spec
CONSTANTS
    Procs = {p1, p2, p3}
    FaultPlans <- CrashedCleaner
INVARIANT OneCleaner
