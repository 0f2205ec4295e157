SPECIFICATION QFairSpec
CONSTANTS
    MaxCalls = 4
    MaxGens = 2
    Questions = {q}
INVARIANTS
    BootsSerial
    AskerReachable
PROPERTIES
    DisposeSparesSuccessor
    
CHECK_DEADLOCK FALSE
