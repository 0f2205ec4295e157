SPECIFICATION FairSpec
CONSTANTS
    p = p q = q r = r s = s
    Prompts = {p, q, r}
    Shells = {s}
    Environments <- CalmAndBursts
INVARIANTS OneLoop NoStrandedQueue OneDrain
PROPERTIES EveryPromptAnswered
CHECK_DEADLOCK FALSE
