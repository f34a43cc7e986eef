\* Two pods, and an API that fails.
CONSTANTS
    N = 2
    Roles = {FALSE}
    Tries = 2
    Faults = {"unusable"}
    NoPod = NoPod
SPECIFICATION Spec
INVARIANTS ReapIsHonest
CHECK_DEADLOCK FALSE
