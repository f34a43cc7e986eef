\* A healthy API, and no orchestrator.
CONSTANTS
    Lambda = {l1, l2, l3}
    RunPod = {p1, p2}
    Gcp = {g1}
    Attempts = 3
    Backstops = {FALSE}
    Flaky = FALSE
    Creating = FALSE
SPECIFICATION Spec
INVARIANTS DoneMeansZero
CHECK_DEADLOCK FALSE
