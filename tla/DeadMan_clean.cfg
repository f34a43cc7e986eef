\* Requests fail.
CONSTANTS
    Lambda = {l1, l2, l3}
    RunPod = {p1, p2}
    Gcp = {g1}
    Attempts = 3
    Backstops = {TRUE}
    Flaky = TRUE
    Creating = TRUE
SPECIFICATION Spec
PROPERTIES CleanIsClean
CHECK_DEADLOCK FALSE
