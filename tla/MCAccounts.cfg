\* A Lambda head and its sibling in one of two regions; a RunPod head and its
\* sibling, or two pods; the dead man among four instances.  The APIs fail.
CONSTANTS
    Slots = 2
    Regions = 2
    Tries = 2
    Lossy = TRUE
    N = 2
    Roles = {TRUE, FALSE}
    Faults = {"unusable", "raise"}
    NoPod = NoPod
    LambdaInst = {l1}
    RunPodInst = {p1, p2}
    GcpInst = {g1}
    Attempts = 2
    Backstops = {TRUE, FALSE}
    Flaky = TRUE
    Creating = TRUE
SPECIFICATION MCSpec
INVARIANTS TypesOK UpServes ReturnedMeansGone DoneMeansZero
PROPERTIES BothKeepThePromise BothSweptClean RequestsAreBounded
CHECK_DEADLOCK FALSE
