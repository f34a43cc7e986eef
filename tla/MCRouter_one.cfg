\* One request, two workers: every way an attempt can end, up to the last.
CONSTANTS
    w1 = w1  w2 = w2
    Worker = {w1, w2}
    r1 = r1
    Request = {r1}
    NoWorker = NoWorker
    Fresh = 2
    Cooldown = 1
    TopN = 2
    MaxAttempts = 3
    Deadline = 2
    SyncEvery = 1
    Uptime = 5
    Degrade = FALSE
SPECIFICATION FairSpec
INVARIANTS TypeOK OneVoice WaitIsBounded
PROPERTIES FirstTokenContract PreTokenEnds EveryRequestEnds
