\* The worker answers its head late, and its first token later.
CONSTANTS
    w1 = w1  w2 = w2
    Worker = {w1, w2}
    r1 = r1
    Request = {r1}
    NoWorker = NoWorker
    Fresh = 1
    Cooldown = 1
    TopN = 2
    MaxAttempts = 2
    Deadline = 1
    SyncEvery = 1
    Uptime = 5
    Degrade = FALSE
SPECIFICATION Spec
INVARIANTS WaitIsOneDeadline
