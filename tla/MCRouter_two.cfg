\* Two requests share two workers and their breakers.
CONSTANTS
    w1 = w1  w2 = w2
    Worker = {w1, w2}
    r1 = r1  r2 = r2
    Request = {r1, r2}
    NoWorker = NoWorker
    Fresh = 1
    Cooldown = 1
    TopN = 2
    MaxAttempts = 2
    Deadline = 1
    SyncEvery = 1
    Uptime = 5
    Degrade = TRUE
SPECIFICATION Spec
SYMMETRY Symmetry
INVARIANTS WellFramed StatsAddUp
PROPERTIES LatchIsOneWay PlannedAreLive TripsTheCulprit
