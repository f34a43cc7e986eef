\* An emitter seeded from the clock that crashes, restarts, is upgraded and
\* falls silent, on a network that loses, delays, reorders and duplicates.
CONSTANTS
    n1 = n1
    Node = {n1}
    WallSeeded = {n1}
    Fresh = 1
    Interval = 1
    Versions = {1, 2}
    Horizon = 3
    MaxFrames = 4
SPECIFICATION FairSpec
INVARIANTS TypeOK DropsAddUp SeedCatchesUp
PROPERTIES SilenceIsDeath
