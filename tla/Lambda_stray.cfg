\* One instance in one of two regions, and an API that fails.
CONSTANTS
    Slots = 1
    Regions = 2
    Tries = 2
    Lossy = TRUE
SPECIFICATION Spec
INVARIANTS HandleCoversAll
CHECK_DEADLOCK FALSE
