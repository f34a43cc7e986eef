\* A head and its sibling, one of which is already gone, and an API that does not
\* fail.
CONSTANTS
    Slots = 2
    Regions = 1
    Tries = 2
    Lossy = FALSE
SPECIFICATION Spec
PROPERTIES TakenIsGone
CHECK_DEADLOCK FALSE
