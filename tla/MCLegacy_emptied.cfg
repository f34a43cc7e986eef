\* The timer has fired when it is stopped.
CONSTANTS
    Target = {a, b}
    Quality <- Qualities
    NoIP = NoIP
    Window = 1
    Debounce = 2
    Callbacks = 2
SPECIFICATION FairSpec
PROPERTIES NeverEmptied
