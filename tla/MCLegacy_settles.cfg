\* Two targets, and every race of the timer.
CONSTANTS
    Target = {a, b}
    Quality <- Qualities
    NoIP = NoIP
    Window = 1
    Debounce = 2
    Callbacks = 2
SPECIFICATION FairSpec
PROPERTIES Settles
