\* Two callbacks write the zone in the other order.
CONSTANTS
    Target = {a, b}
    Quality <- Qualities
    NoIP = NoIP
    Window = 1
    Debounce = 2
    Callbacks = 2
SPECIFICATION FairSpec
PROPERTIES SettlesAnyway
