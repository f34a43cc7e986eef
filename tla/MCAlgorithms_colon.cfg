\* A colon in a scalar.
CONSTANTS
    w1 = w1  w2 = w2  w3 = w3  w4 = w4
    Worker = {w1, w2, w3, w4}
    Fresh = 1
    Cooldown = 1
    TopN = 2
    MaxAttempts = 3
    Metrics <- MCMetrics
    Trees <- UrlTrees
    Indents = {0}
    FirstIndent = 0
    MaxLines = 4
    Typed = Typed
SPECIFICATION MCSpec
SYMMETRY Symmetry
INVARIANTS RoundTrip
CHECK_DEADLOCK FALSE
