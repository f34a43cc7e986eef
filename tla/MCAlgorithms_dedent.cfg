\* A document that begins indented.
CONSTANTS
    w1 = w1  w2 = w2  w3 = w3  w4 = w4
    Worker = {w1, w2, w3, w4}
    Fresh = 1
    Cooldown = 1
    TopN = 2
    MaxAttempts = 3
    Metrics <- MCMetrics
    Trees <- NoTrees
    Indents = {0, 2}
    FirstIndent = 2
    MaxLines = 4
    Typed = Typed
SPECIFICATION MCSpec
SYMMETRY Symmetry
INVARIANTS EveryLineCounts
CHECK_DEADLOCK FALSE
