\* Every state of a selector with four workers and three attempts; every tree,
\* and every document of four lines that begins at the margin.
CONSTANTS
    w1 = w1  w2 = w2  w3 = w3  w4 = w4
    Worker = {w1, w2, w3, w4}
    Fresh = 1
    Cooldown = 1
    TopN = 2
    MaxAttempts = 3
    Metrics <- MCMetrics
    Trees <- PlainTrees
    Indents = {0, 2, 4, 6}
    FirstIndent = 0
    MaxLines = 4
    Typed = Typed
SPECIFICATION MCSpec
SYMMETRY Symmetry
INVARIANTS PlanIsSound RoundTrip EveryLineCounts
CHECK_DEADLOCK FALSE
