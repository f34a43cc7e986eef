\* Commands of two runs overlap; nothing fails.
CONSTANTS
    r1 = r1  r2 = r2  n1 = n1  n2 = n2
    Run = {r1, r2}
    Name = {n1, n2}
    name <- OwnNames
    NoAddr = NoAddr
    Blank = Blank
    Whale = Whale
    Absent = Absent
    Window = 0
    Overlap = TRUE
    MayBeBlank = FALSE
    Killable = {}
    Fallible = {}
SPECIFICATION Spec
INVARIANTS UpStaysWired
