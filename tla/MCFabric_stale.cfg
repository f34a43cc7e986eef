\* Two runs of one topology, one after the other.
CONSTANTS
    r1 = r1  r2 = r2  n1 = n1  n2 = n2
    Run = {r1, r2}
    Name = {n1}
    name <- SameName
    NoAddr = NoAddr
    Blank = Blank
    Whale = Whale
    Absent = Absent
    Window = 0
    Overlap = FALSE
    MayBeBlank = FALSE
    Killable = {}
    Fallible = {}
SPECIFICATION Spec
INVARIANTS SilenceIsDeath
