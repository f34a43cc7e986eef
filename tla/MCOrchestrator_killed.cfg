\* A down that is killed and run again.
CONSTANTS
    a = a  b = b
    Pool = {a, b}
    Provider <- Stubs
    Size = 2
    Head = {}
    Regions = 1
    MinPools = 1
    Killable = {"down"}
    Fallible = {}
SPECIFICATION Spec
INVARIANTS DownIsDown
