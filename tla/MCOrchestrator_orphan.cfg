\* Two stub pools, nothing is killed.
CONSTANTS
    a = a  b = b
    Pool = {a, b}
    Provider <- Stubs
    Size = 2
    Head = {}
    Regions = 1
    MinPools = 1
    Killable = {}
    Fallible = {}
SPECIFICATION Spec
INVARIANTS FailedIsTornDown
