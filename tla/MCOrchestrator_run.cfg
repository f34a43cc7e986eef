\* A head with its sibling and two pods; up and reap may be killed.
CONSTANTS
    a = a  b = b
    Pool = {a, b}
    Provider <- LambdaAndRunpod
    Size = 2
    Head = {a}
    Regions = 2
    MinPools = 1
    Killable = {"up", "reap"}
    Fallible = {"adapter", "restart"}
SPECIFICATION FairSpec
INVARIANTS TypeOK TornDownIsGone UpIsLive DownIsDown
PROPERTIES EveryCommandEnds ReapIsTheBackstop
