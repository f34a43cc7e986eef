\* Two pools, two node ids, an emitter that shares one of them, and a reload that
\* adds or removes a pool.
CONSTANTS
    e1 = e1  e2 = e2  e3 = e3
    n1 = n1  n2 = n2
    p1 = p1  p2 = p2
    Emitter = {e1, e2, e3}
    Node = {n1, n2}
    Pool = {p1, p2}
    node_id <- Ids
    backend <- Backends
    slow <- Slow
    Maps <- NotEmpty
    Whale = Whale
    HasWhale = FALSE
    Fresh = 0
SPECIFICATION FairSpec
INVARIANTS TypeOK EmittersAreSeen
PROPERTIES AnswerIsCurrent EvacuationIsNoticed
