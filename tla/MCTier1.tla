------------------------------ MODULE MCTier1 ------------------------------
(* Instances of Tier1 for TLC.  Emitters e1 and e2 run for their own pools    *)
(* under node ids of their own, in step with the clock; e3 runs for the pool *)
(* of e2 under the node id of e1, a second behind.                            *)
EXTENDS Tier1, TLC

CONSTANTS e1, e2, e3, n1, n2, p1, p2

Ids      == [e \in Emitter |-> IF e = e2 THEN n2 ELSE n1]
Backends == [e \in Emitter |-> IF e = e1 THEN p1 ELSE p2]
Slow     == [e \in Emitter |-> IF e = e3 THEN 1 ELSE 0]

BothPools  == {{p1, p2}}
NotEmpty   == {{p1}, {p1, p2}}
MayBeEmpty == {{}, {p1, p2}}
=============================================================================
