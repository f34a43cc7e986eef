------------------------------ MODULE MCFabric ------------------------------
(* Instances of Fabric for TLC: two runs, with names of their own or of the *)
(* same topology.                                                           *)
EXTENDS Fabric, TLC

CONSTANTS r1, r2, n1, n2

OwnNames == (r1 :> n1) @@ (r2 :> n2)
SameName == [r \in Run |-> n1]
=============================================================================
