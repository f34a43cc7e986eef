----------------------------- MODULE MCRouter -----------------------------
(* Instances of Router for TLC; the constants are in the cfg files.  Workers *)
(* and requests are interchangeable, so safety runs may permute them.       *)
EXTENDS Router, TLC

Symmetry == Permutations(Worker) \cup Permutations(Request)
=============================================================================
