------------------------------ MODULE MCLegacy ------------------------------
(* An instance of Legacy for TLC: a quick target that is out of the limits, *)
(* or a slow one within them.                                               *)
EXTENDS Legacy

Qualities == {[ttft |-> 1, primary |-> FALSE], [ttft |-> 2, primary |-> TRUE]}
=============================================================================
