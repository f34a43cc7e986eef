------------------------------ MODULE Provider ------------------------------
(***************************************************************************)
(* What a provider adapter promises the engine for one pool of one run     *)
(* (src/orchestrator/adapters/base.py): acquire creates and either returns *)
(* handles that cover everything the pool has, or raises and returns none; *)
(* afterwards instances are only ever destroyed, by teardown or reap.      *)
(* RunPod and Lambda are shown to keep it.                                 *)
(***************************************************************************)
CONSTANT Inst

VARIABLES
    insts,     \* the instances of the pool that exist, and bill
    covered,   \* those that the returned handles name
    outcome    \* of acquire: "pending", "returned" or "raised"

vars == <<insts, covered, outcome>>

Init == insts = {} /\ covered = {} /\ outcome = "pending"

\* acquire creates an instance.
Create ==
    /\ outcome = "pending"
    /\ \E i \in Inst \ insts : insts' = insts \cup {i}
    /\ UNCHANGED <<covered, outcome>>

\* acquire returns its handles: no instance of the pool is left out.
Return ==
    /\ outcome = "pending"
    /\ outcome' = "returned"
    /\ covered' \in {c \in SUBSET Inst : insts \subseteq c}
    /\ UNCHANGED insts

\* acquire raises, or its process is killed, perhaps after one last create
\* that nobody heard the answer of.
Raise ==
    /\ outcome = "pending"
    /\ outcome' = "raised"
    /\ \E last \in SUBSET (Inst \ insts) :
         /\ \A i, j \in last : i = j
         /\ insts' = insts \cup last
    /\ UNCHANGED covered

\* Whoever destroys, destroys; nothing comes back.
Destroy ==
    /\ insts' \in SUBSET insts
    /\ UNCHANGED <<covered, outcome>>

Next == Create \/ Return \/ Raise \/ Destroy
Spec == Init /\ [][Next]_vars
=============================================================================
