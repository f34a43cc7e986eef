----------------------------- MODULE RetryPlan -----------------------------
(***************************************************************************)
(* select_with_retry_plan (src/selection.py) pick by pick, from any state  *)
(* of the selector: every pick is one of the TopN best workers not picked  *)
(* before.  Router uses only what the finished plan promises, RetryPlans.  *)
(***************************************************************************)
EXTENDS Selection

CONSTANTS Metrics    \* the load reports a worker may have sent

VARIABLES
    seenAge, cool,   \* freshness and breaker of every worker, at `now`
    load,            \* its last metrics
    plan,            \* the workers picked so far
    picking          \* the loop is running

vars == <<seenAge, cool, load, plan, picking>>

score == [w \in Worker |-> Score(load[w])]

\* Mutant: the exclude set is not passed on.
nothingTried == {}

tried == {plan[i] : i \in DOMAIN plan}

Init ==
    /\ seenAge \in [Worker -> Age]
    /\ cool \in [Worker -> 0 .. 1]
    /\ load \in [Worker -> Metrics]
    /\ plan = <<>>
    /\ picking = TRUE

Pick ==
    /\ picking /\ Len(plan) < MaxAttempts
    /\ \E w \in Selectable(seenAge, cool, score, tried) : plan' = Append(plan, w)
    /\ UNCHANGED <<seenAge, cool, load, picking>>

\* The loop is over, or select returned None.
Return ==
    /\ picking
    /\ \/ Len(plan) = MaxAttempts
       \/ Selectable(seenAge, cool, score, tried) = {}
    /\ picking' = FALSE
    /\ UNCHANGED <<seenAge, cool, load, plan>>

Next == Pick \/ Return
Spec == Init /\ [][Next]_vars

-----------------------------------------------------------------------------
\* A finished plan is one of those Router draws from: it names each eligible
\* worker at most once, and leaves none out while attempts remain.
PlanIsLegal ==
    ~picking => plan \in RetryPlans(Eligible(seenAge, cool))

\* Anti-herding never costs more than TopN - 1 places: a planned worker is
\* beaten by fewer than TopN of the eligible workers left out of the plan.
FewBetterLeftOut ==
    \A i \in DOMAIN plan :
        LET left == Eligible(seenAge, cool) \ tried
        IN  Cardinality({v \in left : score[v] > score[plan[i]]}) < TopN

\* What the router relies on, and what anti-herding may cost it.
PlanIsSound == PlanIsLegal /\ FewBetterLeftOut
=============================================================================
