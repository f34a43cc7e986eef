----------------------------- MODULE Selection -----------------------------
(***************************************************************************)
(* The worker selector (src/selection.py) as operators on its state: how   *)
(* long ago each worker was last seen, how long its breaker stays open,    *)
(* and its score.  Time is counted in ticks.                               *)
(***************************************************************************)
EXTENDS Naturals, FiniteSets, Sequences

CONSTANTS
    Worker,        \* the router's configured backends
    Fresh,         \* telemetry_fresh_secs
    Cooldown,      \* breaker_cooldown_secs
    TopN,          \* top_n, the anti-herding window
    MaxAttempts    \* max_attempts of select_with_retry_plan

ASSUME SelectionAssumption ==
    /\ IsFiniteSet(Worker)
    /\ Fresh \in Nat
    /\ Cooldown \in Nat \ {0}
    /\ TopN \in Nat \ {0}
    /\ MaxAttempts \in Nat \ {0}

Stale == Fresh + 1
Age   == 0 .. Stale

\* An age (now - last_seen) after one more tick.  The code only compares it with
\* the window, so all ages past the window are one age, Stale.
Older(age) == IF age < Stale THEN age + 1 ELSE Stale

IsFresh(age)     == age <= Fresh
IsBroken(remain) == remain > 0

\* Mutant: fresh telemetry alone brings a worker back.
EligibleWhenFresh(seenAge, cool) == {w \in Worker : IsFresh(seenAge[w])}

\* Telemetry and breaker are independent gates; a worker needs both.
Eligible(seenAge, cool) ==
    {w \in Worker : IsFresh(seenAge[w]) /\ ~IsBroken(cool[w])}

\* A load metric in percent of its reference value, and the room it leaves.
Room(percent) == IF percent < 100 THEN 100 - percent ELSE 0

\* The weighted score, in 1/10000: TTFT and VRAM headroom dominate.
Score(m) == 45 * Room(m.ttft) + 35 * Room(m.vram) + 15 * Room(m.queue)
                + 5 * Room(m.price)

\* The first TopN workers of the pool sorted by score.  Ties leave the choice
\* open: the code resolves them by the insertion order of a dict.
InTop(w, pool, score) ==
    Cardinality({v \in pool : score[v] > score[w]}) < TopN

\* What one call of select may return: any of the top workers not yet tried
\* (their weights are all positive), and nothing once the pool is empty.
Selectable(seenAge, cool, score, tried) ==
    LET pool == Eligible(seenAge, cool) \ tried
    IN  {w \in pool : InTop(w, pool, score)}

\* The retry plans over a set of eligible workers, whatever the scores: each
\* worker at most once, and as many as there are, up to MaxAttempts.
RetryPlans(eligible) ==
    LET n == Cardinality(eligible)
        k == IF n < MaxAttempts THEN n ELSE MaxAttempts
    IN  {p \in [1 .. k -> eligible] :
            \A i, j \in 1 .. k : p[i] = p[j] => i = j}
=============================================================================
