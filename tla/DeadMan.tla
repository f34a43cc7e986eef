------------------------------ MODULE DeadMan ------------------------------
(***************************************************************************)
(* The dead-man reaper (src/deadman.sh), a timer's script that destroys    *)
(* everything managed at every provider, whatever became of the            *)
(* orchestrator: a loop of list and terminate for Lambda, one of list and  *)
(* delete for RunPod, a pass over GCP, and `gpuha reap --all` as the       *)
(* backstop.                                                               *)
(***************************************************************************)
EXTENDS Naturals, FiniteSets

CONSTANTS
    Lambda, RunPod, Gcp,   \* the instances there may be at each provider
    Attempts,              \* of either loop
    Backstops,             \* whether the orchestrator may still work, or may not
    Flaky,                 \* whether a request may fail
    Creating               \* whether an `up` is still creating

Inst == Lambda \cup RunPod \cup Gcp

VARIABLES
    cloud,      \* the instances that exist
    at,         \* "lambda", "runpod", "gcp", "reap" or "done"
    ids,        \* what the last list of a loop showed
    listed,     \* whether it is to be acted on
    attempt,
    backstop,   \* whether the orchestrator works
    clean,      \* the providers that the log calls clean
    disturbed   \* history: a request has failed, or somebody was still creating

vars == <<cloud, at, ids, listed, attempt, backstop, clean, disturbed>>

InitAt(q) ==
    /\ at = q
    /\ ids = {} /\ listed = FALSE /\ attempt = 1
    /\ backstop \in Backstops
    /\ clean = {}
    /\ disturbed = FALSE

Init == InitAt("lambda") /\ cloud \in SUBSET Inst

\* What may become of a request that deletes S: all of it, or any part.
Deleted(S) ==
    \E gone \in IF Flaky THEN SUBSET S ELSE {S} :
        /\ cloud' = cloud \ gone
        /\ disturbed' = (disturbed \/ gone # S)

Of(p)    == CASE p = "lambda" -> Lambda [] p = "runpod" -> RunPod [] p = "gcp" -> Gcp
After(p) == CASE p = "lambda" -> "runpod" [] p = "runpod" -> "gcp" [] p = "gcp" -> "reap"
Loops    == {"lambda", "runpod"}

\* The script goes on to q.
Goto(q) == at' = q /\ ids' = {} /\ listed' = FALSE /\ attempt' = 1

\* curl and the filter; an answer that is no JSON makes an empty list, and an
\* empty list is the end of the loop.
List(p) ==
    /\ at = p /\ p \in Loops /\ ~listed
    /\ \E seen \in {cloud \cap Of(p)} \cup (IF Flaky THEN {{}} ELSE {}) :
         /\ \/ seen = {} /\ clean' = clean \cup {p} /\ Goto(After(p))
            \/ /\ seen # {}
               /\ ids' = seen /\ listed' = TRUE
               /\ UNCHANGED <<at, attempt, clean>>
         /\ disturbed' = (disturbed \/ seen # cloud \cap Of(p))
    /\ UNCHANGED cloud

\* Mutant: the loop does not count its rounds.
AgainForever(p) == Goto(p)

\* The next round, as long as there is one.
Again(p) ==
    IF attempt < Attempts
      THEN attempt' = attempt + 1 /\ ids' = {} /\ listed' = FALSE /\ UNCHANGED at
      ELSE Goto(After(p))

\* The ids that a terminate names: joined by commas and split at blanks, they are
\* one word, and an id only if there is one of them.
Joined(S) == IF Cardinality(S) = 1 THEN S ELSE {}

TerminateLambda ==
    /\ at = "lambda" /\ listed
    /\ Deleted(Joined(ids))
    /\ Again("lambda")
    /\ UNCHANGED clean

\* Mutant: the ids between quotes, and so one word.
QuotedPods == Joined(ids)

\* for pid in $PIDS: one request for each.
Pods == ids

DeletePods ==
    /\ at = "runpod" /\ listed
    /\ Deleted(Pods)
    /\ Again("runpod")
    /\ UNCHANGED clean

\* One pass over what gcloud lists.
DeleteGcp ==
    /\ at = "gcp"
    /\ Deleted(Gcp)
    /\ Goto("reap")
    /\ UNCHANGED clean

\* The backstop sweeps every known provider, and skips one that fails.
Reap ==
    /\ at = "reap"
    /\ Deleted(IF backstop THEN Inst ELSE {})
    /\ Goto("done")
    /\ UNCHANGED clean

\* While the script runs, an `up` that is still alive creates one more instance.
Create ==
    /\ Creating /\ at # "done"
    /\ \E i \in Inst \ cloud : cloud' = cloud \cup {i}
    /\ disturbed' = TRUE
    /\ UNCHANGED <<at, ids, listed, attempt, backstop, clean>>

Request == (\E p \in Loops : List(p)) \/ TerminateLambda \/ DeletePods \/ DeleteGcp \/ Reap
Script  == Request /\ UNCHANGED backstop

\* No fairness: no request of the script has a timeout.
Next == Script \/ Create
Spec == Init /\ [][Next]_vars

-----------------------------------------------------------------------------
(* Properties. *)

TypeOK ==
    /\ cloud \subseteq Inst /\ ids \subseteq Inst
    /\ at \in {"lambda", "runpod", "gcp", "reap", "done"}
    /\ listed \in BOOLEAN
    /\ attempt \in 1 .. Attempts
    /\ backstop \in Backstops
    /\ clean \subseteq Loops
    /\ disturbed \in BOOLEAN

\* When the script is done, nothing is left anywhere, if the API was healthy and
\* nobody was creating.
DoneMeansZero == at = "done" /\ ~disturbed => cloud = {}

\* The requests the script still has before it, if it needs every round.
LoopLeft == 2 * (Attempts - attempt) + (IF listed THEN 1 ELSE 2)

RequestsLeft ==
    CASE at = "lambda" -> LoopLeft + 2 * Attempts + 2
      [] at = "runpod" -> LoopLeft + 2
      [] at = "gcp"    -> 2
      [] at = "reap"   -> 1
      [] at = "done"   -> 0

\* However often requests fail and whoever is still creating, every request that
\* returns brings the end nearer, and nothing that others do takes it further away.
\* That every request returns is nobody's promise.
RequestsAreBounded ==
    [][/\ RequestsLeft \in 0 .. 4 * Attempts + 2
       /\ IF Script THEN RequestsLeft' < RequestsLeft ELSE RequestsLeft' = RequestsLeft]_vars

-----------------------------------------------------------------------------
(* What the script says of itself, and does not do. *)

\* A provider that the log calls clean is clean at that moment.
CleanIsClean == [][\A p \in clean' \ clean : cloud \cap Of(p) = {}]_vars
=============================================================================
