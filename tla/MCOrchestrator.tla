--------------------------- MODULE MCOrchestrator ---------------------------
(* Instances of Orchestrator for TLC: two pools of two instances.           *)
EXTENDS Orchestrator, TLC

CONSTANTS a, b

LambdaAndRunpod == (a :> "lambda") @@ (b :> "runpod")
Stubs           == [p \in Pool |-> "gcp_stub"]
=============================================================================
