----------------------------- MODULE FirstToken -----------------------------
(***************************************************************************)
(* The first-token contract as a client sees it: the abstract              *)
(* specification of one completion request, implemented by Router.         *)
(*                                                                         *)
(* While a request waits, anything may go wrong behind it and nothing of   *)
(* that reaches the client.  The first token commits the response to one   *)
(* worker for good.  A committed response ends or is lost; it never turns  *)
(* into an apology and never continues with another worker.  An end of     *)
(* stream looks the same whether the completion is whole or truncated.     *)
(***************************************************************************)
CONSTANTS Worker, Request, NoWorker

VARIABLES
    phase,   \* idle, waiting, streaming, ended, refused, lost
    voice    \* the worker the response comes from

vars == <<phase, voice>>

Init ==
    /\ phase = [r \in Request |-> "idle"]
    /\ voice = [r \in Request |-> NoWorker]

Move(r, from, to) ==
    /\ phase[r] \in from
    /\ phase' = [phase EXCEPT ![r] = to]

Accept(r) == Move(r, {"idle"}, "waiting") /\ UNCHANGED voice

Begin(r, w) ==
    /\ Move(r, {"waiting"}, "streaming")
    /\ voice' = [voice EXCEPT ![r] = w]

End(r) == Move(r, {"streaming"}, "ended") /\ UNCHANGED voice

\* Nobody can serve: a 503 or a degraded completion.
Refuse(r) == Move(r, {"idle", "waiting"}, "refused") /\ UNCHANGED voice

\* The connection is closed without a response, or without its end.
Lose(r) == Move(r, {"waiting", "streaming"}, "lost") /\ UNCHANGED voice

Next ==
    \E r \in Request :
        \/ Accept(r) \/ End(r) \/ Refuse(r) \/ Lose(r)
        \/ \E w \in Worker : Begin(r, w)

Spec == Init /\ [][Next]_vars
=============================================================================
