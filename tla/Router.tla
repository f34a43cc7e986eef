------------------------------- MODULE Router -------------------------------
(***************************************************************************)
(* The L7 router (src/router.py): the coroutine `handle` of every client   *)
(* request, the task that copies arrival times from the telemetry ingest   *)
(* into the selector, and the clock they race against.                     *)
(*                                                                         *)
(* asyncio runs one coroutine at a time, so an action is what `handle`     *)
(* does between two awaits, and pc[r] names the await request r is at:     *)
(*   idle    the request has not been read yet                             *)
(*   open    wait_for(_open_upstream, PRE_TOKEN_DEADLINE)                  *)
(*   first   wait_for(first chunk of the body, PRE_TOKEN_DEADLINE)         *)
(*   drain   client_writer.drain() after a chunk                           *)
(*   stream  the next chunk of the body, without a deadline                *)
(*   final   drain() after the terminating chunk of a completed body       *)
(*   term    drain() after the terminating chunk of a truncated body       *)
(*   reply   drain() after a 503 or a degraded completion                  *)
(*   done    the client connection is closed                               *)
(* Worker choice is Selection's RetryPlans.  Upstreams, clients and the    *)
(* network are the environment: every outcome of an await is an action.    *)
(***************************************************************************)
EXTENDS Selection

CONSTANTS
    Request,       \* the client requests of a behaviour
    Deadline,      \* PRE_TOKEN_DEADLINE
    SyncEvery,     \* the interval of sync_from_ingest
    Uptime,        \* time.monotonic() when the router starts: last_seen is 0.0
    Degrade,       \* whether --degrade is given
    NoWorker       \* the X-GPUHA-Served-By of a response without one

ASSUME RouterAssumption ==
    /\ IsFiniteSet(Request)
    /\ Deadline \in Nat \ {0}
    /\ SyncEvery \in Nat \ {0}
    /\ Uptime \in Nat
    /\ Degrade \in BOOLEAN
    /\ NoWorker \notin Worker

VARIABLES
    known,         \* node ids in ingest.nodes
    heardAge,      \* age of NodeView.received_monotonic
    seenAge,       \* age of Worker.last_seen
    cool,          \* what is left of Worker.broken_until
    syncIn,        \* when sync_from_ingest wakes up
    pc, plan, att, committed,  \* the locals of handle
    left,          \* what is left of the running wait_for
    gone,          \* the client has disconnected
    head,          \* the response head written to the client
    servedBy,      \* its X-GPUHA-Served-By
    voices,        \* the workers whose chunks were written to the client
    terms,         \* terminating chunks written to the client
    waited,        \* how long the client has waited for the first token
    stats

net   == <<known, heardAge>>
sel   == <<seenAge, cool>>
wire  == <<head, servedBy, voices, terms>>
vars  == <<known, heardAge, seenAge, cool, syncIn, pc, plan, att, committed,
           left, gone, head, servedBy, voices, terms, waited, stats>>

PreToken == {"open", "first"}
PCs      == {"idle", "open", "first", "drain", "stream", "final", "term",
             "reply", "done"}

\* What a client is told when nobody can serve it.
Apology == IF Degrade THEN "whale" ELSE "503"

\* Mutant: the breaker and the response name the last worker of the plan.
CurrentIsLast(r) == plan[r][Len(plan[r])]

\* The worker of the current attempt, and the attempts there are.
Current(r)  == plan[r][att[r]]
Attempts(r) == Len(plan[r])

Init ==
    /\ known = {}
    /\ heardAge = [w \in Worker |-> Stale]
    /\ seenAge = [w \in Worker |-> IF Uptime < Stale THEN Uptime ELSE Stale]
    /\ cool = [w \in Worker |-> 0]
    /\ syncIn = 0
    /\ pc = [r \in Request |-> "idle"]
    /\ plan = [r \in Request |-> <<>>]
    /\ att = [r \in Request |-> 1]
    /\ committed = [r \in Request |-> FALSE]
    /\ left = [r \in Request |-> 0]
    /\ gone = [r \in Request |-> FALSE]
    /\ head = [r \in Request |-> "none"]
    /\ servedBy = [r \in Request |-> NoWorker]
    /\ voices = [r \in Request |-> {}]
    /\ terms = [r \in Request |-> 0]
    /\ waited = [r \in Request |-> 0]
    /\ stats = [requests |-> 0, failovers |-> 0, midstream_failfast |-> 0,
                no_capacity |-> 0, ok |-> 0]

-----------------------------------------------------------------------------
(* The telemetry side. *)

\* The ingest accepts a frame of w.
FrameAccepted(w) ==
    /\ known' = known \cup {w}
    /\ heardAge' = [heardAge EXCEPT ![w] = 0]
    /\ UNCHANGED <<sel, syncIn, pc, plan, att, committed, left, gone, wire,
                   waited, stats>>

\* sync_from_ingest stamps every worker the ingest knows with the time its
\* last frame ARRIVED, and sleeps.
Synced(w) == IF w \in known THEN heardAge[w] ELSE seenAge[w]

Sync ==
    /\ syncIn = 0
    /\ seenAge' = [w \in Worker |-> Synced(w)]
    /\ syncIn' = SyncEvery
    /\ UNCHANGED <<net, cool, pc, plan, att, committed, left, gone, wire,
                   waited, stats>>

\* One tick passes for everybody.  The event loop is not starved: a timer that
\* is due fires before time moves on.
Tick ==
    /\ syncIn > 0
    /\ \A r \in Request : pc[r] \in PreToken => left[r] > 0
    /\ syncIn' = syncIn - 1
    /\ heardAge' = [w \in Worker |-> Older(heardAge[w])]
    /\ seenAge' = [w \in Worker |-> Older(seenAge[w])]
    /\ cool' = [w \in Worker |-> IF cool[w] > 0 THEN cool[w] - 1 ELSE 0]
    /\ left' = [r \in Request |-> IF pc[r] \in PreToken THEN left[r] - 1
                                                        ELSE left[r]]
    /\ waited' = [r \in Request |-> IF pc[r] \in PreToken THEN waited[r] + 1
                                                          ELSE waited[r]]
    /\ UNCHANGED <<known, pc, plan, att, committed, gone, wire, stats>>

-----------------------------------------------------------------------------
(* The effects several exits of `handle` share. *)

TripBreaker(w) == cool' = [cool EXCEPT ![w] = Cooldown]

\* Leave the waiting part of handle for the await q.
GoTo(r, q) ==
    /\ pc' = [pc EXCEPT ![r] = q]
    /\ left' = [left EXCEPT ![r] = 0]
    /\ waited' = [waited EXCEPT ![r] = 0]

\* Mutant: what the last wait did not use is granted to the next.
WaitForMore(r, q) ==
    /\ pc' = [pc EXCEPT ![r] = q]
    /\ left' = [left EXCEPT ![r] = @ + Deadline]

\* An await under a fresh PRE_TOKEN_DEADLINE.
WaitFor(r, q) ==
    /\ pc' = [pc EXCEPT ![r] = q]
    /\ left' = [left EXCEPT ![r] = Deadline]

\* The breaker trips and the loop goes on with the next worker of the plan;
\* after the last one the client gets its apology.
AttemptFails(r) ==
    /\ TripBreaker(Current(r))
    /\ \/ /\ att[r] < Attempts(r)
          /\ stats' = [stats EXCEPT !.failovers = @ + 1]
          /\ att' = [att EXCEPT ![r] = @ + 1]
          /\ WaitFor(r, "open")
          /\ UNCHANGED <<head, waited>>
       \/ /\ att[r] = Attempts(r)
          /\ stats' = [stats EXCEPT !.no_capacity = @ + 1]
          /\ head' = [head EXCEPT ![r] = Apology]
          /\ GoTo(r, "reply")
          /\ UNCHANGED att
    /\ UNCHANGED <<net, seenAge, syncIn, plan, committed, gone, servedBy,
                   voices, terms>>

\* The except branch after the first token: no retry, the stream is closed.
MidstreamFails(r) ==
    /\ TripBreaker(Current(r))
    /\ stats' = [stats EXCEPT !.midstream_failfast = @ + 1]
    /\ terms' = [terms EXCEPT ![r] = @ + 1]
    /\ GoTo(r, "term")
    /\ UNCHANGED <<net, seenAge, syncIn, plan, att, committed, gone, head,
                   servedBy, voices>>

\* Mutant: the except clause forgets the latch.
AttemptRaisesUnlatched(r) == AttemptFails(r)

\* The except clause of the attempt: which branch depends on the latch.
AttemptRaises(r) == IF committed[r] THEN MidstreamFails(r) ELSE AttemptFails(r)

\* A chunk of the current worker is forwarded, after the head if it is the first.
Forward(r) ==
    /\ voices' = [voices EXCEPT ![r] = @ \cup {Current(r)}]
    /\ IF committed[r] THEN UNCHANGED <<committed, head, servedBy>>
       ELSE /\ committed' = [committed EXCEPT ![r] = TRUE]
            /\ head' = [head EXCEPT ![r] = "stream"]
            /\ servedBy' = [servedBy EXCEPT ![r] = Current(r)]
    /\ GoTo(r, "drain")
    /\ UNCHANGED <<net, sel, syncIn, plan, att, gone, terms, stats>>

-----------------------------------------------------------------------------
(* handle, from one await to the next. *)

\* The request is read and the plan made, for all its attempts at once.
Arrive(r) ==
    /\ pc[r] = "idle"
    /\ \E p \in RetryPlans(Eligible(seenAge, cool)) :
         \/ /\ p # <<>>
            /\ stats' = [stats EXCEPT !.requests = @ + 1]
            /\ plan' = [plan EXCEPT ![r] = p]
            /\ WaitFor(r, "open")
            /\ UNCHANGED <<head, waited>>
         \/ /\ p = <<>>
            /\ stats' = [stats EXCEPT !.requests = @ + 1, !.no_capacity = @ + 1]
            /\ head' = [head EXCEPT ![r] = Apology]
            /\ GoTo(r, "reply")
            /\ UNCHANGED plan
    /\ UNCHANGED <<net, sel, syncIn, att, committed, gone, servedBy, voices,
                   terms>>

\* Mutant: the deadline covers one read, not the connection and its headers.
OpenedPerRead(r) ==
    /\ pc[r] = "open"
    /\ \E q \in PreToken : WaitFor(r, q)
    /\ UNCHANGED <<net, sel, syncIn, plan, att, committed, gone, wire, waited,
                   stats>>

\* Status line 200 and headers are in; the first chunk gets its own deadline.
Opened(r) ==
    /\ pc[r] = "open"
    /\ WaitFor(r, "first")
    /\ UNCHANGED <<net, sel, syncIn, plan, att, committed, gone, wire, waited,
                   stats>>

\* A status line other than 200.
BadStatus(r) == pc[r] = "open" /\ AttemptFails(r)

\* Refused, reset, or closed before the status line.
Refused(r) == pc[r] = "open" /\ AttemptRaises(r)

\* Mutant: a 200 head is taken for a healthy stream (no first-chunk deadline).
TimeoutOfConnect(r) == pc[r] = "open" /\ left[r] = 0 /\ AttemptRaises(r)

\* The running wait_for expires.
Timeout(r) == pc[r] \in PreToken /\ left[r] = 0 /\ AttemptRaises(r)

\* Mutant: a broken stream is retried whether or not it has begun.
DroppedRetried(r) == pc[r] \in {"first", "stream"} /\ AttemptFails(r)

\* The upstream connection breaks while the body is read.
Dropped(r) == pc[r] \in {"first", "stream"} /\ AttemptRaises(r)

\* Any other exception (no route to the host, a malformed status line or
\* length) passes the inner except clause: the outer one closes the client.
Fault(r) ==
    /\ pc[r] \in {"open", "first", "stream"}
    /\ GoTo(r, "done")
    /\ UNCHANGED <<net, sel, syncIn, plan, att, committed, gone, wire, stats>>

Token(r) == pc[r] \in {"first", "stream"} /\ Forward(r)

\* The body ends: last chunk, Content-Length reached, or (for Content-Length
\* framing) the upstream closing early, which read() reports as plain EOF.
BodyEnds(r) ==
    /\ pc[r] \in {"first", "stream"}
    /\ terms' = [terms EXCEPT ![r] = @ + 1]
    /\ GoTo(r, "final")
    /\ UNCHANGED <<net, sel, syncIn, plan, att, committed, gone, head,
                   servedBy, voices, stats>>

\* drain() returns.
Drained(r) ==
    /\ pc[r] = "drain" /\ ~gone[r]
    /\ GoTo(r, "stream")
    /\ UNCHANGED <<net, sel, syncIn, plan, att, committed, gone, wire, stats>>

\* Mutant: a client that left is not noticed by the last drain.
DrainRaisesEarly(r) == pc[r] = "drain" /\ gone[r] /\ AttemptRaises(r)

\* Mutant: a disconnect closes the client without being counted.
DrainRaisesUncounted(r) ==
    /\ pc[r] \in {"drain", "final"} /\ gone[r]
    /\ GoTo(r, "done")
    /\ UNCHANGED <<net, sel, syncIn, plan, att, committed, gone, wire, stats>>

\* drain() raises ConnectionResetError: the same except clause as for a worker.
DrainRaises(r) == pc[r] \in {"drain", "final"} /\ gone[r] /\ AttemptRaises(r)

\* Mutant: the return after a completed body is lost, and the loop goes on.
FinishGoesOn(r) ==
    /\ pc[r] = "final" /\ ~gone[r]
    /\ stats' = [stats EXCEPT !.ok = @ + 1]
    /\ IF att[r] < Attempts(r)
         THEN WaitFor(r, "open") /\ att' = [att EXCEPT ![r] = @ + 1]
                                 /\ UNCHANGED waited
         ELSE GoTo(r, "done") /\ UNCHANGED att
    /\ UNCHANGED <<net, sel, syncIn, plan, committed, gone, wire>>

\* The body is through: the request is ok and its client is closed.
Finish(r) ==
    /\ pc[r] = "final" /\ ~gone[r]
    /\ stats' = [stats EXCEPT !.ok = @ + 1]
    /\ GoTo(r, "done")
    /\ UNCHANGED <<net, sel, syncIn, plan, att, committed, gone, wire>>

\* The last drain of an apology or a truncated stream, whatever it does.
Close(r) ==
    /\ pc[r] \in {"reply", "term"}
    /\ GoTo(r, "done")
    /\ UNCHANGED <<net, sel, syncIn, plan, att, committed, gone, wire, stats>>

\* The client disconnects.
ClientLeaves(r) ==
    /\ pc[r] \notin {"idle", "done"} /\ ~gone[r]
    /\ gone' = [gone EXCEPT ![r] = TRUE]
    /\ UNCHANGED <<net, sel, syncIn, pc, plan, att, committed, left, wire,
                   waited, stats>>

Handle(r) ==
    \/ Arrive(r) \/ Opened(r) \/ BadStatus(r) \/ Refused(r) \/ Timeout(r)
    \/ Dropped(r) \/ Fault(r) \/ Token(r) \/ BodyEnds(r) \/ Drained(r)
    \/ DrainRaises(r) \/ Finish(r) \/ Close(r) \/ ClientLeaves(r)

Next ==
    \/ \E w \in Worker : FrameAccepted(w)
    \/ Sync
    \/ Tick
    \/ \E r \in Request : Handle(r)

\* What the event loop owes on its own: time passes, due timers fire, and a
\* last drain returns or raises.
LoopFairness ==
    /\ WF_vars(Tick)
    /\ WF_vars(Sync)
    /\ \A r \in Request : WF_vars(Timeout(r)) /\ WF_vars(Close(r))

\* A client that reads or leaves: every other drain returns or raises.
ClientFairness ==
    \A r \in Request :
        /\ WF_vars(Drained(r))
        /\ WF_vars(DrainRaises(r))
        /\ WF_vars(Finish(r))

\* An upstream whose stream, once begun, ends or breaks.
UpstreamFairness ==
    \A r \in Request : SF_vars(pc[r] = "stream" /\ (BodyEnds(r) \/ Dropped(r)))

Spec     == Init /\ [][Next]_vars
FairSpec == Spec /\ LoopFairness

-----------------------------------------------------------------------------
(* Properties. *)

SelectorTypes ==
    /\ known \subseteq Worker
    /\ heardAge \in [Worker -> Age]
    /\ seenAge \in [Worker -> Age]
    /\ cool \in [Worker -> 0 .. Cooldown]
    /\ syncIn \in 0 .. SyncEvery

HandleTypes ==
    /\ pc \in [Request -> PCs]
    /\ att \in [Request -> Nat \ {0}]
    /\ committed \in [Request -> BOOLEAN]
    /\ left \in [Request -> 0 .. Deadline]
    /\ waited \in [Request -> Nat]

PlanTypes == plan \in [Request -> Seq(Worker)]

ClientTypes ==
    /\ gone \in [Request -> BOOLEAN]
    /\ head \in [Request -> {"none", "stream", "whale", "503"}]
    /\ servedBy \in [Request -> Worker \cup {NoWorker}]
    /\ voices \in [Request -> SUBSET Worker]
    /\ terms \in [Request -> Nat]

StatsTypes ==
    stats \in [requests : Nat, failovers : Nat, midstream_failfast : Nat,
               no_capacity : Nat, ok : Nat]

\* Every variable stays in its range.
TypeOK == SelectorTypes /\ HandleTypes /\ PlanTypes /\ ClientTypes /\ StatsTypes

\* The first-token contract: whatever fails and is retried, the chunks a
\* client reads come from one worker, the one its response head names.
OneVoice ==
    \A r \in Request :
        voices[r] # {} => head[r] = "stream" /\ voices[r] = {servedBy[r]}

\* The latch is one-way: after the first token `handle` starts no attempt,
\* and neither the worker nor the head of the response changes.
LatchIsOneWay ==
    [][\A r \in Request :
          committed[r] => /\ committed'[r]
                          /\ pc'[r] \notin PreToken
                          /\ att'[r] = att[r]
                          /\ head'[r] = head[r]
                          /\ servedBy'[r] = servedBy[r]]_vars

\* A client that is still connected reads at most one response: one end of
\* stream, and no apology after a token or after an end of stream.
WellFramed ==
    \A r \in Request :
        ~gone[r] =>
            /\ terms[r] <= 1
            /\ head[r] \in {"whale", "503"} => voices[r] = {} /\ terms[r] = 0

\* The requests `handle` is still working on, and those it dropped through its
\* outer except clause, without an end of stream or an apology.
InnerAwaits == PreToken \cup {"drain", "stream", "final"}
InFlight    == {r \in Request : pc[r] \in InnerAwaits}
Cut ==
    {r \in Request : /\ pc[r] = "done"
                     /\ \/ head[r] = "none" /\ (terms[r] = 0 \/ gone[r])
                        \/ head[r] = "stream" /\ terms[r] = 0}

\* The counters of /__stats add up: a counted request is in flight, was cut,
\* or is counted once as ok, failed mid-stream or refused; and a failover is
\* counted exactly when a further worker is tried.
StatsAddUp ==
    /\ stats.requests = Cardinality({r \in Request : pc[r] # "idle"})
    /\ stats.requests = stats.ok + stats.midstream_failfast + stats.no_capacity
                            + Cardinality(InFlight) + Cardinality(Cut)
    /\ stats.failovers = Cardinality({x \in Request \X (1 .. MaxAttempts) :
                                         x[2] < att[x[1]]})

\* Silence = death: a new plan names only workers the router has heard from
\* within the freshness window, each once, and none under a tripped breaker.
PlannedAreLive ==
    [][\A r \in Request : pc[r] = "idle" /\ pc'[r] = "open" =>
          \A i \in DOMAIN plan'[r] :
              /\ plan'[r][i] \in known
              /\ heardAge[plan'[r][i]] <= Fresh
              /\ cool[plan'[r][i]] = 0
              /\ \A j \in DOMAIN plan'[r] : j # i => plan'[r][j] # plan'[r][i]]_vars

\* A breaker trips for the worker whose attempt just ended, not for the next.
TripsTheCulprit ==
    [][\A w \in Worker : cool'[w] > cool[w] =>
          \E r \in InFlight : /\ w = plan[r][att[r]]
                              /\ pc'[r] \in {"open", "reply", "term"}
                              /\ pc'[r] # pc[r] \/ att'[r] # att[r]]_vars

\* A client waits for its first token at most two deadlines per attempt: one
\* for the connection and the headers, one for the first chunk.
WaitIsBounded == \A r \in Request : waited[r] <= 2 * Deadline * att[r]

\* A stalled upstream cannot hold a request before its first token: it is
\* retried, answered or begun within the deadlines, whatever upstreams do.
PreTokenEnds == \A r \in Request : pc[r] = "open" ~> pc[r] \notin PreToken

\* A request is eventually over, if clients read or leave and its stream, once
\* begun, ends or breaks.
EveryRequestEnds ==
    (ClientFairness /\ UpstreamFairness)
        => \A r \in Request : pc[r] = "open" ~> pc[r] = "done"

\* What the client of r sees, in the terms of FirstToken.  A body that ends
\* before its first byte leaves it without a response.
Phase(r) ==
    IF pc[r] = "idle" THEN "idle"
    ELSE IF head[r] \in {"whale", "503"} THEN "refused"
    ELSE IF pc[r] \in InnerAwaits THEN IF committed[r] THEN "streaming" ELSE "waiting"
    ELSE IF committed[r] /\ terms[r] > 0 THEN "ended"
    ELSE "lost"

Contract == INSTANCE FirstToken WITH phase <- [r \in Request |-> Phase(r)],
                                     voice <- servedBy

\* The router implements the first-token contract.
FirstTokenContract == Contract!Spec

-----------------------------------------------------------------------------
(* What the documentation says, and the code does not do. *)

\* "dies AFTER 1st token -> clean truncation", also for a worker that dies by
\* silence: a stream does not stay open for ever over a worker that telemetry
\* has declared dead, in front of a client that keeps reading.
StreamsEnd ==
    ClientFairness =>
        \A r \in Request :
            ~ <>[](/\ pc[r] = "stream" /\ ~gone[r]
                  /\ heardAge[servedBy[r]] = Stale)

\* "Deadline covers connect + first token per attempt": one deadline, for both.
WaitIsOneDeadline == \A r \in Request : waited[r] <= Deadline * att[r]

\* "dies BEFORE 1st token -> silent retry next-best; client sees nothing": a
\* client that does not leave gets a stream, a 503 or a degraded completion.
EveryClientIsAnswered ==
    \A r \in Request : pc[r] = "done" /\ ~gone[r] => head[r] # "none"
=============================================================================
