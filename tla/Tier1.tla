------------------------------- MODULE Tier1 -------------------------------
(***************************************************************************)
(* The Tier-1 DNS responder (src/tier1_dns.py): three threads on one       *)
(* TelemetryIngest and one pool map.  telem_loop inserts views, the main   *)
(* thread answers queries (and runs the SIGHUP handler), monitor_loop      *)
(* recomputes the answer every second to log its transitions.  Only        *)
(* note_transition takes a lock; Python may switch threads between any two *)
(* steps of the other functions, so pc[t] names what thread t does next:   *)
(*   idle   waiting for a query, or sleeping                               *)
(*   iter   in the loop of fresh_nodes over the views                      *)
(*   match  choosing the mapped pools that are fresh                       *)
(*   all    none is: re-reading the whole map (FAILSAFE)                   *)
(*   note   note_transition                                                *)
(*   reply  answer_ips and the response (main thread only)                 *)
(*   dead   the thread ended with an exception                             *)
(* A tick is one second.  An emitter sends once in a second, or not at all *)
(* (Telemetry models emitters and network); what is left of a frame's seq  *)
(* is by how much its emitter's counter is slow against the wall clock.  An   *)
(* address is named by its pool.                                           *)
(***************************************************************************)
EXTENDS Integers, FiniteSets

CONSTANTS
    Emitter, Node, Pool,
    node_id,      \* the --node-id of an emitter
    backend,      \* its --backend
    slow,         \* the seconds its seq lags behind the wall clock
    Maps,         \* the pool maps a reload may find
    Whale,        \* the --failsafe-ip
    HasWhale,     \* whether it is given
    Fresh         \* TIER1_FRESH

ASSUME Tier1Assumption ==
    /\ IsFiniteSet(Node)
    /\ node_id \in [Emitter -> Node]
    /\ backend \in [Emitter -> Pool]
    /\ slow \in [Emitter -> Nat]
    /\ Maps \subseteq SUBSET Pool /\ Maps # {}
    /\ Whale \notin Pool
    /\ HasWhale \in BOOLEAN
    /\ Fresh \in Nat

VARIABLES
    quiet,                \* seconds since the last frame of an emitter came
    nodes, view, age, behind,   \* ingest: keys, backend and age of a view, and
                                \* how far its last_seq is behind the clock
    pool_map,
    last_answer,
    pc, todo, size, old, got, pools, failsafe,   \* the threads' locals; old is
                                \* the views that were stale at its `now`
    outcome, answer,      \* of the last query: none, dropped, live, failsafe
    everFresh, everMapped, current   \* history of the query in progress

ingest  == <<nodes, view, age, behind>>
locals  == <<todo, size, old, got, pools, failsafe>>
query   == <<outcome, answer>>
history == <<everFresh, everMapped, current>>
vars    == <<quiet, nodes, view, age, behind, pool_map, last_answer, pc,
             todo, size, old, got, pools, failsafe, outcome, answer, everFresh,
             everMapped, current>>

Thread == {"dns", "monitor"}
Stale  == Fresh + 1
PCs    == {"idle", "iter", "match", "all", "note", "reply", "dead"}

\* now - received after one more second.  The code only compares it with the
\* window, so all ages past the window are one age, Stale.
Older(a) == IF a < Stale THEN a + 1 ELSE Stale

\* The pools with a view inside the window, by the wall clock.
FreshPools == {view[n] : n \in {m \in nodes : age[m] <= Fresh}}

\* Which node is heard for which mapped pool.
Heard == {x \in nodes \X pool_map : age[x[1]] <= Fresh /\ view[x[1]] = x[2]}

\* The pools that were fresh at some moment of the query in progress, those
\* that were mapped, and who was heard for a mapped pool at every moment of it.
Witness ==
    IF pc["dns"] = "idle" THEN UNCHANGED history
    ELSE /\ everFresh' = everFresh \cup FreshPools'
         /\ everMapped' = everMapped \cup pool_map'
         /\ current' = current \cap Heard'

Init ==
    /\ quiet = [e \in Emitter |-> Stale]
    /\ nodes = {}
    /\ view = [n \in {} |-> Whale]
    /\ age = [n \in Node |-> Stale]
    /\ behind = [n \in Node |-> 0]
    /\ pool_map \in Maps \ {{}}
    /\ last_answer = [pools |-> {}, failsafe |-> FALSE]
    /\ pc = [t \in Thread |-> "idle"]
    /\ todo = [t \in Thread |-> {}]
    /\ size = [t \in Thread |-> 0]
    /\ old = [t \in Thread |-> {}]
    /\ got = [t \in Thread |-> {}]
    /\ pools = [t \in Thread |-> {}]
    /\ failsafe = [t \in Thread |-> FALSE]
    /\ outcome = "none" /\ answer = {}
    /\ everFresh = {} /\ everMapped = {} /\ current = {}

-----------------------------------------------------------------------------
(* Emitters and the ingest thread. *)

\* Mutant: a frame is taken only if it leaves a gap.
AcceptsAfterGap(e) == node_id[e] \notin nodes \/ slow[e] + 1 < behind[node_id[e]]

\* frame.seq > prev.last_seq, both counted back from the clock.
Accepts(e) == node_id[e] \notin nodes \/ slow[e] < behind[node_id[e]]

\* A frame of e reaches telem_loop, if e runs and sends at all.
Ingest(e) ==
    /\ quiet[e] > 0
    /\ quiet' = [quiet EXCEPT ![e] = 0]
    /\ IF Accepts(e)
         THEN /\ nodes' = nodes \cup {node_id[e]}
              /\ view' = [n \in nodes \cup {node_id[e]} |->
                             IF n = node_id[e] THEN backend[e] ELSE view[n]]
              /\ age' = [age EXCEPT ![node_id[e]] = 0]
              /\ behind' = [behind EXCEPT ![node_id[e]] = slow[e]]
              /\ old' = [t \in Thread |-> old[t] \ {node_id[e]}]
         ELSE UNCHANGED <<ingest, old>>
    /\ UNCHANGED <<pool_map, last_answer, pc, todo, size, got, pools,
                   failsafe, query>>
    /\ Witness

\* A second passes.
Tick ==
    /\ quiet' = [e \in Emitter |-> Older(quiet[e])]
    /\ age' = [n \in Node |-> Older(age[n])]
    /\ behind' = [n \in Node |->
          IF \E e \in Emitter : node_id[e] = n /\ behind[n] <= slow[e]
            THEN behind[n] + 1 ELSE behind[n]]
    /\ UNCHANGED <<nodes, view, pool_map, last_answer, pc, locals, query>>
    /\ Witness

\* SIGHUP: the map is replaced, at any moment.
Reload(m) ==
    /\ pool_map' = m
    /\ UNCHANGED <<quiet, ingest, last_answer, pc, locals, query>>
    /\ Witness

-----------------------------------------------------------------------------
(* current_pools, note_transition and answer_ips in thread t. *)

Go(t, q) == pc' = [pc EXCEPT ![t] = q]

\* The functions of t return, and their locals are gone.
Leave(t, q) ==
    /\ Go(t, q)
    /\ todo' = [todo EXCEPT ![t] = {}]
    /\ size' = [size EXCEPT ![t] = 0]
    /\ old' = [old EXCEPT ![t] = {}]
    /\ got' = [got EXCEPT ![t] = {}]
    /\ pools' = [pools EXCEPT ![t] = {}]
    /\ failsafe' = [failsafe EXCEPT ![t] = FALSE]
    /\ IF t = "dns" THEN everFresh' = {} /\ everMapped' = {} /\ current' = {}
                     ELSE UNCHANGED history

\* Mutant: the except clause of dns_loop is missing.
RaiseAlike(t) ==
    /\ Leave(t, "dead")
    /\ IF t = "dns" THEN outcome' = "dropped" /\ answer' = {} ELSE UNCHANGED query

\* An exception: dns_loop logs "bad query" and goes on, monitor_loop ends.
Raise(t) ==
    /\ Leave(t, IF t = "dns" THEN "idle" ELSE "dead")
    /\ IF t = "dns" THEN outcome' = "dropped" /\ answer' = {} ELSE UNCHANGED query

\* Mutant: a view, once there, is fresh.
IsFreshForever(n) == n \in nodes

IsFresh(n) == age[n] <= Fresh

\* A query arrives, or the monitor wakes up: `now` is read, and the loop
\* over the views begins.
Start(t) ==
    /\ pc[t] = "idle"
    /\ Go(t, "iter")
    /\ todo' = [todo EXCEPT ![t] = nodes]
    /\ size' = [size EXCEPT ![t] = Cardinality(nodes)]
    /\ old' = [old EXCEPT ![t] = {n \in nodes : ~IsFresh(n)}]
    /\ IF t = "dns"
         THEN /\ outcome' = "none" /\ answer' = {}
              /\ everFresh' = FreshPools /\ everMapped' = pool_map
              /\ current' = Heard
         ELSE UNCHANGED <<query, history>>
    /\ UNCHANGED <<quiet, ingest, pool_map, last_answer, got, pools,
                   failsafe>>

\* The next view of the loop.
Visit(t) ==
    /\ pc[t] = "iter" /\ size[t] = Cardinality(nodes)
    /\ \/ \E n \in todo[t] :
             /\ todo' = [todo EXCEPT ![t] = @ \ {n}]
             /\ got' = [got EXCEPT ![t] = IF n \in old[t] THEN @ ELSE @ \cup {view[n]}]
             /\ UNCHANGED <<pc, old>>
       \/ /\ todo[t] = {}
          /\ Go(t, "match")
          /\ old' = [old EXCEPT ![t] = {}]
          /\ UNCHANGED <<todo, got>>
    /\ UNCHANGED <<quiet, ingest, pool_map, last_answer, size, pools,
                   failsafe, query, history>>

\* The dict grew under the loop: RuntimeError.
VisitRaises(t) ==
    /\ pc[t] = "iter" /\ size[t] # Cardinality(nodes)
    /\ Raise(t)
    /\ UNCHANGED <<quiet, ingest, pool_map, last_answer>>

\* Choose live; of the loop nothing is used any more.
Choose(t, live) ==
    /\ pc[t] = "match"
    /\ pools' = [pools EXCEPT ![t] = live]
    /\ got' = [got EXCEPT ![t] = {}]
    /\ size' = [size EXCEPT ![t] = 0]
    /\ Go(t, IF live = {} THEN "all" ELSE "note")
    /\ UNCHANGED <<quiet, ingest, pool_map, last_answer, todo, old, failsafe,
                   query, history>>

\* Mutant: the pools of the last answer are served on.
MatchOrLast(t) == Choose(t, pool_map \cap (got[t] \cup last_answer.pools))

\* The mapped pools with a fresh view, if there are any.
Match(t) == Choose(t, pool_map \cap got[t])

All(t) ==
    /\ pc[t] = "all"
    /\ pools' = [pools EXCEPT ![t] = pool_map]
    /\ failsafe' = [failsafe EXCEPT ![t] = TRUE]
    /\ Go(t, "note")
    /\ UNCHANGED <<quiet, ingest, pool_map, last_answer, todo, size, old,
                   got, query, history>>

\* answer_ips looks every pool up in the map of NOW; a pool that a reload has
\* taken away since is a KeyError.
ToWhale(t)  == failsafe[t] /\ HasWhale
KeyError(t) == ~ToWhale(t) /\ ~(pools[t] \subseteq pool_map)
Ips(t)      == IF ToWhale(t) THEN {Whale} ELSE pools[t]
Key(t)      == [pools |-> pools[t], failsafe |-> failsafe[t]]

\* Under the lock; the addresses are computed only to log a transition.
Note(t) ==
    /\ pc[t] = "note"
    /\ Key(t) # last_answer => ~KeyError(t)
    /\ last_answer' = Key(t)
    /\ IF t = "dns" THEN Go(t, "reply") /\ UNCHANGED <<locals, history>>
                     ELSE Leave(t, "idle")
    /\ UNCHANGED <<quiet, ingest, pool_map, query>>

NoteRaises(t) ==
    /\ pc[t] = "note"
    /\ Key(t) # last_answer /\ KeyError(t)
    /\ Raise(t)
    /\ UNCHANGED <<quiet, ingest, pool_map, last_answer>>

Reply(t) ==
    /\ pc[t] = "reply"
    /\ IF KeyError(t)
         THEN Raise(t)
         ELSE /\ Leave(t, "idle")
              /\ outcome' = IF failsafe[t] THEN "failsafe" ELSE "live"
              /\ answer' = Ips(t)
    /\ UNCHANGED <<quiet, ingest, pool_map, last_answer>>

Step(t) ==
    \/ Start(t) \/ Visit(t) \/ VisitRaises(t) \/ Match(t) \/ All(t)
    \/ Note(t) \/ NoteRaises(t) \/ Reply(t)

Next ==
    \/ \E e \in Emitter : Ingest(e)
    \/ \E m \in Maps : Reload(m)
    \/ Tick
    \/ \E t \in Thread : Step(t)

Spec == Init /\ [][Next]_vars

\* Time passes and the threads run; queries may stop coming.
FairSpec ==
    /\ Spec
    /\ WF_vars(Tick)
    /\ WF_vars(Step("monitor"))
    /\ WF_vars(pc["dns"] # "idle" /\ Step("dns"))

-----------------------------------------------------------------------------
(* Properties. *)

TypeOK ==
    /\ quiet \in [Emitter -> 0 .. Stale]
    /\ nodes \subseteq Node
    /\ view \in [nodes -> Pool]
    /\ age \in [Node -> 0 .. Stale]
    /\ behind \in [Node -> Nat]
    /\ pool_map \subseteq Pool
    /\ last_answer \in [pools : SUBSET Pool, failsafe : BOOLEAN]
    /\ pc \in [Thread -> PCs] /\ pc["dns"] # "dead" /\ pc["monitor"] # "reply"
    /\ todo \in [Thread -> SUBSET Node]
    /\ size \in [Thread -> 0 .. Cardinality(Node)]
    /\ old \in [Thread -> SUBSET Node]
    /\ got \in [Thread -> SUBSET Pool]
    /\ pools \in [Thread -> SUBSET Pool]
    /\ failsafe \in [Thread -> BOOLEAN]
    /\ outcome \in {"none", "dropped", "live", "failsafe"}
    /\ answer \subseteq Pool \cup {Whale}
    /\ everFresh \subseteq Pool /\ everMapped \subseteq Pool
    /\ current \subseteq Node \X Pool

\* A pool is IN the answer iff it is fresh, as far as three threads allow: an
\* answer holds every mapped pool that a node was heard for all through the
\* query and no pool that never was fresh or mapped in it, and FAILSAFE is
\* declared only if nobody was heard all through.
AnswerIsCurrent ==
    [][pc["dns"] = "reply" =>
          /\ outcome' = "failsafe" => current = {}
          /\ outcome' = "live" => /\ {x[2] : x \in current} \subseteq answer'
                                  /\ answer' \subseteq everFresh \cap everMapped]_vars

\* The emitters that send under the node id of e, and whether the counter of e
\* is not behind theirs.
Peers(e)   == {f \in Emitter : node_id[f] = node_id[e]}
InFront(e) == \A f \in Peers(e) : slow[e] <= slow[f]

\* Silence, not bookkeeping, evicts: while frames of an emitter keep coming,
\* its pool is seen, unless its node id belongs to other emitters too.  Then the
\* one whose counter is in front is covered: its pool is seen, or that of a
\* peer at most a window of seconds behind it.
EmittersAreSeen ==
    \A e \in Emitter :
        quiet[e] <= Fresh /\ InFront(e) =>
            \E f \in Peers(e) : /\ backend[f] \in FreshPools
                                 /\ slow[f] <= slow[e] + Fresh

\* A pool that falls silent is eventually no longer recorded as live, unless
\* the monitor thread is gone.
EvacuationIsNoticed ==
    \A p \in Pool :
        <>[](\A e \in Emitter : backend[e] = p => quiet[e] = Stale)
            => <>[](\/ pc["monitor"] = "dead"
                    \/ last_answer.failsafe
                    \/ p \notin last_answer.pools)

-----------------------------------------------------------------------------
(* What the documentation says, and the code does not do. *)

\* "POOL is IN the answer iff it has >=1 node with fresh telemetry", also if the
\* node ids of its emitters are those of another pool's: every pool is seen.
EveryPoolIsSeen ==
    \A e \in Emitter : quiet[e] <= Fresh => backend[e] \in FreshPools

\* "answer the full configured set (never NXDOMAIN/empty)".
NeverEmpty == outcome \in {"live", "failsafe"} => answer # {}
=============================================================================
