---------------------------- MODULE Tier1Proofs ----------------------------
(***************************************************************************)
(* Proofs about Tier1, for any emitters, pools, maps and window, and every *)
(* interleaving of the three threads with reloads: its types, that what is *)
(* answered is current, that emitters are seen, when an answer may be      *)
(* empty, and what the loop of a query can stumble over.                   *)
(***************************************************************************)
EXTENDS Tier1, FiniteSetTheorems, TLAPS

-----------------------------------------------------------------------------
(* The inductive invariants. *)

\* The loop of a thread visits views that are there: none is ever removed.
LoopInv == \A t \in Thread : todo[t] \subseteq nodes

\* The views the loop of the query has before it and will take for fresh.
Before == todo["dns"] \ old["dns"]

\* The pools that are still current.
Current == {x[2] : x \in current}

\* What is still current was taken for fresh, or will be, all the way to the answer.
QueryInv ==
    /\ pc["dns"] = "idle" => got["dns"] = {} /\ ~failsafe["dns"]
    /\ pc["dns"] # "idle" =>
          /\ outcome = "none" /\ current \subseteq Heard
          /\ FreshPools \subseteq everFresh /\ pool_map \subseteq everMapped
    /\ pc["dns"] \in {"iter", "match", "all"} => ~failsafe["dns"]
    /\ pc["dns"] = "iter" =>
          /\ got["dns"] \subseteq everFresh
          /\ \A n \in Before : view[n] \in everFresh
          /\ \A x \in current : x[2] \in got["dns"] \/ x[1] \in Before
    /\ pc["dns"] = "match" => got["dns"] \subseteq everFresh /\ Current \subseteq got["dns"]
    /\ pc["dns"] = "all" => current = {}
    /\ pc["dns"] \in {"note", "reply"} =>
          IF failsafe["dns"] THEN current = {}
          ELSE Current \subseteq pools["dns"] /\ pools["dns"] \subseteq everFresh \cap everMapped

\* A view is that of an emitter whose number it holds, or held some seconds ago.
SpeakerInv ==
    \A n \in nodes : \E f \in Emitter :
        node_id[f] = n /\ view[n] = backend[f] /\ slow[f] <= behind[n]

\* A view is no older than the last frame of the emitter in front, is ahead of what
\* that one sends next only if it is new, and lags behind it no more than a frame
\* of that one is overdue.
SeenInv ==
    \A e \in Emitter :
        InFront(e) =>
            /\ node_id[e] \in nodes /\ age[node_id[e]] > 0 => slow[e] < behind[node_id[e]]
            /\ quiet[e] <= Fresh => /\ node_id[e] \in nodes
                                   /\ age[node_id[e]] <= quiet[e]
                                   /\ behind[node_id[e]] <= slow[e] + quiet[e]

IInv == TypeOK /\ LoopInv /\ QueryInv /\ SpeakerInv /\ SeenInv
-----------------------------------------------------------------------------
(* The types. *)

LEMMA FreshPoolsType == ASSUME TypeOK PROVE FreshPools \subseteq Pool
BY DEF FreshPools, TypeOK

LEMMA HeardType == ASSUME TypeOK PROVE Heard \subseteq Node \X Pool
BY DEF Heard, TypeOK

LEMMA SizeType == ASSUME TypeOK PROVE Cardinality(nodes) \in 0 .. Cardinality(Node)
BY FS_Subset, FS_CardinalityType, Tier1Assumption DEF TypeOK

LEMMA OlderType ==
    ASSUME NEW a \in 0 .. Stale
    PROVE  Older(a) \in 0 .. Stale /\ (a > 0 => Older(a) > 0) /\ (Older(a) <= Fresh => a <= Fresh)
           /\ (Older(a) > 0)
BY Tier1Assumption DEF Older, Stale

\* The parts of TypeOK that actions change together.
IngestTypes ==
    /\ nodes \subseteq Node
    /\ view \in [nodes -> Pool]
    /\ age \in [Node -> 0 .. Stale]
    /\ behind \in [Node -> Nat]

LocalTypes ==
    /\ todo \in [Thread -> SUBSET Node]
    /\ size \in [Thread -> 0 .. Cardinality(Node)]
    /\ old \in [Thread -> SUBSET Node]
    /\ got \in [Thread -> SUBSET Pool]
    /\ pools \in [Thread -> SUBSET Pool]
    /\ failsafe \in [Thread -> BOOLEAN]

PcTypes == pc \in [Thread -> PCs] /\ pc["dns"] # "dead" /\ pc["monitor"] # "reply"

QueryTypes ==
    /\ outcome \in {"none", "dropped", "live", "failsafe"}
    /\ answer \subseteq Pool \cup {Whale}

HistoryTypes ==
    /\ everFresh \subseteq Pool /\ everMapped \subseteq Pool
    /\ current \subseteq Node \X Pool

RestTypes ==
    /\ quiet \in [Emitter -> 0 .. Stale]
    /\ pool_map \subseteq Pool
    /\ last_answer \in [pools : SUBSET Pool, failsafe : BOOLEAN]

Parts == IngestTypes /\ LocalTypes /\ PcTypes /\ QueryTypes /\ HistoryTypes /\ RestTypes

LEMMA Types == (TypeOK <=> Parts) /\ (TypeOK' <=> Parts')
BY DEF Parts, TypeOK, IngestTypes, LocalTypes, PcTypes, QueryTypes, HistoryTypes, RestTypes

LEMMA LeaveTypes ==
    ASSUME TypeOK, NEW t \in Thread, NEW q \in PCs, Leave(t, q),
           t = "dns" => q # "dead", t = "monitor" => q # "reply"
    PROVE  LocalTypes' /\ PcTypes' /\ HistoryTypes'
<1>1. LocalTypes'
  <2>1. 0 \in 0 .. Cardinality(Node)
    BY FS_CardinalityType, Tier1Assumption
  <2> QED
    BY <2>1 DEF TypeOK, Leave, LocalTypes
<1>2. PcTypes'
  BY DEF TypeOK, Leave, Go, PcTypes, Thread
<1>3. HistoryTypes'
  BY DEF TypeOK, Leave, history, HistoryTypes
<1> QED
  BY <1>1, <1>2, <1>3

LEMMA RaiseTypes ==
    ASSUME TypeOK, NEW t \in Thread, Raise(t)
    PROVE  LocalTypes' /\ PcTypes' /\ HistoryTypes' /\ QueryTypes'
<1>1. LocalTypes' /\ PcTypes' /\ HistoryTypes'
  BY LeaveTypes DEF Raise, PCs, Thread
<1>2. QueryTypes'
  BY DEF TypeOK, Raise, query, QueryTypes
<1> QED
  BY <1>1, <1>2

LEMMA WitnessTypes ==
    ASSUME TypeOK, Witness, IngestTypes', pool_map' \subseteq Pool
    PROVE  HistoryTypes'
<1>1. FreshPools' \subseteq Pool
  BY DEF FreshPools, IngestTypes
<1> QED
  BY <1>1 DEF Witness, TypeOK, HistoryTypes, history

LEMMA InitTypes == Init => TypeOK
<1> SUFFICES ASSUME Init PROVE TypeOK
  OBVIOUS
<1> USE Tier1Assumption DEF Init
<1>1. 0 \in 0 .. Cardinality(Node)
  BY FS_CardinalityType
<1>2. IngestTypes /\ QueryTypes /\ HistoryTypes
  BY DEF IngestTypes, QueryTypes, HistoryTypes, Stale
<1>3. LocalTypes /\ PcTypes
  BY <1>1 DEF LocalTypes, PcTypes, Thread, PCs
<1>4. RestTypes
  BY DEF RestTypes, Stale
<1> QED
  BY <1>2, <1>3, <1>4, Types DEF Parts

LEMMA IngestTypesKept == ASSUME TypeOK, NEW e \in Emitter, Ingest(e) PROVE TypeOK'
<1>1. UNCHANGED <<pool_map, last_answer, pc, todo, size, got, pools, failsafe, outcome, answer>>
      /\ quiet' = [quiet EXCEPT ![e] = 0] /\ Witness
  BY DEF Ingest, query
<1>2. node_id[e] \in Node /\ backend[e] \in Pool /\ slow[e] \in Nat
  BY Tier1Assumption
<1>3. IngestTypes' /\ old' \in [Thread -> SUBSET Node]
  <2>1. CASE Accepts(e)
    <3>1. nodes' \subseteq Node /\ view' \in [nodes' -> Pool]
      BY <1>2, <2>1 DEF Ingest, TypeOK
    <3>2. age' \in [Node -> 0 .. Stale] /\ behind' \in [Node -> Nat] /\ old' \in [Thread -> SUBSET Node]
      BY <1>2, <2>1, Tier1Assumption DEF Ingest, TypeOK, Stale
    <3> QED
      BY <3>1, <3>2 DEF IngestTypes
  <2>2. CASE ~Accepts(e)
    BY <2>2 DEF Ingest, ingest, TypeOK, IngestTypes
  <2> QED
    BY <2>1, <2>2
<1>4. LocalTypes' /\ PcTypes' /\ QueryTypes'
  BY <1>1, <1>3 DEF TypeOK, LocalTypes, PcTypes, QueryTypes
<1>5. RestTypes'
  BY <1>1, Tier1Assumption DEF TypeOK, RestTypes, Stale
<1>6. HistoryTypes'
  BY <1>1, <1>3, WitnessTypes DEF TypeOK
<1> QED
  BY <1>3, <1>4, <1>5, <1>6, Types DEF Parts

LEMMA TickTypes == ASSUME TypeOK, Tick PROVE TypeOK'
<1>1. UNCHANGED <<nodes, view, pool_map, last_answer, pc, todo, size, old, got, pools, failsafe,
                  outcome, answer>> /\ Witness
  BY DEF Tick, locals, query
<1>2. IngestTypes'
  <2>1. age' \in [Node -> 0 .. Stale]
    BY OlderType DEF Tick, TypeOK
  <2>2. behind' \in [Node -> Nat]
    BY DEF Tick, TypeOK
  <2> QED
    BY <1>1, <2>1, <2>2 DEF IngestTypes, TypeOK
<1>3. quiet' \in [Emitter -> 0 .. Stale]
  BY OlderType DEF Tick, TypeOK
<1>4. HistoryTypes'
  BY <1>1, <1>2, WitnessTypes DEF TypeOK
<1> QED
  BY <1>1, <1>2, <1>3, <1>4, Types DEF Parts, LocalTypes, PcTypes, QueryTypes, RestTypes

LEMMA ReloadTypes == ASSUME TypeOK, NEW m \in Maps, Reload(m) PROVE TypeOK'
<1>1. UNCHANGED <<quiet, nodes, view, age, behind, last_answer, pc, todo, size, old, got, pools,
                  failsafe, outcome, answer>> /\ Witness /\ pool_map' \subseteq Pool
  BY Tier1Assumption DEF Reload, ingest, locals, query
<1>2. IngestTypes'
  BY <1>1 DEF IngestTypes, TypeOK
<1>3. HistoryTypes'
  BY <1>1, <1>2, WitnessTypes
<1> QED
  BY <1>1, <1>2, <1>3, Types DEF Parts, LocalTypes, PcTypes, QueryTypes, RestTypes

LEMMA StepTypes == ASSUME TypeOK, LoopInv, NEW t \in Thread, Step(t) PROVE TypeOK'
<1> USE Types DEF Parts
<1>1. CASE Start(t)
  <2>1. UNCHANGED <<quiet, nodes, view, age, behind, pool_map, last_answer, got, pools, failsafe>>
    BY <1>1 DEF Start, ingest
  <2>2. LocalTypes' /\ PcTypes'
    BY <1>1, <2>1, SizeType DEF Start, Go, TypeOK, LocalTypes, PcTypes, PCs, Thread
  <2>3. QueryTypes' /\ HistoryTypes'
    BY <1>1, FreshPoolsType, HeardType DEF Start, query, history, TypeOK, QueryTypes, HistoryTypes
  <2> QED
    BY <2>1, <2>2, <2>3 DEF IngestTypes, RestTypes
<1>2. CASE Visit(t)
  <2>1. UNCHANGED <<quiet, nodes, view, age, behind, pool_map, last_answer, size, pools, failsafe,
                    outcome, answer, everFresh, everMapped, current>>
    BY <1>2 DEF Visit, ingest, query, history
  <2>2. LocalTypes'
    <3>1. CASE \E n \in todo[t] :
                 /\ todo' = [todo EXCEPT ![t] = @ \ {n}]
                 /\ got' = [got EXCEPT ![t] = IF n \in old[t] THEN @ ELSE @ \cup {view[n]}]
                 /\ UNCHANGED <<pc, old>>
      <4>1. PICK n \in todo[t] :
                 /\ todo' = [todo EXCEPT ![t] = @ \ {n}]
                 /\ got' = [got EXCEPT ![t] = IF n \in old[t] THEN @ ELSE @ \cup {view[n]}]
                 /\ UNCHANGED <<pc, old>>
        BY <3>1
      <4>2. view[n] \in Pool
        BY <4>1 DEF TypeOK, LoopInv
      <4> QED
        BY <2>1, <4>1, <4>2 DEF TypeOK, LocalTypes
    <3>2. CASE old' = [old EXCEPT ![t] = {}] /\ UNCHANGED <<todo, got>>
      BY <2>1, <3>2 DEF TypeOK, LocalTypes
    <3> QED
      BY <1>2, <3>1, <3>2 DEF Visit
  <2>3. PcTypes'
    BY <1>2 DEF Visit, Go, TypeOK, PcTypes, PCs, Thread
  <2> QED
    BY <2>1, <2>2, <2>3 DEF IngestTypes, QueryTypes, HistoryTypes, RestTypes
<1>3. CASE VisitRaises(t) \/ NoteRaises(t)
  <2>1. UNCHANGED <<quiet, nodes, view, age, behind, pool_map, last_answer>> /\ Raise(t)
    BY <1>3 DEF VisitRaises, NoteRaises, ingest
  <2> QED
    BY <2>1, RaiseTypes DEF IngestTypes, RestTypes
<1>4. CASE Match(t) \/ All(t)
  <2>1. UNCHANGED <<quiet, nodes, view, age, behind, pool_map, last_answer, todo, old,
                    outcome, answer, everFresh, everMapped, current>>
    BY <1>4 DEF Match, Choose, All, ingest, query, history
  <2>2. LocalTypes' /\ PcTypes'
    <3>1. PcTypes'
      BY <1>4 DEF Match, Choose, All, Go, TypeOK, PcTypes, PCs, Thread
    <3>2. PICK ps \in SUBSET Pool : pools' = [pools EXCEPT ![t] = ps]
      BY <1>4 DEF Match, Choose, All, TypeOK
    <3>3. pools' \in [Thread -> SUBSET Pool]
      BY <3>2 DEF TypeOK
    <3>4. failsafe' \in [Thread -> BOOLEAN]
      BY <1>4 DEF Match, Choose, All, TypeOK
    <3>5. got' \in [Thread -> SUBSET Pool]
      BY <1>4 DEF Match, Choose, All, TypeOK
    <3>6. size' \in [Thread -> 0 .. Cardinality(Node)]
      BY <1>4, FS_CardinalityType, Tier1Assumption DEF Match, Choose, All, TypeOK
    <3> QED
      BY <2>1, <3>1, <3>3, <3>4, <3>5, <3>6, Types DEF LocalTypes
  <2> QED
    BY <2>1, <2>2 DEF IngestTypes, QueryTypes, HistoryTypes, RestTypes
<1>5. CASE Note(t)
  <2>1. UNCHANGED <<quiet, nodes, view, age, behind, pool_map, outcome, answer>>
    BY <1>5 DEF Note, ingest, query
  <2>2. RestTypes'
    <3>1. pools[t] \in SUBSET Pool /\ failsafe[t] \in BOOLEAN
      BY DEF TypeOK
    <3>2. Key(t) \in [pools : SUBSET Pool, failsafe : BOOLEAN]
      BY <3>1 DEF Key
    <3> QED
      BY <1>5, <2>1, <3>2, Types DEF Note, RestTypes
  <2>3. LocalTypes' /\ PcTypes' /\ HistoryTypes'
    <3>1. CASE t = "dns"
      BY <1>5, <3>1 DEF Note, Go, locals, history, TypeOK, LocalTypes, PcTypes, HistoryTypes, PCs, Thread
    <3>2. CASE t # "dns"
      BY <1>5, <3>2, LeaveTypes DEF Note, PCs
    <3> QED
      BY <3>1, <3>2
  <2> QED
    BY <2>1, <2>2, <2>3 DEF IngestTypes, QueryTypes
<1>6. CASE Reply(t)
  <2>1. UNCHANGED <<quiet, nodes, view, age, behind, pool_map, last_answer>>
    BY <1>6 DEF Reply, ingest
  <2>2. CASE Raise(t)
    BY <2>1, <2>2, RaiseTypes DEF IngestTypes, RestTypes
  <2>3. CASE /\ Leave(t, "idle")
             /\ outcome' = IF failsafe[t] THEN "failsafe" ELSE "live"
             /\ answer' = Ips(t)
    <3>1. QueryTypes'
      BY <2>3 DEF Ips, TypeOK, QueryTypes
    <3> QED
      BY <2>1, <2>3, <3>1, LeaveTypes DEF IngestTypes, RestTypes, PCs
  <2> QED
    BY <1>6, <2>2, <2>3 DEF Reply
<1> QED
  BY <1>1, <1>2, <1>3, <1>4, <1>5, <1>6 DEF Step

\* No view is ever removed, and a loop only shrinks.
LEMMA LoopKept == ASSUME TypeOK, LoopInv, [Next]_vars PROVE LoopInv'
<1>1. nodes \subseteq nodes'
  BY DEF Next, Ingest, Tick, Reload, Step, Start, Visit, VisitRaises, Match, Choose, All, Note,
         NoteRaises, Reply, ingest, vars
<1>2. CASE todo' = todo
  BY <1>1, <1>2 DEF LoopInv
<1>3. ASSUME NEW t \in Thread, Step(t) PROVE LoopInv'
  <2>1. CASE Start(t)
    BY <2>1 DEF Start, ingest, LoopInv, TypeOK
  <2>2. CASE Visit(t)
    BY <1>1, <2>2 DEF Visit, LoopInv, TypeOK
  <2>3. Leave(t, "idle") \/ Leave(t, "dead") => LoopInv'
    BY <1>1 DEF Leave, LoopInv, TypeOK
  <2> QED
    BY <1>2, <1>3, <2>1, <2>2, <2>3
    DEF Step, VisitRaises, Match, Choose, All, Note, NoteRaises, Reply, Raise, locals
<1> QED
  BY <1>2, <1>3 DEF Next, Ingest, Tick, Reload, locals, vars

LEMMA NextTypes == ASSUME TypeOK, LoopInv, [Next]_vars PROVE TypeOK'
<1>1. CASE UNCHANGED vars
  BY <1>1 DEF vars, TypeOK
<1> QED
  BY <1>1, IngestTypesKept, ReloadTypes, TickTypes, StepTypes DEF Next

-----------------------------------------------------------------------------
(* The query. *)

\* A step beside the query leaves it what it was, but for the history, and for
\* views that a frame has made fresh.
LEMMA BesideQuery ==
    ASSUME TypeOK, QueryInv,
           UNCHANGED <<pc["dns"], todo["dns"], got["dns"], pools["dns"], failsafe["dns"], outcome>>,
           old'["dns"] \subseteq old["dns"],
           \A n \in Before' : (n \in Before /\ view'[n] = view[n]) \/ view'[n] \in FreshPools',
           Witness \/ UNCHANGED <<ingest, pool_map, history>>
    PROVE  QueryInv'
<1>1. pc["dns"] # "idle" =>
         /\ current' \subseteq current /\ current' \subseteq Heard'
         /\ FreshPools' \subseteq everFresh' /\ pool_map' \subseteq everMapped'
         /\ everFresh \subseteq everFresh' /\ everMapped \subseteq everMapped'
  <2>1. CASE Witness
    BY <2>1 DEF Witness
  <2>2. CASE UNCHANGED <<ingest, pool_map, history>>
    BY <2>2 DEF QueryInv, ingest, history, Heard, FreshPools
  <2> QED
    BY <2>1, <2>2
<1>2. pc["dns"] # "idle" => Current' \subseteq Current
  BY <1>1 DEF Current
<1>3. CASE pc["dns"] = "iter"
  <2>1. \A n \in Before' : view'[n] \in everFresh'
    BY <1>1, <1>3 DEF QueryInv
  <2>2. Before \subseteq Before'
    BY DEF Before
  <2> QED
    BY <1>1, <1>3, <2>1, <2>2 DEF QueryInv
<1>4. CASE pc["dns"] # "iter"
  BY <1>1, <1>2, <1>4 DEF QueryInv
<1> QED
  BY <1>3, <1>4

LEMMA StartQuery == ASSUME TypeOK, LoopInv, QueryInv, Start("dns") PROVE QueryInv'
<1>1. /\ pc'["dns"] = "iter" /\ todo'["dns"] = nodes
      /\ old'["dns"] = {n \in nodes : ~IsFresh(n)}
      /\ got'["dns"] = {} /\ ~failsafe'["dns"] /\ outcome' = "none"
      /\ everFresh' = FreshPools /\ everMapped' = pool_map /\ current' = Heard
      /\ UNCHANGED <<ingest, pool_map>>
  BY DEF Start, Go, ingest, TypeOK, Thread, QueryInv
<1>2. \A n \in Before' : view'[n] \in everFresh'
  BY <1>1 DEF Before, FreshPools, IsFresh, ingest
<1>3. \A x \in current' : x[1] \in Before'
  BY <1>1 DEF Before, Heard, IsFresh
<1>4. current' \subseteq Heard' /\ FreshPools' \subseteq everFresh'
  BY <1>1 DEF Heard, FreshPools, ingest
<1> QED
  BY <1>1, <1>2, <1>3, <1>4 DEF QueryInv

LEMMA VisitQuery == ASSUME TypeOK, QueryInv, Visit("dns") PROVE QueryInv'
<1>1. UNCHANGED <<ingest, pool_map, failsafe, outcome, everFresh, everMapped, current>> /\ pc["dns"] = "iter"
  BY DEF Visit, query, history
<1>0. UNCHANGED <<view, Heard, FreshPools, Current>>
  BY <1>1 DEF ingest, Heard, FreshPools, Current
<1>4. \A x \in current : view[x[1]] = x[2]
  BY <1>1 DEF QueryInv, Heard
<1>2. CASE \E n \in todo["dns"] :
             /\ todo' = [todo EXCEPT !["dns"] = @ \ {n}]
             /\ got' = [got EXCEPT !["dns"] = IF n \in old["dns"] THEN @ ELSE @ \cup {view[n]}]
             /\ UNCHANGED <<pc, old>>
  <2>1. PICK n \in todo["dns"] :
             /\ todo' = [todo EXCEPT !["dns"] = @ \ {n}]
             /\ got' = [got EXCEPT !["dns"] = IF n \in old["dns"] THEN @ ELSE @ \cup {view[n]}]
             /\ UNCHANGED <<pc, old>>
    BY <1>2
  <2>2. /\ Before' = Before \ {n}
        /\ got'["dns"] = IF n \in Before THEN got["dns"] \cup {view[n]} ELSE got["dns"]
    BY <2>1 DEF Before, TypeOK, Thread
  <2>3. \A x \in current : x[2] \in got'["dns"] \/ x[1] \in Before'
    BY <1>1, <1>4, <2>2 DEF QueryInv
  <2>4. \A m \in Before' : view'[m] \in everFresh'
    BY <1>0, <1>1, <2>2 DEF QueryInv
  <2> QED
    BY <1>0, <1>1, <2>1, <2>2, <2>3, <2>4 DEF QueryInv
<1>3. CASE todo["dns"] = {} /\ Go("dns", "match") /\ UNCHANGED <<todo, got>>
  <2>1. pc'["dns"] = "match" /\ Before = {}
    BY <1>3 DEF Go, Before, TypeOK, Thread
  <2>2. Current \subseteq got["dns"]
    BY <1>1, <2>1 DEF QueryInv, Current
  <2> QED
    BY <1>0, <1>1, <1>3, <2>1, <2>2 DEF QueryInv
<1> QED
  BY <1>2, <1>3 DEF Visit

LEMMA MatchQuery == ASSUME TypeOK, QueryInv, Match("dns") PROVE QueryInv'
<1>1. /\ UNCHANGED <<ingest, pool_map, failsafe, outcome, everFresh, everMapped, current>>
      /\ pc["dns"] = "match" /\ pools'["dns"] = pool_map \cap got["dns"]
      /\ pc'["dns"] = IF pool_map \cap got["dns"] = {} THEN "all" ELSE "note"
  BY DEF Match, Choose, Go, query, history, TypeOK, Thread
<1>2. UNCHANGED <<Heard, FreshPools, Current>>
  BY <1>1 DEF ingest, Heard, FreshPools, Current
<1>3. Current \subseteq pool_map \cap got["dns"]
  BY <1>1 DEF QueryInv, Current, Heard
<1>4. pool_map \cap got["dns"] = {} => current = {}
  BY <1>3 DEF Current
<1> QED
  BY <1>1, <1>2, <1>3, <1>4 DEF QueryInv

LEMMA AllQuery == ASSUME TypeOK, QueryInv, All("dns") PROVE QueryInv'
<1>1. /\ UNCHANGED <<ingest, pool_map, outcome, everFresh, everMapped, current>>
      /\ pc["dns"] = "all" /\ pc'["dns"] = "note" /\ failsafe'["dns"]
  BY DEF All, Go, query, history, TypeOK, Thread
<1>2. UNCHANGED <<Heard, FreshPools>>
  BY <1>1 DEF ingest, Heard, FreshPools
<1> QED
  BY <1>1, <1>2 DEF QueryInv

LEMMA NoteQuery == ASSUME TypeOK, QueryInv, Note("dns") PROVE QueryInv'
<1>1. /\ UNCHANGED <<ingest, pool_map, locals, outcome, history>>
      /\ pc["dns"] = "note" /\ pc'["dns"] = "reply"
  BY DEF Note, Go, query, TypeOK, Thread
<1>2. UNCHANGED <<Heard, FreshPools, Current>>
  BY <1>1 DEF ingest, history, Heard, FreshPools, Current
<1> QED
  BY <1>1, <1>2 DEF QueryInv, locals, history

\* The functions return, one way or another.
LEMMA LeaveQuery == ASSUME TypeOK, Leave("dns", "idle") PROVE QueryInv'
<1>1. pc'["dns"] = "idle" /\ got'["dns"] = {} /\ ~failsafe'["dns"]
  BY DEF Leave, Go, TypeOK, Thread
<1> QED
  BY <1>1 DEF QueryInv

LEMMA MonitorQuery == ASSUME TypeOK, QueryInv, Step("monitor") PROVE QueryInv'
<1>1. UNCHANGED <<ingest, pool_map, outcome, history>>
  BY DEF Step, Start, Visit, VisitRaises, Match, Choose, All, Note, NoteRaises, Reply, Raise, Leave,
         query, TypeOK
<1>2. UNCHANGED <<pc["dns"], todo["dns"], old["dns"], got["dns"], pools["dns"], failsafe["dns"]>>
  BY DEF Step, Start, Visit, VisitRaises, Match, Choose, All, Note, NoteRaises, Reply, Raise, Leave, Go,
         locals, TypeOK, Thread
<1>3. Before' = Before /\ view' = view
  BY <1>1, <1>2 DEF Before, ingest
<1> QED
  BY <1>1, <1>2, <1>3, BesideQuery

LEMMA QueryKept == ASSUME TypeOK, LoopInv, QueryInv, [Next]_vars PROVE QueryInv'
<1>1. CASE Tick \/ (\E m \in Maps : Reload(m)) \/ UNCHANGED vars
  <2>1. UNCHANGED <<view, pc, todo, old, got, pools, failsafe, outcome>>
        /\ (Witness \/ UNCHANGED <<ingest, pool_map, history>>)
    BY <1>1 DEF Tick, Reload, ingest, locals, query, history, vars
  <2>2. Before' = Before
    BY <2>1 DEF Before
  <2> QED
    BY <2>1, <2>2, BesideQuery
<1>2. ASSUME NEW e \in Emitter, Ingest(e) PROVE QueryInv'
  <2>1. UNCHANGED <<pc, todo, got, pools, failsafe, outcome>> /\ Witness
    BY <1>2 DEF Ingest, query
  <2>2. CASE Accepts(e)
    <3>1. old'["dns"] = old["dns"] \ {node_id[e]}
      BY <1>2, <2>2 DEF Ingest, Thread
    <3>2. view'[node_id[e]] \in FreshPools'
      <4>1. node_id[e] \in nodes' /\ age' = [age EXCEPT ![node_id[e]] = 0]
        BY <1>2, <2>2 DEF Ingest
      <4>2. age'[node_id[e]] <= Fresh
        BY <4>1, Tier1Assumption DEF TypeOK
      <4> QED
        BY <4>1, <4>2 DEF FreshPools
    <3>3. \A n \in nodes : n # node_id[e] => view'[n] = view[n]
      BY <1>2, <2>2 DEF Ingest
    <3>4. \A n \in Before' : (n \in Before /\ view'[n] = view[n]) \/ view'[n] \in FreshPools'
      BY <2>1, <3>1, <3>2, <3>3 DEF Before, LoopInv, Thread
    <3> QED
      BY <2>1, <3>1, <3>4, BesideQuery
  <2>3. CASE ~Accepts(e)
    <3>1. old' = old /\ view' = view
      BY <1>2, <2>3 DEF Ingest, ingest
    <3>2. Before' = Before
      BY <2>1, <3>1 DEF Before
    <3> QED
      BY <2>1, <3>1, <3>2, BesideQuery
  <2> QED
    BY <2>2, <2>3
<1>3. CASE Step("dns")
  <2>1. CASE VisitRaises("dns") \/ NoteRaises("dns") \/ Reply("dns")
    BY <2>1, LeaveQuery DEF VisitRaises, NoteRaises, Reply, Raise
  <2> QED
    BY <1>3, <2>1, StartQuery, VisitQuery, MatchQuery, AllQuery, NoteQuery DEF Step
<1>4. CASE Step("monitor")
  BY <1>4, MonitorQuery
<1> QED
  BY <1>1, <1>2, <1>3, <1>4 DEF Next, Thread

-----------------------------------------------------------------------------
(* The emitters. *)

LEMMA IngestSpeaker == ASSUME TypeOK, SpeakerInv, NEW e \in Emitter, Ingest(e) PROVE SpeakerInv'
<1>1. CASE Accepts(e)
  <2>1. /\ nodes' = nodes \cup {node_id[e]}
        /\ \A n \in nodes' : view'[n] = IF n = node_id[e] THEN backend[e] ELSE view[n]
        /\ behind' = [behind EXCEPT ![node_id[e]] = slow[e]]
    BY <1>1 DEF Ingest
  <2>2. node_id[e] \in Node /\ slow[e] \in Nat
    BY Tier1Assumption
  <2> SUFFICES ASSUME NEW n \in nodes'
               PROVE  \E f \in Emitter : node_id[f] = n /\ view'[n] = backend[f] /\ slow[f] <= behind'[n]
    BY DEF SpeakerInv
  <2>3. CASE n = node_id[e]
    BY <2>1, <2>2, <2>3 DEF TypeOK
  <2>4. CASE n # node_id[e]
    BY <2>1, <2>4 DEF SpeakerInv, TypeOK
  <2> QED
    BY <2>3, <2>4
<1>2. CASE ~Accepts(e)
  BY <1>2 DEF Ingest, ingest, SpeakerInv
<1> QED
  BY <1>1, <1>2

LEMMA TickSpeaker == ASSUME TypeOK, SpeakerInv, Tick PROVE SpeakerInv'
<1>1. nodes' = nodes /\ view' = view
  BY DEF Tick
<1>2. \A n \in nodes : behind[n] \in Nat /\ behind'[n] \in {behind[n], behind[n] + 1}
  BY DEF Tick, TypeOK
<1> SUFFICES ASSUME NEW n \in nodes
             PROVE  \E f \in Emitter : node_id[f] = n /\ view'[n] = backend[f] /\ slow[f] <= behind'[n]
  BY <1>1 DEF SpeakerInv
<1>3. PICK f \in Emitter : node_id[f] = n /\ view[n] = backend[f] /\ slow[f] <= behind[n]
  BY DEF SpeakerInv
<1>4. slow[f] <= behind'[n]
  BY <1>2, <1>3, Tier1Assumption
<1> QED
  BY <1>1, <1>3, <1>4

\* The emitter in front is ahead of every view of its node id.
LEMMA Ahead ==
    ASSUME TypeOK, SpeakerInv, NEW e \in Emitter, InFront(e), node_id[e] \in nodes
    PROVE  slow[e] <= behind[node_id[e]]
<1>1. PICK f \in Emitter : node_id[f] = node_id[e] /\ slow[f] <= behind[node_id[e]]
  BY DEF SpeakerInv
<1>2. slow[e] <= slow[f]
  BY <1>1 DEF InFront, Peers
<1> QED
  BY <1>1, <1>2, Tier1Assumption DEF TypeOK

LEMMA IngestSeen ==
    ASSUME TypeOK, SpeakerInv, SeenInv, NEW f \in Emitter, Ingest(f)
    PROVE  SeenInv'
<1> SUFFICES ASSUME NEW e \in Emitter, InFront(e)
             PROVE  /\ node_id[e] \in nodes' /\ age'[node_id[e]] > 0 => slow[e] < behind'[node_id[e]]
                    /\ quiet'[e] <= Fresh => /\ node_id[e] \in nodes'
                                            /\ age'[node_id[e]] <= quiet'[e]
                                            /\ behind'[node_id[e]] <= slow[e] + quiet'[e]
  BY DEF SeenInv, InFront, Peers
<1>1. /\ node_id[e] \in Node /\ node_id[f] \in Node /\ slow[e] \in Nat /\ slow[f] \in Nat
      /\ quiet[e] \in 0 .. Stale /\ age[node_id[e]] \in 0 .. Stale /\ behind[node_id[e]] \in Nat
  BY Tier1Assumption DEF TypeOK
<1>2. quiet'[e] = IF e = f THEN 0 ELSE quiet[e]
  BY DEF Ingest, TypeOK
<1>3. CASE Accepts(f)
  <2>1. /\ nodes' = nodes \cup {node_id[f]}
        /\ age' = [age EXCEPT ![node_id[f]] = 0]
        /\ behind' = [behind EXCEPT ![node_id[f]] = slow[f]]
    BY <1>3 DEF Ingest
  <2>2. CASE node_id[f] = node_id[e]
    <3>1. node_id[e] \in nodes' /\ age'[node_id[e]] = 0 /\ behind'[node_id[e]] = slow[f]
      BY <1>1, <2>1, <2>2 DEF TypeOK
    <3>2. quiet'[e] <= Fresh => slow[f] <= slow[e] + quiet'[e]
      <4>1. CASE e = f
        BY <1>1, <1>2, <4>1
      <4>2. CASE e # f
        BY <1>1, <1>2, <1>3, <2>2, <4>2 DEF SeenInv, Accepts
      <4> QED
        BY <4>1, <4>2
    <3>3. quiet'[e] >= 0
      BY <1>1, <1>2
    <3> QED
      BY <3>1, <3>2, <3>3
  <2>3. CASE node_id[f] # node_id[e]
    <3>1. e # f /\ (node_id[e] \in nodes' <=> node_id[e] \in nodes)
          /\ age'[node_id[e]] = age[node_id[e]] /\ behind'[node_id[e]] = behind[node_id[e]]
      BY <1>1, <2>1, <2>3 DEF TypeOK
    <3> QED
      BY <1>2, <3>1 DEF SeenInv
  <2> QED
    BY <2>2, <2>3
<1>4. CASE ~Accepts(f)
  <2>1. UNCHANGED <<nodes, age, behind>>
    BY <1>4 DEF Ingest, ingest
  <2>2. CASE e = f
    <3>1. node_id[e] \in nodes /\ behind[node_id[e]] <= slow[e]
      BY <1>1, <1>4, <2>2 DEF Accepts
    <3>2. age[node_id[e]] = 0
      BY <1>1, <3>1 DEF SeenInv
    <3> QED
      BY <1>1, <1>2, <2>1, <2>2, <3>1, <3>2
  <2>3. CASE e # f
    BY <1>2, <2>1, <2>3 DEF SeenInv
  <2> QED
    BY <2>2, <2>3
<1> QED
  BY <1>3, <1>4

LEMMA TickSeen == ASSUME TypeOK, SpeakerInv, SeenInv, Tick PROVE SeenInv'
<1> SUFFICES ASSUME NEW e \in Emitter, InFront(e)
             PROVE  /\ node_id[e] \in nodes => slow[e] < behind'[node_id[e]]
                    /\ quiet'[e] <= Fresh => /\ node_id[e] \in nodes
                                            /\ age'[node_id[e]] <= quiet'[e]
                                            /\ behind'[node_id[e]] <= slow[e] + quiet'[e]
  BY DEF SeenInv, InFront, Peers, Tick
<1>1. /\ node_id[e] \in Node /\ slow[e] \in Nat
      /\ quiet[e] \in 0 .. Stale /\ age[node_id[e]] \in 0 .. Stale /\ behind[node_id[e]] \in Nat
  BY Tier1Assumption DEF TypeOK
<1>2. quiet'[e] = Older(quiet[e]) /\ age'[node_id[e]] = Older(age[node_id[e]])
  BY <1>1 DEF Tick
<1>3. behind'[node_id[e]] = IF \E f \in Emitter : node_id[f] = node_id[e] /\ behind[node_id[e]] <= slow[f]
                             THEN behind[node_id[e]] + 1 ELSE behind[node_id[e]]
  BY <1>1 DEF Tick
<1>4. ASSUME node_id[e] \in nodes PROVE slow[e] < behind'[node_id[e]]
  <2>1. slow[e] <= behind[node_id[e]]
    BY <1>4, Ahead
  <2>2. CASE behind[node_id[e]] <= slow[e]
    <3>1. behind'[node_id[e]] = behind[node_id[e]] + 1
      BY <1>3, <2>2
    <3> QED
      BY <1>1, <2>1, <3>1
  <2>3. CASE slow[e] < behind[node_id[e]]
    BY <1>1, <1>3, <2>3
  <2> QED
    BY <1>1, <2>2, <2>3
<1>5. ASSUME quiet'[e] <= Fresh
      PROVE  node_id[e] \in nodes /\ age'[node_id[e]] <= quiet'[e] /\ behind'[node_id[e]] <= slow[e] + quiet'[e]
  <2>1. quiet[e] <= Fresh /\ quiet'[e] = quiet[e] + 1
    BY <1>1, <1>2, <1>5, Tier1Assumption DEF Older, Stale
  <2>2. node_id[e] \in nodes /\ age[node_id[e]] <= quiet[e] /\ behind[node_id[e]] <= slow[e] + quiet[e]
    BY <2>1 DEF SeenInv
  <2>3. age'[node_id[e]] <= quiet'[e]
    BY <1>1, <1>2, <2>1, <2>2, Tier1Assumption DEF Older, Stale
  <2>4. behind'[node_id[e]] <= slow[e] + quiet'[e]
    BY <1>1, <1>3, <2>1, <2>2
  <2> QED
    BY <2>2, <2>3, <2>4
<1> QED
  BY <1>4, <1>5

LEMMA SeenKept ==
    ASSUME TypeOK, SpeakerInv, SeenInv, [Next]_vars
    PROVE  SpeakerInv' /\ SeenInv'
<1>1. CASE UNCHANGED <<quiet, nodes, view, age, behind>>
  BY <1>1 DEF SpeakerInv, SeenInv, InFront, Peers
<1> QED
  BY <1>1, IngestSpeaker, TickSpeaker, IngestSeen, TickSeen
  DEF Next, Reload, Step, Start, Visit, VisitRaises, Match, Choose, All, Note, NoteRaises, Reply,
      ingest, vars

-----------------------------------------------------------------------------
(* The theorems. *)

LEMMA InitIInv == Init => IInv
<1> SUFFICES ASSUME Init PROVE IInv
  OBVIOUS
<1>1. LoopInv /\ QueryInv /\ SpeakerInv
  BY DEF Init, LoopInv, QueryInv, SpeakerInv, Thread
<1>2. SeenInv
  BY Tier1Assumption DEF Init, SeenInv, Stale
<1> QED
  BY <1>1, <1>2, InitTypes DEF IInv

LEMMA NextIInv == IInv /\ [Next]_vars => IInv'
BY NextTypes, LoopKept, QueryKept, SeenKept DEF IInv

LEMMA Invariant == Spec => []IInv
BY InitIInv, NextIInv, PTL DEF Spec

\* Every variable of the three threads stays in its range.
THEOREM TypeCorrect == Spec => []TypeOK
<1>1. IInv => TypeOK
  BY DEF IInv
<1> QED
  BY <1>1, Invariant, PTL

\* A query answers every mapped pool that a node was heard for all through it, and
\* none that never was fresh or mapped, whatever frames and reloads come in between,
\* also of nodes that speak for several pools (`current_pools`, `answer_ips`).
THEOREM AnswerIsCurrentHolds == Spec => AnswerIsCurrent
<1>1. IInv /\ [Next]_vars =>
        [pc["dns"] = "reply" =>
            /\ outcome' = "failsafe" => current = {}
            /\ outcome' = "live" => /\ Current \subseteq answer'
                                    /\ answer' \subseteq everFresh \cap everMapped]_vars
  <2> SUFFICES ASSUME IInv, [Next]_vars, pc["dns"] = "reply"
               PROVE  /\ outcome' = "failsafe" => current = {}
                      /\ outcome' = "live" => /\ Current \subseteq answer'
                                              /\ answer' \subseteq everFresh \cap everMapped
    OBVIOUS
  <2>1. outcome = "none" /\ (IF failsafe["dns"] THEN current = {}
                             ELSE Current \subseteq pools["dns"]
                                  /\ pools["dns"] \subseteq everFresh \cap everMapped)
    BY DEF IInv, QueryInv
  <2>2. CASE Reply("dns")
    BY <2>1, <2>2 DEF Reply, Raise, Ips, ToWhale
  <2>3. CASE UNCHANGED outcome
    BY <2>1, <2>3
  <2>4. Step("dns") => Reply("dns")
    BY DEF Step, Start, Visit, VisitRaises, Match, Choose, All, Note, NoteRaises
  <2>5. Step("monitor") => UNCHANGED outcome
    BY DEF Step, Start, Visit, VisitRaises, Match, Choose, All, Note, NoteRaises, Reply, Raise, query, IInv, TypeOK
  <2> QED
    BY <2>2, <2>3, <2>4, <2>5 DEF Next, Ingest, Tick, Reload, Thread, query, vars
<1> QED
  BY <1>1, Invariant, PTL DEF Spec, AnswerIsCurrent, Current

\* However slow its counter, an emitter that sends is not evicted by a peer behind
\* it: its pool is seen, or that of a peer at most a window behind
\* (`TelemetryIngest.ingest`, `fresh_nodes`).
THEOREM EmittersAreSeenHolds == Spec => []EmittersAreSeen
<1>1. IInv => EmittersAreSeen
  <2> SUFFICES ASSUME IInv, NEW e \in Emitter, quiet[e] <= Fresh, InFront(e)
               PROVE  \E f \in Peers(e) : backend[f] \in FreshPools /\ slow[f] <= slow[e] + Fresh
    BY DEF EmittersAreSeen
  <2>1. /\ node_id[e] \in nodes /\ age[node_id[e]] <= quiet[e]
        /\ behind[node_id[e]] <= slow[e] + quiet[e]
    BY DEF IInv, SeenInv
  <2>2. PICK f \in Emitter : /\ node_id[f] = node_id[e] /\ view[node_id[e]] = backend[f]
                             /\ slow[f] <= behind[node_id[e]]
    BY <2>1 DEF IInv, SpeakerInv
  <2>3. slow[f] <= slow[e] + Fresh /\ age[node_id[e]] <= Fresh
    BY <2>1, <2>2, Tier1Assumption DEF IInv, TypeOK, Stale
  <2>4. backend[f] \in FreshPools
    BY <2>1, <2>2, <2>3 DEF FreshPools
  <2> QED
    BY <2>2, <2>3, <2>4 DEF Peers
<1> QED
  BY <1>1, Invariant, PTL

-----------------------------------------------------------------------------
(* What the documentation says, and when it is true.  An answer is empty    *)
(* only without a whale and after a map was; a query is lost, and the       *)
(* monitor with it, only to a reload or to the first frame of an emitter.   *)

\* Where the responder cannot run out of addresses.
NeverDry == HasWhale \/ {} \notin Maps

\* The map is never empty then, or the whale stands in for it.
AddressInv ==
    /\ HasWhale \/ pool_map # {}
    /\ pc["dns"] \in {"note", "reply"} => pools["dns"] # {} \/ (failsafe["dns"] /\ HasWhale)
    /\ NeverEmpty

\* Nothing is looked up in the map but what was taken from it, if no reload
\* changes it.
OneMap == \A m, n \in Maps : m = n

LookupInv ==
    /\ pool_map \in Maps
    /\ \A t \in Thread : pc[t] \in {"note", "reply"} => pools[t] \subseteq pool_map

\* A loop that goes on over more views than it has counted is one that more have
\* joined.
GrowthInv == \A t \in Thread : pc[t] = "iter" => size[t] <= Cardinality(nodes)

LEMMA AddressKept == ASSUME NeverDry, TypeOK, AddressInv, [Next]_vars PROVE AddressInv'
<1>1. HasWhale \/ pool_map' # {}
  BY DEF AddressInv, NeverDry, Next, Ingest, Tick, Reload, Step, Start, Visit, VisitRaises, Match, Choose,
         All, Note, NoteRaises, Reply, vars
<1>2. CASE UNCHANGED <<pc["dns"], pools["dns"], failsafe["dns"], outcome, answer>>
  BY <1>1, <1>2 DEF AddressInv, NeverEmpty
<1>3. CASE Start("dns") \/ Visit("dns")
  <2>1. pc'["dns"] \in {"iter", "match"} /\ (outcome' = "none" \/ UNCHANGED <<outcome, answer>>)
    BY <1>3 DEF Start, Visit, Go, query, TypeOK, Thread
  <2> QED
    BY <1>1, <2>1 DEF AddressInv, NeverEmpty
<1>4. CASE Match("dns")
  <2>1. /\ UNCHANGED <<outcome, answer>> /\ pools'["dns"] = pool_map \cap got["dns"]
        /\ pc'["dns"] = IF pool_map \cap got["dns"] = {} THEN "all" ELSE "note"
    BY <1>4 DEF Match, Choose, Go, query, TypeOK, Thread
  <2> QED
    BY <1>1, <2>1 DEF AddressInv, NeverEmpty
<1>5. CASE All("dns")
  <2>1. UNCHANGED <<outcome, answer>> /\ pools'["dns"] = pool_map /\ failsafe'["dns"]
    BY <1>5 DEF All, query, TypeOK, Thread
  <2> QED
    BY <1>1, <2>1 DEF AddressInv, NeverEmpty
<1>6. CASE Note("dns")
  <2>1. UNCHANGED <<outcome, answer, pools, failsafe>> /\ pc["dns"] = "note"
    BY <1>6 DEF Note, query, locals
  <2> QED
    BY <1>1, <2>1 DEF AddressInv, NeverEmpty
<1>7. CASE VisitRaises("dns") \/ NoteRaises("dns") \/ Reply("dns")
  <2>1. pc'["dns"] = "idle"
    BY <1>7 DEF VisitRaises, NoteRaises, Reply, Raise, Leave, Go, TypeOK, Thread
  <2>2. NeverEmpty'
    <3>1. CASE outcome' = "dropped"
      BY <3>1 DEF NeverEmpty
    <3>2. CASE Reply("dns") /\ answer' = Ips("dns")
      BY <3>2 DEF Reply, Ips, ToWhale, AddressInv, NeverEmpty
    <3> QED
      BY <1>7, <3>1, <3>2 DEF VisitRaises, NoteRaises, Reply, Raise
  <2> QED
    BY <1>1, <2>1, <2>2 DEF AddressInv
<1>8. Step("monitor") => UNCHANGED <<pc["dns"], pools["dns"], failsafe["dns"], outcome, answer>>
  BY DEF Step, Start, Visit, VisitRaises, Match, Choose, All, Note, NoteRaises, Reply, Raise, Leave, Go, query, locals,
         TypeOK, Thread
<1> QED
  BY <1>2, <1>3, <1>4, <1>5, <1>6, <1>7, <1>8
  DEF Next, Ingest, Tick, Reload, Step, locals, query, vars, Thread

LEMMA LookupKept == ASSUME OneMap, TypeOK, LookupInv, [Next]_vars PROVE LookupInv'
<1>1. pool_map' = pool_map
  BY DEF OneMap, LookupInv, Next, Ingest, Tick, Reload, Step, Start, Visit, VisitRaises, Match, Choose, All, Note,
         NoteRaises, Reply, vars
<1>2. CASE UNCHANGED <<pc, pools>>
  BY <1>1, <1>2 DEF LookupInv
<1>3. ASSUME NEW t \in Thread, Step(t) PROVE LookupInv'
  <2>1. \A u \in Thread \ {t} : UNCHANGED <<pc[u], pools[u]>>
    BY <1>3 DEF Step, Start, Visit, VisitRaises, Match, Choose, All, Note, NoteRaises, Reply, Raise, Leave, Go, locals, TypeOK
  <2>2. pc'[t] \in {"note", "reply"} => pools'[t] \subseteq pool_map
    <3>1. CASE Match(t) \/ All(t)
      BY <3>1 DEF Match, Choose, All, TypeOK
    <3>2. CASE pools'[t] = pools[t] /\ pc[t] = "note"
      BY <3>2 DEF LookupInv
    <3>3. Note(t) => (pools'[t] = pools[t] /\ pc[t] = "note") \/ pc'[t] = "idle"
      BY DEF Note, Leave, Go, locals, TypeOK
    <3>4. Start(t) \/ Visit(t) \/ VisitRaises(t) \/ NoteRaises(t) \/ Reply(t)
            => pc'[t] \in {"iter", "match", "idle", "dead"}
      BY DEF Start, Visit, VisitRaises, NoteRaises, Reply, Raise, Leave, Go, TypeOK
    <3> QED
      BY <1>3, <3>1, <3>2, <3>3, <3>4 DEF Step
  <2> QED
    BY <1>1, <2>1, <2>2 DEF LookupInv
<1> QED
  BY <1>2, <1>3 DEF Next, Ingest, Tick, Reload, locals, vars

LEMMA GrowthKept == ASSUME TypeOK, TypeOK', GrowthInv, [Next]_vars PROVE GrowthInv'
<1>1. nodes \subseteq nodes' /\ nodes' \subseteq Node
  <2>1. nodes' \subseteq Node
    BY DEF TypeOK
  <2> QED
    BY <2>1 DEF Next, Ingest, Tick, Reload, Step, Start, Visit, VisitRaises, Match, Choose, All, Note,
       NoteRaises, Reply, ingest, vars
<1>2. /\ Cardinality(nodes) <= Cardinality(nodes')
      /\ Cardinality(nodes) \in Nat /\ Cardinality(nodes') \in Nat
  BY <1>1, FS_Subset, FS_CardinalityType, Tier1Assumption
<1>3. \A t \in Thread : size[t] \in Nat
  BY FS_CardinalityType, Tier1Assumption DEF TypeOK
<1>4. CASE UNCHANGED <<pc, size>>
  BY <1>2, <1>3, <1>4 DEF GrowthInv
<1>5. ASSUME NEW t \in Thread, Step(t) PROVE GrowthInv'
  <2>1. nodes' = nodes /\ \A u \in Thread \ {t} : UNCHANGED <<pc[u], size[u]>>
    BY <1>5 DEF Step, Start, Visit, VisitRaises, Match, Choose, All, Note, NoteRaises, Reply, Raise, Leave, Go, locals,
       ingest, TypeOK
  <2>2. pc'[t] = "iter" => size'[t] <= Cardinality(nodes)
    <3>1. CASE Start(t)
      BY <1>2, <3>1 DEF Start, TypeOK
    <3>2. CASE Visit(t)
      BY <1>3, <3>2 DEF Visit, Go, TypeOK, GrowthInv
    <3>3. VisitRaises(t) \/ Match(t) \/ All(t) \/ Note(t) \/ NoteRaises(t) \/ Reply(t) => pc'[t] # "iter"
      BY DEF VisitRaises, Match, Choose, All, Note, NoteRaises, Reply, Raise, Leave, Go, TypeOK
    <3> QED
      BY <1>5, <3>1, <3>2, <3>3 DEF Step
  <2> QED
    BY <2>1, <2>2 DEF GrowthInv
<1> QED
  BY <1>4, <1>5 DEF Next, Ingest, Tick, Reload, locals, vars

\* With a whale, or as long as no reload finds an empty file, no query gets an
\* empty answer, whatever falls silent and however the map changes while it is
\* answered (`answer_ips`).
THEOREM NeverEmptyHolds == ASSUME NeverDry PROVE Spec => []NeverEmpty
<1>1. Init => AddressInv
  BY DEF Init, NeverDry, AddressInv, NeverEmpty, Thread
<1>2. IInv /\ AddressInv /\ [Next]_vars => AddressInv'
  BY AddressKept DEF IInv
<1>3. AddressInv => NeverEmpty
  BY DEF AddressInv
<1> QED
  BY <1>1, <1>2, <1>3, Invariant, PTL DEF Spec

\* Unless a reload changes the map, a query is lost, and the monitor dies, only when
\* a view has joined since its loop began: no KeyError, and no other way to lose
\* either (`current_pools`, `note_transition`, `answer_ips`).
THEOREM LostOnlyToGrowth ==
    ASSUME OneMap
    PROVE  Spec => [][/\ outcome' = "dropped" /\ outcome # "dropped" => size["dns"] < Cardinality(nodes)
                      /\ pc'["monitor"] = "dead" /\ pc["monitor"] # "dead"
                            => size["monitor"] < Cardinality(nodes)]_vars
<1> DEFINE Lost(t) == VisitRaises(t) \/ NoteRaises(t) \/ (Reply(t) /\ KeyError(t))
           Grown(t) == size[t] < Cardinality(nodes)
<1>1. Init => LookupInv /\ GrowthInv
  BY DEF Init, LookupInv, GrowthInv, Thread
<1>2. IInv /\ LookupInv /\ GrowthInv /\ [Next]_vars => LookupInv' /\ GrowthInv'
  BY NextIInv, LookupKept, GrowthKept DEF IInv
<1>3. ASSUME IInv, LookupInv, GrowthInv, NEW t \in Thread, Lost(t) PROVE Grown(t)
  <2>1. ~NoteRaises(t) /\ ~(Reply(t) /\ KeyError(t))
    BY <1>3 DEF LookupInv, NoteRaises, Reply, KeyError
  <2>2. pc[t] = "iter" /\ size[t] # Cardinality(nodes)
    BY <1>3, <2>1 DEF VisitRaises
  <2>3. size[t] \in Nat /\ Cardinality(nodes) \in Nat
    BY <1>3, SizeType, FS_CardinalityType, Tier1Assumption DEF IInv, TypeOK
  <2> QED
    BY <1>3, <2>2, <2>3 DEF GrowthInv
<1>4. ASSUME IInv, [Next]_vars, outcome' = "dropped", outcome # "dropped" PROVE Lost("dns")
  <2>1. Step("dns") => Lost("dns")
    BY <1>4 DEF Step, Start, Visit, Match, Choose, All, Note, Reply, query
  <2>2. Step("monitor") => UNCHANGED outcome
    BY <1>4 DEF Step, Start, Visit, VisitRaises, Match, Choose, All, Note, NoteRaises, Reply, Raise, query, IInv, TypeOK
  <2> QED
    BY <1>4, <2>1, <2>2 DEF Next, Ingest, Tick, Reload, query, vars, Thread
<1>5. ASSUME IInv, [Next]_vars, pc'["monitor"] = "dead", pc["monitor"] # "dead" PROVE Lost("monitor")
  <2>1. Step("monitor") => Lost("monitor")
    BY <1>5 DEF Step, Start, Visit, Match, Choose, All, Note, Reply, Leave, Go, IInv, TypeOK, Thread
  <2>2. Step("dns") => UNCHANGED pc["monitor"]
    BY <1>5 DEF Step, Start, Visit, VisitRaises, Match, Choose, All, Note, NoteRaises, Reply, Raise, Leave, Go, IInv,
       TypeOK, Thread
  <2> QED
    BY <1>5, <2>1, <2>2 DEF Next, Ingest, Tick, Reload, vars, Thread
<1>6. "dns" \in Thread /\ "monitor" \in Thread
  BY DEF Thread
<1>7. IInv /\ LookupInv /\ GrowthInv /\ [Next]_vars =>
        [/\ outcome' = "dropped" /\ outcome # "dropped" => Grown("dns")
         /\ pc'["monitor"] = "dead" /\ pc["monitor"] # "dead" => Grown("monitor")]_vars
  BY <1>3, <1>4, <1>5, <1>6
<1> QED
  BY <1>1, <1>2, <1>7, Invariant, PTL DEF Spec
=============================================================================
