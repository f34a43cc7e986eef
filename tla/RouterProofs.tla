---------------------------- MODULE RouterProofs ----------------------------
(***************************************************************************)
(* Proofs about Router, for any set of workers and requests and any        *)
(* deadlines: its types, the first-token contract as an invariant and as   *)
(* an action property, and that Router implements FirstToken; then the     *)
(* wait for a first token, the framing of responses, the counters, the     *)
(* plans and the breakers, and who is left without a response.             *)
(***************************************************************************)
EXTENDS Router, FiniteSetTheorems, TLAPS

-----------------------------------------------------------------------------
(* The inductive invariant: the types, and for every request that           *)
(* - its attempt starts at 1 and is an index of the plan as long as handle  *)
(*   is in its loop;                                                        *)
(* - once committed, it is past its waits, and its only voice is the worker *)
(*   its head names, which stays the current one while handle runs;         *)
(* - until then nothing was forwarded, nor said while it may yet be.        *)

AttInv(r) ==
    /\ pc[r] = "idle" => att[r] = 1
    /\ pc[r] \in InnerAwaits => att[r] <= Attempts(r)

LatchInv(r) ==
    committed[r] =>
        /\ pc[r] \notin PreToken \cup {"idle"}
        /\ head[r] = "stream"
        /\ voices[r] = {servedBy[r]}
        /\ servedBy[r] \in Worker
        /\ pc[r] \in InnerAwaits => servedBy[r] = Current(r)

QuietInv(r) ==
    ~committed[r] =>
        /\ voices[r] = {}
        /\ pc[r] \notin {"drain", "stream"}
        /\ pc[r] \in InnerAwaits \cup {"idle"} => head[r] = "none"

RequestInv(r) == AttInv(r) /\ LatchInv(r) /\ QuietInv(r)

IInv == TypeOK /\ \A r \in Request : RequestInv(r)

\* A step leaves request q alone, as far as the invariant can see.
Untouched(q) ==
    /\ pc'[q] = pc[q] /\ plan'[q] = plan[q] /\ att'[q] = att[q]
    /\ committed'[q] = committed[q] /\ head'[q] = head[q]
    /\ servedBy'[q] = servedBy[q] /\ voices'[q] = voices[q]
    /\ terms'[q] = terms[q]

\* What a step of request r must do for the latch, and for the contract.
LatchStep(r) ==
    committed[r] => /\ committed'[r]
                    /\ pc'[r] \notin PreToken
                    /\ att'[r] = att[r]
                    /\ head'[r] = head[r]
                    /\ servedBy'[r] = servedBy[r]

Moves ==
    {<<"idle", "waiting">>, <<"streaming", "ended">>, <<"idle", "refused">>,
     <<"waiting", "refused">>, <<"waiting", "lost">>, <<"streaming", "lost">>}

PhaseStep(r) ==
    \/ /\ servedBy'[r] = servedBy[r]
       /\ Phase(r)' = Phase(r) \/ <<Phase(r), Phase(r)'>> \in Moves
    \/ /\ Phase(r) = "waiting" /\ Phase(r)' = "streaming"
       /\ servedBy'[r] \in Worker

\* All that is proved about a step of handle(r).
GoodStep(r) ==
    /\ IInv'
    /\ \A q \in Request \ {r} : Untouched(q)
    /\ LatchStep(r)
    /\ PhaseStep(r)

-----------------------------------------------------------------------------
(* Facts about the operators. *)

\* A retry plan over workers is a sequence of workers; a plan that is not empty
\* has a first attempt.
LEMMA RetryPlansType ==
    ASSUME NEW S, S \subseteq Worker, NEW p \in RetryPlans(S)
    PROVE  p \in Seq(Worker) /\ (p # <<>> => 1 <= Len(p))
<1>1. IsFiniteSet(S) /\ Cardinality(S) \in Nat
  BY SelectionAssumption, FS_Subset, FS_CardinalityType
<1>2. PICK k \in Nat : p \in [1 .. k -> S]
  BY <1>1, SelectionAssumption DEF RetryPlans
<1>3. p \in Seq(Worker) /\ Len(p) = k
  BY <1>2
<1>4. k = 0 => p = <<>>
  BY <1>2, <1>3
<1> QED BY <1>3, <1>4

\* Ages stay ages.
LEMMA OlderType == ASSUME NEW a \in Age PROVE Older(a) \in Age
BY SelectionAssumption DEF Older, Age, Stale

\* The worker of an attempt under way is a worker.
LEMMA CurrentType ==
    ASSUME IInv, NEW r \in Request, pc[r] \in InnerAwaits
    PROVE  Current(r) \in Worker
<1>1. plan[r] \in Seq(Worker) /\ att[r] \in Nat \ {0} /\ att[r] <= Len(plan[r])
  BY DEF IInv, RequestInv, TypeOK, HandleTypes, PlanTypes, AttInv, Attempts
<1> QED BY <1>1 DEF Current

\* A request a step leaves alone keeps its part of the invariant.
LEMMA UntouchedInv ==
    ASSUME NEW q \in Request, RequestInv(q), Untouched(q)
    PROVE  RequestInv(q)'
<1>1. Attempts(q)' = Attempts(q) /\ Current(q)' = Current(q)
  BY DEF Untouched, Attempts, Current
<1>2. AttInv(q)'
  BY <1>1 DEF Untouched, RequestInv, AttInv
<1>3. LatchInv(q)'
  BY <1>1 DEF Untouched, RequestInv, LatchInv
<1>4. QuietInv(q)'
  BY DEF Untouched, RequestInv, QuietInv
<1> QED BY <1>2, <1>3, <1>4 DEF RequestInv

\* The locals of handle after an await that nothing hangs on.
LEMMA GoToTypes ==
    ASSUME HandleTypes, NEW r \in Request, NEW q \in PCs, GoTo(r, q),
           UNCHANGED <<att, committed>>
    PROVE  HandleTypes'
BY RouterAssumption DEF HandleTypes, GoTo

\* A deadline starts.
LEMMA WaitForTypes ==
    ASSUME HandleTypes, NEW r \in Request, NEW q \in PCs, WaitFor(r, q),
           UNCHANGED <<att, committed, waited>>
    PROVE  HandleTypes'
BY RouterAssumption DEF HandleTypes, WaitFor

-----------------------------------------------------------------------------
(* Every step preserves the invariant: first the steps exits share. *)

LEMMA InitIInv == Init => IInv
<1> SUFFICES ASSUME Init PROVE IInv OBVIOUS
<1>1. TypeOK
  BY SelectionAssumption, RouterAssumption
  DEF Init, TypeOK, SelectorTypes, HandleTypes, PlanTypes, ClientTypes,
      StatsTypes, Age, Stale, PCs
<1>2. \A r \in Request : RequestInv(r)
  BY DEF Init, RequestInv, AttInv, LatchInv, QuietInv, InnerAwaits, PreToken
<1> QED BY <1>1, <1>2 DEF IInv

\* A failed attempt of a request that is not committed.
LEMMA AttemptFailsStep ==
    ASSUME IInv, NEW r \in Request, pc[r] \in InnerAwaits, ~committed[r],
           AttemptFails(r)
    PROVE  GoodStep(r)
<1>1. Current(r) \in Worker /\ TypeOK /\ \A q \in Request : RequestInv(q)
  BY CurrentType DEF IInv
<1>2. /\ cool' = [cool EXCEPT ![Current(r)] = Cooldown]
      /\ UNCHANGED <<known, heardAge, seenAge, syncIn, plan, committed, gone,
                     servedBy, voices, terms>>
  BY DEF AttemptFails, TripBreaker, net
<1>3. \/ /\ att[r] < Attempts(r)
         /\ att' = [att EXCEPT ![r] = @ + 1]
         /\ pc' = [pc EXCEPT ![r] = "open"]
         /\ left' = [left EXCEPT ![r] = Deadline]
         /\ head' = head /\ waited' = waited
      \/ /\ pc' = [pc EXCEPT ![r] = "reply"]
         /\ left' = [left EXCEPT ![r] = 0]
         /\ head' = [head EXCEPT ![r] = Apology]
         /\ waited' = [waited EXCEPT ![r] = 0]
         /\ att' = att
  BY DEF AttemptFails, WaitFor, GoTo
<1>4. \/ stats' = [stats EXCEPT !.failovers = @ + 1]
      \/ stats' = [stats EXCEPT !.no_capacity = @ + 1]
  BY DEF AttemptFails
<1>5. SelectorTypes'
  BY <1>1, <1>2, SelectionAssumption DEF TypeOK, SelectorTypes
<1>6. HandleTypes'
  BY <1>1, <1>2, <1>3, RouterAssumption DEF TypeOK, HandleTypes, PCs
<1>7. ClientTypes'
  BY <1>1, <1>2, <1>3 DEF TypeOK, ClientTypes, Apology
<1>8. StatsTypes'
  BY <1>1, <1>4 DEF TypeOK, StatsTypes
<1>9. PlanTypes'
  BY <1>1, <1>2 DEF TypeOK, PlanTypes
<1>10. \A q \in Request \ {r} : Untouched(q)
  BY <1>1, <1>2, <1>3 DEF TypeOK, HandleTypes, ClientTypes, Untouched
<1>11. RequestInv(r)'
  <2>1. (pc'[r] = "open" /\ head'[r] = head[r]) \/ pc'[r] = "reply"
    BY <1>1, <1>3 DEF TypeOK, HandleTypes
  <2>2. pc'[r] = "open" => att'[r] <= Attempts(r)
    <3>1. pc'[r] = "open" => att[r] < Attempts(r) /\ att'[r] = att[r] + 1
      BY <1>1, <1>3 DEF TypeOK, HandleTypes
    <3>2. Attempts(r) \in Nat
      BY <1>1 DEF TypeOK, PlanTypes, Attempts
    <3> QED BY <1>1, <3>1, <3>2 DEF TypeOK, HandleTypes
  <2>3. AttInv(r)'
    BY <1>2, <2>1, <2>2 DEF AttInv, Attempts, InnerAwaits, PreToken
  <2>4. LatchInv(r)' /\ QuietInv(r)'
    BY <1>1, <1>2, <2>1 DEF RequestInv, LatchInv, QuietInv, InnerAwaits, PreToken
  <2> QED BY <2>3, <2>4 DEF RequestInv
<1>12. IInv'
  BY <1>1, <1>5, <1>6, <1>7, <1>8, <1>9, <1>10, <1>11, UntouchedInv DEF IInv, TypeOK
<1>13. PhaseStep(r)
  <2>1. head[r] = "none" /\ committed'[r] = committed[r] /\ servedBy'[r] = servedBy[r]
    BY <1>1, <1>2 DEF RequestInv, QuietInv
  <2>2. Phase(r) = "waiting"
    BY <2>1 DEF Phase, InnerAwaits, PreToken
  <2>3. CASE pc'[r] = "open" /\ head'[r] = head[r]
    BY <2>1, <2>2, <2>3 DEF Phase, PhaseStep, InnerAwaits, PreToken
  <2>4. CASE pc'[r] = "reply" /\ head'[r] = Apology
    <3>1. Phase(r)' = "refused"
      BY <2>4 DEF Phase, Apology
    <3> QED BY <2>1, <2>2, <3>1 DEF PhaseStep, Moves
  <2> QED BY <1>1, <1>3, <2>3, <2>4 DEF TypeOK, HandleTypes, ClientTypes
<1> QED BY <1>10, <1>12, <1>13 DEF GoodStep, LatchStep

\* A step that only moves handle(r) to the await q, where it may go.
LEMMA MoveStep ==
    ASSUME IInv, NEW r \in Request, NEW q \in PCs,
           GoTo(r, q) \/ (WaitFor(r, q) /\ waited' = waited),
           plan' = plan, att' = att, committed' = committed, head' = head,
           servedBy' = servedBy, voices' = voices,
           SelectorTypes', ClientTypes', StatsTypes',
           \A s \in Request \ {r} : terms'[s] = terms[s],
           q # "idle",
           q \in InnerAwaits => pc[r] \in InnerAwaits,
           committed[r] => q \notin PreToken,
           ~committed[r] => q \notin {"drain", "stream"}
    PROVE  /\ IInv'
           /\ \A s \in Request \ {r} : Untouched(s)
           /\ LatchStep(r)
           /\ pc'[r] = q
<1>1. TypeOK /\ \A s \in Request : RequestInv(s)
  BY DEF IInv
<1>2. pc' = [pc EXCEPT ![r] = q]
  BY DEF GoTo, WaitFor
<1>3. pc'[r] = q
  BY <1>1, <1>2 DEF TypeOK, HandleTypes
<1>4. \A s \in Request \ {r} : Untouched(s)
  BY <1>1, <1>2 DEF TypeOK, HandleTypes, Untouched
<1>5. HandleTypes'
  BY <1>1, GoToTypes, WaitForTypes DEF TypeOK
<1>6. PlanTypes'
  BY <1>1 DEF TypeOK, PlanTypes
<1>7. RequestInv(r)'
  <2>1. AttInv(r)'
    BY <1>1, <1>3 DEF RequestInv, AttInv, Attempts
  <2>2. LatchInv(r)'
    BY <1>1, <1>3 DEF RequestInv, LatchInv, Current
  <2>3. QuietInv(r)'
    BY <1>1, <1>3 DEF RequestInv, QuietInv
  <2> QED BY <2>1, <2>2, <2>3 DEF RequestInv
<1>8. IInv'
  BY <1>1, <1>4, <1>5, <1>6, <1>7, UntouchedInv DEF IInv, TypeOK
<1>9. LatchStep(r)
  BY <1>3 DEF LatchStep
<1> QED BY <1>3, <1>4, <1>8, <1>9

\* A stream that breaks after its first token.
LEMMA MidstreamFailsStep ==
    ASSUME IInv, NEW r \in Request, pc[r] \in InnerAwaits, committed[r],
           MidstreamFails(r)
    PROVE  GoodStep(r)
<1>1. Current(r) \in Worker /\ TypeOK /\ LatchInv(r)
  BY CurrentType DEF IInv, RequestInv
<1>2. /\ cool' = [cool EXCEPT ![Current(r)] = Cooldown]
      /\ stats' = [stats EXCEPT !.midstream_failfast = @ + 1]
      /\ terms' = [terms EXCEPT ![r] = @ + 1]
      /\ GoTo(r, "term")
      /\ UNCHANGED <<known, heardAge, seenAge, syncIn, plan, att, committed,
                     gone, head, servedBy, voices>>
  BY DEF MidstreamFails, TripBreaker, net
<1>3. SelectorTypes'
  BY <1>1, <1>2, SelectionAssumption DEF TypeOK, SelectorTypes
<1>4. ClientTypes' /\ terms'[r] = terms[r] + 1 /\ terms[r] \in Nat
  BY <1>1, <1>2 DEF TypeOK, ClientTypes
<1>5. StatsTypes'
  BY <1>1, <1>2 DEF TypeOK, StatsTypes
<1>6. \A s \in Request \ {r} : terms'[s] = terms[s]
  BY <1>1, <1>2 DEF TypeOK, ClientTypes
<1>7. /\ IInv' /\ LatchStep(r) /\ pc'[r] = "term"
      /\ \A s \in Request \ {r} : Untouched(s)
  <2>1. "term" \in PCs \ (InnerAwaits \cup PreToken \cup {"idle", "drain", "stream"})
    BY DEF PCs, InnerAwaits, PreToken
  <2> QED BY <1>2, <1>3, <1>4, <1>5, <1>6, <2>1, MoveStep
<1>8. Phase(r) = "streaming" /\ Phase(r)' = "ended"
  BY <1>1, <1>2, <1>4, <1>7 DEF Phase, LatchInv, InnerAwaits, PreToken
<1> QED BY <1>2, <1>7, <1>8 DEF GoodStep, PhaseStep, Moves

\* A chunk reaches the client.
LEMMA ForwardStep ==
    ASSUME IInv, NEW r \in Request, pc[r] \in {"first", "stream"}, Forward(r)
    PROVE  GoodStep(r)
<1>1. TypeOK /\ \A s \in Request : RequestInv(s)
  BY DEF IInv
<1>2. Current(r) \in Worker
  BY CurrentType DEF InnerAwaits, PreToken
<1>3. /\ voices' = [voices EXCEPT ![r] = @ \cup {Current(r)}]
      /\ pc' = [pc EXCEPT ![r] = "drain"]
      /\ left' = [left EXCEPT ![r] = 0]
      /\ waited' = [waited EXCEPT ![r] = 0]
      /\ UNCHANGED <<known, heardAge, seenAge, cool, syncIn, plan, att, gone,
                     terms, stats>>
  BY DEF Forward, GoTo, net, sel
<1>4. \/ committed[r] /\ UNCHANGED <<committed, head, servedBy>>
      \/ /\ ~committed[r]
         /\ committed' = [committed EXCEPT ![r] = TRUE]
         /\ head' = [head EXCEPT ![r] = "stream"]
         /\ servedBy' = [servedBy EXCEPT ![r] = Current(r)]
  BY DEF Forward
<1>5. \A s \in Request \ {r} : Untouched(s)
  BY <1>1, <1>3, <1>4 DEF TypeOK, HandleTypes, ClientTypes, Untouched
<1>6. /\ pc'[r] = "drain" /\ committed'[r] /\ voices'[r] = voices[r] \cup {Current(r)}
      /\ plan'[r] = plan[r] /\ att'[r] = att[r] /\ terms'[r] = terms[r]
  BY <1>1, <1>3, <1>4 DEF TypeOK, HandleTypes, ClientTypes
<1>7. \/ committed[r] /\ head'[r] = head[r] /\ servedBy'[r] = servedBy[r]
      \/ ~committed[r] /\ head'[r] = "stream" /\ servedBy'[r] = Current(r)
  BY <1>1, <1>4 DEF TypeOK, ClientTypes
<1>8. SelectorTypes' /\ PlanTypes' /\ StatsTypes'
  BY <1>1, <1>3 DEF TypeOK, SelectorTypes, PlanTypes, StatsTypes
<1>9. HandleTypes'
  <2>1. committed' \in [Request -> BOOLEAN]
    BY <1>1, <1>4 DEF TypeOK, HandleTypes
  <2>2. pc' \in [Request -> PCs] /\ att' \in [Request -> Nat \ {0}]
    BY <1>1, <1>3 DEF TypeOK, HandleTypes, PCs
  <2>3. left' \in [Request -> 0 .. Deadline] /\ waited' \in [Request -> Nat]
    BY <1>1, <1>3, RouterAssumption DEF TypeOK, HandleTypes
  <2> QED BY <2>1, <2>2, <2>3 DEF HandleTypes
<1>10. ClientTypes'
  BY <1>1, <1>2, <1>3, <1>4 DEF TypeOK, ClientTypes
<1>11. Current(r)' = Current(r) /\ Attempts(r)' = Attempts(r)
  BY <1>6 DEF Current, Attempts
<1>12. RequestInv(r)'
  <2>1. AttInv(r)'
    BY <1>1, <1>6, <1>11 DEF RequestInv, AttInv, InnerAwaits, PreToken
  <2>2. LatchInv(r)'
    BY <1>1, <1>2, <1>6, <1>7, <1>11
    DEF RequestInv, LatchInv, QuietInv, InnerAwaits, PreToken
  <2>3. QuietInv(r)'
    BY <1>6 DEF QuietInv
  <2> QED BY <2>1, <2>2, <2>3 DEF RequestInv
<1>13. IInv'
  BY <1>1, <1>5, <1>8, <1>9, <1>10, <1>12, UntouchedInv DEF IInv, TypeOK
<1>14. LatchStep(r)
  BY <1>6, <1>7 DEF LatchStep, PreToken
<1>15. PhaseStep(r)
  <2>1. Phase(r)' = "streaming"
    <3>1. head'[r] = "stream"
      BY <1>1, <1>7 DEF RequestInv, LatchInv
    <3> QED BY <1>6, <3>1 DEF Phase, InnerAwaits
  <2>2. CASE committed[r]
    <3>1. Phase(r) = "streaming"
      BY <1>1, <2>2 DEF Phase, RequestInv, LatchInv, InnerAwaits, PreToken
    <3> QED BY <1>7, <2>1, <2>2, <3>1 DEF PhaseStep
  <2>3. CASE ~committed[r]
    <3>1. Phase(r) = "waiting"
      BY <1>1, <2>3 DEF Phase, RequestInv, QuietInv, InnerAwaits, PreToken
    <3> QED BY <1>2, <1>7, <2>1, <2>3, <3>1 DEF PhaseStep
  <2> QED BY <2>2, <2>3
<1> QED BY <1>5, <1>13, <1>14, <1>15 DEF GoodStep

\* An exception under the except clause, from any of its awaits.
LEMMA AttemptRaisesStep ==
    ASSUME IInv, NEW r \in Request, pc[r] \in InnerAwaits, AttemptRaises(r)
    PROVE  GoodStep(r)
BY AttemptFailsStep, MidstreamFailsStep DEF AttemptRaises

\* The plan of a request, or its refusal.
LEMMA ArriveStep ==
    ASSUME IInv, NEW r \in Request, Arrive(r)
    PROVE  GoodStep(r)
<1>1. TypeOK /\ (\A s \in Request : RequestInv(s)) /\ pc[r] = "idle"
  BY DEF IInv, Arrive
<1>2. PICK p \in RetryPlans(Eligible(seenAge, cool)) :
        \/ /\ p # <<>>
           /\ stats' = [stats EXCEPT !.requests = @ + 1]
           /\ plan' = [plan EXCEPT ![r] = p]
           /\ WaitFor(r, "open")
           /\ UNCHANGED <<head, waited>>
        \/ /\ stats' = [stats EXCEPT !.requests = @ + 1, !.no_capacity = @ + 1]
           /\ head' = [head EXCEPT ![r] = Apology]
           /\ GoTo(r, "reply")
           /\ UNCHANGED plan
  BY DEF Arrive
<1>3. UNCHANGED <<known, heardAge, seenAge, cool, syncIn, att, committed, gone,
                  servedBy, voices, terms>>
  BY DEF Arrive, net, sel
<1>4. p \in Seq(Worker) /\ (p # <<>> => 1 <= Len(p))
  BY RetryPlansType DEF Eligible
<1>5. StatsTypes'
  <2>1. \/ stats' = [stats EXCEPT !.requests = @ + 1]
        \/ stats' = [stats EXCEPT !.requests = @ + 1, !.no_capacity = @ + 1]
    BY <1>2
  <2>2. CASE stats' = [stats EXCEPT !.requests = @ + 1]
    BY <1>1, <2>2 DEF TypeOK, StatsTypes
  <2>3. CASE stats' = [stats EXCEPT !.requests = @ + 1, !.no_capacity = @ + 1]
    <3>1. stats.requests + 1 \in Nat /\ stats.no_capacity + 1 \in Nat
      BY <1>1 DEF TypeOK, StatsTypes
    <3>2. stats' = [stats EXCEPT !.requests = stats.requests + 1,
                                 !.no_capacity = stats.no_capacity + 1]
      BY <2>3, Zenon
    <3> QED BY <1>1, <3>1, <3>2 DEF TypeOK, StatsTypes
  <2> QED BY <2>1, <2>2, <2>3
<1>6. SelectorTypes'
  BY <1>1, <1>3 DEF TypeOK, SelectorTypes
<1>7. HandleTypes'
  BY <1>1, <1>2, <1>3, GoToTypes, WaitForTypes DEF TypeOK, PCs
<1>8. ClientTypes'
  BY <1>1, <1>2, <1>3 DEF TypeOK, ClientTypes, Apology
<1>9. PlanTypes' /\ (plan'[r] = p \/ plan' = plan)
  BY <1>1, <1>2, <1>4 DEF TypeOK, PlanTypes
<1>10. \A s \in Request \ {r} : Untouched(s)
  BY <1>1, <1>2, <1>3
  DEF TypeOK, HandleTypes, PlanTypes, ClientTypes, Untouched, GoTo, WaitFor
<1>11. /\ ~committed'[r] /\ voices'[r] = {} /\ servedBy'[r] = servedBy[r]
       /\ head[r] = "none" /\ committed'[r] = committed[r]
  BY <1>1, <1>3 DEF RequestInv, LatchInv, QuietInv
<1>12. \/ /\ pc'[r] = "open" /\ head'[r] = "none"
          /\ att'[r] = 1 /\ 1 <= Attempts(r)'
       \/ pc'[r] = "reply" /\ head'[r] = Apology
  <2>1. att'[r] = 1 /\ head[r] = "none"
    BY <1>1, <1>3, <1>11 DEF RequestInv, AttInv
  <2>2. CASE /\ p # <<>>
             /\ plan' = [plan EXCEPT ![r] = p]
             /\ WaitFor(r, "open")
             /\ UNCHANGED <<head, waited>>
    <3>1. plan'[r] = p
      BY <1>1, <2>2 DEF TypeOK, PlanTypes
    <3>2. 1 <= Attempts(r)'
      BY <1>4, <2>2, <3>1 DEF Attempts
    <3> QED BY <1>1, <2>1, <2>2, <3>2 DEF TypeOK, HandleTypes, WaitFor
  <2>3. CASE head' = [head EXCEPT ![r] = Apology] /\ GoTo(r, "reply")
    BY <1>1, <2>3 DEF TypeOK, HandleTypes, ClientTypes, GoTo
  <2> QED BY <1>2, <2>2, <2>3
<1>13. RequestInv(r)'
  <2>1. AttInv(r)'
    BY <1>12 DEF AttInv, InnerAwaits, PreToken
  <2>2. LatchInv(r)' /\ QuietInv(r)'
    BY <1>11, <1>12 DEF LatchInv, QuietInv, InnerAwaits, PreToken
  <2> QED BY <2>1, <2>2 DEF RequestInv
<1>14. IInv'
  BY <1>1, <1>5, <1>6, <1>7, <1>8, <1>9, <1>10, <1>13, UntouchedInv DEF IInv, TypeOK
<1>15. PhaseStep(r)
  <2>1. Phase(r) = "idle"
    BY <1>1 DEF Phase
  <2>2. CASE pc'[r] = "open" /\ head'[r] = "none"
    <3>1. Phase(r)' = "waiting"
      BY <1>11, <2>2 DEF Phase, InnerAwaits, PreToken
    <3> QED BY <1>11, <2>1, <3>1 DEF PhaseStep, Moves
  <2>3. CASE pc'[r] = "reply" /\ head'[r] = Apology
    <3>1. Phase(r)' = "refused"
      BY <2>3 DEF Phase, Apology
    <3> QED BY <1>11, <2>1, <3>1 DEF PhaseStep, Moves
  <2> QED BY <1>12, <2>2, <2>3
<1> QED BY <1>10, <1>11, <1>14, <1>15 DEF GoodStep, LatchStep

\* The moves of handle that neither fail an attempt nor forward a chunk.
LEMMA PlainMoves ==
    ASSUME IInv, NEW r \in Request,
           \/ Opened(r) \/ Fault(r) \/ BodyEnds(r) \/ Drained(r) \/ Finish(r)
           \/ Close(r)
    PROVE  GoodStep(r)
<1>1. TypeOK /\ RequestInv(r) /\ r \in Request
  BY DEF IInv
<1>2. CASE Opened(r)
  <2>1. /\ pc[r] = "open" /\ WaitFor(r, "first") /\ waited' = waited
        /\ UNCHANGED <<known, heardAge, seenAge, cool, syncIn, plan, att,
                       committed, gone, head, servedBy, voices, terms, stats>>
    BY <1>2 DEF Opened, net, sel, wire
  <2>2. SelectorTypes' /\ ClientTypes' /\ StatsTypes'
    BY <1>1, <2>1 DEF TypeOK, SelectorTypes, ClientTypes, StatsTypes
  <2>3. ~committed[r] /\ "first" \in PCs \ {"idle", "drain", "stream"}
    BY <1>1, <2>1 DEF RequestInv, LatchInv, PreToken, PCs
  <2>4. pc[r] \in InnerAwaits
    BY <2>1 DEF InnerAwaits, PreToken
  <2>5. /\ IInv' /\ LatchStep(r) /\ pc'[r] = "first"
        /\ \A s \in Request \ {r} : Untouched(s)
    BY <2>1, <2>2, <2>3, <2>4, MoveStep
  <2>6. Phase(r)' = Phase(r)
    BY <2>1, <2>3, <2>5 DEF Phase, InnerAwaits, PreToken
  <2> QED BY <2>1, <2>5, <2>6 DEF GoodStep, PhaseStep
<1>3. CASE Fault(r) \/ Finish(r) \/ Close(r)
  <2>1. /\ GoTo(r, "done")
        /\ UNCHANGED <<known, heardAge, seenAge, cool, syncIn, plan, att,
                       committed, gone, head, servedBy, voices, terms>>
    BY <1>3 DEF Fault, Finish, Close, net, sel, wire
  <2>2. SelectorTypes' /\ ClientTypes'
    BY <1>1, <2>1 DEF TypeOK, SelectorTypes, ClientTypes
  <2>3. StatsTypes'
    <3>1. stats' = stats \/ stats' = [stats EXCEPT !.ok = @ + 1]
      BY <1>3 DEF Fault, Finish, Close
    <3> QED BY <1>1, <3>1 DEF TypeOK, StatsTypes
  <2>4. "done" \in PCs \ (InnerAwaits \cup PreToken \cup {"idle", "drain", "stream"})
    BY DEF PCs, InnerAwaits, PreToken
  <2>5. /\ IInv' /\ LatchStep(r) /\ pc'[r] = "done"
        /\ \A s \in Request \ {r} : Untouched(s)
    BY <2>1, <2>2, <2>3, <2>4, MoveStep
  <2>6. pc[r] \in InnerAwaits \cup {"reply", "term"}
    BY <1>3 DEF Fault, Finish, Close, InnerAwaits, PreToken
  <2>7. Phase(r)' = Phase(r) \/ <<Phase(r), Phase(r)'>> \in Moves
    <3>1. CASE pc[r] \in InnerAwaits /\ committed[r]
      <4>1. Phase(r) = "streaming"
        BY <1>1, <3>1 DEF Phase, RequestInv, LatchInv, InnerAwaits, PreToken
      <4>2. Phase(r)' \in {"ended", "lost"}
        BY <1>1, <2>1, <2>5, <3>1
        DEF Phase, RequestInv, LatchInv, InnerAwaits, PreToken
      <4> QED BY <4>1, <4>2 DEF Moves
    <3>2. CASE pc[r] \in InnerAwaits /\ ~committed[r]
      <4>1. Phase(r) = "waiting"
        BY <1>1, <3>2 DEF Phase, RequestInv, QuietInv, InnerAwaits, PreToken
      <4>2. Phase(r)' = "lost"
        BY <1>1, <2>1, <2>5, <3>2
        DEF Phase, RequestInv, QuietInv, InnerAwaits, PreToken
      <4> QED BY <4>1, <4>2 DEF Moves
    <3>3. CASE pc[r] \in {"reply", "term"}
      BY <2>1, <2>5, <3>3 DEF Phase, InnerAwaits, PreToken
    <3> QED BY <2>6, <3>1, <3>2, <3>3
  <2> QED BY <2>1, <2>5, <2>7 DEF GoodStep, PhaseStep
<1>4. CASE BodyEnds(r)
  <2>1. /\ pc[r] \in {"first", "stream"} /\ GoTo(r, "final")
        /\ terms' = [terms EXCEPT ![r] = @ + 1]
        /\ UNCHANGED <<known, heardAge, seenAge, cool, syncIn, plan, att,
                       committed, gone, head, servedBy, voices, stats>>
    BY <1>4 DEF BodyEnds, net, sel
  <2>2. SelectorTypes' /\ ClientTypes' /\ StatsTypes'
    BY <1>1, <2>1 DEF TypeOK, SelectorTypes, ClientTypes, StatsTypes
  <2>3. \A s \in Request \ {r} : terms'[s] = terms[s]
    BY <1>1, <2>1 DEF TypeOK, ClientTypes
  <2>4. /\ "final" \in PCs \ (PreToken \cup {"idle", "drain", "stream"})
        /\ pc[r] \in InnerAwaits
    BY <2>1 DEF PCs, InnerAwaits, PreToken
  <2>5. /\ IInv' /\ LatchStep(r) /\ pc'[r] = "final"
        /\ \A s \in Request \ {r} : Untouched(s)
    BY <2>1, <2>2, <2>3, <2>4, MoveStep
  <2>6. Phase(r)' = Phase(r)
    BY <2>1, <2>5 DEF Phase, InnerAwaits, PreToken
  <2> QED BY <2>1, <2>5, <2>6 DEF GoodStep, PhaseStep
<1>5. CASE Drained(r)
  <2>1. /\ pc[r] = "drain" /\ GoTo(r, "stream")
        /\ UNCHANGED <<known, heardAge, seenAge, cool, syncIn, plan, att,
                       committed, gone, head, servedBy, voices, terms, stats>>
    BY <1>5 DEF Drained, net, sel, wire
  <2>2. SelectorTypes' /\ ClientTypes' /\ StatsTypes'
    BY <1>1, <2>1 DEF TypeOK, SelectorTypes, ClientTypes, StatsTypes
  <2>3. /\ committed[r] /\ "stream" \in PCs \ (PreToken \cup {"idle"})
        /\ pc[r] \in InnerAwaits
    BY <1>1, <2>1 DEF RequestInv, QuietInv, PCs, InnerAwaits, PreToken
  <2>4. /\ IInv' /\ LatchStep(r) /\ pc'[r] = "stream"
        /\ \A s \in Request \ {r} : Untouched(s)
    BY <2>1, <2>2, <2>3, MoveStep
  <2>5. Phase(r)' = Phase(r)
    BY <2>1, <2>4 DEF Phase, InnerAwaits, PreToken
  <2> QED BY <2>1, <2>4, <2>5 DEF GoodStep, PhaseStep
<1> QED BY <1>2, <1>3, <1>4, <1>5

\* Every step of handle is a good one.
LEMMA HandleStep ==
    ASSUME IInv, NEW r \in Request, Handle(r)
    PROVE  GoodStep(r)
<1>1. TypeOK /\ \A s \in Request : RequestInv(s)
  BY DEF IInv
<1>2. CASE BadStatus(r)
  <2>1. pc[r] \in InnerAwaits /\ ~committed[r] /\ AttemptFails(r)
    BY <1>1, <1>2 DEF BadStatus, RequestInv, LatchInv, InnerAwaits, PreToken
  <2> QED BY <2>1, AttemptFailsStep
<1>3. CASE Refused(r) \/ Timeout(r) \/ Dropped(r) \/ DrainRaises(r)
  <2>1. pc[r] \in InnerAwaits /\ AttemptRaises(r)
    BY <1>3 DEF Refused, Timeout, Dropped, DrainRaises, InnerAwaits, PreToken
  <2> QED BY <2>1, AttemptRaisesStep
<1>4. CASE Token(r)
  BY <1>4, ForwardStep DEF Token
<1>5. CASE ClientLeaves(r)
  <2>1. /\ gone' = [gone EXCEPT ![r] = TRUE]
        /\ UNCHANGED <<known, heardAge, seenAge, cool, syncIn, pc, plan, att,
                       committed, left, head, servedBy, voices, terms, waited,
                       stats>>
    BY <1>5 DEF ClientLeaves, net, sel, wire
  <2>2. \A s \in Request : Untouched(s)
    BY <2>1 DEF Untouched
  <2>3. ClientTypes'
    BY <1>1, <2>1 DEF TypeOK, ClientTypes
  <2>4. SelectorTypes' /\ HandleTypes' /\ PlanTypes' /\ StatsTypes'
    BY <1>1, <2>1 DEF TypeOK, SelectorTypes, HandleTypes, PlanTypes, StatsTypes
  <2>5. IInv'
    BY <1>1, <2>2, <2>3, <2>4, UntouchedInv DEF IInv, TypeOK
  <2>6. LatchStep(r)
    BY <1>1, <2>1 DEF LatchStep, RequestInv, LatchInv
  <2>7. PhaseStep(r)
    BY <2>1 DEF PhaseStep, Phase
  <2> QED BY <2>2, <2>5, <2>6, <2>7 DEF GoodStep
<1> QED BY <1>2, <1>3, <1>4, <1>5, ArriveStep, PlainMoves DEF Handle

\* The telemetry, the clock and stuttering leave every request where it is.
LEMMA OtherStep ==
    ASSUME IInv,
           \/ \E w \in Worker : FrameAccepted(w)
           \/ Sync \/ Tick \/ UNCHANGED vars
    PROVE  IInv' /\ \A r \in Request : Untouched(r)
<1>1. TypeOK /\ \A s \in Request : RequestInv(s)
  BY DEF IInv
<1>2. /\ UNCHANGED <<pc, plan, att, committed, head, servedBy, voices, terms>>
      /\ UNCHANGED <<gone, stats>>
  BY DEF FrameAccepted, Sync, Tick, vars, sel, net, wire
<1>3. \A r \in Request : Untouched(r)
  BY <1>2 DEF Untouched
<1>4. PlanTypes' /\ ClientTypes' /\ StatsTypes'
  BY <1>1, <1>2 DEF TypeOK, PlanTypes, ClientTypes, StatsTypes
<1>5. SelectorTypes' /\ HandleTypes'
  <2>1. CASE \E w \in Worker : FrameAccepted(w)
    <3>1. PICK w \in Worker : FrameAccepted(w)
      BY <2>1
    <3>2. 0 \in Age
      BY SelectionAssumption DEF Age, Stale
    <3>3. SelectorTypes'
      BY <1>1, <3>1, <3>2 DEF FrameAccepted, sel, TypeOK, SelectorTypes
    <3> QED BY <1>1, <3>1, <3>3 DEF FrameAccepted, TypeOK, HandleTypes
  <2>2. CASE Sync
    <3>1. \A w \in Worker : Synced(w) \in Age
      BY <1>1 DEF TypeOK, SelectorTypes, Synced
    <3>2. SelectorTypes'
      BY <1>1, <2>2, <3>1, RouterAssumption DEF Sync, net, TypeOK, SelectorTypes
    <3> QED BY <1>1, <2>2, <3>2 DEF Sync, TypeOK, HandleTypes
  <2>3. CASE Tick
    <3>1. heardAge' \in [Worker -> Age] /\ seenAge' \in [Worker -> Age]
      BY <1>1, <2>3, OlderType DEF Tick, TypeOK, SelectorTypes
    <3>2. cool' \in [Worker -> 0 .. Cooldown] /\ syncIn' \in 0 .. SyncEvery
      BY <1>1, <2>3, SelectionAssumption, RouterAssumption
      DEF Tick, TypeOK, SelectorTypes
    <3>3. left' \in [Request -> 0 .. Deadline] /\ waited' \in [Request -> Nat]
      BY <1>1, <2>3, RouterAssumption DEF Tick, TypeOK, HandleTypes
    <3>4. known' = known
      BY <2>3 DEF Tick
    <3> QED
      BY <1>1, <1>2, <3>1, <3>2, <3>3, <3>4 DEF TypeOK, SelectorTypes, HandleTypes
  <2>4. CASE UNCHANGED vars
    BY <1>1, <2>4 DEF vars, net, sel, wire, TypeOK, SelectorTypes, HandleTypes
  <2> QED BY <2>1, <2>2, <2>3, <2>4
<1> QED BY <1>1, <1>3, <1>4, <1>5, UntouchedInv DEF IInv, TypeOK

\* The invariant is inductive.
LEMMA NextIInv == IInv /\ [Next]_vars => IInv'
BY HandleStep, OtherStep DEF Next, GoodStep

-----------------------------------------------------------------------------
(* The theorems. *)

\* The invariant holds in every reachable state.
THEOREM Invariant == Spec => []IInv
BY InitIInv, NextIInv, PTL DEF Spec

\* Every variable of the router stays in its range, for any set of workers and
\* requests and any deadlines (`handle`, `sync_from_ingest`).
THEOREM TypeCorrect == Spec => []TypeOK
<1>1. IInv => TypeOK
  BY DEF IInv
<1> QED BY <1>1, Invariant, PTL

\* The first-token contract: whatever workers fail and whatever is retried, the
\* chunks a client of `handle` reads come from the one worker its head names.
THEOREM OneVoiceHolds == Spec => []OneVoice
<1>1. IInv => OneVoice
  BY DEF IInv, RequestInv, LatchInv, QuietInv, OneVoice, TypeOK, HandleTypes
<1> QED BY <1>1, Invariant, PTL

\* Once a token was forwarded `handle` starts no attempt and changes neither the
\* worker nor the head of the response.
THEOREM LatchHolds == Spec => LatchIsOneWay
<1>1. IInv /\ [Next]_vars => \A r \in Request : LatchStep(r)
  <2> SUFFICES ASSUME IInv, [Next]_vars, NEW r \in Request PROVE LatchStep(r)
    OBVIOUS
  <2>1. Untouched(r) => LatchStep(r)
    BY DEF IInv, RequestInv, LatchInv, Untouched, LatchStep
  <2>2. CASE \E s \in Request : Handle(s)
    BY <2>1, <2>2, HandleStep DEF GoodStep
  <2>3. CASE ~ \E s \in Request : Handle(s)
    BY <2>1, <2>3, OtherStep DEF Next
  <2> QED BY <2>2, <2>3
<1>2. IInv /\ [Next]_vars =>
        [\A r \in Request :
          committed[r] => /\ committed'[r]
                          /\ pc'[r] \notin PreToken
                          /\ att'[r] = att[r]
                          /\ head'[r] = head[r]
                          /\ servedBy'[r] = servedBy[r]]_vars
  BY <1>1 DEF LatchStep
<1> QED BY <1>2, Invariant, PTL DEF Spec, LatchIsOneWay

\* The router implements the contract of FirstToken: what a client sees starts
\* idle, and every step of `handle`, of the telemetry copy and of the clock is a
\* step of the contract for one request, or changes nothing a client sees.
THEOREM Refinement == Spec => FirstTokenContract
<1>1. Init => Contract!Init
  BY DEF Init, Contract!Init, Phase
<1>2. IInv /\ [Next]_vars => [Contract!Next]_Contract!vars
  <2> SUFFICES ASSUME IInv, [Next]_vars PROVE [Contract!Next]_Contract!vars
    OBVIOUS
  <2>1. servedBy \in [Request -> Worker \cup {NoWorker}] /\ servedBy' \in [Request -> Worker \cup {NoWorker}]
    BY NextIInv DEF IInv, TypeOK, ClientTypes
  <2>2. \A q \in Request : Untouched(q) => Phase(q)' = Phase(q) /\ servedBy'[q] = servedBy[q]
    BY DEF Untouched, Phase
  <2>3. ASSUME NEW r \in Request, Handle(r) PROVE [Contract!Next]_Contract!vars
    <3>1. PhaseStep(r) /\ \A q \in Request \ {r} : Untouched(q)
      BY <2>3, HandleStep DEF GoodStep
    <3>2. \A q \in Request \ {r} : Phase(q)' = Phase(q) /\ servedBy'[q] = servedBy[q]
      BY <2>2, <3>1
    <3>3. CASE servedBy'[r] = servedBy[r] /\ Phase(r)' = Phase(r)
      <4>1. servedBy' = servedBy
        BY <2>1, <3>2, <3>3
      <4>2. [q \in Request |-> Phase(q)]' = [q \in Request |-> Phase(q)]
        BY <3>2, <3>3
      <4> QED BY <4>1, <4>2 DEF Contract!vars
    <3>4. CASE servedBy'[r] = servedBy[r] /\ <<Phase(r), Phase(r)'>> \in Moves
      <4>1. servedBy' = servedBy
        BY <2>1, <3>2, <3>4
      <4>2. [q \in Request |-> Phase(q)]'
              = [[q \in Request |-> Phase(q)] EXCEPT ![r] = Phase(r)']
        BY <3>2
      <4>3. [q \in Request |-> Phase(q)][r] = Phase(r)
        OBVIOUS
      <4>4. Contract!Accept(r) \/ Contract!End(r) \/ Contract!Refuse(r) \/ Contract!Lose(r)
        BY <3>4, <4>1, <4>2, <4>3
        DEF Moves, Contract!Accept, Contract!End, Contract!Refuse, Contract!Lose,
            Contract!Move
      <4> QED BY <4>4 DEF Contract!Next
    <3>5. CASE /\ Phase(r) = "waiting" /\ Phase(r)' = "streaming"
               /\ servedBy'[r] \in Worker
      <4>1. servedBy' = [servedBy EXCEPT ![r] = servedBy'[r]]
        BY <2>1, <3>2
      <4>2. [q \in Request |-> Phase(q)]'
              = [[q \in Request |-> Phase(q)] EXCEPT ![r] = "streaming"]
        BY <3>2, <3>5
      <4>3. Contract!Begin(r, servedBy'[r])
        BY <3>5, <4>1, <4>2 DEF Contract!Begin, Contract!Move
      <4> QED BY <3>5, <4>3 DEF Contract!Next
    <3> QED BY <3>1, <3>3, <3>4, <3>5 DEF PhaseStep
  <2>4. CASE ~ \E r \in Request : Handle(r)
    <3>1. \A q \in Request : Untouched(q)
      BY <2>4, OtherStep DEF Next
    <3>2. servedBy' = servedBy
      BY <2>1, <2>2, <3>1
    <3>3. [q \in Request |-> Phase(q)]' = [q \in Request |-> Phase(q)]
      BY <2>2, <3>1
    <3> QED BY <3>2, <3>3 DEF Contract!vars
  <2> QED BY <2>3, <2>4
<1> QED BY <1>1, <1>2, Invariant, PTL DEF Spec, FirstTokenContract, Contract!Spec

-----------------------------------------------------------------------------
(* What a step of handle(r) is, seen from outside: one of its turns.        *)

\* It goes to the await q, for attempt a, with the head h and t terminators written.
Turn(r, q, a, h, t) ==
    /\ pc'[r] = q /\ att'[r] = a /\ head'[r] = h /\ terms'[r] = t
    /\ gone'[r] = gone[r]
    /\ q \in PreToken => left'[r] = Deadline /\ waited'[r] = waited[r]
    /\ q \notin PreToken => waited'[r] = 0

Trips(r) == cool' = [cool EXCEPT ![Current(r)] = Cooldown]

\* An await that may raise in an attempt: a drain raises only if the client left.
CanRaise(r) == pc[r] \in InnerAwaits /\ (pc[r] \in {"drain", "final"} => gone[r])

Planned(r) ==
    /\ pc[r] = "idle" /\ Turn(r, "open", att[r], head[r], terms[r])
    /\ stats' = [stats EXCEPT !.requests = @ + 1] /\ cool' = cool
Refused503(r) ==
    /\ pc[r] = "idle" /\ Turn(r, "reply", att[r], Apology, terms[r])
    /\ stats' = [stats EXCEPT !.requests = @ + 1, !.no_capacity = @ + 1] /\ cool' = cool
Retried(r) ==
    /\ CanRaise(r) /\ ~committed[r] /\ att[r] < Attempts(r)
    /\ Turn(r, "open", att[r] + 1, head[r], terms[r])
    /\ stats' = [stats EXCEPT !.failovers = @ + 1] /\ Trips(r)
GivenUp(r) ==
    /\ CanRaise(r) /\ ~committed[r]
    /\ Turn(r, "reply", att[r], Apology, terms[r])
    /\ stats' = [stats EXCEPT !.no_capacity = @ + 1] /\ Trips(r)
Truncated(r) ==
    /\ CanRaise(r) /\ committed[r]
    /\ Turn(r, "term", att[r], head[r], terms[r] + 1)
    /\ stats' = [stats EXCEPT !.midstream_failfast = @ + 1] /\ Trips(r)
Forwarded(r) ==
    /\ pc[r] \in {"first", "stream"} /\ Turn(r, "drain", att[r], "stream", terms[r])
    /\ stats' = stats /\ cool' = cool
Moved(r) ==
    /\ \/ pc[r] = "open" /\ Turn(r, "first", att[r], head[r], terms[r])
       \/ pc[r] \in {"first", "stream"} /\ Turn(r, "final", att[r], head[r], terms[r] + 1)
       \/ pc[r] = "drain" /\ ~gone[r] /\ Turn(r, "stream", att[r], head[r], terms[r])
       \/ pc[r] \in {"open", "first", "stream"} /\ Turn(r, "done", att[r], head[r], terms[r])
       \/ pc[r] \in {"reply", "term"} /\ Turn(r, "done", att[r], head[r], terms[r])
    /\ stats' = stats /\ cool' = cool
Finished(r) ==
    /\ pc[r] = "final" /\ ~gone[r] /\ Turn(r, "done", att[r], head[r], terms[r])
    /\ stats' = [stats EXCEPT !.ok = @ + 1] /\ cool' = cool
Departed(r) ==
    /\ pc[r] \notin {"idle", "done"} /\ Untouched(r) /\ gone'[r]
    /\ left'[r] = left[r] /\ waited'[r] = waited[r]
    /\ stats' = stats /\ cool' = cool

AnyTurn(r) ==
    \/ Planned(r) \/ Refused503(r) \/ Retried(r) \/ GivenUp(r) \/ Truncated(r)
    \/ Forwarded(r) \/ Moved(r) \/ Finished(r) \/ Departed(r)

\* A request that another one's step leaves alone, with its clocks.
Aside(s) == Untouched(s) /\ gone'[s] = gone[s] /\ left'[s] = left[s] /\ waited'[s] = waited[s]

\* The turns that go through GoTo, and those that start a deadline.
LEMMA GoToTurn ==
    ASSUME TypeOK, NEW r \in Request, NEW q \in PCs \ PreToken, GoTo(r, q),
           NEW a, NEW h, NEW t, att'[r] = a, head'[r] = h, terms'[r] = t, gone' = gone
    PROVE  Turn(r, q, a, h, t) /\ \A s \in Request \ {r} : left'[s] = left[s] /\ waited'[s] = waited[s]
BY DEF TypeOK, HandleTypes, GoTo, Turn

LEMMA WaitForTurn ==
    ASSUME TypeOK, NEW r \in Request, NEW q \in PreToken, WaitFor(r, q), waited' = waited,
           NEW a, NEW h, NEW t, att'[r] = a, head'[r] = h, terms'[r] = t, gone' = gone
    PROVE  Turn(r, q, a, h, t) /\ \A s \in Request \ {r} : left'[s] = left[s] /\ waited'[s] = waited[s]
BY DEF TypeOK, HandleTypes, WaitFor, Turn

LEMMA FailTurn ==
    ASSUME TypeOK, NEW r \in Request, CanRaise(r), ~committed[r], AttemptFails(r)
    PROVE  /\ Retried(r) \/ GivenUp(r)
           /\ \A s \in Request \ {r} : left'[s] = left[s] /\ waited'[s] = waited[s]
           /\ gone' = gone
<1>1. gone' = gone /\ terms' = terms /\ Trips(r)
  BY DEF AttemptFails, TripBreaker, Trips
<1>2. CASE /\ att[r] < Attempts(r)
           /\ stats' = [stats EXCEPT !.failovers = @ + 1]
           /\ att' = [att EXCEPT ![r] = @ + 1]
           /\ WaitFor(r, "open")
           /\ UNCHANGED <<head, waited>>
  <2>1. att'[r] = att[r] + 1 /\ head'[r] = head[r] /\ terms'[r] = terms[r]
    BY <1>1, <1>2 DEF TypeOK, HandleTypes
  <2>2. /\ Turn(r, "open", att[r] + 1, head[r], terms[r])
        /\ \A s \in Request \ {r} : left'[s] = left[s] /\ waited'[s] = waited[s]
    BY <1>1, <1>2, <2>1, WaitForTurn DEF PreToken
  <2> QED
    BY <1>1, <1>2, <2>2 DEF Retried
<1>3. CASE /\ att[r] = Attempts(r)
           /\ stats' = [stats EXCEPT !.no_capacity = @ + 1]
           /\ head' = [head EXCEPT ![r] = Apology]
           /\ GoTo(r, "reply")
           /\ UNCHANGED att
  <2>1. att'[r] = att[r] /\ head'[r] = Apology /\ terms'[r] = terms[r]
    BY <1>1, <1>3 DEF TypeOK, ClientTypes
  <2>2. /\ Turn(r, "reply", att[r], Apology, terms[r])
        /\ \A s \in Request \ {r} : left'[s] = left[s] /\ waited'[s] = waited[s]
    BY <1>1, <1>3, <2>1, GoToTurn DEF PreToken, PCs
  <2> QED
    BY <1>1, <1>3, <2>2 DEF GivenUp
<1> QED
  BY <1>1, <1>2, <1>3 DEF AttemptFails

LEMMA TruncateTurn ==
    ASSUME TypeOK, NEW r \in Request, CanRaise(r), committed[r], MidstreamFails(r)
    PROVE  /\ Truncated(r)
           /\ \A s \in Request \ {r} : left'[s] = left[s] /\ waited'[s] = waited[s]
           /\ gone' = gone
<1>1. /\ gone' = gone /\ att'[r] = att[r] /\ head'[r] = head[r] /\ GoTo(r, "term")
      /\ stats' = [stats EXCEPT !.midstream_failfast = @ + 1] /\ Trips(r)
  BY DEF MidstreamFails, TripBreaker, Trips
<1>2. terms'[r] = terms[r] + 1
  BY DEF MidstreamFails, TypeOK, ClientTypes
<1>3. /\ Turn(r, "term", att[r], head[r], terms[r] + 1)
      /\ \A s \in Request \ {r} : left'[s] = left[s] /\ waited'[s] = waited[s]
  BY <1>1, <1>2, GoToTurn DEF PreToken, PCs
<1> QED
  BY <1>1, <1>3 DEF Truncated

\* Every step of handle(r) is a turn of r, and leaves the other requests aside.
LEMMA Turns ==
    ASSUME IInv, NEW r \in Request, Handle(r)
    PROVE  AnyTurn(r) /\ \A s \in Request \ {r} : Aside(s)
<1>0. TypeOK /\ RequestInv(r) /\ \A s \in Request \ {r} : Untouched(s)
  BY HandleStep DEF IInv, GoodStep
<1> DEFINE Rest == \A s \in Request \ {r} : left'[s] = left[s] /\ waited'[s] = waited[s]
<1> SUFFICES AnyTurn(r) /\ Rest /\ \A s \in Request \ {r} : gone'[s] = gone[s]
  BY <1>0 DEF Aside
<1>1. CASE BadStatus(r)
  <2>1. CanRaise(r) /\ ~committed[r] /\ AttemptFails(r)
    BY <1>0, <1>1 DEF BadStatus, CanRaise, InnerAwaits, PreToken, RequestInv, LatchInv
  <2> QED
    BY <1>0, <2>1, FailTurn DEF AnyTurn
<1>2. CASE Refused(r) \/ Timeout(r) \/ Dropped(r) \/ DrainRaises(r)
  <2>1. CanRaise(r) /\ AttemptRaises(r)
    BY <1>2 DEF Refused, Timeout, Dropped, DrainRaises, CanRaise, InnerAwaits, PreToken
  <2>2. CASE committed[r]
    BY <1>0, <2>1, <2>2, TruncateTurn DEF AttemptRaises, AnyTurn
  <2>3. CASE ~committed[r]
    BY <1>0, <2>1, <2>3, FailTurn DEF AttemptRaises, AnyTurn
  <2> QED
    BY <2>2, <2>3
<1>3. CASE Arrive(r)
  <2>1. /\ pc[r] = "idle" /\ gone' = gone /\ terms' = terms /\ att' = att /\ cool' = cool
    BY <1>3 DEF Arrive, sel
  <2>2. \/ /\ stats' = [stats EXCEPT !.requests = @ + 1]
           /\ WaitFor(r, "open")
           /\ UNCHANGED <<head, waited>>
        \/ /\ stats' = [stats EXCEPT !.requests = @ + 1, !.no_capacity = @ + 1]
           /\ head' = [head EXCEPT ![r] = Apology]
           /\ GoTo(r, "reply")
    BY <1>3 DEF Arrive
  <2>3. CASE /\ stats' = [stats EXCEPT !.requests = @ + 1]
             /\ WaitFor(r, "open")
             /\ UNCHANGED <<head, waited>>
    <3>1. Turn(r, "open", att[r], head[r], terms[r]) /\ Rest
      BY <1>0, <2>1, <2>3, WaitForTurn DEF PreToken
    <3> QED
      BY <2>1, <2>3, <3>1 DEF AnyTurn, Planned
  <2>4. CASE /\ stats' = [stats EXCEPT !.requests = @ + 1, !.no_capacity = @ + 1]
             /\ head' = [head EXCEPT ![r] = Apology]
             /\ GoTo(r, "reply")
    <3>1. head'[r] = Apology
      BY <1>0, <2>4 DEF TypeOK, ClientTypes
    <3>2. Turn(r, "reply", att[r], Apology, terms[r]) /\ Rest
      BY <1>0, <2>1, <2>4, <3>1, GoToTurn DEF PreToken, PCs
    <3> QED
      BY <2>1, <2>4, <3>2 DEF AnyTurn, Refused503
  <2> QED
    BY <2>2, <2>3, <2>4
<1>4. CASE Opened(r)
  <2>1. /\ pc[r] = "open" /\ WaitFor(r, "first") /\ waited' = waited
        /\ UNCHANGED <<att, head, terms, gone, stats, cool>>
    BY <1>4 DEF Opened, sel, wire
  <2>2. Turn(r, "first", att[r], head[r], terms[r]) /\ Rest
    BY <1>0, <2>1, WaitForTurn DEF PreToken
  <2> QED
    BY <2>1, <2>2 DEF AnyTurn, Moved
<1>5. CASE Token(r)
  <2>1. /\ pc[r] \in {"first", "stream"} /\ GoTo(r, "drain")
        /\ UNCHANGED <<att, terms, gone, stats, cool>>
    BY <1>5 DEF Token, Forward, sel
  <2>2. head'[r] = "stream"
    <3>1. CASE committed[r]
      BY <1>0, <1>5, <3>1 DEF Token, Forward, RequestInv, LatchInv
    <3>2. CASE ~committed[r]
      BY <1>0, <1>5, <3>2 DEF Token, Forward, TypeOK, ClientTypes
    <3> QED
      BY <3>1, <3>2
  <2>3. Turn(r, "drain", att[r], "stream", terms[r]) /\ Rest
    BY <1>0, <2>1, <2>2, GoToTurn DEF PreToken, PCs
  <2> QED
    BY <2>1, <2>3 DEF AnyTurn, Forwarded
<1>6. CASE BodyEnds(r)
  <2>1. /\ pc[r] \in {"first", "stream"} /\ GoTo(r, "final")
        /\ terms' = [terms EXCEPT ![r] = @ + 1]
        /\ UNCHANGED <<att, head, gone, stats, cool>>
    BY <1>6 DEF BodyEnds, sel
  <2>2. terms'[r] = terms[r] + 1
    BY <1>0, <2>1 DEF TypeOK, ClientTypes
  <2>3. Turn(r, "final", att[r], head[r], terms[r] + 1) /\ Rest
    BY <1>0, <2>1, <2>2, GoToTurn DEF PreToken, PCs
  <2> QED
    BY <2>1, <2>3 DEF AnyTurn, Moved
<1>7. CASE Drained(r)
  <2>1. /\ pc[r] = "drain" /\ ~gone[r] /\ GoTo(r, "stream")
        /\ UNCHANGED <<att, head, terms, gone, stats, cool>>
    BY <1>7 DEF Drained, sel, wire
  <2>2. Turn(r, "stream", att[r], head[r], terms[r]) /\ Rest
    BY <1>0, <2>1, GoToTurn DEF PreToken, PCs
  <2> QED
    BY <2>1, <2>2 DEF AnyTurn, Moved
<1>8. CASE Fault(r) \/ Finish(r) \/ Close(r)
  <2>1. GoTo(r, "done") /\ UNCHANGED <<att, head, terms, gone, cool>>
    BY <1>8 DEF Fault, Finish, Close, sel, wire
  <2>2. Turn(r, "done", att[r], head[r], terms[r]) /\ Rest
    BY <1>0, <2>1, GoToTurn DEF PreToken, PCs
  <2>3. \/ pc[r] \in {"open", "first", "stream"} /\ stats' = stats
        \/ pc[r] = "final" /\ ~gone[r] /\ stats' = [stats EXCEPT !.ok = @ + 1]
        \/ pc[r] \in {"reply", "term"} /\ stats' = stats
    BY <1>8 DEF Fault, Finish, Close
  <2> QED
    BY <2>1, <2>2, <2>3 DEF AnyTurn, Moved, Finished
<1>9. CASE ClientLeaves(r)
  <2>1. /\ pc[r] \notin {"idle", "done"} /\ gone' = [gone EXCEPT ![r] = TRUE]
        /\ UNCHANGED <<pc, plan, att, committed, left, head, servedBy, voices, terms,
                       waited, stats, cool>>
    BY <1>9 DEF ClientLeaves, sel, wire
  <2>2. gone'[r] /\ \A s \in Request \ {r} : gone'[s] = gone[s]
    BY <1>0, <2>1 DEF TypeOK, ClientTypes
  <2> QED
    BY <2>1, <2>2 DEF AnyTurn, Departed, Untouched
<1>10. ~ClientLeaves(r) => gone' = gone
  BY <1>0 DEF Handle, Arrive, Opened, BadStatus, Refused, Timeout, Dropped, Fault, Token, BodyEnds,
      Drained, DrainRaises, Finish, Close, AttemptRaises, MidstreamFails, AttemptFails, Forward
<1> QED
  BY <1>1, <1>2, <1>3, <1>4, <1>5, <1>6, <1>7, <1>8, <1>9, <1>10 DEF Handle

\* The clock is the only other step that touches a request.
LEMMA Outside ==
    ASSUME IInv,
           \/ \E w \in Worker : FrameAccepted(w)
           \/ Sync \/ Tick \/ UNCHANGED vars
    PROVE  /\ UNCHANGED <<pc, plan, att, committed, head, terms, gone, stats>>
           /\ \A w \in Worker : cool'[w] <= cool[w]
           /\ \A r \in Request :
                 \/ left'[r] = left[r] /\ waited'[r] = waited[r]
                 \/ pc[r] \in PreToken /\ left'[r] = left[r] - 1 /\ waited'[r] = waited[r] + 1
<1>1. UNCHANGED <<pc, plan, att, committed, head, terms, gone, stats>>
  BY DEF FrameAccepted, Sync, Tick, vars, wire
<1>2. \A w \in Worker : cool[w] \in Nat
  BY SelectionAssumption DEF IInv, TypeOK, SelectorTypes
<1>3. CASE Tick
  BY <1>1, <1>2, <1>3 DEF Tick
<1>4. CASE ~Tick
  BY <1>1, <1>2, <1>4 DEF FrameAccepted, Sync, vars, sel
<1> QED
  BY <1>3, <1>4

\* Only handle(r) moves request r.
LEMMA OwnStep ==
    ASSUME IInv, [Next]_vars, NEW r \in Request, pc'[r] # pc[r]
    PROVE  Handle(r)
<1>1. ASSUME NEW s \in Request \ {r}, Handle(s) PROVE FALSE
  BY <1>1, Turns DEF Aside, Untouched
<1>2. \E s \in Request : Handle(s)
  BY Outside DEF Next
<1> QED
  BY <1>1, <1>2

-----------------------------------------------------------------------------
(* The inductive invariant: besides IInv, for every request, what its client *)
(* has been told and how long it has waited so far, and the counters.       *)

\* The wait before attempt a + 1.
Span(a) == 2 * Deadline * a

\* What is left of a deadline is still owed to the client.
WaitInv(r) ==
    /\ pc[r] = "open" => waited[r] + left[r] + Deadline <= Span(att[r])
    /\ pc[r] = "first" => waited[r] + left[r] <= Span(att[r])
    /\ pc[r] \notin PreToken => waited[r] = 0

\* An end of stream is written last, and once, unless the client left before
\* the drain after it: then its exception may start over.
FrameInv(r) ==
    /\ pc[r] = "idle" => terms[r] = 0 /\ ~gone[r]
    /\ pc[r] \in {"open", "first", "drain", "reply"} => gone[r] \/ terms[r] = 0
    /\ pc[r] = "stream" => terms[r] = 0
    /\ pc[r] \in {"final", "term"} => terms[r] > 0
    /\ pc[r] = "term" => head[r] = "stream"
    /\ pc[r] = "reply" => head[r] \in {"whale", "503"}
    /\ gone[r] \/ terms[r] <= 1
    /\ head[r] \in {"whale", "503"} => /\ pc[r] \in {"reply", "done"}
                                       /\ gone[r] \/ terms[r] = 0

PlanInv(r) == Attempts(r) <= MaxAttempts

LEMMA SpanType ==
    ASSUME NEW a \in Nat
    PROVE  Span(a) \in Nat /\ Span(a + 1) = Span(a) + Deadline + Deadline
BY RouterAssumption DEF Span

LEMMA SpanGrows ==
    ASSUME NEW a \in Nat, NEW b \in Nat, a <= b
    PROVE  Span(a) <= Span(b)
<1>1. PICK d \in Nat : b = a + d
  <2>1. b - a \in Nat /\ b = a + (b - a)
    OBVIOUS
  <2> QED
    BY <2>1
<1>2. \A x, y, z \in Nat : x * (y + z) = x * y + x * z /\ x * y \in Nat
  OBVIOUS
<1>3. 2 * Deadline \in Nat
  BY RouterAssumption
<1>4. (2 * Deadline) * (a + d) = (2 * Deadline) * a + (2 * Deadline) * d
      /\ (2 * Deadline) * a \in Nat /\ (2 * Deadline) * d \in Nat
  BY <1>2, <1>3
<1>5. Span(a) = (2 * Deadline) * a /\ Span(b) = (2 * Deadline) * (a + d)
  BY <1>1 DEF Span
<1> QED
  BY <1>4, <1>5

LEMMA ClockTypes ==
    ASSUME TypeOK, NEW r \in Request
    PROVE  /\ waited[r] \in Nat /\ left[r] \in Nat /\ att[r] \in Nat /\ att[r] >= 1
           /\ terms[r] \in Nat /\ gone[r] \in BOOLEAN /\ pc[r] \in PCs
           /\ committed[r] \in BOOLEAN /\ Deadline \in Nat
BY RouterAssumption DEF TypeOK, HandleTypes, ClientTypes

LEMMA WaitTurn ==
    ASSUME IInv, NEW r \in Request, WaitInv(r), AnyTurn(r)
    PROVE  WaitInv(r)'
<1>1. /\ waited[r] \in Nat /\ left[r] \in Nat /\ att[r] \in Nat /\ att[r] >= 1 /\ Deadline \in Nat
      /\ pc[r] \in PCs
  BY ClockTypes DEF IInv
<1>2. Span(att[r]) \in Nat /\ Span(att[r] + 1) = Span(att[r]) + Deadline + Deadline
  BY <1>1, SpanType
<1>3. CASE Planned(r)
  <2>1. att[r] = 1 /\ waited[r] = 0
    BY <1>3 DEF Planned, IInv, RequestInv, AttInv, WaitInv, PreToken
  <2>2. Span(1) = Deadline + Deadline
    BY <1>1, SpanType DEF Span
  <2> QED
    BY <1>1, <1>3, <2>1, <2>2 DEF Planned, Turn, WaitInv, PreToken
<1>4. CASE Retried(r)
  <2>1. waited[r] <= Span(att[r])
    BY <1>1, <1>2 DEF WaitInv, PreToken
  <2>2. /\ pc'[r] = "open" /\ att'[r] = att[r] + 1 /\ left'[r] = Deadline
        /\ waited'[r] = waited[r]
    BY <1>4 DEF Retried, Turn, PreToken
  <2> QED
    BY <1>1, <1>2, <2>1, <2>2 DEF WaitInv, PreToken
<1>5. CASE Refused503(r) \/ GivenUp(r) \/ Truncated(r) \/ Forwarded(r) \/ Finished(r)
  BY <1>5 DEF Refused503, GivenUp, Truncated, Forwarded, Finished, Turn, WaitInv, PreToken
<1>6. CASE Moved(r)
  BY <1>1, <1>2, <1>6 DEF Moved, Turn, WaitInv, PreToken
<1>7. CASE Departed(r)
  BY <1>7 DEF Departed, Untouched, WaitInv
<1> QED
  BY <1>3, <1>4, <1>5, <1>6, <1>7 DEF AnyTurn

LEMMA FrameTurn ==
    ASSUME IInv, NEW r \in Request, FrameInv(r), AnyTurn(r)
    PROVE  FrameInv(r)'
<1>1. RequestInv(r) /\ terms[r] \in Nat
  BY ClockTypes DEF IInv
<1>2. CASE Planned(r)
  BY <1>1, <1>2 DEF Planned, Turn, FrameInv, RequestInv, QuietInv, LatchInv, InnerAwaits, PreToken
<1>3. CASE Refused503(r)
  BY <1>1, <1>3 DEF Refused503, Turn, FrameInv, Apology, PreToken
<1>4. CASE Retried(r)
  BY <1>1, <1>4 DEF Retried, CanRaise, Turn, FrameInv, RequestInv, QuietInv, InnerAwaits, PreToken
<1>5. CASE GivenUp(r)
  BY <1>1, <1>5 DEF GivenUp, CanRaise, Turn, FrameInv, Apology, InnerAwaits, PreToken
<1>6. CASE Truncated(r)
  BY <1>1, <1>6 DEF Truncated, CanRaise, Turn, FrameInv, RequestInv, LatchInv, InnerAwaits, PreToken
<1>7. CASE Forwarded(r)
  BY <1>1, <1>7 DEF Forwarded, Turn, FrameInv, PreToken
<1>8. CASE Moved(r)
  BY <1>1, <1>8 DEF Moved, Turn, FrameInv, PreToken
<1>9. CASE Finished(r)
  BY <1>1, <1>9 DEF Finished, Turn, FrameInv, PreToken
<1>10. CASE Departed(r)
  BY <1>1, <1>10 DEF Departed, Untouched, FrameInv
<1> QED
  BY <1>2, <1>3, <1>4, <1>5, <1>6, <1>7, <1>8, <1>9, <1>10 DEF AnyTurn

\* A retry plan has at most MaxAttempts workers, each eligible and named once.
LEMMA RetryPlansLegal ==
    ASSUME NEW S, S \subseteq Worker, NEW p \in RetryPlans(S)
    PROVE  /\ Len(p) \in Nat /\ Len(p) <= MaxAttempts
           /\ DOMAIN p = 1 .. Len(p)
           /\ \A i \in DOMAIN p : p[i] \in S
           /\ \A i, j \in DOMAIN p : p[i] = p[j] => i = j
<1> DEFINE n == Cardinality(S)
           k == IF n < MaxAttempts THEN n ELSE MaxAttempts
<1>1. n \in Nat
  BY SelectionAssumption, FS_Subset, FS_CardinalityType
<1>2. k \in Nat /\ k <= MaxAttempts
  BY <1>1, SelectionAssumption
<1>3. p \in [1 .. k -> S] /\ \A i, j \in 1 .. k : p[i] = p[j] => i = j
  BY DEF RetryPlans
<1> HIDE DEF k
<1>4. Len(p) = k /\ DOMAIN p = 1 .. k
  BY <1>2, <1>3
<1> QED
  BY <1>2, <1>3, <1>4

LEMMA PlanTurn ==
    ASSUME IInv, NEW r \in Request, Handle(r), NEW s \in Request, PlanInv(s)
    PROVE  PlanInv(s)'
<1>1. CASE plan'[s] = plan[s]
  BY <1>1 DEF PlanInv, Attempts
<1>2. CASE plan'[s] # plan[s]
  <2>1. Arrive(r)
    BY <1>2 DEF Handle, Opened, BadStatus, Refused, Timeout, Dropped, Fault, Token, BodyEnds,
       Drained, DrainRaises, Finish, Close, ClientLeaves, AttemptRaises, MidstreamFails,
       AttemptFails, Forward
  <2>2. PICK p \in RetryPlans(Eligible(seenAge, cool)) : plan' = [plan EXCEPT ![r] = p]
    BY <1>2, <2>1 DEF Arrive
  <2>3. plan'[s] = p
    BY <1>2, <2>2 DEF IInv, TypeOK, PlanTypes
  <2>4. Len(p) <= MaxAttempts
    BY RetryPlansLegal DEF Eligible
  <2> QED
    BY <2>3, <2>4 DEF PlanInv, Attempts
<1> QED
  BY <1>1, <1>2

-----------------------------------------------------------------------------
(* The counters.  They are compared with the sizes of sets of requests, and *)
(* a step changes each of these sets at one request at most.                *)

One(b) == IF b THEN 1 ELSE 0

LEMMA ChangeAtOne ==
    ASSUME NEW S, NEW T, NEW x, IsFiniteSet(S), S \ {x} = T \ {x}
    PROVE  /\ IsFiniteSet(T)
           /\ Cardinality(S) \in Nat /\ Cardinality(T) \in Nat
           /\ Cardinality(T) + One(x \in S) = Cardinality(S) + One(x \in T)
<1>1. IsFiniteSet(S \ {x}) /\ Cardinality(S) \in Nat /\ Cardinality(S \ {x}) \in Nat
  BY FS_RemoveElement, FS_CardinalityType
<1>2. Cardinality(S) = Cardinality(S \ {x}) + One(x \in S)
  BY <1>1, FS_RemoveElement DEF One
<1>3. CASE x \in T
  <2>1. T = (S \ {x}) \cup {x} /\ x \notin S \ {x}
    BY <1>3
  <2>2. IsFiniteSet(T) /\ Cardinality(T) = Cardinality(S \ {x}) + 1
    BY <1>1, <2>1, FS_AddElement
  <2> QED
    BY <1>1, <1>2, <1>3, <2>2 DEF One
<1>4. CASE x \notin T
  <2>1. T = S \ {x}
    BY <1>4
  <2> QED
    BY <1>1, <1>2, <1>4, <2>1 DEF One
<1> QED
  BY <1>3, <1>4

Counted   == {r \in Request : pc[r] # "idle"}
FailedOver == {x \in Request \X (1 .. MaxAttempts) : x[2] < att[x[1]]}

IsCut(r) ==
    /\ pc[r] = "done"
    /\ \/ head[r] = "none" /\ (terms[r] = 0 \/ gone[r])
       \/ head[r] = "stream" /\ terms[r] = 0

LEMMA Finite ==
    /\ IsFiniteSet(Counted) /\ IsFiniteSet(InFlight) /\ IsFiniteSet(Cut)
    /\ IsFiniteSet(FailedOver)
<1>1. IsFiniteSet(Request) /\ IsFiniteSet(1 .. MaxAttempts)
  BY RouterAssumption, SelectionAssumption, FS_Interval
<1>2. IsFiniteSet(Request \X (1 .. MaxAttempts))
  BY <1>1, FS_Product
<1> QED
  BY <1>1, <1>2, FS_Subset DEF Counted, InFlight, Cut, FailedOver

\* The sizes of the three sets of requests after a step of handle(r).
LEMMA Sizes ==
    ASSUME NEW r \in Request, \A s \in Request \ {r} : Aside(s)
    PROVE  /\ Cardinality(Counted') + One(pc[r] # "idle") = Cardinality(Counted) + One(pc'[r] # "idle")
           /\ Cardinality(InFlight') + One(pc[r] \in InnerAwaits)
                = Cardinality(InFlight) + One(pc'[r] \in InnerAwaits)
           /\ Cardinality(Cut') + One(IsCut(r)) = Cardinality(Cut) + One(IsCut(r)')
           /\ Cardinality(Counted) \in Nat /\ Cardinality(Counted') \in Nat
           /\ Cardinality(InFlight) \in Nat /\ Cardinality(InFlight') \in Nat
           /\ Cardinality(Cut) \in Nat /\ Cardinality(Cut') \in Nat
<1>1. Counted \ {r} = Counted' \ {r} /\ (r \in Counted <=> pc[r] # "idle")
      /\ (r \in Counted' <=> pc'[r] # "idle")
  BY DEF Counted, Aside, Untouched
<1>2. InFlight \ {r} = InFlight' \ {r} /\ (r \in InFlight <=> pc[r] \in InnerAwaits)
      /\ (r \in InFlight' <=> pc'[r] \in InnerAwaits)
  BY DEF InFlight, Aside, Untouched
<1>3. Cut \ {r} = Cut' \ {r} /\ (r \in Cut <=> IsCut(r)) /\ (r \in Cut' <=> IsCut(r)')
  BY DEF Cut, IsCut, Aside, Untouched
<1>4. /\ Cardinality(Counted) \in Nat /\ Cardinality(Counted') \in Nat
      /\ Cardinality(Counted') + One(r \in Counted) = Cardinality(Counted) + One(r \in Counted')
  BY <1>1, Finite, ChangeAtOne
<1>5. /\ Cardinality(InFlight) \in Nat /\ Cardinality(InFlight') \in Nat
      /\ Cardinality(InFlight') + One(r \in InFlight) = Cardinality(InFlight) + One(r \in InFlight')
  BY <1>2, Finite, ChangeAtOne
<1>6. /\ Cardinality(Cut) \in Nat /\ Cardinality(Cut') \in Nat
      /\ Cardinality(Cut') + One(r \in Cut) = Cardinality(Cut) + One(r \in Cut')
  BY <1>3, Finite, ChangeAtOne
<1> QED
  BY <1>1, <1>2, <1>3, <1>4, <1>5, <1>6 DEF One

\* A failover is a pair of a request and an attempt it has left behind.
LEMMA Failovers ==
    ASSUME IInv, NEW r \in Request, \A s \in Request \ {r} : Aside(s), PlanInv(r)
    PROVE  /\ att'[r] = att[r] => FailedOver' = FailedOver
           /\ att'[r] = att[r] + 1 /\ att[r] < Attempts(r) =>
                Cardinality(FailedOver') = Cardinality(FailedOver) + 1
           /\ Cardinality(FailedOver) \in Nat
<1>1. \A s \in Request \ {r} : att'[s] = att[s]
  BY DEF Aside, Untouched
<1>2. att[r] \in Nat /\ att[r] >= 1
  BY ClockTypes DEF IInv
<1>3. att'[r] = att[r] => FailedOver' = FailedOver
  BY <1>1 DEF FailedOver
<1>4. ASSUME att'[r] = att[r] + 1, att[r] < Attempts(r)
      PROVE  Cardinality(FailedOver') = Cardinality(FailedOver) + 1
  <2>1. Attempts(r) \in Nat
    BY DEF IInv, TypeOK, PlanTypes, Attempts
  <2>2. att[r] \in 1 .. MaxAttempts
    BY <1>2, <1>4, <2>1, SelectionAssumption DEF PlanInv
  <2>3. FailedOver' = FailedOver \cup {<<r, att[r]>>}
    <3>1. ASSUME NEW s \in Request, NEW i \in 1 .. MaxAttempts
          PROVE  i < att'[s] <=> i < att[s] \/ <<s, i>> = <<r, att[r]>>
      BY <1>1, <1>2, <1>4
    <3> QED
      BY <2>2, <3>1 DEF FailedOver
  <2>4. <<r, att[r]>> \notin FailedOver
    BY <1>2 DEF FailedOver
  <2> QED
    BY <2>3, <2>4, Finite, FS_AddElement
<1> QED
  BY <1>3, <1>4, Finite, FS_CardinalityType

\* What a turn adds to the counters of /__stats.
Adds(requests, failovers, midstream, refused, ok) ==
    /\ stats'.requests = stats.requests + requests
    /\ stats'.failovers = stats.failovers + failovers
    /\ stats'.midstream_failfast = stats.midstream_failfast + midstream
    /\ stats'.no_capacity = stats.no_capacity + refused
    /\ stats'.ok = stats.ok + ok

LEMMA StatsTurn ==
    ASSUME IInv, NEW r \in Request, AnyTurn(r)
    PROVE  \/ Planned(r) /\ Adds(1, 0, 0, 0, 0)
           \/ Refused503(r) /\ Adds(1, 0, 0, 1, 0)
           \/ Retried(r) /\ Adds(0, 1, 0, 0, 0)
           \/ GivenUp(r) /\ Adds(0, 0, 0, 1, 0)
           \/ Truncated(r) /\ Adds(0, 0, 1, 0, 0)
           \/ Finished(r) /\ Adds(0, 0, 0, 0, 1)
           \/ (Forwarded(r) \/ Moved(r) \/ Departed(r)) /\ Adds(0, 0, 0, 0, 0)
<1>1. stats \in [requests : Nat, failovers : Nat, midstream_failfast : Nat, no_capacity : Nat, ok : Nat]
  BY DEF IInv, TypeOK, StatsTypes
<1>2. Planned(r) => Adds(1, 0, 0, 0, 0)
  BY <1>1 DEF Planned, Adds
<1>3. ASSUME Refused503(r) PROVE Adds(1, 0, 0, 1, 0)
  <2>1. stats' = [stats EXCEPT !.requests = stats.requests + 1, !.no_capacity = stats.no_capacity + 1]
    BY <1>3, Zenon DEF Refused503
  <2> QED
    BY <1>1, <2>1 DEF Adds
<1>4. Retried(r) => Adds(0, 1, 0, 0, 0)
  BY <1>1 DEF Retried, Adds
<1>5. GivenUp(r) => Adds(0, 0, 0, 1, 0)
  BY <1>1 DEF GivenUp, Adds
<1>6. Truncated(r) => Adds(0, 0, 1, 0, 0)
  BY <1>1 DEF Truncated, Adds
<1>7. Finished(r) => Adds(0, 0, 0, 0, 1)
  BY <1>1 DEF Finished, Adds
<1>8. Forwarded(r) \/ Moved(r) \/ Departed(r) => Adds(0, 0, 0, 0, 0)
  BY <1>1 DEF Forwarded, Moved, Departed, Adds
<1> QED
  BY <1>2, <1>3, <1>4, <1>5, <1>6, <1>7, <1>8 DEF AnyTurn

\* A turn moves the counters together with the sets.
LEMMA StatsAddUpTurn ==
    ASSUME IInv, NEW r \in Request, Handle(r), FrameInv(r), PlanInv(r), StatsAddUp
    PROVE  StatsAddUp'
<1>1. AnyTurn(r) /\ \A s \in Request \ {r} : Aside(s)
  BY Turns
<1>2. /\ stats.requests = Cardinality(Counted)
      /\ stats.requests = stats.ok + stats.midstream_failfast + stats.no_capacity
                              + Cardinality(InFlight) + Cardinality(Cut)
      /\ stats.failovers = Cardinality(FailedOver)
  BY DEF StatsAddUp, Counted, FailedOver
<1>3. /\ stats.requests \in Nat /\ stats.failovers \in Nat /\ stats.ok \in Nat
      /\ stats.midstream_failfast \in Nat /\ stats.no_capacity \in Nat
      /\ terms[r] \in Nat /\ RequestInv(r)
  BY ClockTypes DEF IInv, TypeOK, StatsTypes
<1> DEFINE Goal == /\ stats'.requests = Cardinality(Counted')
                   /\ stats'.requests = stats'.ok + stats'.midstream_failfast + stats'.no_capacity
                                          + Cardinality(InFlight') + Cardinality(Cut')
                   /\ stats'.failovers = Cardinality(FailedOver')
<1> SUFFICES Goal
  BY DEF StatsAddUp, Counted, FailedOver
<1>4. CASE Planned(r) /\ Adds(1, 0, 0, 0, 0)
  <2>1. /\ pc[r] = "idle" /\ pc'[r] = "open" /\ ~IsCut(r) /\ ~IsCut(r)' /\ FailedOver' = FailedOver
        /\ pc[r] \notin InnerAwaits /\ pc'[r] \in InnerAwaits
    BY <1>3, <1>4, <1>1, Failovers DEF Planned, Turn, IsCut, InnerAwaits, PreToken
  <2> QED
    BY <1>1, <1>2, <1>3, <1>4, <2>1, Sizes DEF One, Adds
<1>5. CASE Refused503(r) /\ Adds(1, 0, 0, 1, 0)
  <2>1. /\ pc[r] = "idle" /\ pc'[r] = "reply" /\ ~IsCut(r) /\ ~IsCut(r)' /\ FailedOver' = FailedOver
        /\ pc[r] \notin InnerAwaits /\ pc'[r] \notin InnerAwaits
    BY <1>3, <1>5, <1>1, Failovers DEF Refused503, Turn, IsCut, InnerAwaits, PreToken
  <2> QED
    BY <1>1, <1>2, <1>3, <1>5, <2>1, Sizes DEF One, Adds
<1>6. CASE Retried(r) /\ Adds(0, 1, 0, 0, 0)
  <2>1. /\ pc[r] # "idle" /\ pc'[r] = "open" /\ ~IsCut(r) /\ ~IsCut(r)'
        /\ pc[r] \in InnerAwaits /\ pc'[r] \in InnerAwaits
        /\ Cardinality(FailedOver') = Cardinality(FailedOver) + 1
    BY <1>6, <1>1, Failovers DEF Retried, CanRaise, Turn, IsCut, InnerAwaits, PreToken
  <2> QED
    BY <1>1, <1>2, <1>3, <1>6, <2>1, Sizes DEF One, Adds
<1>7. CASE GivenUp(r) /\ Adds(0, 0, 0, 1, 0)
  <2>1. /\ pc[r] # "idle" /\ pc'[r] = "reply" /\ ~IsCut(r) /\ ~IsCut(r)' /\ FailedOver' = FailedOver
        /\ pc[r] \in InnerAwaits /\ pc'[r] \notin InnerAwaits
    BY <1>7, <1>1, Failovers DEF GivenUp, CanRaise, Turn, IsCut, InnerAwaits, PreToken
  <2> QED
    BY <1>1, <1>2, <1>3, <1>7, <2>1, Sizes DEF One, Adds
<1>8. CASE Truncated(r) /\ Adds(0, 0, 1, 0, 0)
  <2>1. /\ pc[r] # "idle" /\ pc'[r] = "term" /\ ~IsCut(r) /\ ~IsCut(r)' /\ FailedOver' = FailedOver
        /\ pc[r] \in InnerAwaits /\ pc'[r] \notin InnerAwaits
    BY <1>8, <1>1, Failovers DEF Truncated, CanRaise, Turn, IsCut, InnerAwaits, PreToken
  <2> QED
    BY <1>1, <1>2, <1>3, <1>8, <2>1, Sizes DEF One, Adds
<1>9. CASE Finished(r) /\ Adds(0, 0, 0, 0, 1)
  <2>1. /\ pc[r] # "idle" /\ pc'[r] = "done" /\ ~IsCut(r) /\ FailedOver' = FailedOver
        /\ pc[r] \in InnerAwaits /\ pc'[r] \notin InnerAwaits
    BY <1>9, <1>1, Failovers DEF Finished, Turn, IsCut, InnerAwaits, PreToken
  <2>2. ~IsCut(r)'
    BY <1>3, <1>9 DEF Finished, Turn, IsCut, FrameInv
  <2> QED
    BY <1>1, <1>2, <1>3, <1>9, <2>1, <2>2, Sizes DEF One, Adds
<1>10. CASE (Forwarded(r) \/ Moved(r) \/ Departed(r)) /\ Adds(0, 0, 0, 0, 0)
  <2>1. /\ pc[r] # "idle" /\ pc'[r] # "idle" /\ att'[r] = att[r]
    BY <1>10 DEF Forwarded, Moved, Departed, Untouched, Turn
  <2>2. One(pc'[r] \in InnerAwaits) + One(IsCut(r)') = One(pc[r] \in InnerAwaits) + One(IsCut(r))
    <3>1. CASE Departed(r)
      BY <3>1 DEF Departed, Untouched, IsCut, InnerAwaits, PreToken, One
    <3>2. CASE Forwarded(r)
      BY <3>2 DEF Forwarded, Turn, IsCut, InnerAwaits, PreToken, One
    <3>3. CASE Moved(r) /\ pc'[r] # "done"
      BY <3>3 DEF Moved, Turn, IsCut, InnerAwaits, PreToken, One
    <3>4. CASE pc[r] \in {"open", "first", "stream"} /\ Turn(r, "done", att[r], head[r], terms[r])
      <4>1. IsCut(r)'
        BY <1>3, <3>4 DEF Turn, IsCut, FrameInv, RequestInv, LatchInv, QuietInv, InnerAwaits, PreToken
      <4> QED
        BY <3>4, <4>1 DEF Turn, IsCut, InnerAwaits, PreToken, One
    <3>5. CASE pc[r] \in {"reply", "term"} /\ Turn(r, "done", att[r], head[r], terms[r])
      <4>1. ~IsCut(r)'
        BY <1>3, <3>5 DEF Turn, IsCut, FrameInv
      <4> QED
        BY <3>5, <4>1 DEF Turn, IsCut, InnerAwaits, PreToken, One
    <3> QED
      BY <1>10, <3>1, <3>2, <3>3, <3>4, <3>5 DEF Moved, Turn
  <2>3. FailedOver' = FailedOver
    BY <1>1, <2>1, Failovers
  <2>4. Cardinality(Counted') = Cardinality(Counted)
    BY <1>1, <2>1, Sizes DEF One
  <2>5. Cardinality(InFlight') + Cardinality(Cut') = Cardinality(InFlight) + Cardinality(Cut)
    <3>1. /\ One(pc'[r] \in InnerAwaits) \in Nat /\ One(IsCut(r)') \in Nat
          /\ One(pc[r] \in InnerAwaits) \in Nat /\ One(IsCut(r)) \in Nat
      BY DEF One
    <3> QED
      BY <1>1, <2>2, <3>1, Sizes
  <2>6. /\ stats'.requests = stats.requests /\ stats'.failovers = stats.failovers
        /\ stats'.ok = stats.ok /\ stats'.midstream_failfast = stats.midstream_failfast
        /\ stats'.no_capacity = stats.no_capacity
    BY <1>3, <1>10 DEF Adds
  <2>7. /\ Cardinality(InFlight) \in Nat /\ Cardinality(InFlight') \in Nat
        /\ Cardinality(Cut) \in Nat /\ Cardinality(Cut') \in Nat
    BY <1>1, Sizes
  <2>8. stats'.failovers = Cardinality(FailedOver')
    BY <1>2, <2>3, <2>6
  <2>9. stats'.requests = Cardinality(Counted')
    BY <1>2, <2>4, <2>6
  <2>10. stats'.requests = stats'.ok + stats'.midstream_failfast + stats'.no_capacity
                             + Cardinality(InFlight') + Cardinality(Cut')
    <3> DEFINE settled == stats.ok + stats.midstream_failfast + stats.no_capacity
    <3>1. settled \in Nat
      BY <1>3
    <3>2. stats.requests = settled + Cardinality(InFlight) + Cardinality(Cut)
      BY <1>2
    <3>3. stats'.ok + stats'.midstream_failfast + stats'.no_capacity = settled
      BY <2>6
    <3> HIDE DEF settled
    <3>4. settled + Cardinality(InFlight') + Cardinality(Cut') = settled + Cardinality(InFlight) + Cardinality(Cut)
      BY <2>5, <2>7, <3>1
    <3>5. stats'.requests = settled + Cardinality(InFlight') + Cardinality(Cut')
      BY <2>6, <3>2, <3>4
    <3> QED
      BY <3>3, <3>5
  <2> QED
    BY <2>8, <2>9, <2>10
<1> QED
  BY <1>1, <1>4, <1>5, <1>6, <1>7, <1>8, <1>9, <1>10, StatsTurn

-----------------------------------------------------------------------------
(* The telemetry the plans are made from.  A worker that was never heard    *)
(* from counts as last seen when the machine booted (last_seen = 0.0 on the *)
(* monotonic clock), so it is stale only if that is longer ago than Fresh.  *)

Booted == Uptime > Fresh

\* The selector never takes a worker for fresher than its telemetry is.
HeardInv ==
    \A w \in Worker : heardAge[w] <= seenAge[w] /\ (w \notin known => seenAge[w] = Stale)

LEMMA OlderMonotone ==
    ASSUME NEW a \in Age, NEW b \in Age, a <= b
    PROVE  Older(a) <= Older(b) /\ (b = Stale => Older(b) = Stale)
BY SelectionAssumption DEF Older, Age, Stale

LEMMA HeardStep == ASSUME IInv, HeardInv, [Next]_vars PROVE HeardInv'
<1>1. SelectorTypes
  BY DEF IInv, TypeOK
<1>2. CASE \E w \in Worker : FrameAccepted(w)
  <2>1. PICK w \in Worker : FrameAccepted(w)
    BY <1>2
  <2>2. /\ known' = known \cup {w} /\ seenAge' = seenAge
        /\ heardAge'[w] = 0 /\ \A v \in Worker \ {w} : heardAge'[v] = heardAge[v]
    BY <1>1, <2>1 DEF FrameAccepted, sel, SelectorTypes
  <2>3. 0 <= seenAge[w]
    BY <1>1, SelectionAssumption DEF SelectorTypes, Age, Stale
  <2> QED
    BY <2>2, <2>3 DEF HeardInv
<1>3. CASE Sync
  <2>1. known' = known /\ heardAge' = heardAge /\ \A w \in Worker : seenAge'[w] = Synced(w)
    BY <1>3 DEF Sync, net
  <2>2. \A w \in Worker : heardAge[w] <= heardAge[w]
    BY <1>1, SelectionAssumption DEF SelectorTypes, Age, Stale
  <2> QED
    BY <2>1, <2>2 DEF HeardInv, Synced
<1>4. CASE Tick
  <2>1. /\ known' = known
        /\ \A w \in Worker : heardAge'[w] = Older(heardAge[w]) /\ seenAge'[w] = Older(seenAge[w])
    BY <1>4 DEF Tick
  <2> QED
    BY <1>1, <2>1, OlderMonotone DEF HeardInv, SelectorTypes
<1>5. CASE UNCHANGED <<known, heardAge, seenAge>>
  BY <1>5 DEF HeardInv
<1> QED
  BY <1>2, <1>3, <1>4, <1>5
  DEF Next, vars, Handle, Arrive, Opened, BadStatus, Refused, Timeout, Dropped, Fault, Token,
      BodyEnds, Drained, DrainRaises, Finish, Close, ClientLeaves, AttemptRaises, MidstreamFails,
      AttemptFails, Forward, net, sel

-----------------------------------------------------------------------------
(* The theorems. *)

ServiceInv ==
    /\ IInv
    /\ \A r \in Request : WaitInv(r) /\ FrameInv(r) /\ PlanInv(r)
    /\ StatsAddUp
    /\ Booted => HeardInv

LEMMA InitService == Init => ServiceInv
<1> SUFFICES ASSUME Init PROVE ServiceInv
  OBVIOUS
<1>1. \A r \in Request : WaitInv(r) /\ FrameInv(r)
  BY DEF Init, WaitInv, FrameInv, PreToken
<1>2. \A r \in Request : PlanInv(r)
  BY SelectionAssumption DEF Init, PlanInv, Attempts
<1>3. StatsAddUp
  <2>1. Counted = {} /\ InFlight = {} /\ Cut = {} /\ FailedOver = {}
    BY DEF Init, Counted, InFlight, Cut, FailedOver, InnerAwaits, PreToken
  <2>2. /\ stats.requests = 0 /\ stats.failovers = 0 /\ stats.ok = 0
        /\ stats.midstream_failfast = 0 /\ stats.no_capacity = 0
    BY DEF Init
  <2>3. /\ stats.requests = Cardinality(Counted)
        /\ stats.requests = stats.ok + stats.midstream_failfast + stats.no_capacity
                                + Cardinality(InFlight) + Cardinality(Cut)
        /\ stats.failovers = Cardinality(FailedOver)
    BY <2>1, <2>2, FS_EmptySet
  <2> QED
    BY <2>3 DEF StatsAddUp, Counted, FailedOver
<1>4. Booted => HeardInv
  BY SelectionAssumption, RouterAssumption DEF Init, Booted, HeardInv, Stale
<1> QED
  BY <1>1, <1>2, <1>3, <1>4, InitIInv DEF ServiceInv

LEMMA NextService == ServiceInv /\ [Next]_vars => ServiceInv'
<1> SUFFICES ASSUME ServiceInv, [Next]_vars PROVE ServiceInv'
  OBVIOUS
<1>1. IInv /\ IInv' /\ (Booted => HeardInv')
  BY NextIInv, HeardStep DEF ServiceInv
<1>2. CASE \E r \in Request : Handle(r)
  <2>1. PICK r \in Request : Handle(r)
    BY <1>2
  <2>2. AnyTurn(r) /\ \A s \in Request \ {r} : Aside(s)
    BY <1>1, <2>1, Turns
  <2>3. StatsAddUp'
    BY <1>1, <2>1, StatsAddUpTurn DEF ServiceInv
  <2>4. ASSUME NEW s \in Request PROVE WaitInv(s)' /\ FrameInv(s)'
    <3>1. CASE s = r
      BY <1>1, <2>2, <3>1, WaitTurn, FrameTurn DEF ServiceInv
    <3>2. CASE s # r
      BY <2>2, <3>2 DEF ServiceInv, Aside, Untouched, WaitInv, FrameInv
    <3> QED
      BY <3>1, <3>2
  <2>5. \A s \in Request : PlanInv(s)'
    BY <1>1, <2>1, PlanTurn DEF ServiceInv
  <2> QED
    BY <1>1, <2>3, <2>4, <2>5 DEF ServiceInv
<1>3. CASE \/ \E w \in Worker : FrameAccepted(w)
           \/ Sync \/ Tick \/ UNCHANGED vars
  <2>1. /\ UNCHANGED <<pc, plan, att, committed, head, terms, gone, stats>>
        /\ \A r \in Request :
              \/ left'[r] = left[r] /\ waited'[r] = waited[r]
              \/ pc[r] \in PreToken /\ left'[r] = left[r] - 1 /\ waited'[r] = waited[r] + 1
    BY <1>1, <1>3, Outside
  <2>2. ASSUME NEW r \in Request PROVE WaitInv(r)' /\ FrameInv(r)' /\ PlanInv(r)'
    <3>1. WaitInv(r) /\ waited[r] \in Nat /\ left[r] \in Nat /\ Deadline \in Nat
      BY <1>1, ClockTypes DEF ServiceInv, IInv
    <3>2. WaitInv(r)'
      BY <2>1, <3>1 DEF WaitInv
    <3> QED
      BY <2>1, <3>2 DEF ServiceInv, FrameInv, PlanInv, Attempts
  <2>3. StatsAddUp'
    BY <2>1 DEF ServiceInv, StatsAddUp, InFlight, Cut
  <2> QED
    BY <1>1, <2>2, <2>3 DEF ServiceInv
<1> QED
  BY <1>2, <1>3 DEF Next

LEMMA ServiceInvariant == Spec => []ServiceInv
BY InitService, NextService, PTL DEF Spec

\* The client of `handle` waits for its first token at most two deadlines per
\* attempt, whatever upstreams, telemetry and other requests do.
THEOREM WaitIsBoundedHolds == Spec => []WaitIsBounded
<1>1. ServiceInv => WaitIsBounded
  <2> SUFFICES ASSUME ServiceInv, NEW r \in Request PROVE waited[r] <= Span(att[r])
    BY DEF WaitIsBounded, Span
  <2>1. WaitInv(r) /\ waited[r] \in Nat /\ left[r] \in Nat /\ Deadline \in Nat /\ att[r] \in Nat
    BY ClockTypes DEF ServiceInv, IInv
  <2>2. Span(att[r]) \in Nat
    BY <2>1, SpanType
  <2> QED
    BY <2>1, <2>2 DEF WaitInv, PreToken
<1> QED
  BY <1>1, ServiceInvariant, PTL

\* In ticks of the configuration: whatever happens, the first token, an apology or
\* the end comes within two deadlines for each of MAX_ATTEMPTS (`handle`).
THEOREM FirstTokenWithin ==
    Spec => [](\A r \in Request : waited[r] <= 2 * Deadline * MaxAttempts)
<1>1. ServiceInv => \A r \in Request : waited[r] <= Span(MaxAttempts)
  <2> SUFFICES ASSUME ServiceInv, NEW r \in Request PROVE waited[r] <= Span(MaxAttempts)
    OBVIOUS
  <2>1. WaitInv(r) /\ AttInv(r) /\ PlanInv(r) /\ plan[r] \in Seq(Worker)
        /\ waited[r] \in Nat /\ left[r] \in Nat /\ Deadline \in Nat /\ att[r] \in Nat \ {0}
    BY ClockTypes DEF ServiceInv, IInv, RequestInv, TypeOK, PlanTypes, HandleTypes
  <2>2. MaxAttempts \in Nat /\ Span(MaxAttempts) \in Nat
    BY SpanType, SelectionAssumption
  <2>3. CASE pc[r] \notin PreToken
    BY <2>1, <2>2, <2>3 DEF WaitInv
  <2>4. CASE pc[r] \in PreToken
    <3>1. att[r] <= MaxAttempts
      <4>1. att[r] <= Attempts(r) /\ Attempts(r) <= MaxAttempts
        BY <2>1, <2>4 DEF AttInv, PlanInv, InnerAwaits
      <4>2. Attempts(r) \in Nat
        BY <2>1 DEF Attempts
      <4> QED
        BY <2>1, <2>2, <4>1, <4>2
    <3>2. Span(att[r]) <= Span(MaxAttempts)
      BY <2>1, <2>2, <3>1, SpanGrows
    <3>3. Span(att[r]) \in Nat
      BY <2>1, SpanType
    <3>4. waited[r] <= Span(att[r])
      BY <2>1, <2>4, <3>3 DEF WaitInv, PreToken
    <3> QED
      BY <2>1, <2>2, <3>2, <3>3, <3>4
  <2> QED
    BY <2>3, <2>4
<1> QED
  BY <1>1, ServiceInvariant, PTL DEF Span

\* A client that stays connected reads one end of stream at most, and an apology
\* only in place of a stream (`_degrade_or_503`, the exits of `handle`).
THEOREM WellFramedHolds == Spec => []WellFramed
<1>1. ServiceInv => WellFramed
  BY DEF ServiceInv, WellFramed, FrameInv, IInv, RequestInv, LatchInv, QuietInv
<1> QED
  BY <1>1, ServiceInvariant, PTL

\* The counters of /__stats add up at every moment, over any number of requests.
THEOREM StatsAddUpHolds == Spec => []StatsAddUp
<1>1. ServiceInv => StatsAddUp
  BY DEF ServiceInv
<1> QED
  BY <1>1, ServiceInvariant, PTL

\* A plan names only workers the router has heard from within the window, none
\* broken and none twice, if the machine has been up for longer than the window
\* (`sync_from_ingest`, `eligible`, `select_with_retry_plan`).
THEOREM PlannedAreLiveHolds == ASSUME Booted PROVE Spec => PlannedAreLive
<1> DEFINE Live(r) == pc[r] = "idle" /\ pc'[r] = "open" =>
                        \A i \in DOMAIN plan'[r] :
                            /\ plan'[r][i] \in known
                            /\ heardAge[plan'[r][i]] <= Fresh
                            /\ cool[plan'[r][i]] = 0
                            /\ \A j \in DOMAIN plan'[r] : j # i => plan'[r][j] # plan'[r][i]
<1>1. ServiceInv /\ [Next]_vars => \A r \in Request : Live(r)
  <2> SUFFICES ASSUME ServiceInv, [Next]_vars, NEW r \in Request, pc[r] = "idle", pc'[r] = "open"
               PROVE  Live(r)
    OBVIOUS
  <2>1. IInv /\ HeardInv
    BY DEF ServiceInv
  <2>2. Handle(r)
    BY <2>1, OwnStep
  <2>3. Arrive(r)
    BY <2>2 DEF Handle, Opened, BadStatus, Refused, Timeout, Dropped, Fault, Token, BodyEnds,
       Drained, DrainRaises, Finish, Close, ClientLeaves, PreToken
  <2>4. PICK p \in RetryPlans(Eligible(seenAge, cool)) :
          plan' = [plan EXCEPT ![r] = p] \/ GoTo(r, "reply")
    BY <2>3 DEF Arrive
  <2>5. plan'[r] = p
    BY <2>1, <2>4 DEF IInv, TypeOK, HandleTypes, PlanTypes, GoTo
  <2>6. /\ \A i \in DOMAIN p : p[i] \in Eligible(seenAge, cool)
        /\ \A i, j \in DOMAIN p : p[i] = p[j] => i = j
    BY RetryPlansLegal DEF Eligible
  <2>7. ASSUME NEW w \in Eligible(seenAge, cool)
        PROVE  w \in known /\ heardAge[w] <= Fresh /\ cool[w] = 0
    <3>1. /\ w \in Worker /\ seenAge[w] <= Fresh /\ ~(cool[w] > 0)
          /\ cool[w] \in Nat /\ heardAge[w] \in Nat /\ seenAge[w] \in Nat /\ Fresh \in Nat
      BY <2>1, SelectionAssumption
      DEF Eligible, IsFresh, IsBroken, IInv, TypeOK, SelectorTypes, Age, Stale
    <3> QED
      BY <2>1, <3>1 DEF HeardInv, Stale
  <2> QED
    BY <2>5, <2>6, <2>7
<1>2. ServiceInv /\ [Next]_vars =>
        [\A r \in Request : pc[r] = "idle" /\ pc'[r] = "open" =>
          \A i \in DOMAIN plan'[r] :
              /\ plan'[r][i] \in known
              /\ heardAge[plan'[r][i]] <= Fresh
              /\ cool[plan'[r][i]] = 0
              /\ \A j \in DOMAIN plan'[r] : j # i => plan'[r][j] # plan'[r][i]]_vars
  BY <1>1
<1> QED
  BY <1>2, ServiceInvariant, PTL DEF Spec, PlannedAreLive

\* A breaker trips for the worker whose attempt just ended, and only then: not
\* for the next one of the plan, nor for another request's (`trip_breaker`).
THEOREM TripsTheCulpritHolds == Spec => TripsTheCulprit
<1> DEFINE Culprit(w, r) == /\ w = plan[r][att[r]]
                            /\ pc'[r] \in {"open", "reply", "term"}
                            /\ pc'[r] # pc[r] \/ att'[r] # att[r]
<1>1. ServiceInv /\ [Next]_vars =>
        \A w \in Worker : cool'[w] > cool[w] => \E r \in InFlight : Culprit(w, r)
  <2> SUFFICES ASSUME ServiceInv, [Next]_vars, NEW w \in Worker, cool'[w] > cool[w]
               PROVE  \E r \in InFlight : Culprit(w, r)
    OBVIOUS
  <2>1. IInv /\ cool \in [Worker -> 0 .. Cooldown] /\ cool' \in [Worker -> 0 .. Cooldown]
    BY NextIInv DEF ServiceInv, IInv, TypeOK, SelectorTypes
  <2>2. cool[w] \in Nat /\ cool'[w] \in Nat
    BY <2>1, SelectionAssumption
  <2>3. PICK r \in Request : Handle(r)
    BY <2>1, <2>2, Outside DEF Next
  <2>4. AnyTurn(r)
    BY <2>1, <2>3, Turns
  <2>5. Retried(r) \/ GivenUp(r) \/ Truncated(r)
    BY <2>2, <2>4 DEF AnyTurn, Planned, Refused503, Forwarded, Moved, Finished, Departed
  <2>6. w = Current(r)
    BY <2>1, <2>2, <2>5 DEF Retried, GivenUp, Truncated, Trips
  <2>7. att[r] + 1 # att[r]
    BY <2>1, ClockTypes DEF IInv
  <2>8. r \in InFlight
    BY <2>5 DEF Retried, GivenUp, Truncated, CanRaise, InFlight
  <2>9. Culprit(w, r)
    BY <2>5, <2>6, <2>7
    DEF Retried, GivenUp, Truncated, CanRaise, Turn, Current, InnerAwaits, PreToken
  <2> QED
    BY <2>8, <2>9
<1>2. ServiceInv /\ [Next]_vars =>
        [\A w \in Worker : cool'[w] > cool[w] =>
          \E r \in InFlight : /\ w = plan[r][att[r]]
                              /\ pc'[r] \in {"open", "reply", "term"}
                              /\ pc'[r] # pc[r] \/ att'[r] # att[r]]_vars
  BY <1>1
<1> QED
  BY <1>2, ServiceInvariant, PTL DEF Spec, TripsTheCulprit

\* "dies BEFORE 1st token -> client sees nothing": the two ways to end the request
\* of a client that stays and has read no head (EveryClientIsAnswered) are both
\* before the first token: an exception that is not the worker's own (Fault), and a
\* body that ended before its first byte.  No retry, deadline or broken stream
\* does, and no request of which a byte was forwarded (`handle`).
UnansweredOnlyBy(r) ==
    pc[r] # "done" /\ pc'[r] = "done" /\ ~gone'[r] /\ head'[r] = "none" =>
        /\ ~committed[r]
        /\ \/ pc[r] \in PreToken /\ Fault(r)
           \/ Finish(r) /\ terms[r] = 1

THEOREM UnansweredHolds == Spec => [][\A r \in Request : UnansweredOnlyBy(r)]_vars
<1>1. ServiceInv /\ [Next]_vars => \A r \in Request : UnansweredOnlyBy(r)
  <2> SUFFICES ASSUME ServiceInv, [Next]_vars, NEW r \in Request,
                      pc[r] # "done", pc'[r] = "done", ~gone'[r], head'[r] = "none"
               PROVE  /\ ~committed[r]
                      /\ \/ pc[r] \in PreToken /\ Fault(r)
                         \/ Finish(r) /\ terms[r] = 1
    BY DEF UnansweredOnlyBy
  <2>1. IInv /\ RequestInv(r) /\ FrameInv(r) /\ terms[r] \in Nat
    BY DEF ServiceInv, IInv, TypeOK, ClientTypes
  <2>2. Handle(r)
    BY <2>1, OwnStep
  <2>3. AnyTurn(r)
    BY <2>1, <2>2, Turns
  <2>4. /\ pc[r] \in {"open", "first", "stream", "reply", "term", "final"}
        /\ head[r] = "none" /\ gone'[r] = gone[r]
    BY <2>3
    DEF AnyTurn, Planned, Refused503, Retried, GivenUp, Truncated, Forwarded, Moved, Finished,
        Departed, Turn, Untouched
  <2>5. ~committed[r] /\ pc[r] \in {"open", "first", "final"}
    BY <2>1, <2>4 DEF RequestInv, LatchInv, QuietInv, FrameInv
  <2>6. Fault(r) \/ Finish(r)
    <3>1. ASSUME NEW q, q # "done", pc' = [pc EXCEPT ![r] = q] PROVE FALSE
      BY <2>1, <3>1 DEF IInv, TypeOK, HandleTypes
    <3> QED
      BY <2>2, <2>4, <2>5, <3>1
      DEF Handle, Arrive, Opened, BadStatus, Refused, Timeout, Dropped, Fault, Token, BodyEnds,
          Drained, DrainRaises, Finish, Close, ClientLeaves, AttemptRaises, MidstreamFails,
          AttemptFails, Forward, GoTo, WaitFor
  <2>7. Finish(r) => terms[r] = 1
    BY <2>1, <2>4 DEF Finish, FrameInv
  <2>8. Fault(r) => pc[r] \in PreToken
    BY <2>5 DEF Fault, PreToken
  <2> QED
    BY <2>5, <2>6, <2>7, <2>8
<1>2. ServiceInv /\ [Next]_vars => [\A r \in Request : UnansweredOnlyBy(r)]_vars
  BY <1>1
<1> QED
  BY <1>2, ServiceInvariant, PTL DEF Spec
=============================================================================
