-------------------------- MODULE RetryPlanProofs --------------------------
(***************************************************************************)
(* Proofs about RetryPlan, for any finite set of workers, any loads, any   *)
(* TopN and any number of attempts: the loop of select_with_retry_plan     *)
(* ends with one of the plans that Router draws from, RetryPlans, and      *)
(* anti-herding costs a planned worker at most TopN - 1 places.            *)
(***************************************************************************)
EXTENDS RetryPlan, FiniteSetTheorems, WellFoundedInduction, TLAPS

-----------------------------------------------------------------------------
(* The inductive invariant: the plan so far names different workers, all of *)
(* them eligible, and when the loop is over there was no attempt or nobody  *)
(* left.                                                                    *)

Left == Eligible(seenAge, cool) \ tried

TypeOK ==
    /\ load \in [Worker -> Metrics]
    /\ plan \in Seq(Worker) /\ Len(plan) <= MaxAttempts
    /\ picking \in BOOLEAN

PlanInv ==
    /\ tried \subseteq Eligible(seenAge, cool)
    /\ \A i, j \in DOMAIN plan : plan[i] = plan[j] => i = j
    /\ Cardinality(tried) = Len(plan)

\* select returns None only when nobody is left.
EndInv == ~picking => Len(plan) = MaxAttempts \/ Left = {}

IInv == TypeOK /\ PlanInv /\ EndInv /\ FewBetterLeftOut

\* Loads are what Score reads, in natural numbers.
Loads == Metrics \subseteq [ttft : Nat, vram : Nat, queue : Nat, price : Nat]

-----------------------------------------------------------------------------
(* Scores.                                                                  *)

\* The score of a worker without any load, which is the highest there is.
Full == 10000

LEMMA ScoreBound ==
    ASSUME NEW m \in [ttft : Nat, vram : Nat, queue : Nat, price : Nat]
    PROVE  Score(m) \in 0 .. Full
<1>1. \A p \in Nat : Room(p) \in 0 .. 100
  BY DEF Room
<1>2. /\ Room(m.ttft) \in 0 .. 100 /\ Room(m.vram) \in 0 .. 100
      /\ Room(m.queue) \in 0 .. 100 /\ Room(m.price) \in 0 .. 100
  BY <1>1
<1> DEFINE a == Room(m.ttft)  b == Room(m.vram)  c == Room(m.queue)  d == Room(m.price)
<1> HIDE DEF a, b, c, d
<1>3. a \in 0 .. 100 /\ b \in 0 .. 100 /\ c \in 0 .. 100 /\ d \in 0 .. 100
  BY <1>2 DEF a, b, c, d
<1>4. 45 * a + 35 * b + 15 * c + 5 * d \in 0 .. Full
  BY <1>3 DEF Full
<1>5. Score(m) = 45 * a + 35 * b + 15 * c + 5 * d
  BY DEF Score, a, b, c, d
<1> QED
  BY <1>4, <1>5

\* Among scores up to a bound there is a best: the one whose distance from the
\* bound is least.
LEMMA BestExists ==
    ASSUME NEW top \in Nat, NEW S, S # {}, NEW f, \A w \in S : f[w] \in 0 .. top
    PROVE  \E w \in S : \A v \in S : ~(f[v] > f[w])
<1> DEFINE below == {ss \in Nat \X Nat : ss[1] < ss[2]}
           gaps == {top - f[w] : w \in S}
<1>1. IsWellFoundedOn(below, Nat)
  BY NatLessThanWellFounded DEF OpToRel
<1>2. gaps \subseteq Nat /\ gaps # {}
  OBVIOUS
<1>3. PICK x \in gaps : \A y \in gaps : <<y, x>> \notin below
  <2> HIDE DEF gaps, below
  <2> QED
    BY <1>1, <1>2, WFMin
<1>4. \A y \in gaps : ~(y < x)
  BY <1>2, <1>3
<1>5. PICK w \in S : x = top - f[w]
  BY <1>3
<1>6. ASSUME NEW v \in S PROVE ~(f[v] > f[w])
  <2>1. ~(top - f[v] < top - f[w])
    BY <1>4, <1>5
  <2> QED
    BY <2>1
<1> QED
  BY <1>6

\* select returns a worker as long as one is left.
LEMMA SelectsSomebody ==
    ASSUME Loads, load \in [Worker -> Metrics], Selectable(seenAge, cool, score, tried) = {}
    PROVE  Left = {}
<1> SUFFICES ASSUME Left # {} PROVE FALSE
  OBVIOUS
<1>1. Left \subseteq Worker
  BY DEF Left, Eligible
<1>2. \A w \in Left : score[w] \in 0 .. Full
  <2> SUFFICES ASSUME NEW w \in Worker PROVE score[w] \in 0 .. Full
    BY <1>1
  <2>1. load[w] \in [ttft : Nat, vram : Nat, queue : Nat, price : Nat]
    BY DEF Loads
  <2>2. score[w] = Score(load[w])
    BY DEF score
  <2> QED
    BY <2>1, <2>2, ScoreBound
<1>3. PICK w \in Left : \A v \in Left : ~(score[v] > score[w])
  <2>1. Full \in Nat
    BY DEF Full
  <2> QED
    BY <1>2, <2>1, BestExists, Zenon
<1>4. {v \in Left : score[v] > score[w]} = {}
  BY <1>3
<1>5. Cardinality({v \in Left : score[v] > score[w]}) < TopN
  BY <1>4, FS_EmptySet, SelectionAssumption
<1>6. w \in Selectable(seenAge, cool, score, tried)
  BY <1>5 DEF Selectable, InTop, Left
<1> QED
  BY <1>6

LEMMA EligibleFinite ==
    ASSUME NEW S, S \subseteq Eligible(seenAge, cool)
    PROVE  /\ IsFiniteSet(S) /\ Cardinality(S) \in Nat
           /\ Cardinality(S) <= Cardinality(Eligible(seenAge, cool))
           /\ Cardinality(Eligible(seenAge, cool)) \in Nat
<1>1. IsFiniteSet(Eligible(seenAge, cool))
  BY SelectionAssumption, FS_Subset DEF Eligible
<1> QED
  BY <1>1, FS_Subset, FS_CardinalityType

-----------------------------------------------------------------------------
(* The steps.                                                               *)

LEMMA InitIInv == Init => IInv
<1> SUFFICES ASSUME Init PROVE IInv
  OBVIOUS
<1>1. tried = {} /\ Len(plan) = 0 /\ DOMAIN plan = {}
  BY DEF Init, tried
<1>2. TypeOK
  BY SelectionAssumption DEF Init, TypeOK
<1>3. PlanInv
  BY <1>1, FS_EmptySet DEF PlanInv
<1> QED
  BY <1>1, <1>2, <1>3 DEF Init, IInv, EndInv, FewBetterLeftOut

LEMMA PickKeeps == ASSUME IInv, Pick PROVE IInv'
<1> USE DEF IInv
<1>1. PICK w \in Selectable(seenAge, cool, score, tried) : plan' = Append(plan, w)
  BY DEF Pick
<1>2. UNCHANGED <<seenAge, cool, load, picking>> /\ picking /\ Len(plan) < MaxAttempts
  BY DEF Pick
<1>3. /\ w \in Eligible(seenAge, cool) /\ w \notin tried /\ w \in Worker
      /\ Cardinality({v \in Left : score[v] > score[w]}) < TopN
  BY <1>1 DEF Selectable, InTop, Left, Eligible
<1>4. plan \in Seq(Worker) /\ Len(plan) \in Nat
  BY DEF TypeOK
<1>5. /\ plan' \in Seq(Worker) /\ Len(plan') = Len(plan) + 1
      /\ DOMAIN plan' = DOMAIN plan \cup {Len(plan) + 1}
      /\ \A i \in DOMAIN plan : plan'[i] = plan[i]
      /\ plan'[Len(plan) + 1] = w /\ Len(plan) + 1 \notin DOMAIN plan
  BY <1>1, <1>3, <1>4
<1>6. tried' = tried \cup {w}
  BY <1>5 DEF tried
<1>7. score' = score /\ Eligible(seenAge, cool)' = Eligible(seenAge, cool)
  BY <1>2 DEF score, Eligible
<1>8. TypeOK'
  BY <1>2, <1>5, SelectionAssumption DEF TypeOK
<1>9. PlanInv'
  <2>1. tried' \subseteq Eligible(seenAge, cool)'
    BY <1>3, <1>6, <1>7 DEF PlanInv
  <2>2. \A i \in DOMAIN plan : plan[i] \in tried
    BY DEF tried
  <2>3. \A i, j \in DOMAIN plan' : plan'[i] = plan'[j] => i = j
    BY <1>3, <1>5, <2>2 DEF PlanInv
  <2>4. IsFiniteSet(tried)
    BY EligibleFinite DEF PlanInv
  <2>5. Cardinality(tried') = Cardinality(tried) + 1
    BY <1>3, <1>6, <2>4, FS_AddElement
  <2> QED
    BY <1>5, <2>1, <2>3, <2>5 DEF PlanInv
<1>10. EndInv'
  BY <1>2 DEF EndInv
<1>11. FewBetterLeftOut'
  <2>1. Left' \subseteq Left
    BY <1>6, <1>7 DEF Left
  <2>2. ASSUME NEW u, Cardinality({v \in Left : score[v] > score[u]}) < TopN
        PROVE  Cardinality({v \in Left' : score'[v] > score'[u]}) < TopN
    <3> DEFINE A == {v \in Left : score[v] > score[u]}
               B == {v \in Left' : score'[v] > score'[u]}
    <3>1. B \subseteq A
      BY <1>7, <2>1
    <3>2. A \subseteq Eligible(seenAge, cool)
      BY DEF Left
    <3>3. IsFiniteSet(A) /\ Cardinality(A) \in Nat
      BY <3>2, EligibleFinite
    <3>4. Cardinality(B) \in Nat /\ Cardinality(B) <= Cardinality(A)
      BY <3>1, <3>3, FS_Subset, FS_CardinalityType
    <3>5. Cardinality(A) < TopN
      BY <2>2
    <3> HIDE DEF A, B
    <3>6. Cardinality(B) < TopN
      BY <3>3, <3>4, <3>5, SelectionAssumption
    <3> QED
      BY <3>6 DEF B
  <2>3. \A i \in DOMAIN plan : Cardinality({v \in Left : score[v] > score[plan[i]]}) < TopN
    BY DEF FewBetterLeftOut, Left
  <2>4. \A i \in DOMAIN plan' : Cardinality({v \in Left : score[v] > score[plan'[i]]}) < TopN
    BY <1>3, <1>5, <2>3
  <2>5. \A i \in DOMAIN plan' : Cardinality({v \in Left' : score'[v] > score'[plan'[i]]}) < TopN
    BY <2>2, <2>4
  <2> QED
    BY <2>5 DEF FewBetterLeftOut, Left
<1> QED
  BY <1>8, <1>9, <1>10, <1>11

LEMMA ReturnKeeps == ASSUME Loads, IInv, Return PROVE IInv'
<1> USE DEF IInv
<1>1. UNCHANGED <<seenAge, cool, load, plan>> /\ picking' = FALSE
  BY DEF Return
<1>2. Len(plan) = MaxAttempts \/ Left = {}
  BY SelectsSomebody DEF Return, TypeOK
<1>3. UNCHANGED <<tried, score, Left>> /\ Eligible(seenAge, cool)' = Eligible(seenAge, cool)
  BY <1>1 DEF tried, score, Left, Eligible
<1>4. TypeOK' /\ PlanInv'
  BY <1>1, <1>3 DEF TypeOK, PlanInv
<1>5. EndInv'
  BY <1>1, <1>2, <1>3 DEF EndInv
<1>6. FewBetterLeftOut'
  BY <1>1, <1>3 DEF FewBetterLeftOut
<1> QED
  BY <1>4, <1>5, <1>6

LEMMA NextIInv == ASSUME Loads PROVE IInv /\ [Next]_vars => IInv'
<1>1. ASSUME IInv, UNCHANGED vars PROVE IInv'
  <2>1. UNCHANGED <<seenAge, cool, load, plan, picking>>
    BY <1>1 DEF vars
  <2>2. UNCHANGED <<tried, score, Left>> /\ Eligible(seenAge, cool)' = Eligible(seenAge, cool)
    BY <2>1 DEF tried, score, Left, Eligible
  <2> QED
    BY <1>1, <2>1, <2>2 DEF IInv, TypeOK, PlanInv, EndInv, FewBetterLeftOut
<1> QED
  BY <1>1, PickKeeps, ReturnKeeps DEF Next

LEMMA IInvSound == IInv => PlanIsSound
<1> SUFFICES ASSUME IInv, ~picking PROVE PlanIsLegal
  BY DEF IInv, PlanIsSound, PlanIsLegal
<1> USE DEF IInv
<1> DEFINE E == Eligible(seenAge, cool)
           n == Cardinality(E)
           k == IF n < MaxAttempts THEN n ELSE MaxAttempts
<1>1. plan \in Seq(Worker) /\ Len(plan) \in Nat /\ Len(plan) <= MaxAttempts
  BY DEF TypeOK
<1>2. n \in Nat /\ Len(plan) <= n
  BY EligibleFinite DEF PlanInv
<1>3. Left = {} => Len(plan) = n
  <2>1. Left = {} => tried = E
    BY DEF Left, PlanInv
  <2> QED
    BY <2>1 DEF PlanInv
<1>4. Len(plan) = k
  BY <1>1, <1>2, <1>3, SelectionAssumption DEF EndInv
<1>5. \A i \in 1 .. k : plan[i] \in E
  <2>1. \A i \in DOMAIN plan : plan[i] \in tried
    BY DEF tried
  <2> QED
    BY <1>1, <1>4, <2>1 DEF PlanInv
<1>6. plan = [i \in 1 .. k |-> plan[i]]
  BY <1>1, <1>4
<1>7. plan \in [1 .. k -> E]
  BY <1>5, <1>6
<1>8. \A i, j \in 1 .. k : plan[i] = plan[j] => i = j
  BY <1>1, <1>4 DEF PlanInv
<1> QED
  BY <1>7, <1>8 DEF PlanIsLegal, RetryPlans

-----------------------------------------------------------------------------
\* A finished plan is one that Router draws from: each eligible worker at most once,
\* and none left out while attempts remain; and whoever is planned is beaten by fewer
\* than TopN of those left out.
THEOREM PlanIsSoundHolds == ASSUME Loads PROVE Spec => []PlanIsSound
BY InitIInv, NextIInv, IInvSound, PTL DEF Spec
=============================================================================
