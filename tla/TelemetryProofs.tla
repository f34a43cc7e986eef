-------------------------- MODULE TelemetryProofs --------------------------
(***************************************************************************)
(* Proofs about Telemetry, for any nodes, window, interval and bounds, and *)
(* whatever the network and the emitters do: its types, that the drop      *)
(* counter is exact, that the wall-clock seed catches up, and that what is *)
(* still in flight of a silent node can make it look alive so often only.  *)
(***************************************************************************)
EXTENDS Telemetry, FiniteSetTheorems, TLAPS

-----------------------------------------------------------------------------
(* The inductive invariant.  An unknown node has no frame on its account,   *)
(* or its first frame would start from a wrong balance; and no number runs  *)
(* ahead of the clock on its way from the emitter over the network into the *)
(* ingest: an emitter that is due has not passed the clock, and one that    *)
(* sleeps, a frame, or a view is at most one ahead.                         *)

UnknownIsClear ==
    \A n \in Node \ nodes : accepted[n] = 0 /\ dropped_frames[n] = 0

Due(n) == pause[n] = 0 /\ clock < Horizon

NotAhead ==
    /\ \A n \in WallSeeded : seq[n] <= (IF Due(n) THEN clock ELSE clock + 1)
    /\ \A f \in net : f.node \in WallSeeded => f.seq <= clock + 1

IInv == TypeOK /\ UnknownIsClear /\ DropsAddUp /\ NotAhead /\ SeedCatchesUp

\* What no step of an emitter touches.
LEMMA SameView ==
    ASSUME UnknownIsClear, DropsAddUp, UNCHANGED view
    PROVE  UnknownIsClear' /\ DropsAddUp'
BY DEF UnknownIsClear, DropsAddUp, view

-----------------------------------------------------------------------------
(* The emitters. *)

LEMMA InitIInv == Init => IInv
BY TelemetryAssumption
DEF Init, IInv, TypeOK, Stale, UnknownIsClear, DropsAddUp, NotAhead, Due, SeedCatchesUp

LEMMA StartStep ==
    ASSUME IInv, NEW n \in Node, Start(n)
    PROVE  IInv'
<1> USE TelemetryAssumption DEF IInv
<1>1. Seed(n) \in Nat /\ (n \in WallSeeded => Seed(n) = clock)
  BY DEF Seed, TypeOK
<1>2. TypeOK'
  BY <1>1 DEF Start, TypeOK, view
<1>3. UnknownIsClear' /\ DropsAddUp'
  BY SameView DEF Start
<1>4. NotAhead'
  BY <1>1 DEF Start, TypeOK, NotAhead, Due
<1>5. SeedCatchesUp'
  BY DEF Start, SeedCatchesUp, view
<1> QED
  BY <1>2, <1>3, <1>4, <1>5

LEMMA EmitStep ==
    ASSUME IInv, NEW n \in Node, Emit(n)
    PROVE  IInv'
<1> USE TelemetryAssumption DEF IInv
<1>1. Frame(n) \in [node : Node, seq : Nat, v : Versions]
  BY DEF Frame, TypeOK
<1>2. TypeOK'
  BY <1>1 DEF Emit, TypeOK, view
<1>3. UnknownIsClear' /\ DropsAddUp'
  BY SameView DEF Emit
<1>4. NotAhead'
  <2>1. n \in WallSeeded => seq[n] + 1 <= clock + 1
    BY DEF Emit, NotAhead, Due, TypeOK
  <2>2. \A m \in WallSeeded : seq'[m] <= (IF Due(m) THEN clock ELSE clock + 1)'
    BY <2>1 DEF Emit, NotAhead, Due, TypeOK
  <2>3. \A f \in net' : f.node \in WallSeeded => f.seq <= clock' + 1
    BY <2>1 DEF Emit, NotAhead, Frame
  <2> QED
    BY <2>2, <2>3 DEF NotAhead
<1>5. SeedCatchesUp'
  BY DEF Emit, SeedCatchesUp, view
<1> QED
  BY <1>2, <1>3, <1>4, <1>5

LEMMA CrashOrToggleStep ==
    ASSUME IInv, NEW n \in Node, Crash(n) \/ Toggle(n)
    PROVE  IInv'
<1> USE DEF IInv
<1>1. TypeOK'
  BY DEF Crash, Toggle, TypeOK, view
<1>2. UnknownIsClear' /\ DropsAddUp'
  BY SameView DEF Crash, Toggle
<1>3. NotAhead' /\ SeedCatchesUp'
  BY DEF Crash, Toggle, NotAhead, Due, SeedCatchesUp, view
<1> QED
  BY <1>1, <1>2, <1>3

-----------------------------------------------------------------------------
(* The network and the ingest. *)

\* A frame that is kept pays for the numbers it skipped.
LEMMA KeepAddsUp ==
    ASSUME IInv, NEW f \in net, Accepts(f), Keep(f),
           dropped_frames' = [dropped_frames EXCEPT ![f.node] = @ + Gap(f)]
    PROVE  UnknownIsClear' /\ DropsAddUp'
<1> USE DEF IInv
<1>1. f.node \in Node /\ f.seq \in Nat
  BY DEF TypeOK
<1>2. ASSUME NEW n \in nodes', n # f.node
      PROVE  accepted'[n] + dropped_frames'[n] = last_seq'[n] - first_seq'[n] + 1
  BY <1>1, <1>2 DEF Keep, TypeOK, DropsAddUp
<1>3. accepted'[f.node] + dropped_frames'[f.node] = last_seq'[f.node] - first_seq'[f.node] + 1
  <2>1. CASE f.node \notin nodes
    BY <1>1, <2>1 DEF Keep, Gap, TypeOK, UnknownIsClear
  <2>2. CASE f.node \in nodes
    <3>1. f.seq > last_seq[f.node] /\ Gap(f) = f.seq - last_seq[f.node] - 1
      BY <1>1, <2>2 DEF Accepts, Gap, TypeOK
    <3> QED
      BY <1>1, <2>2, <3>1 DEF Keep, TypeOK, DropsAddUp
  <2> QED
    BY <2>1, <2>2
<1>4. UnknownIsClear'
  BY <1>1 DEF Keep, TypeOK, UnknownIsClear
<1> QED
  BY <1>2, <1>3, <1>4 DEF DropsAddUp

LEMMA DeliverStep ==
    ASSUME IInv, NEW f \in net, Deliver(f)
    PROVE  IInv'
<1> USE DEF IInv
<1>1. f.node \in Node /\ f.seq \in Nat /\ net' \subseteq net /\ UNCHANGED <<clock, emitter, sent>>
  BY DEF Deliver, TypeOK
<1>2. NotAhead'
  BY <1>1 DEF NotAhead, Due, emitter
<1>3. CASE Ignore(f)
  <2>1. TypeOK'
    BY <1>1, <1>3 DEF Ignore, TypeOK, emitter, view
  <2>2. UnknownIsClear' /\ DropsAddUp'
    BY <1>3, SameView DEF Ignore
  <2>3. SeedCatchesUp'
    BY <1>1, <1>3 DEF Ignore, SeedCatchesUp, view
  <2> QED
    BY <1>2, <2>1, <2>2, <2>3
<1>4. CASE /\ Accepts(f) /\ Keep(f)
           /\ dropped_frames' = [dropped_frames EXCEPT ![f.node] = @ + Gap(f)]
  <2>1. Gap(f) \in Nat
    BY <1>1 DEF Gap, TypeOK
  <2>2. TypeOK'
    BY <1>1, <1>4, <2>1, TelemetryAssumption DEF Keep, TypeOK, Stale, emitter
  <2>3. UnknownIsClear' /\ DropsAddUp'
    BY <1>4, KeepAddsUp
  <2>4. SeedCatchesUp'
    BY <1>1, <1>4 DEF Keep, TypeOK, NotAhead, SeedCatchesUp
  <2> QED
    BY <1>2, <2>2, <2>3, <2>4
<1> QED
  BY <1>3, <1>4 DEF Deliver

LEMMA LoseStep ==
    ASSUME IInv, NEW f \in net, Lose(f)
    PROVE  IInv'
<1> USE DEF IInv
<1>1. TypeOK'
  BY DEF Lose, TypeOK, emitter, view
<1>2. UnknownIsClear' /\ DropsAddUp'
  BY SameView DEF Lose
<1>3. NotAhead' /\ SeedCatchesUp'
  BY DEF Lose, NotAhead, Due, SeedCatchesUp, emitter, view
<1> QED
  BY <1>1, <1>2, <1>3

\* The clock takes away the lead of the emitters that wake up.
LEMMA TickStep == ASSUME IInv, Tick PROVE IInv'
<1> USE TelemetryAssumption DEF IInv
<1>1. clock' \in 0 .. Horizon /\ clock <= clock'
  BY DEF Tick, TypeOK
<1>2. TypeOK'
  <2>1. pause' \in [Node -> 0 .. Interval]
    BY DEF Tick, TypeOK
  <2>2. age' \in [Node -> 0 .. Stale]
    BY DEF Tick, TypeOK, Older, Stale
  <2> QED
    BY <1>1, <2>1, <2>2 DEF Tick, TypeOK
<1>3. UnknownIsClear' /\ DropsAddUp'
  BY DEF Tick, UnknownIsClear, DropsAddUp
<1>4. NotAhead'
  <2>1. ASSUME NEW n \in WallSeeded
        PROVE  seq'[n] <= (IF Due(n) THEN clock ELSE clock + 1)'
    <3>1. seq[n] <= clock + 1 /\ seq'[n] = seq[n] /\ seq[n] \in Nat
      BY DEF Tick, NotAhead, Due, TypeOK
    <3>2. CASE clock < Horizon
      BY <3>1, <3>2 DEF Tick, TypeOK, Due
    <3>3. CASE clock = Horizon
      BY <3>1, <3>3 DEF Tick, TypeOK, Due
    <3> QED
      BY <3>2, <3>3 DEF TypeOK
  <2>2. \A f \in net' : f.node \in WallSeeded => f.seq <= clock' + 1
    BY <1>1 DEF Tick, NotAhead, TypeOK
  <2> QED
    BY <2>1, <2>2 DEF NotAhead
<1>5. SeedCatchesUp'
  BY <1>1 DEF Tick, SeedCatchesUp, TypeOK
<1> QED
  BY <1>2, <1>3, <1>4, <1>5

LEMMA StutterStep == ASSUME IInv, UNCHANGED vars PROVE IInv'
BY DEF IInv, vars, TypeOK, UnknownIsClear, DropsAddUp, NotAhead, Due, SeedCatchesUp

LEMMA NextIInv == IInv /\ [Next]_vars => IInv'
BY StartStep, EmitStep, CrashOrToggleStep, DeliverStep, LoseStep, TickStep, StutterStep DEF Next

-----------------------------------------------------------------------------
(* The theorems. *)

LEMMA Invariant == Spec => []IInv
BY InitIInv, NextIInv, PTL DEF Spec

\* Every variable of emitters, network and ingest stays in its range.
THEOREM TypeCorrect == Spec => []TypeOK
<1>1. IInv => TypeOK
  BY DEF IInv
<1> QED
  BY <1>1, Invariant, PTL

\* However frames are lost, repeated and reordered, and however often emitters
\* restart, each number between the first and the last kept frame of a node is
\* kept or counted as dropped, once (`TelemetryIngest.ingest`).
THEOREM DropsAddUpHolds == Spec => []DropsAddUp
<1>1. IInv => DropsAddUp
  BY DEF IInv
<1> QED
  BY <1>1, Invariant, PTL

\* The ingest never remembers a number more than one ahead of the clock, for any
\* interval and any crashes: the wall-clock seed of a restart costs one frame.
THEOREM SeedCatchesUpHolds == Spec => []SeedCatchesUp
<1>1. IInv => SeedCatchesUp
  BY DEF IInv
<1> QED
  BY <1>1, Invariant, PTL

-----------------------------------------------------------------------------
(* The safety half of SilenceIsDeath.                                       *)

Silent(n) == ~up[n] \/ mute[n]

\* The frames in flight that would still be taken for a sign of life of n.
Signs(n) == {f \in net : f.node = n /\ Supported(f) /\ Accepts(f)}

FiniteInv == IInv /\ IsFiniteSet(net)

LEMMA NextFinite == FiniteInv /\ [Next]_vars => FiniteInv'
<1> SUFFICES ASSUME FiniteInv, [Next]_vars PROVE IsFiniteSet(net)'
  BY NextIInv DEF FiniteInv
<1>1. ASSUME NEW n \in Node, Emit(n) PROVE IsFiniteSet(net')
  BY <1>1, FS_AddElement DEF Emit, FiniteInv
<1>2. CASE net' \subseteq net
  BY <1>2, FS_Subset DEF FiniteInv
<1>3. (\E n \in Node : Emit(n)) \/ net' \subseteq net
  BY DEF Next, vars, Start, Crash, Toggle, Deliver, Lose, Tick
<1> QED
  BY <1>1, <1>2, <1>3

LEMMA FiniteInvariant == Spec => []FiniteInv
<1>1. Init => FiniteInv
  BY InitIInv, FS_EmptySet DEF Init, FiniteInv
<1> QED
  BY <1>1, NextFinite, PTL DEF Spec

LEMMA SignsFinite ==
    ASSUME FiniteInv, NEW n \in Node
    PROVE  IsFiniteSet(Signs(n)) /\ Cardinality(Signs(n)) \in Nat
BY FS_Subset, FS_CardinalityType DEF FiniteInv, Signs

\* A step cannot make what is old a sign of life; and a kept frame was one, and is
\* none any more.
LEMMA SignsShrink ==
    ASSUME FiniteInv, [Next]_vars, NEW n \in Node, Silent(n)
    PROVE  /\ Signs(n)' \subseteq Signs(n)
           /\ accepted'[n] # accepted[n] => \E f \in Signs(n) : f \notin Signs(n)'
           /\ age'[n] < age[n] => accepted'[n] # accepted[n]
<1> USE TelemetryAssumption DEF FiniteInv, IInv, TypeOK
<1> DEFINE Goal == /\ Signs(n)' \subseteq Signs(n)
                   /\ accepted'[n] # accepted[n] => \E f \in Signs(n) : f \notin Signs(n)'
                   /\ age'[n] < age[n] => accepted'[n] # accepted[n]
<1>1. ASSUME NEW f \in net, Accepts(f), Supported(f), Keep(f), net' \subseteq net PROVE Goal
  <2>1. f.node \in Node /\ f.seq \in Nat
    OBVIOUS
  <2>2. CASE f.node = n
    <3>1. n \in nodes' /\ last_seq'[n] = f.seq
      BY <1>1, <2>1, <2>2 DEF Keep
    <3>2. f \in Signs(n) /\ f \notin Signs(n)'
      BY <1>1, <2>1, <2>2, <3>1 DEF Signs, Accepts
    <3>3. Signs(n)' \subseteq Signs(n)
      <4> SUFFICES ASSUME NEW g \in net, g.node = n, Supported(g), n \in nodes => f.seq > last_seq[n],
                          g.seq > f.seq
                   PROVE  Accepts(g)
        BY <1>1, <2>2, <3>1 DEF Signs, Accepts, Supported
      <4> QED
        BY DEF Accepts
    <3>4. accepted'[n] # accepted[n]
      BY <1>1, <2>2 DEF Keep
    <3> QED
      BY <3>2, <3>3, <3>4
  <2>3. CASE f.node # n
    <3>1. accepted'[n] = accepted[n] /\ age'[n] = age[n] /\ last_seq'[n] = last_seq[n]
          /\ (n \in nodes' <=> n \in nodes)
      BY <1>1, <2>1, <2>3 DEF Keep
    <3> QED
      BY <1>1, <3>1 DEF Signs, Accepts, Supported
  <2> QED
    BY <2>2, <2>3
<1>2. ASSUME UNCHANGED <<nodes, last_seq, accepted>>, ~(age'[n] < age[n]),
             \A g \in net' : g \in net \/ g.node # n
      PROVE  Goal
  BY <1>2 DEF Signs, Accepts, Supported
<1>3. ASSUME NEW m \in Node, Emit(m) PROVE Goal
  <2>1. m # n
    BY <1>3 DEF Emit, Silent
  <2> QED
    BY <1>2, <1>3, <2>1 DEF Emit, view, Frame
<1>4. ASSUME NEW m \in Node, Start(m) \/ Crash(m) \/ Toggle(m) PROVE Goal
  BY <1>2, <1>4 DEF Start, Crash, Toggle, view
<1>5. ASSUME NEW f \in net, Deliver(f) PROVE Goal
  BY <1>1, <1>2, <1>5 DEF Deliver, Ignore, view
<1>6. ASSUME NEW f \in net, Lose(f) PROVE Goal
  BY <1>2, <1>6 DEF Lose, view
<1>7. CASE Tick
  <2>1. ~(age'[n] < age[n])
    BY <1>7 DEF Tick, Older, Stale
  <2> QED
    BY <1>2, <1>7, <2>1 DEF Tick
<1>8. CASE UNCHANGED vars
  BY <1>2, <1>8 DEF vars
<1> QED
  BY <1>3, <1>4, <1>5, <1>6, <1>7, <1>8 DEF Next

\* Of a node that is silent only what is in flight can be taken for a sign of life,
\* and each frame once: an age that goes down uses up at least one of finitely many,
\* however often it is repeated.  The clock does the rest (`TelemetryIngest.ingest`,
\* `fresh_nodes`).
THEOREM SilenceRunsOut ==
    Spec => [][\A n \in Node : Silent(n) =>
                 /\ IsFiniteSet(Signs(n)) /\ Signs(n)' \subseteq Signs(n)
                 /\ age'[n] < age[n] => Cardinality(Signs(n))' < Cardinality(Signs(n))]_vars
<1> DEFINE Runs(n) == Silent(n) =>
                        /\ IsFiniteSet(Signs(n)) /\ Signs(n)' \subseteq Signs(n)
                        /\ age'[n] < age[n] => Cardinality(Signs(n))' < Cardinality(Signs(n))
<1>1. ASSUME FiniteInv, [Next]_vars, NEW n \in Node, Silent(n) PROVE Runs(n)
  <2>1. IsFiniteSet(Signs(n)) /\ Cardinality(Signs(n)) \in Nat /\ Signs(n)' \subseteq Signs(n)
    BY <1>1, SignsFinite, SignsShrink
  <2>2. ASSUME age'[n] < age[n] PROVE Cardinality(Signs(n)') < Cardinality(Signs(n))
    <3>1. Signs(n)' # Signs(n)
      BY <1>1, <2>2, SignsShrink
    <3>2. /\ IsFiniteSet(Signs(n)') /\ Cardinality(Signs(n)') <= Cardinality(Signs(n))
          /\ Cardinality(Signs(n)) = Cardinality(Signs(n)') => Signs(n) = Signs(n)'
      BY <2>1, FS_Subset
    <3>3. Cardinality(Signs(n)') \in Nat
      BY <3>2, FS_CardinalityType
    <3> QED
      BY <2>1, <3>1, <3>2, <3>3
  <2> QED
    BY <2>1, <2>2
<1>2. FiniteInv /\ [Next]_vars =>
        [\A n \in Node : Silent(n) =>
           /\ IsFiniteSet(Signs(n)) /\ Signs(n)' \subseteq Signs(n)
           /\ age'[n] < age[n] => Cardinality(Signs(n))' < Cardinality(Signs(n))]_vars
  BY <1>1
<1> QED
  BY <1>2, FiniteInvariant, PTL DEF Spec
=============================================================================
