----------------------------- MODULE Telemetry -----------------------------
(***************************************************************************)
(* The telemetry contract: emitters beside the workers (the shim, the stub *)
(* emitter, the fake worker), the UDP network, and the TelemetryIngest     *)
(* (src/telemetry.py) that each consumer, router or Tier-1, runs.          *)
(*                                                                         *)
(* A tick is one second of the wall clock, which is what int(time.time())  *)
(* distinguishes.  Horizon bounds the clock, MaxFrames the frames: from     *)
(* then on nobody emits, while the ages, which saturate, still grow.       *)
(***************************************************************************)
EXTENDS Integers, FiniteSets

CONSTANTS
    Node,
    WallSeeded,    \* nodes whose emitter seeds seq from the wall clock
    Fresh,         \* the consumer's freshness window
    Interval,      \* seconds between two frames of an emitter
    Versions,      \* the frame versions emitters may speak
    Horizon,       \* bound of the clock
    MaxFrames      \* bound of the frames one node emits

ASSUME TelemetryAssumption ==
    /\ WallSeeded \subseteq Node
    /\ Fresh \in Nat
    /\ Interval \in Nat \ {0}
    /\ Versions \subseteq Nat /\ 1 \in Versions
    /\ Horizon \in Nat /\ MaxFrames \in Nat

FRAME_VERSION == 1

VARIABLES
    clock,                       \* wall clock
    up, mute, seq, ver, pause,   \* emitters
    net,                         \* frames in flight, and copies of delivered ones
    nodes, last_seq, age,        \* TelemetryIngest.nodes: its keys and views
    dropped_frames,
    first_seq, accepted,         \* history: first frame and number of frames kept
    sent                         \* history: number of frames emitted

emitter == <<up, mute, seq, ver, pause>>
view    == <<nodes, last_seq, age, dropped_frames, first_seq, accepted>>
vars    == <<clock, up, mute, seq, ver, pause, net, nodes, last_seq, age,
             dropped_frames, first_seq, accepted, sent>>

Stale == Fresh + 1

\* now - received_monotonic after one more second.  The code only compares it
\* with the window, so all ages past the window are one age, Stale.
Older(a) == IF a < Stale THEN a + 1 ELSE Stale

Frame(n) == [node |-> n, seq |-> seq[n] + 1, v |-> ver[n]]

Init ==
    /\ clock = 0
    /\ up = [n \in Node |-> FALSE]
    /\ mute = [n \in Node |-> FALSE]
    /\ seq = [n \in Node |-> 0]
    /\ ver = [n \in Node |-> 1]
    /\ pause = [n \in Node |-> 0]
    /\ net = {}
    /\ nodes = {}
    /\ last_seq = [n \in Node |-> 0]
    /\ age = [n \in Node |-> Stale]
    /\ dropped_frames = [n \in Node |-> 0]
    /\ first_seq = [n \in Node |-> 0]
    /\ accepted = [n \in Node |-> 0]
    /\ sent = [n \in Node |-> 0]

-----------------------------------------------------------------------------
(* Emitters. *)

\* Mutant: a restart goes on from the last number, plus a safety margin.
SeedLast(n) == seq[n] + 1

\* Shim and stub emitter start from int(time.time()), the fake worker from 0.
Seed(n) == IF n \in WallSeeded THEN clock ELSE 0

\* The emitter process starts, perhaps upgraded to another frame version.
Start(n) ==
    /\ ~up[n] /\ clock < Horizon
    /\ up' = [up EXCEPT ![n] = TRUE]
    /\ seq' = [seq EXCEPT ![n] = Seed(n)]
    /\ \E v \in Versions : ver' = [ver EXCEPT ![n] = v]
    /\ pause' = [pause EXCEPT ![n] = 0]
    /\ UNCHANGED <<clock, mute, net, view, sent>>

Crash(n) ==
    /\ up[n]
    /\ up' = [up EXCEPT ![n] = FALSE]
    /\ UNCHANGED <<clock, mute, seq, ver, pause, net, view, sent>>

\* The worker stops, or resumes, answering the scrape (fake worker: emitting).
Toggle(n) ==
    /\ up[n]
    /\ mute' = [mute EXCEPT ![n] = ~@]
    /\ UNCHANGED <<clock, up, seq, ver, pause, net, view, sent>>

\* One round of the emitter loop: no scrape, no frame; silence = death.
Emit(n) ==
    /\ up[n] /\ ~mute[n] /\ pause[n] = 0
    /\ clock < Horizon /\ sent[n] < MaxFrames
    /\ seq' = [seq EXCEPT ![n] = @ + 1]
    /\ net' = net \cup {Frame(n)}
    /\ sent' = [sent EXCEPT ![n] = @ + 1]
    /\ pause' = [pause EXCEPT ![n] = Interval]
    /\ UNCHANGED <<clock, up, mute, ver, view>>

-----------------------------------------------------------------------------
(* The ingest. *)

Supported(f) == f.v <= FRAME_VERSION

Accepts(f) == f.node \notin nodes \/ f.seq > last_seq[f.node]

\* Mutant: every sequence number between two frames, both ends included.
GapInclusive(f) ==
    IF f.node \in nodes /\ f.seq > last_seq[f.node]
      THEN f.seq - last_seq[f.node] ELSE 0

\* The sequence numbers skipped by f, counted when f arrives.
Gap(f) ==
    IF f.node \in nodes /\ f.seq > last_seq[f.node] + 1
      THEN f.seq - last_seq[f.node] - 1 ELSE 0

Keep(f) ==
    /\ nodes' = nodes \cup {f.node}
    /\ last_seq' = [last_seq EXCEPT ![f.node] = f.seq]
    /\ age' = [age EXCEPT ![f.node] = 0]
    /\ first_seq' = [first_seq EXCEPT ![f.node] = IF f.node \in nodes THEN @ ELSE f.seq]
    /\ accepted' = [accepted EXCEPT ![f.node] = @ + 1]

\* Mutant: the gap is booked without its guard, also for a frame that is late,
\* and the counter of drops runs backwards.
IgnoreButCount(f) ==
    /\ dropped_frames' = [dropped_frames EXCEPT ![f.node] =
           IF Supported(f) /\ f.node \in nodes THEN @ + f.seq - last_seq[f.node] - 1 ELSE @]
    /\ UNCHANGED <<nodes, last_seq, age, first_seq, accepted>>

\* Mutant: a frame is a sign of life even if its number is old.
IgnoreButStamp(f) ==
    /\ age' = [age EXCEPT ![f.node] = 0]
    /\ UNCHANGED <<nodes, last_seq, dropped_frames, first_seq, accepted>>

\* A frame of another version, or one that is late or repeated, leaves no trace.
Ignore(f) == UNCHANGED view

\* A datagram arrives; a copy of it may arrive again later.
Deliver(f) ==
    /\ f \in net
    /\ net' \in {net, net \ {f}}
    /\ \/ /\ Supported(f) /\ Accepts(f)
          /\ dropped_frames' = [dropped_frames EXCEPT ![f.node] = @ + Gap(f)]
          /\ Keep(f)
       \/ /\ Supported(f) => ~Accepts(f)
          /\ Ignore(f)
    /\ UNCHANGED <<clock, emitter, sent>>

Lose(f) ==
    /\ f \in net
    /\ net' = net \ {f}
    /\ UNCHANGED <<clock, emitter, view, sent>>

Tick ==
    /\ clock' = IF clock < Horizon THEN clock + 1 ELSE Horizon
    /\ pause' = [n \in Node |-> IF pause[n] > 0 THEN pause[n] - 1 ELSE 0]
    /\ age' = [n \in Node |-> Older(age[n])]
    /\ UNCHANGED <<up, mute, seq, ver, net, nodes, last_seq, dropped_frames,
                   first_seq, accepted, sent>>

Next ==
    \/ \E n \in Node : Start(n) \/ Crash(n) \/ Toggle(n) \/ Emit(n)
    \/ \E f \in net : Deliver(f) \/ Lose(f)
    \/ Tick

Spec     == Init /\ [][Next]_vars
FairSpec == Spec /\ WF_vars(Tick)

-----------------------------------------------------------------------------
(* Properties. *)

IsFresh(n) == age[n] <= Fresh
FreshNodes == {n \in nodes : IsFresh(n)}

TypeOK ==
    /\ clock \in 0 .. Horizon
    /\ up \in [Node -> BOOLEAN]
    /\ mute \in [Node -> BOOLEAN]
    /\ seq \in [Node -> Nat]
    /\ ver \in [Node -> Versions]
    /\ pause \in [Node -> 0 .. Interval]
    /\ net \subseteq [node : Node, seq : Nat, v : Versions]
    /\ nodes \subseteq Node
    /\ last_seq \in [Node -> Nat]
    /\ age \in [Node -> 0 .. Stale]
    /\ dropped_frames \in [Node -> Nat]
    /\ first_seq \in [Node -> Nat]
    /\ accepted \in [Node -> Nat]
    /\ sent \in [Node -> Nat]

\* dropped_frames is exact about what it counts, whatever the network does and
\* however often emitters restart: the sequence numbers between the first and
\* the last frame kept are either kept or counted as dropped, none twice.
DropsAddUp ==
    \A n \in nodes :
        accepted[n] + dropped_frames[n] = last_seq[n] - first_seq[n] + 1

\* The wall-clock seed: the ingest never holds a sequence number more than one
\* ahead of the clock, so a restarted emitter is ignored for one frame at most.
SeedCatchesUp ==
    \A n \in WallSeeded \cap nodes : last_seq[n] <= clock + 1

\* Silence = death: a node that stops emitting leaves the fresh set for good,
\* although late frames and copies of old ones may still arrive.
SilenceIsDeath ==
    \A n \in Node : <>[](~up[n] \/ mute[n]) => <>[](n \notin FreshNodes)
=============================================================================
