------------------------------- MODULE Legacy -------------------------------
(***************************************************************************)
(* The first generation (src/legacy): an aggregator collects one report    *)
(* per target and sends the whole map to the hidden master every second;   *)
(* the CoreDNS plugin there merges it into its StateCache, computes the    *)
(* best route, and rewrites the zone once a new best is pending for the    *)
(* debounce time.  The listener handles a snapshot under the mutex; the    *)
(* callback of the timer is a goroutine that takes the mutex to commit,    *)
(* and writes the zone file after it has let go of it.  Stop does not      *)
(* reach a callback that has started, and callbacks wait for nothing but   *)
(* the mutex: two of them may write the zone in either order, and a write  *)
(* that fails is not tried again.                                          *)
(*                                                                         *)
(* A target is its own address.  A tick is one second; a timer that is due *)
(* may fire late, and a callback may take any number of ticks.  One write  *)
(* of the zone file is taken as a whole.                                   *)
(***************************************************************************)
EXTENDS Naturals, Functions

CONSTANTS
    Target,
    Quality,     \* what a target reports: [ttft, primary], the latter for
                 \* VRAM and price within their limits
    NoIP,        \* the empty string
    Window,      \* ticks a report counts for
    Debounce,    \* ticks of the timer
    Callbacks    \* bound: callbacks that have started and not yet ended

ASSUME LegacyAssumption ==
    /\ Quality \subseteq [ttft : Nat, primary : BOOLEAN]
    /\ NoIP \notin Target
    /\ Window \in Nat
    /\ Debounce \in Nat \ {0}
    /\ Callbacks \in Nat \ {0}

VARIABLES
    cluster,     \* the aggregator's cluster_state
    StateCache,  \* the plugin's copy
    sent,        \* whether a snapshot went out this tick
    last,        \* LastBestIP
    pending,     \* PendingIP
    timer,       \* ticks until it fires, or Off
    started,     \* callbacks that wait for the mutex
    writing,     \* of each address, how many committed callbacks have yet to
                 \* write it
    zone,        \* the A record of the zone file
    spoiled      \* history, since the last commit: "failed" when a write has
                 \* failed, "crossed" when an earlier one was still to come, or "no"

plugin == <<last, pending, timer>>
file   == <<writing, zone, spoiled>>
vars   == <<cluster, StateCache, sent, plugin, started, file>>

Off  == Debounce + 1
Gone == Window + 1

\* The addresses some callback has yet to write.
Unwritten == {ip \in Target \cup {NoIP} : writing[ip] > 0}

Unseen == [q |-> CHOOSE q \in Quality : TRUE, age |-> Gone]

Init ==
    /\ cluster = [n \in Target |-> Unseen]
    /\ StateCache = [n \in Target |-> Unseen]
    /\ sent = FALSE
    /\ last = NoIP /\ pending = NoIP
    /\ timer = Off /\ started = 0
    /\ writing = [ip \in Target \cup {NoIP} |-> 0]
    /\ zone = NoIP
    /\ spoiled = "no"

-----------------------------------------------------------------------------
(* calculateBestRoute. *)

Cheapest(c, S) == {n \in S : \A m \in S : c[n].q.ttft <= c[m].q.ttft}

\* Of the fresh targets those of lowest TTFT, in the primary tier if it has any;
\* which of several is up to the order of a Go map.
BestRoutes(c) ==
    LET fresh   == {n \in Target : c[n].age <= Window}
        primary == {n \in fresh : c[n].q.primary}
    IN  CASE fresh = {}   -> {NoIP}
          [] primary # {} -> Cheapest(c, primary)
          [] OTHER        -> Cheapest(c, fresh)

-----------------------------------------------------------------------------
(* The aggregator and the listener of the plugin. *)

Report(n) ==
    /\ \E q \in Quality : cluster' = [cluster EXCEPT ![n] = [q |-> q, age |-> 0]]
    /\ UNCHANGED <<StateCache, sent, plugin, started, file>>

\* Mutant: a pending route is queued again by every snapshot.
ShiftAlways(best) == best # NoIP /\ best # last

\* A new best route, neither committed nor pending.
Shift(best) == best # NoIP /\ best # last /\ best # pending

\* A snapshot arrives; a target that is not fresh counts as unseen.  The new best
\* is pending, and the timer starts afresh; when the old best is back, what is
\* pending stays so.
Snapshot ==
    /\ ~sent /\ \E n \in Target : cluster[n] # Unseen
    /\ sent' = TRUE
    /\ StateCache' = cluster
    /\ \E best \in BestRoutes(cluster) :
         IF Shift(best)
           THEN pending' = best /\ timer' = Debounce
           ELSE UNCHANGED <<pending, timer>>
    /\ UNCHANGED <<cluster, last, started, file>>

-----------------------------------------------------------------------------
(* The timer and its callback. *)

InFlight == started + SumFunction(writing)

Fire ==
    /\ timer = 0 /\ InFlight < Callbacks
    /\ timer' = Off
    /\ started' = started + 1
    /\ UNCHANGED <<cluster, StateCache, sent, last, pending, file>>

\* Under the mutex, what is pending is committed.
Commit ==
    /\ started > 0
    /\ started' = started - 1
    /\ last' = pending /\ pending' = NoIP
    /\ writing' = [writing EXCEPT ![pending] = @ + 1]
    /\ spoiled' = IF Unwritten # {} THEN "crossed" ELSE "no"
    /\ UNCHANGED <<cluster, StateCache, sent, timer, zone>>

\* rewriteZoneFile, of any callback that has committed; its error is printed.
Rewrite ==
    /\ \E ip \in Unwritten :
         /\ writing' = [writing EXCEPT ![ip] = @ - 1]
         /\ \/ zone' = ip /\ spoiled' = spoiled
            \/ zone' = zone /\ spoiled' = "failed"
    /\ UNCHANGED <<cluster, StateCache, sent, plugin, started>>

Older(c) == [n \in Target |-> [c[n] EXCEPT !.age = IF @ < Gone THEN @ + 1 ELSE Gone]]

Tick ==
    /\ timer' = IF timer \in {0, Off} THEN timer ELSE timer - 1
    /\ cluster' = Older(cluster)
    /\ StateCache' = Older(StateCache)
    /\ sent' = FALSE
    /\ UNCHANGED <<last, pending, started, file>>

Next == (\E n \in Target : Report(n)) \/ Snapshot \/ Fire \/ Commit \/ Rewrite \/ Tick

\* Snapshots may be lost, but not all of them; a timer that is due fires, and a
\* goroutine gets the mutex and ends its write, though nothing says when.
Fairness ==
    /\ SF_vars(Snapshot) /\ WF_vars(Fire) /\ WF_vars(Commit) /\ WF_vars(Rewrite)
    /\ WF_vars(Tick)

Spec     == Init /\ [][Next]_vars
FairSpec == Spec /\ Fairness

-----------------------------------------------------------------------------
(* Properties. *)

\* n is fresh, and better than every other fresh target: of a better tier, or of
\* the same and quicker.
Preferred(n, c) ==
    /\ c[n].age <= Window
    /\ \A m \in Target \ {n} :
         c[m].age <= Window =>
             \/ c[n].q.primary /\ ~c[m].q.primary
             \/ c[n].q.primary = c[m].q.primary /\ c[n].q.ttft < c[m].q.ttft

\* Once one target is settled as the preferred one it is what the zone says,
\* whatever the timer, the listener and the callbacks did before to each other's
\* pending route: unless the write of the last commit failed or crossed another,
\* which nothing ever repairs.
Settles ==
    \A n \in Target :
        <>[](Preferred(n, cluster) /\ Preferred(n, StateCache))
            => <>[](zone = n \/ spoiled # "no")

-----------------------------------------------------------------------------
(* What the documentation says, and the code does not do. *)

\* "2.5s debounce; on commit it rewriteZoneFile()": the zone ends up with the
\* preferred target, unless a write of it fails: two callbacks that write it one
\* after the other leave what was committed last.
SettlesAnyway ==
    \A n \in Target :
        <>[](Preferred(n, cluster) /\ Preferred(n, StateCache))
            => <>[](zone = n \/ spoiled = "failed")

\* A zone that has an address is never rewritten without one.
NeverEmptied == [][zone # NoIP => zone' # NoIP]_zone
=============================================================================
