----------------------------- MODULE MCAccounts -----------------------------
(* The three that create and destroy instances, for TLC: a pool of Lambda,  *)
(* a pool of RunPod, and the dead man.  They share nothing, so that one of  *)
(* them is at work in a behaviour, and the others rest.                     *)
EXTENDS Lambda

CONSTANTS N, Roles, Faults, NoPod,
          LambdaInst, RunPodInst, GcpInst, Attempts, Backstops, Flaky, Creating

ASSUME AccountsAssumption ==
    /\ N \in Nat \ {0} /\ Roles \subseteq BOOLEAN
    /\ TRUE \in Roles => N = 2
    /\ Faults \subseteq {"unusable", "raise"} /\ NoPod \notin 1 .. N
    /\ LambdaInst \cap RunPodInst = {} /\ GcpInst \cap (LambdaInst \cup RunPodInst) = {}
    /\ Attempts \in Nat \ {0}
    /\ Backstops # {} /\ Backstops \subseteq BOOLEAN
    /\ {Flaky, Creating} \subseteq BOOLEAN

VARIABLES head, pods, rphase, cur, handles, todo, target, asked, rtries, killed, served,
          cloud, dat, ids, listed, attempt, backstop, clean, disturbed

R == INSTANCE RunPod WITH phase <- rphase, tries <- rtries
D == INSTANCE DeadMan WITH at <- dat,
                           Lambda <- LambdaInst, RunPod <- RunPodInst, Gcp <- GcpInst

rvars   == <<head, pods, rphase, cur, handles, todo, target, asked, rtries, killed, served>>
dvars   == <<cloud, dat, ids, listed, attempt, backstop, clean, disturbed>>
allvars == <<vars, rvars, dvars>>

RunPodRests  == R!InitAt("none") /\ head = (FALSE \notin Roles)
DeadManRests == D!InitAt("done") /\ cloud = {} /\ backstop = (TRUE \in Backstops)

MCInit ==
    \/ Init           /\ RunPodRests /\ DeadManRests
    \/ InitAt("none") /\ R!Init      /\ DeadManRests
    \/ InitAt("none") /\ RunPodRests /\ D!Init

MCNext ==
    \/ Next   /\ UNCHANGED <<rvars, dvars>>
    \/ R!Next /\ UNCHANGED <<vars, dvars>>
    \/ D!Next /\ UNCHANGED <<vars, rvars>>

MCSpec == /\ MCInit /\ [][MCNext]_allvars
          /\ Fairness /\ R!Fairness

-----------------------------------------------------------------------------
\* Type correctness of the three.
TypesOK == TypeOK /\ R!TypeOK /\ D!TypeOK

\* RunPod: a pool that came up has served.
UpServes == R!UpServes

\* Both adapters keep the promise of the interface: acquire returns handles that
\* cover all it created, or raises.
BothKeepThePromise == KeepsThePromise /\ R!KeepsThePromise

\* However a run ended, and whatever its file says, repeated sweeps empty the
\* accounts of both providers.
BothSweptClean ==
    phase = "over" \/ rphase = "over"
        ~> (\A i \in Inst : ~Exists(i)) /\ (\A p \in 1 .. N : ~R!Exists(p))

\* The dead man leaves nothing if the API is healthy and nobody is creating.
DoneMeansZero == D!DoneMeansZero

\* The dead man has a bounded number of requests before him, whatever fails.
RequestsAreBounded == D!RequestsAreBounded
=============================================================================
