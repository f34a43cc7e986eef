---------------------------- MODULE Orchestrator ----------------------------
(***************************************************************************)
(* The orchestrator (src/orchestrator): one run, from `gpuha up` over any  *)
(* number of `down` and `reap` commands, each a process of its own that    *)
(* may be killed.  The provider's account (cloud) is the truth; the run's  *)
(* JSON file (status, res, wired) is what the orchestrator remembers, and  *)
(* every mutator of RunState saves it; the pool map file and the Tier-1    *)
(* service that loads it on restart are what clients are sent to.          *)
(*                                                                         *)
(* `up` runs one thread per pool; pc[p] is where the thread of p is:       *)
(*   create  in the adapter's acquire, made[p] instances so far            *)
(*   record  add_resource for every handle acquire returned                *)
(*   boot    bootstrap and verify, handle after handle                     *)
(*   ok, capacity, error    the entry it left in results                   *)
(* Commands do not overlap: an operator waits for one, or kills it.        *)
(***************************************************************************)
EXTENDS Naturals, FiniteSets

CONSTANTS
    Pool,
    Provider,      \* the adapter of a pool: gcp_stub, lambda or runpod
    Size,          \* the instances a pool asks for
    Head,          \* the pools with router_head: a head and its sibling
    Regions,       \* the regions lambda tries in turn
    MinPools,      \* min_pools, the quorum
    Killable,      \* the commands that may be killed
    Fallible       \* what may raise beside the providers: adapter, the making of
                   \* one, and the halves of apply: write, restart

Adapters == {"gcp_stub", "lambda", "runpod"}
Commands == {"up", "down", "reap"}

ASSUME OrchestratorAssumption ==
    /\ IsFiniteSet(Pool)
    /\ Provider \in [Pool -> Adapters]
    /\ Size \in Nat \ {0}
    /\ Head \subseteq {p \in Pool : Provider[p] # "gcp_stub"}
    /\ Size > 1 => \A p \in Pool : Provider[p] = "lambda" => p \in Head
    /\ Regions \in Nat \ {0}
    /\ MinPools \in Nat
    /\ Killable \subseteq Commands
    /\ Fallible \subseteq {"adapter", "write", "restart"}

VARIABLES
    cloud,               \* instances that exist, and bill
    late,                \* creations in flight when `up` was killed
    status, res, wired,  \* the run's file: status, resources, pools
    mem, file, served,   \* the pool map: in the process, on disk, in Tier-1
    op, phase,           \* the running command, and where its main thread is
    pc, made, region,    \* the threads of up
    todo,                \* what a teardown or a reap still has to destroy
    erred,               \* history: the last teardown reported an error
    missed               \* history: what lived on when a delete was taken for done

record  == <<status, res, wired>>
poolmap == <<mem, file, served>>
threads == <<pc, made, region>>
vars    == <<cloud, late, status, res, wired, mem, file, served, op, phase, pc,
             made, region, todo, erred, missed>>

\* The instances of a pool; <<p, 0>> is what an acquire has left in some region
\* when it went on to the next.
Instance == Pool \X (0 .. Size)

\* A head's handle has its sibling inside; other pools have one per instance.
Handles(p) == IF p \in Head THEN {<<p, 1>>} ELSE {p} \X (1 .. Size)
Covers(h)  == IF h[1] \in Head THEN {h[1]} \X (1 .. Size) ELSE {h}

\* Mutant: only what came up is torn down.
verified_resources == {h \in Instance : res[h] = "verified"}

active_resources ==
    {h \in Instance : res[h] \notin {"unknown", "torn_down"}}

Outcomes == {"ok", "capacity", "error"}
Ok       == {p \in Pool : pc[p] = "ok"}

Threads0 ==
    /\ pc' = [p \in Pool |-> "create"]
    /\ made' = [p \in Pool |-> 0]
    /\ region' = [p \in Pool |-> 1]

Init ==
    /\ cloud = {} /\ late = {}
    /\ status = "none"
    /\ res = [h \in Instance |-> "unknown"]
    /\ wired = {}
    /\ mem = {} /\ file = {} /\ served = {}
    /\ op = "none" /\ phase = "none"
    /\ pc = [p \in Pool |-> "create"]
    /\ made = [p \in Pool |-> 0]
    /\ region = [p \in Pool |-> 1]
    /\ todo = {} /\ erred = FALSE /\ missed = {}

\* The command is over, and its memory gone.
Exit == op' = "none" /\ phase' = "none" /\ todo' = {} /\ mem' = {} /\ Threads0

-----------------------------------------------------------------------------
(* up: the thread of pool p. *)

\* The run is on disk before anything is created.
Up ==
    /\ op = "none" /\ status = "none"
    /\ op' = "up" /\ phase' = "bring_up"
    /\ status' = "initializing"
    /\ mem' = file
    /\ UNCHANGED <<cloud, late, res, wired, file, served, threads, todo, erred, missed>>

InThread(p, q) == op = "up" /\ phase = "bring_up" /\ pc[p] = q

\* What a thread may touch; its siblings and the main thread see the rest.
Rest == <<late, status, poolmap, op, phase, todo, erred, missed>>

\* lambda goes on to the next region, without what it leaves in this one.
Abandoned(p, left) ==
    IF \E i \in left : i[1] = p THEN {i \in left : i[1] # p} \cup {<<p, 0>>} ELSE left

\* Mutant: capacity-out sends lambda back to the region it came from.
RaisesForever(p, why, left) ==
    IF Provider[p] = "lambda" /\ why = "capacity"
      THEN /\ made' = [made EXCEPT ![p] = 0]
           /\ cloud' = Abandoned(p, left)
           /\ UNCHANGED <<pc, region>>
      ELSE /\ pc' = [pc EXCEPT ![p] = why]
           /\ cloud' = left
           /\ UNCHANGED <<made, region>>

\* acquire raises, and leaves the account as it is.  On capacity-out, lambda goes
\* on with the next region.
Raises(p, why, left) ==
    IF Provider[p] = "lambda" /\ why = "capacity" /\ region[p] < Regions
      THEN /\ region' = [region EXCEPT ![p] = @ + 1]
           /\ made' = [made EXCEPT ![p] = 0]
           /\ cloud' = Abandoned(p, left)
           /\ UNCHANGED pc
      ELSE /\ pc' = [pc EXCEPT ![p] = why]
           /\ cloud' = left
           /\ UNCHANGED <<made, region>>

\* The last create of p failed, with `exist` in the cloud.  Only lambda cleans
\* up: it terminates its first instance, and if that fails raises that instead.
GiveUp(p, why, exist) ==
    \/ /\ Provider[p] = "lambda" /\ made[p] > 0
       /\ \/ Raises(p, why, exist \ {<<p, 1>>})
          \/ \E e \in {"capacity", "error"} : Raises(p, e, exist)
    \/ /\ Provider[p] = "lambda" => made[p] = 0
       /\ Raises(p, why, exist)

\* Mutant: the loop over the workers makes one too many.
CreateOneMore(p) ==
    /\ InThread(p, "create")
    /\ cloud' = cloud \cup {<<p, made[p] + 1>>}
    /\ made' = [made EXCEPT ![p] = @ + 1]
    /\ pc' = [pc EXCEPT ![p] = IF made[p] = Size THEN "record" ELSE @]
    /\ UNCHANGED <<Rest, res, wired, region>>

\* An instance is created and usable.
Create(p) ==
    /\ InThread(p, "create")
    /\ cloud' = cloud \cup {<<p, made[p] + 1>>}
    /\ made' = [made EXCEPT ![p] = @ + 1]
    /\ pc' = [pc EXCEPT ![p] = IF made[p] + 1 = Size THEN "record" ELSE @]
    /\ UNCHANGED <<Rest, res, wired, region>>

\* The provider refuses the next instance: capacity-out, or any other error.
Refuse(p) ==
    /\ InThread(p, "create")
    /\ \E why \in {"capacity", "error"} : GiveUp(p, why, cloud)
    /\ UNCHANGED <<Rest, res, wired>>

\* The instance is created, but the answer is lost, it never becomes active, or
\* asking for its address fails: lambda takes whatever speaks of capacity for
\* capacity-out.
Unusable(p) ==
    /\ InThread(p, "create")
    /\ \E why \in IF Provider[p] = "lambda" THEN {"capacity", "error"} ELSE {"error"} :
         GiveUp(p, why, cloud \cup {<<p, made[p] + 1>>})
    /\ UNCHANGED <<Rest, res, wired>>

\* add_resource, handle after handle.
Record(p) ==
    /\ InThread(p, "record")
    /\ \E h \in Handles(p) :
         /\ res[h] = "unknown"
         /\ \A g \in Handles(p) : g[2] < h[2] => res[g] # "unknown"
         /\ res' = [res EXCEPT ![h] = "created"]
         /\ pc' = [pc EXCEPT ![p] =
                     IF \A g \in Handles(p) : g[2] <= h[2] THEN "boot" ELSE @]
    /\ UNCHANGED <<Rest, cloud, wired, made, region>>

\* bootstrap, then verify, of the first handle that is not verified yet.
Boot(p) ==
    /\ InThread(p, "boot")
    /\ \E h \in Handles(p) :
         /\ res[h] # "verified"
         /\ \A g \in Handles(p) : g[2] < h[2] => res[g] = "verified"
         /\ res' = [res EXCEPT ![h] =
                      IF @ = "created" THEN "bootstrapped" ELSE "verified"]
    /\ UNCHANGED <<Rest, cloud, wired, threads>>

\* bootstrap or verify fails: the pool is out, its resources stay recorded.
BootFails(p) ==
    /\ InThread(p, "boot")
    /\ \E h \in Handles(p) : res[h] # "verified"
    /\ pc' = [pc EXCEPT ![p] = "error"]
    /\ UNCHANGED <<Rest, cloud, res, wired, made, region>>

\* Mutant: a pool is noted as soon as its handles are recorded.
SetPoolEarly(p) ==
    /\ InThread(p, "boot")
    /\ wired' = wired \cup {p}
    /\ pc' = [pc EXCEPT ![p] = "ok"]
    /\ UNCHANGED <<Rest, cloud, res, made, region>>

SetPool(p) ==
    /\ InThread(p, "boot")
    /\ \A h \in Handles(p) : res[h] = "verified"
    /\ wired' = wired \cup {p}
    /\ pc' = [pc EXCEPT ![p] = "ok"]
    /\ UNCHANGED <<Rest, cloud, res, made, region>>

-----------------------------------------------------------------------------
(* up: the main thread. *)

\* The partial fabric is torn down.
Abort ==
    /\ status' = "aborting"
    /\ phase' = "teardown"
    /\ todo' = active_resources
    /\ UNCHANGED <<cloud, late, res, wired, poolmap, op, threads, erred, missed>>

\* All threads have ended: quorum, or abort.
Join ==
    /\ op = "up" /\ phase = "bring_up"
    /\ \A p \in Pool : pc[p] \in Outcomes
    /\ \/ /\ Cardinality(Ok) < MinPools
          /\ Abort
       \/ /\ Cardinality(Ok) >= MinPools
          /\ mem' = mem \cup wired
          /\ phase' = "write"
          /\ UNCHANGED <<cloud, late, record, file, served, op, threads, todo, erred, missed>>

\* apply, first half: the map file is replaced.
Write ==
    /\ phase = "write"
    /\ file' = mem
    /\ phase' = "restart"
    /\ UNCHANGED <<cloud, late, record, mem, served, op, threads, todo, erred, missed>>

\* apply, second half: Tier-1 restarts and loads the file.
Restart ==
    /\ phase = "restart"
    /\ served' = file
    /\ \/ /\ op = "up"
          /\ phase' = "verify"
          /\ UNCHANGED <<status, mem, op, threads, todo>>
       \/ /\ op = "down"
          /\ status' = "down"
          /\ Exit
    /\ UNCHANGED <<cloud, late, res, wired, file, erred, missed>>

\* apply raises in one of its halves: up aborts, down ends with the exception.
ApplyFails ==
    /\ phase \in Fallible
    /\ \/ op = "up" /\ Abort
       \/ /\ op = "down"
          /\ Exit
          /\ UNCHANGED <<cloud, late, record, file, served, erred, missed>>

\* verify_fabric: the fabric answers, or the run is aborted.
Verify ==
    /\ phase = "verify"
    /\ \/ Abort
       \/ /\ status' = "up"
          /\ Exit
          /\ UNCHANGED <<cloud, late, res, wired, file, served, erred, missed>>

-----------------------------------------------------------------------------
(* _teardown_all, in up and in down. *)

\* Mutant: a resource is marked whether or not its teardown raised.
TeardownMarksFirst(h) ==
    /\ phase = "teardown" /\ h \in todo
    /\ \E gone \in SUBSET Covers(h) : cloud' = cloud \ gone
    /\ res' = [res EXCEPT ![h] = "torn_down"]
    /\ todo' = todo \ {h}
    /\ UNCHANGED <<late, status, wired, poolmap, op, phase, threads, erred, missed>>

\* The resource is gone, and marked.  gcloud fails on what is already gone.
Teardown(h) ==
    /\ phase = "teardown" /\ h \in todo
    /\ Provider[h[1]] = "gcp_stub" => h \in cloud
    /\ cloud' = cloud \ Covers(h)
    /\ res' = [res EXCEPT ![h] = "torn_down"]
    /\ todo' = todo \ {h}
    /\ UNCHANGED <<late, status, wired, poolmap, op, phase, threads, erred, missed>>

\* Part of it may live on, and yet it is marked: runpod does not look at what its
\* _delete returns, and lambda takes a "not found" of the batch, or a list that got
\* lost, for the end of all of it.
TeardownMisled(h) ==
    /\ phase = "teardown" /\ h \in todo
    /\ Provider[h[1]] # "gcp_stub"
    /\ \E gone \in SUBSET Covers(h) : cloud' = cloud \ gone
    /\ res' = [res EXCEPT ![h] = "torn_down"]
    /\ missed' = missed \cup (Covers(h) \cap cloud')
    /\ todo' = todo \ {h}
    /\ UNCHANGED <<late, status, wired, poolmap, op, phase, threads, erred>>

\* The teardown of a resource raises, which is reported; part of it may be gone.
TeardownFails(h) ==
    /\ phase = "teardown" /\ h \in todo
    /\ \E gone \in SUBSET Covers(h) : cloud' = cloud \ gone
    /\ todo' = todo \ {h}
    /\ erred' = TRUE
    /\ UNCHANGED <<late, status, res, wired, poolmap, op, phase, threads, missed>>

\* No adapter can be made for a provider whose first resource it is: a `down` ends
\* with the exception.  (An `up` has made them when it comes here.)
AdapterFails ==
    /\ op = "down" /\ phase = "teardown" /\ "adapter" \in Fallible
    /\ \E h \in todo :
         \A g \in active_resources : Provider[g[1]] = Provider[h[1]] => g \in todo
    /\ Exit
    /\ UNCHANGED <<cloud, late, record, file, served, erred, missed>>

\* Nothing is left to try: up has failed, down goes on to the pool map.
TornDown ==
    /\ phase = "teardown" /\ todo = {}
    /\ \/ /\ op = "up"
          /\ status' = "failed"
          /\ Exit
       \/ /\ op = "down"
          /\ phase' = "unwire"
          /\ UNCHANGED <<status, mem, op, threads, todo>>
    /\ UNCHANGED <<cloud, late, res, wired, file, served, erred, missed>>

-----------------------------------------------------------------------------
(* down. *)

Down ==
    /\ op = "none" /\ status # "none"
    /\ op' = "down" /\ phase' = "teardown"
    /\ status' = "aborting"
    /\ todo' = active_resources
    /\ mem' = file /\ erred' = FALSE
    /\ UNCHANGED <<cloud, late, res, wired, file, served, threads, missed>>

\* remove_pool and unset_pool: out of the map in memory, and of the run's file.
Unwire(p) ==
    /\ phase = "unwire" /\ p \in wired
    /\ mem' = mem \ {p}
    /\ wired' = wired \ {p}
    /\ UNCHANGED <<cloud, late, status, res, file, served, op, phase, threads,
                   todo, erred, missed>>

Unwired ==
    /\ phase = "unwire" /\ wired = {}
    /\ phase' = "write"
    /\ UNCHANGED <<cloud, late, record, poolmap, op, threads, todo, erred, missed>>

-----------------------------------------------------------------------------
(* reap. *)

\* Mutant: the sweep lists what the run's file knows.
ListedRecorded(reached) ==
    {i \in cloud : i[1] \in reached /\ \E h \in active_resources : i \in Covers(h)}

\* Each provider reached lists what carries the run's tag, whatever is recorded.
Listed(reached) == {i \in cloud : i[1] \in reached}

Reap(reached) ==
    /\ op = "none" /\ status # "none"
    /\ op' = "reap" /\ phase' = "reap"
    /\ todo' = Listed(reached)
    /\ UNCHANGED <<cloud, late, record, poolmap, threads, erred, missed>>

ReapDelete(i) ==
    /\ phase = "reap" /\ i \in todo
    /\ cloud' = cloud \ {i}
    /\ todo' = todo \ {i}
    /\ UNCHANGED <<late, record, poolmap, op, phase, threads, erred, missed>>

\* A delete fails: runpod goes on, the others leave the provider.
ReapFails(i) ==
    /\ phase = "reap" /\ i \in todo
    /\ todo' = IF Provider[i[1]] = "runpod" THEN todo \ {i}
               ELSE {j \in todo : Provider[j[1]] # Provider[i[1]]}
    /\ UNCHANGED <<cloud, late, record, poolmap, op, phase, threads, erred, missed>>

Reaped ==
    /\ phase = "reap" /\ todo = {}
    /\ Exit
    /\ UNCHANGED <<cloud, late, record, file, served, erred, missed>>

-----------------------------------------------------------------------------
(* Kills, and what was in flight. *)

\* The process is killed.  A create it was waiting for may still happen, and a
\* delete may have happened without being marked.
Kill ==
    /\ op \in Killable
    /\ Exit
    /\ late' = late \cup {i \in Instance : /\ InThread(i[1], "create")
                                           /\ i[2] = made[i[1]] + 1}
    /\ \/ UNCHANGED cloud
       \/ \E h \in todo : cloud' = cloud \ (IF phase = "reap" THEN {h} ELSE Covers(h))
    /\ UNCHANGED <<record, file, served, erred, missed>>

Land(i) ==
    /\ i \in late
    /\ late' = late \ {i}
    /\ cloud' = cloud \cup {i}
    /\ UNCHANGED <<record, poolmap, op, phase, threads, todo, erred, missed>>

\* One step of the running command, by itself, or when somebody has answered it.
Local ==
    \/ \E p \in Pool : Record(p) \/ SetPool(p) \/ Unwire(p)
    \/ Join \/ Write \/ TornDown \/ Unwired \/ Reaped

Answered ==
    \/ \E p \in Pool : Create(p) \/ Refuse(p) \/ Unusable(p) \/ Boot(p) \/ BootFails(p)
    \/ \E h \in Instance : Teardown(h) \/ TeardownMisled(h) \/ TeardownFails(h)
    \/ \E i \in Instance : ReapDelete(i) \/ ReapFails(i)
    \/ Restart \/ ApplyFails \/ AdapterFails \/ Verify

Next ==
    \/ Local \/ Answered
    \/ Up \/ Down \/ Kill
    \/ \E reached \in SUBSET Pool : Reap(reached)
    \/ \E i \in Instance : Land(i)

Spec     == Init /\ [][Next]_vars
FairSpec == Spec /\ WF_vars(Local)

-----------------------------------------------------------------------------
(* Properties. *)

TypeOK ==
    /\ cloud \subseteq Instance /\ late \subseteq Instance /\ todo \subseteq Instance
    /\ status \in {"none", "initializing", "up", "aborting", "down", "failed"}
    /\ res \in [Instance -> {"unknown", "created", "bootstrapped", "verified",
                             "torn_down"}]
    /\ wired \subseteq Pool /\ mem \subseteq Pool
    /\ file \subseteq Pool /\ served \subseteq Pool
    /\ op \in Commands \cup {"none"}
    /\ phase \in {"none", "bring_up", "write", "restart", "verify", "teardown",
                  "unwire", "reap"}
    /\ pc \in [Pool -> {"create", "record", "boot"} \cup Outcomes]
    /\ made \in [Pool -> 0 .. Size]
    /\ region \in [Pool -> 1 .. Regions]
    /\ erred \in BOOLEAN /\ missed \subseteq Instance

\* State truth is provider truth: what the run's file calls torn down is gone,
\* sibling included, but for what a delete was taken for done about.
TornDownIsGone ==
    \A h \in Instance : res[h] = "torn_down" => Covers(h) \cap cloud \subseteq missed

\* A run is up only with its quorum: enough pools, each with every handle
\* verified, and Tier-1 serving the map that names them.
UpIsLive ==
    status = "up" =>
        /\ Cardinality(wired) >= MinPools
        /\ wired \subseteq served
        /\ \A p \in wired : \A h \in Handles(p) : res[h] = "verified"

\* A run is down only after all it recorded was torn down, except for what this
\* `down` reported an error for, and after Tier-1 stopped serving its pools.
DownDestroys == ~erred => \A h \in Instance : res[h] \in {"unknown", "torn_down"}
DownUnwires  == wired = {} /\ file = {} /\ served = {}
DownIsDown   == status = "down" => DownDestroys /\ DownUnwires

\* No request hangs.  The code does not see to that: curl, gcloud and ssh are
\* mostly called without a timeout, and the threads of `up` joined without one.
RequestsReturn == WF_vars(Answered)

\* Isolation and bounded work: whatever fails in pools, deletes and restarts, a
\* command whose requests return ends; no pool's failure blocks its siblings or
\* the join.
EveryCommandEnds == RequestsReturn => (op # "none" ~> op = "none")

\* The operator sweeps again and again, every provider is reached now and then,
\* and a delete succeeds now and then.
OperatorSweeps ==
    /\ SF_vars(Reap(Pool))
    /\ SF_vars(\E i \in Instance : ReapDelete(i))

\* reap is the backstop: whatever was created, recorded or not, and wherever
\* `up` was killed, in the end nothing of the run is billed.
ReapIsTheBackstop == RequestsReturn /\ OperatorSweeps => <>[](cloud = {})

-----------------------------------------------------------------------------
(* What the documentation says, and the code does not do. *)

\* "Any unrecoverable error during `up` tears down the partial fabric before
\* raising": a failed up leaves nothing behind, if every teardown succeeded.
FailedIsTornDown == status = "failed" /\ ~erred => cloud = {}
=============================================================================
