------------------------- MODULE OrchestratorProofs -------------------------
(***************************************************************************)
(* Proofs about Orchestrator, for any pools, sizes, regions and quorum,    *)
(* whatever fails and whoever is killed: its types, and what the run's     *)
(* file means when it says torn down, up or down; and what a failed `up`,  *)
(* or a `down`, can leave behind.                                          *)
(***************************************************************************)
EXTENDS Orchestrator, TLAPS

-----------------------------------------------------------------------------
(* The inductive invariant. *)

\* Which command is in which phase, and what status it leaves in the file.
PhaseInv ==
    /\ op = "none" <=> phase = "none"
    /\ op = "reap" <=> phase = "reap"
    /\ phase \in {"bring_up", "verify"} => op = "up"
    /\ phase = "unwire" => op = "down"
    /\ op = "up" => status = IF phase = "teardown" THEN "aborting" ELSE "initializing"
    /\ op = "down" => status = "aborting"
    /\ op = "reap" => status # "none"

UnknownPool(p) == \A h \in Instance : h[1] = p => res[h] = "unknown"

\* Before `up` there is nothing; between commands no thread has begun.
IdleInv ==
    /\ status = "none" => /\ \A p \in Pool : UnknownPool(p)
                          /\ wired = {} /\ late = {} /\ file = {}
    /\ op = "none" => \A p \in Pool : pc[p] = "create" /\ made[p] = 0

\* A pool is recorded only after its last create, and wired only when verified.
ThreadInv ==
    /\ \A p \in Pool : InThread(p, "create") => made[p] < Size /\ UnknownPool(p)
    /\ op = "up" => wired = Ok
    /\ op = "up" /\ phase # "teardown" =>
          \A p \in wired : \A h \in Handles(p) : res[h] = "verified"

\* A create that outlived its `up` is of a pool nobody ever recorded.
LateInv ==
    /\ late # {} => op # "up" /\ status # "none"
    /\ \A i \in late : UnknownPool(i[1])

\* A teardown has before it what is recorded, and behind it what is torn down.
TodoInv ==
    /\ phase = "teardown" => todo \subseteq active_resources
    /\ op = "down" =>
          /\ erred \/ active_resources \subseteq todo
          /\ phase # "teardown" => todo = {}

\* From the quorum on, what is wired travels to Tier-1 by way of the file.
ApplyInv ==
    op = "up" =>
        /\ phase \in {"write", "restart", "verify"} => Cardinality(wired) >= MinPools
        /\ phase = "write" => wired \subseteq mem
        /\ phase = "restart" => wired \subseteq file
        /\ phase = "verify" => wired \subseteq served

\* A `down` that is not killed and can write the map file never leaves a pool in
\* the map that the run's file has forgotten.
Careful == "down" \notin Killable /\ "write" \notin Fallible

MapInv ==
    /\ (op = "down" /\ phase \in {"unwire", "write"}) \/ file \subseteq wired
    /\ op \in {"up", "down"} => mem \subseteq wired
    /\ op = "down" /\ phase \in {"write", "restart"} => wired = {}

DownInv == status = "down" => DownDestroys /\ (Careful => DownUnwires)

Core == PhaseInv /\ IdleInv /\ ThreadInv /\ LateInv /\ TodoInv /\ ApplyInv

IInv ==
    /\ TypeOK /\ Core
    /\ Careful => MapInv
    /\ TornDownIsGone /\ UpIsLive /\ DownInv
-----------------------------------------------------------------------------
(* The operators. *)

\* A handle is of one pool, and so is what it covers.
LEMMA Instances ==
    /\ \A p \in Pool, k \in 0 .. Size : <<p, k>> \in Instance
    /\ \A h \in Instance : h[1] \in Pool /\ h[2] \in 0 .. Size /\ h = <<h[1], h[2]>>
    /\ \A p \in Pool : \A h \in Handles(p) : h \in Instance /\ h[1] = p /\ h[2] \in 1 .. Size
    /\ \A h \in Instance : \A i \in Covers(h) : i \in Instance /\ i[1] = h[1]
BY OrchestratorAssumption DEF Instance, Handles, Covers

LEMMA InitIInv == Init => IInv
<1> SUFFICES ASSUME Init PROVE IInv
  OBVIOUS
<1> USE OrchestratorAssumption DEF Init
<1>1. TypeOK
  <2>1. pc \in [Pool -> {"create", "record", "boot"} \cup Outcomes] /\ made \in [Pool -> 0 .. Size]
        /\ region \in [Pool -> 1 .. Regions]
    OBVIOUS
  <2>2. res \in [Instance -> {"unknown", "created", "bootstrapped", "verified", "torn_down"}]
    OBVIOUS
  <2> QED
    BY <2>1, <2>2 DEF TypeOK
<1>2. Core
  BY DEF Core, PhaseInv, IdleInv, ThreadInv, LateInv, TodoInv, ApplyInv, UnknownPool, InThread
<1>3. MapInv
  BY DEF MapInv
<1>4. TornDownIsGone /\ UpIsLive /\ DownInv
  BY DEF TornDownIsGone, UpIsLive, DownInv
<1> QED
  BY <1>1, <1>2, <1>3, <1>4 DEF IInv

-----------------------------------------------------------------------------
(* up: the threads. *)

\* Nothing but the provider's account and thread p moves while p creates.
LEMMA AcquireStep ==
    ASSUME IInv, NEW p \in Pool, InThread(p, "create"),
           UNCHANGED <<Rest, res, wired>>,
           cloud' \subseteq cloud \cup {<<p, made[p] + 1>>, <<p, 0>>},
           NEW q \in {"create", "record", "capacity", "error"},
           pc' = [pc EXCEPT ![p] = q],
           NEW m \in 0 .. Size, made' = [made EXCEPT ![p] = m], q = "create" => m < Size,
           region' \in [Pool -> 1 .. Regions]
    PROVE  IInv'
<1> USE DEF IInv, Core
<1>1. UNCHANGED <<late, status, res, wired, mem, file, served, op, phase, todo, erred, missed>>
  BY DEF Rest, poolmap
<1>2. op = "up" /\ phase = "bring_up" /\ made[p] < Size /\ UnknownPool(p)
  BY DEF InThread, ThreadInv
<1>3. <<p, made[p] + 1>> \in Instance /\ <<p, 0>> \in Instance
  <2>1. made[p] + 1 \in 0 .. Size /\ 0 \in 0 .. Size
    BY <1>2, OrchestratorAssumption DEF TypeOK
  <2> QED
    BY <2>1, Instances
<1>4. TypeOK'
  <2>1. cloud' \subseteq Instance
    BY <1>3 DEF TypeOK
  <2>2. pc' \in [Pool -> {"create", "record", "boot"} \cup Outcomes]
    BY DEF TypeOK, Outcomes
  <2>3. made' \in [Pool -> 0 .. Size]
    BY DEF TypeOK
  <2> QED
    BY <1>1, <2>1, <2>2, <2>3 DEF TypeOK
<1>5. PhaseInv' /\ IdleInv' /\ LateInv' /\ TodoInv' /\ ApplyInv'
  BY <1>1, <1>2 DEF PhaseInv, IdleInv, UnknownPool, LateInv, TodoInv, active_resources, ApplyInv
<1>6. ThreadInv'
  <2>1. Ok' = Ok
    BY <1>2 DEF Ok, InThread, TypeOK
  <2>2. \A r \in Pool : InThread(r, "create")' => made'[r] < Size /\ UnknownPool(r)'
    BY <1>1, <1>2 DEF ThreadInv, InThread, UnknownPool, TypeOK
  <2> QED
    BY <1>1, <2>1, <2>2 DEF ThreadInv
<1>7. TornDownIsGone'
  <2> SUFFICES ASSUME NEW h \in Instance, res'[h] = "torn_down",
                      NEW i \in Covers(h), i \in cloud', i \notin missed
               PROVE  FALSE
    BY <1>1 DEF TornDownIsGone
  <2>1. i \notin cloud
    BY <1>1 DEF TornDownIsGone
  <2>2. i[1] = p /\ h[1] = p
    BY <2>1, Instances
  <2> QED
    BY <1>1, <1>2, <2>2 DEF UnknownPool
<1>8. UpIsLive' /\ DownInv' /\ (Careful => MapInv')
  BY <1>1 DEF UpIsLive, DownInv, DownDestroys, DownUnwires, MapInv
<1> QED
  BY <1>4, <1>5, <1>6, <1>7, <1>8

LEMMA CreateStep == ASSUME IInv, NEW p \in Pool, Create(p) PROVE IInv'
<1>1. made[p] + 1 \in 0 .. Size /\ made[p] < Size /\ pc[p] = "create"
  BY OrchestratorAssumption DEF IInv, Core, ThreadInv, TypeOK, Create, InThread
<1>2. region' \in [Pool -> 1 .. Regions] /\ UNCHANGED <<Rest, res, wired>>
      /\ cloud' \subseteq cloud \cup {<<p, made[p] + 1>>, <<p, 0>>}
      /\ made' = [made EXCEPT ![p] = made[p] + 1]
  BY DEF Create, IInv, TypeOK
<1>3. CASE made[p] + 1 = Size
  <2>1. pc' = [pc EXCEPT ![p] = "record"]
    BY <1>3 DEF Create
  <2> QED
    BY <1>1, <1>2, <2>1, AcquireStep DEF Create
<1>4. CASE made[p] + 1 # Size
  <2>1. pc' = [pc EXCEPT ![p] = "create"] /\ made[p] + 1 < Size
    BY <1>1, <1>4, OrchestratorAssumption DEF Create, IInv, TypeOK
  <2> QED
    BY <1>1, <1>2, <2>1, AcquireStep DEF Create
<1> QED
  BY <1>3, <1>4

\* acquire gives up, and whatever it destroys before is gone.
LEMMA GiveUpStep ==
    ASSUME IInv, NEW p \in Pool, InThread(p, "create"), UNCHANGED <<Rest, res, wired>>,
           NEW why \in {"capacity", "error"},
           NEW exist, exist \subseteq cloud \cup {<<p, made[p] + 1>>},
           GiveUp(p, why, exist)
    PROVE  IInv'
<1>1. PICK e \in {"capacity", "error"} : \E left :
         left \subseteq cloud \cup {<<p, made[p] + 1>>} /\ Raises(p, e, left)
  BY DEF GiveUp
<1>2. pc \in [Pool -> {"create", "record", "boot"} \cup Outcomes] /\ made \in [Pool -> 0 .. Size]
      /\ region \in [Pool -> 1 .. Regions] /\ pc[p] = "create"
  BY DEF IInv, TypeOK, InThread
<1>3. CASE Provider[p] = "lambda" /\ e = "capacity" /\ region[p] < Regions
  <2>1. pc' = [pc EXCEPT ![p] = "create"] /\ made' = [made EXCEPT ![p] = 0]
        /\ region' \in [Pool -> 1 .. Regions]
        /\ cloud' \subseteq cloud \cup {<<p, made[p] + 1>>, <<p, 0>>}
    BY <1>1, <1>2, <1>3, OrchestratorAssumption DEF Raises, Abandoned
  <2> QED
    <3>1. 0 \in 0 .. Size /\ 0 < Size
      BY OrchestratorAssumption
    <3> QED
      BY <1>1, <2>1, <3>1, AcquireStep
<1>4. CASE ~(Provider[p] = "lambda" /\ e = "capacity" /\ region[p] < Regions)
  <2>1. pc' = [pc EXCEPT ![p] = e] /\ made' = [made EXCEPT ![p] = made[p]] /\ region' = region
        /\ cloud' \subseteq cloud \cup {<<p, made[p] + 1>>, <<p, 0>>}
    BY <1>1, <1>2, <1>4 DEF Raises
  <2> QED
    BY <1>1, <1>2, <2>1, AcquireStep
<1> QED
  BY <1>3, <1>4

LEMMA RefuseStep == ASSUME IInv, NEW p \in Pool, Refuse(p) \/ Unusable(p) PROVE IInv'
BY GiveUpStep DEF Refuse, Unusable

\* What the steps of a thread after its last create have in common.
LEMMA ThreadStep ==
    ASSUME IInv, NEW p \in Pool, InThread(p, "record") \/ InThread(p, "boot"),
           UNCHANGED <<Rest, cloud, made, region>>,
           res' \in [Instance -> {"unknown", "created", "bootstrapped", "verified", "torn_down"}],
           \A h \in Instance : h[1] # p => res'[h] = res[h],
           \A h \in Instance : res'[h] = "torn_down" => res[h] = "torn_down",
           NEW q \in {"record", "boot", "ok", "error"},
           pc' = [pc EXCEPT ![p] = q],
           wired' = IF q = "ok" THEN wired \cup {p} ELSE wired,
           q = "ok" => \A h \in Handles(p) : res'[h] = "verified"
    PROVE  IInv'
<1> USE DEF IInv, Core
<1>1. UNCHANGED <<late, status, mem, file, served, op, phase, todo, erred, missed, cloud, made,
                  region>>
  BY DEF Rest, poolmap
<1>2. op = "up" /\ phase = "bring_up" /\ pc[p] \in {"record", "boot"} /\ late = {}
      /\ pc \in [Pool -> {"create", "record", "boot"} \cup Outcomes]
  BY DEF InThread, LateInv, TypeOK
<1>3. TypeOK'
  <2>1. pc' \in [Pool -> {"create", "record", "boot"} \cup Outcomes]
    BY <1>2 DEF Outcomes
  <2> QED
    BY <1>1, <2>1 DEF TypeOK
<1>4. PhaseInv' /\ IdleInv' /\ LateInv' /\ TodoInv' /\ ApplyInv'
  BY <1>1, <1>2 DEF PhaseInv, IdleInv, LateInv, TodoInv, ApplyInv
<1>5. ThreadInv'
  <2>1. \A r \in Pool : r # p => (UnknownPool(r) => UnknownPool(r)')
    BY DEF UnknownPool
  <2>2. \A r \in Pool : InThread(r, "create")' => made'[r] < Size /\ UnknownPool(r)'
    BY <1>1, <1>2, <2>1 DEF ThreadInv, InThread
  <2>3. wired' = Ok'
    BY <1>2 DEF ThreadInv, Ok
  <2>4. \A r \in wired' : \A h \in Handles(r) : res'[h] = "verified"
    <3> SUFFICES ASSUME NEW r \in wired', r # p, NEW h \in Handles(r)
                 PROVE  res'[h] = "verified"
      BY <1>2 DEF ThreadInv, Ok
    <3>1. r \in wired /\ r \in Pool /\ h \in Instance /\ h[1] = r
      BY Instances DEF TypeOK
    <3> QED
      BY <1>2, <3>1 DEF ThreadInv
  <2> QED
    BY <2>2, <2>3, <2>4 DEF ThreadInv
<1>6. TornDownIsGone' /\ UpIsLive' /\ DownInv'
  BY <1>1, <1>2 DEF TornDownIsGone, PhaseInv, UpIsLive, DownInv
<1>7. Careful => MapInv'
  BY <1>1, <1>2 DEF MapInv
<1> QED
  BY <1>3, <1>4, <1>5, <1>6, <1>7

LEMMA RecordStep == ASSUME IInv, NEW p \in Pool, Record(p) PROVE IInv'
<1>1. PICK h \in Handles(p) :
         /\ res[h] = "unknown"
         /\ res' = [res EXCEPT ![h] = "created"]
         /\ pc' = [pc EXCEPT ![p] = IF \A g \in Handles(p) : g[2] <= h[2] THEN "boot" ELSE @]
  BY DEF Record
<1>2. h \in Instance /\ h[1] = p
  BY Instances
<1>3. UNCHANGED <<Rest, cloud, made, region, wired>> /\ InThread(p, "record")
  BY DEF Record
<1>4. PICK q \in {"record", "boot"} : pc' = [pc EXCEPT ![p] = q]
  BY <1>1, <1>3 DEF InThread
<1>5. /\ res' \in [Instance -> {"unknown", "created", "bootstrapped", "verified", "torn_down"}]
      /\ \A g \in Instance : g[1] # p => res'[g] = res[g]
      /\ \A g \in Instance : res'[g] = "torn_down" => res[g] = "torn_down"
  BY <1>1, <1>2 DEF IInv, TypeOK
<1> QED
  BY <1>3, <1>4, <1>5, ThreadStep

LEMMA BootStep == ASSUME IInv, NEW p \in Pool, Boot(p) PROVE IInv'
<1>1. PICK h \in Handles(p), to \in {"bootstrapped", "verified"} : res' = [res EXCEPT ![h] = to]
  BY DEF Boot
<1>2. h \in Instance /\ h[1] = p
  BY Instances
<1>3. UNCHANGED <<Rest, cloud, made, region, wired>> /\ InThread(p, "boot") /\ pc' = pc
  BY DEF Boot, threads
<1>4. pc' = [pc EXCEPT ![p] = "boot"]
  BY <1>3 DEF InThread, IInv, TypeOK
<1>5. /\ res' \in [Instance -> {"unknown", "created", "bootstrapped", "verified", "torn_down"}]
      /\ \A g \in Instance : g[1] # p => res'[g] = res[g]
      /\ \A g \in Instance : res'[g] = "torn_down" => res[g] = "torn_down"
  BY <1>1, <1>2 DEF IInv, TypeOK
<1> QED
  BY <1>3, <1>4, <1>5, ThreadStep

LEMMA BootFailsStep == ASSUME IInv, NEW p \in Pool, BootFails(p) PROVE IInv'
BY ThreadStep DEF BootFails, IInv, TypeOK

LEMMA SetPoolStep == ASSUME IInv, NEW p \in Pool, SetPool(p) PROVE IInv'
BY ThreadStep DEF SetPool, IInv, TypeOK

-----------------------------------------------------------------------------
(* The main threads of the commands. *)

\* A command ends, by itself or not, and leaves the file and Tier-1 to the next.
LEMMA ExitStep ==
    ASSUME IInv, op # "none", Exit, UNCHANGED <<res, wired, file, erred, missed>>,
           cloud' \subseteq cloud,
           late' \subseteq Instance, \A i \in late' : UnknownPool(i[1]),
           served' \subseteq Pool,
           status' \in {status, "up", "down", "failed"},
           Careful => file \subseteq wired,
           UpIsLive', DownInv'
    PROVE  IInv'
<1> USE DEF IInv, Core
<1>1. status # "none" /\ status' # "none" /\ op' = "none" /\ phase' = "none" /\ todo' = {}
  BY DEF PhaseInv, TypeOK, Commands, Exit
<1>2. TypeOK'
  BY <1>1, OrchestratorAssumption DEF TypeOK, Exit, Threads0
<1>3. Core'
  <2>1. IdleInv'
    BY <1>1, OrchestratorAssumption DEF Exit, Threads0, IdleInv
  <2>2. PhaseInv' /\ TodoInv' /\ ApplyInv'
    BY <1>1 DEF PhaseInv, TodoInv, ApplyInv
  <2>3. ThreadInv' /\ LateInv'
    BY <1>1 DEF ThreadInv, InThread, LateInv, UnknownPool
  <2> QED
    BY <2>1, <2>2, <2>3
<1>4. TornDownIsGone' /\ (Careful => MapInv')
  BY <1>1 DEF TornDownIsGone, MapInv
<1> QED
  BY <1>2, <1>3, <1>4

\* up fails: what is recorded is what there is to tear down.
LEMMA AbortStep == ASSUME IInv, op = "up", phase # "teardown", Abort PROVE IInv'
<1> USE DEF IInv, Core
<1>1. UNCHANGED <<cloud, late, res, wired, mem, file, served, op, pc, made, region, erred, missed>>
      /\ status' = "aborting" /\ phase' = "teardown" /\ todo' = active_resources
      /\ active_resources' = active_resources /\ active_resources \subseteq Instance
  BY DEF Abort, poolmap, threads, active_resources
<1>2. TypeOK'
  BY <1>1 DEF TypeOK
<1>3. Core'
  BY <1>1 DEF PhaseInv, IdleInv, UnknownPool, ThreadInv, InThread, Ok, LateInv, TodoInv, ApplyInv
<1>4. TornDownIsGone' /\ UpIsLive' /\ DownInv' /\ (Careful => MapInv')
  BY <1>1 DEF TornDownIsGone, UpIsLive, DownInv, MapInv
<1> QED
  BY <1>2, <1>3, <1>4

LEMMA UpStep == ASSUME IInv, Up PROVE IInv'
<1> USE DEF IInv, Core
<1>1. UNCHANGED <<cloud, late, res, wired, file, served, pc, made, region, todo, erred, missed>>
      /\ status = "none" /\ status' = "initializing" /\ mem' = file
      /\ op = "none" /\ op' = "up" /\ phase' = "bring_up"
  BY DEF Up, threads
<1>2. TypeOK'
  BY <1>1 DEF TypeOK, Commands
<1>3. ThreadInv'
  <2>1. Ok' = {} /\ wired' = {}
    BY <1>1 DEF IdleInv, Ok
  <2> QED
    BY <1>1, <2>1, OrchestratorAssumption DEF IdleInv, ThreadInv, InThread, UnknownPool
<1>4. PhaseInv' /\ IdleInv' /\ LateInv' /\ TodoInv' /\ ApplyInv'
  BY <1>1 DEF PhaseInv, IdleInv, UnknownPool, LateInv, TodoInv, ApplyInv
<1>5. TornDownIsGone' /\ UpIsLive' /\ DownInv' /\ (Careful => MapInv')
  BY <1>1 DEF TornDownIsGone, UpIsLive, DownInv, MapInv, IdleInv
<1> QED
  BY <1>2, <1>3, <1>4, <1>5

LEMMA JoinStep == ASSUME IInv, Join PROVE IInv'
<1> USE DEF IInv, Core
<1>1. CASE Abort
  BY <1>1, AbortStep DEF Join
<1>2. CASE /\ Cardinality(Ok) >= MinPools
           /\ mem' = mem \cup wired
           /\ phase' = "write"
           /\ UNCHANGED <<cloud, late, record, file, served, op, threads, todo, erred, missed>>
  <2>1. UNCHANGED <<cloud, late, status, res, wired, file, served, op, pc, made, region, todo, erred, missed>>
        /\ op = "up" /\ phase = "bring_up"
    BY <1>2 DEF Join, record, threads
  <2>2. TypeOK'
    BY <1>2, <2>1 DEF TypeOK
  <2>3. ApplyInv'
    BY <1>2, <2>1 DEF ApplyInv, ThreadInv
  <2>4. PhaseInv' /\ IdleInv' /\ ThreadInv' /\ LateInv' /\ TodoInv'
    BY <1>2, <2>1 DEF PhaseInv, IdleInv, UnknownPool, ThreadInv, InThread, Ok, LateInv, TodoInv
  <2>5. TornDownIsGone' /\ UpIsLive' /\ DownInv' /\ (Careful => MapInv')
    BY <1>2, <2>1 DEF TornDownIsGone, UpIsLive, DownInv, DownDestroys, DownUnwires, MapInv
  <2> QED
    BY <2>2, <2>3, <2>4, <2>5
<1> QED
  BY <1>1, <1>2 DEF Join

LEMMA WriteStep == ASSUME IInv, Write PROVE IInv'
<1> USE DEF IInv, Core
<1>1. UNCHANGED <<cloud, late, status, res, wired, mem, served, op, pc, made, region, todo, erred, missed>>
      /\ phase = "write" /\ phase' = "restart" /\ file' = mem /\ op \in {"up", "down"}
  BY DEF Write, record, threads, PhaseInv, TypeOK, Commands
<1>2. TypeOK'
  BY <1>1 DEF TypeOK
<1>3. Core'
  <2>1. PhaseInv' /\ IdleInv' /\ ThreadInv' /\ LateInv'
    BY <1>1 DEF PhaseInv, IdleInv, UnknownPool, ThreadInv, InThread, Ok, LateInv
  <2>2. TodoInv' /\ ApplyInv'
    BY <1>1 DEF TodoInv, active_resources, ApplyInv
  <2> QED
    BY <2>1, <2>2
<1>4. TornDownIsGone' /\ UpIsLive' /\ DownInv'
  BY <1>1 DEF TornDownIsGone, UpIsLive, DownInv, PhaseInv
<1>5. Careful => MapInv'
  BY <1>1 DEF MapInv
<1> QED
  BY <1>2, <1>3, <1>4, <1>5

LEMMA RestartStep == ASSUME IInv, Restart PROVE IInv'
<1> USE DEF IInv, Core
<1>1. UNCHANGED <<cloud, late, res, wired, file, erred, missed>> /\ phase = "restart" /\ served' = file
  BY DEF Restart
<1>2. CASE op = "up" /\ phase' = "verify" /\ UNCHANGED <<status, mem, op, threads, todo>>
  <2>1. UNCHANGED <<pc, made, region>>
    BY <1>2 DEF threads
  <2>2. TypeOK'
    BY <1>1, <1>2, <2>1 DEF TypeOK
  <2>3. Core'
    BY <1>1, <1>2, <2>1
    DEF PhaseInv, IdleInv, UnknownPool, ThreadInv, InThread, Ok, LateInv, TodoInv, ApplyInv
  <2>4. TornDownIsGone' /\ UpIsLive' /\ DownInv' /\ (Careful => MapInv')
    BY <1>1, <1>2 DEF TornDownIsGone, UpIsLive, DownInv, PhaseInv, MapInv
  <2> QED
    BY <2>2, <2>3, <2>4
<1>3. CASE op = "down" /\ status' = "down" /\ Exit
  <2>1. DownInv'
    <3>1. DownDestroys'
      BY <1>1, <1>3 DEF DownDestroys, TodoInv, active_resources, TypeOK
    <3>2. Careful => DownUnwires'
      BY <1>1, <1>3 DEF DownUnwires, MapInv
    <3> QED
      BY <3>1, <3>2 DEF DownInv
  <2>2. UpIsLive' /\ (Careful => file \subseteq wired)
    BY <1>1, <1>3 DEF UpIsLive, MapInv
  <2>3. served' \subseteq Pool /\ late' \subseteq Instance /\ \A i \in late' : UnknownPool(i[1])
    BY <1>1 DEF TypeOK, LateInv
  <2> QED
    BY <1>1, <1>3, <2>1, <2>2, <2>3, ExitStep
<1> QED
  BY <1>2, <1>3 DEF Restart

LEMMA ApplyFailsStep == ASSUME IInv, ApplyFails PROVE IInv'
<1> USE DEF IInv, Core
<1>1. phase \in Fallible /\ phase \in {"write", "restart"}
  BY OrchestratorAssumption DEF ApplyFails, TypeOK
<1>2. CASE op = "up" /\ Abort
  BY <1>1, <1>2, AbortStep
<1>3. CASE op = "down" /\ Exit /\ UNCHANGED <<cloud, late, record, file, served, erred, missed>>
  <2>1. UNCHANGED <<cloud, late, status, res, wired, file, served, erred, missed>>
    BY <1>3 DEF record
  <2>2. Careful => file \subseteq wired
    BY <1>1 DEF Careful, MapInv
  <2>3. UpIsLive' /\ DownInv'
    BY <2>1 DEF UpIsLive, DownInv, DownDestroys, DownUnwires
  <2>4. served' \subseteq Pool /\ late' \subseteq Instance /\ \A i \in late' : UnknownPool(i[1])
    BY <2>1 DEF TypeOK, LateInv
  <2> QED
    BY <1>3, <2>1, <2>2, <2>3, <2>4, ExitStep
<1> QED
  BY <1>2, <1>3 DEF ApplyFails

LEMMA VerifyStep == ASSUME IInv, Verify PROVE IInv'
<1> USE DEF IInv, Core
<1>1. phase = "verify" /\ op = "up"
  BY DEF Verify, PhaseInv
<1>2. CASE Abort
  BY <1>1, <1>2, AbortStep
<1>3. CASE status' = "up" /\ Exit /\ UNCHANGED <<cloud, late, res, wired, file, served, erred, missed>>
  <2>1. UpIsLive' /\ DownInv'
    BY <1>1, <1>3 DEF UpIsLive, DownInv, ApplyInv, ThreadInv
  <2>2. Careful => file \subseteq wired
    BY <1>1 DEF MapInv
  <2>3. served' \subseteq Pool /\ late' \subseteq Instance /\ \A i \in late' : UnknownPool(i[1])
    BY <1>3 DEF TypeOK, LateInv
  <2> QED
    BY <1>1, <1>3, <2>1, <2>2, <2>3, ExitStep
<1> QED
  BY <1>2, <1>3 DEF Verify

\* A resource of the teardown is done with: it is marked, or reported.
LEMMA DestroyStep ==
    ASSUME IInv, phase = "teardown", NEW h \in todo,
           UNCHANGED <<late, status, wired, poolmap, op, phase, threads>>,
           cloud' \subseteq cloud, todo' = todo \ {h},
           \/ /\ res' = [res EXCEPT ![h] = "torn_down"] /\ erred' = erred
              /\ missed' = missed \cup (Covers(h) \cap cloud')
           \/ res' = res /\ erred' = TRUE /\ missed' = missed
    PROVE  IInv'
<1> USE DEF IInv, Core
<1>1. UNCHANGED <<late, status, wired, mem, file, served, op, phase, pc, made, region>>
  BY DEF poolmap, threads
<1>2. h \in Instance /\ res[h] \notin {"unknown", "torn_down"}
  BY DEF TypeOK, TodoInv, active_resources
<1>3. res' \in [Instance -> {"unknown", "created", "bootstrapped", "verified", "torn_down"}]
      /\ (\A g \in Instance : g # h => res'[g] = res[g])
      /\ res'[h] \in {res[h], "torn_down"} /\ (erred' \/ res'[h] = "torn_down")
      /\ erred' \in BOOLEAN /\ (erred => erred')
      /\ missed' \subseteq Instance /\ missed \subseteq missed'
  BY <1>2 DEF TypeOK
<1>4. TypeOK'
  BY <1>1, <1>3 DEF TypeOK
<1>5. op \in {"up", "down"} /\ status = "aborting"
  BY DEF PhaseInv, TypeOK, Commands
<1>6. \A p \in Pool : UnknownPool(p) <=> UnknownPool(p)'
  BY <1>2, <1>3 DEF UnknownPool
<1>7. PhaseInv' /\ IdleInv' /\ ThreadInv' /\ ApplyInv'
  BY <1>1, <1>5 DEF PhaseInv, IdleInv, ThreadInv, InThread, Ok, ApplyInv
<1>8. LateInv'
  BY <1>1, <1>6, Instances DEF LateInv, TypeOK
<1>9. TodoInv'
  BY <1>1, <1>2, <1>3 DEF TodoInv, active_resources
<1>10. TornDownIsGone'
  BY <1>2, <1>3 DEF TornDownIsGone
<1>11. UpIsLive' /\ DownInv' /\ (Careful => MapInv')
  BY <1>1, <1>5 DEF UpIsLive, DownInv, MapInv
<1> QED
  BY <1>4, <1>7, <1>8, <1>9, <1>10, <1>11

LEMMA TeardownStep == ASSUME IInv, NEW h \in Instance, Teardown(h) PROVE IInv'
<1>1. missed' = missed \cup (Covers(h) \cap cloud')
  BY DEF Teardown
<1> QED
  BY <1>1, DestroyStep DEF Teardown

LEMMA TeardownMissesStep ==
    ASSUME IInv, NEW h \in Instance, TeardownMisled(h) \/ TeardownFails(h)
    PROVE  IInv'
BY DestroyStep DEF TeardownMisled, TeardownFails

LEMMA AdapterFailsStep == ASSUME IInv, AdapterFails PROVE IInv'
<1> USE DEF IInv, Core
<1>1. UNCHANGED <<cloud, late, status, res, wired, file, served, erred, missed>>
      /\ op = "down" /\ phase = "teardown" /\ Exit
  BY DEF AdapterFails, record
<1>2. UpIsLive' /\ DownInv' /\ (Careful => file \subseteq wired)
  BY <1>1 DEF UpIsLive, DownInv, DownDestroys, DownUnwires, MapInv
<1>3. served' \subseteq Pool /\ late' \subseteq Instance /\ \A i \in late' : UnknownPool(i[1])
  BY <1>1 DEF TypeOK, LateInv
<1> QED
  BY <1>1, <1>2, <1>3, ExitStep

LEMMA TornDownStep == ASSUME IInv, TornDown PROVE IInv'
<1> USE DEF IInv, Core
<1>1. UNCHANGED <<cloud, late, res, wired, file, served, erred, missed>> /\ phase = "teardown" /\ todo = {}
  BY DEF TornDown
<1>2. CASE op = "up" /\ status' = "failed" /\ Exit
  <2>1. UpIsLive' /\ DownInv' /\ (Careful => file \subseteq wired)
    BY <1>1, <1>2 DEF UpIsLive, DownInv, MapInv
  <2>2. served' \subseteq Pool /\ late' \subseteq Instance /\ \A i \in late' : UnknownPool(i[1])
    BY <1>1 DEF TypeOK, LateInv
  <2> QED
    BY <1>1, <1>2, <2>1, <2>2, ExitStep
<1>3. CASE op = "down" /\ phase' = "unwire" /\ UNCHANGED <<status, mem, op, threads, todo>>
  <2>1. UNCHANGED <<pc, made, region>>
    BY <1>3 DEF threads
  <2>2. TypeOK'
    BY <1>1, <1>3, <2>1 DEF TypeOK
  <2>3. Core'
    BY <1>1, <1>3, <2>1
    DEF PhaseInv, IdleInv, UnknownPool, ThreadInv, InThread, LateInv, TodoInv, active_resources, ApplyInv
  <2>4. TornDownIsGone' /\ UpIsLive' /\ DownInv' /\ (Careful => MapInv')
    BY <1>1, <1>3 DEF TornDownIsGone, UpIsLive, DownInv, PhaseInv, MapInv
  <2> QED
    BY <2>2, <2>3, <2>4
<1> QED
  BY <1>2, <1>3 DEF TornDown

LEMMA DownStep == ASSUME IInv, Down PROVE IInv'
<1> USE DEF IInv, Core
<1>1. UNCHANGED <<cloud, late, res, wired, file, served, pc, made, region, missed>>
      /\ op = "none" /\ status # "none" /\ op' = "down" /\ phase' = "teardown"
      /\ status' = "aborting" /\ mem' = file /\ erred' = FALSE
      /\ todo' = active_resources /\ active_resources' = active_resources
  BY DEF Down, threads, active_resources
<1>2. TypeOK'
  BY <1>1 DEF TypeOK, Commands, active_resources
<1>3. Core'
  BY <1>1 DEF PhaseInv, IdleInv, ThreadInv, InThread, LateInv, UnknownPool, TodoInv, ApplyInv
<1>4. TornDownIsGone' /\ UpIsLive' /\ DownInv' /\ (Careful => MapInv')
  BY <1>1 DEF TornDownIsGone, UpIsLive, DownInv, MapInv
<1> QED
  BY <1>2, <1>3, <1>4

LEMMA UnwireStep == ASSUME IInv, NEW p \in Pool, Unwire(p) PROVE IInv'
<1> USE DEF IInv, Core
<1>1. UNCHANGED <<cloud, late, status, res, file, served, op, phase, pc, made, region, todo, erred, missed>>
      /\ phase = "unwire" /\ op = "down" /\ status = "aborting"
      /\ mem' = mem \ {p} /\ wired' = wired \ {p}
  BY DEF Unwire, threads, PhaseInv
<1>2. TypeOK'
  BY <1>1 DEF TypeOK
<1>3. Core'
  BY <1>1
  DEF PhaseInv, IdleInv, UnknownPool, ThreadInv, InThread, LateInv, TodoInv, active_resources, ApplyInv
<1>4. TornDownIsGone' /\ UpIsLive' /\ DownInv' /\ (Careful => MapInv')
  BY <1>1 DEF TornDownIsGone, UpIsLive, DownInv, MapInv
<1> QED
  BY <1>2, <1>3, <1>4

LEMMA UnwiredStep == ASSUME IInv, Unwired PROVE IInv'
<1> USE DEF IInv, Core
<1>1. UNCHANGED <<cloud, late, status, res, wired, mem, file, served, op, pc, made, region, todo, erred, missed>>
      /\ phase = "unwire" /\ phase' = "write" /\ wired = {} /\ op = "down" /\ status = "aborting"
  BY DEF Unwired, record, poolmap, threads, PhaseInv
<1>2. TypeOK'
  BY <1>1 DEF TypeOK
<1>3. Core'
  BY <1>1
  DEF PhaseInv, IdleInv, UnknownPool, ThreadInv, InThread, LateInv, TodoInv, active_resources, ApplyInv
<1>4. TornDownIsGone' /\ UpIsLive' /\ DownInv' /\ (Careful => MapInv')
  BY <1>1 DEF TornDownIsGone, UpIsLive, DownInv, MapInv
<1> QED
  BY <1>2, <1>3, <1>4

-----------------------------------------------------------------------------
(* reap, kills, and what was in flight. *)

\* Whatever is destroyed beside the run's file, and whatever lands that nobody
\* ever recorded.
LEMMA OutsideStep ==
    ASSUME IInv, UNCHANGED <<record, poolmap, threads, erred, missed>>,
           UNCHANGED <<op, phase>> \/ (op = "none" /\ status # "none" /\ op' = "reap" /\ phase' = "reap"),
           op' = "reap" \/ todo' = todo, todo' \subseteq Instance,
           late' \subseteq late,
           cloud' \subseteq cloud \cup late
    PROVE  IInv'
<1> USE DEF IInv, Core
<1>1. UNCHANGED <<status, res, wired, mem, file, served, pc, made, region, erred, missed>>
  BY DEF record, poolmap, threads
<1>2. TypeOK'
  BY <1>1 DEF TypeOK, Commands
<1>3. Core'
  BY <1>1
  DEF PhaseInv, IdleInv, UnknownPool, ThreadInv, InThread, Ok, LateInv, TodoInv, active_resources, ApplyInv
<1>4. TornDownIsGone'
  <2> SUFFICES ASSUME NEW h \in Instance, res[h] = "torn_down",
                      NEW i \in Covers(h), i \in cloud', i \notin missed
               PROVE  FALSE
    BY <1>1 DEF TornDownIsGone
  <2>1. i \in late
    BY DEF TornDownIsGone
  <2> QED
    BY <2>1, Instances DEF LateInv, UnknownPool
<1>5. UpIsLive' /\ DownInv' /\ (Careful => MapInv')
  BY <1>1 DEF UpIsLive, DownInv, DownDestroys, DownUnwires, MapInv, PhaseInv
<1> QED
  BY <1>2, <1>3, <1>4, <1>5

LEMMA ReapStep == ASSUME IInv, NEW reached \in SUBSET Pool, Reap(reached) PROVE IInv'
BY OutsideStep DEF Reap, Listed, IInv, TypeOK

LEMMA SweepStep ==
    ASSUME IInv, NEW i \in Instance, ReapDelete(i) \/ ReapFails(i)
    PROVE  IInv'
<1>1. op = "reap" /\ todo' \subseteq todo
  BY DEF ReapDelete, ReapFails, IInv, Core, PhaseInv
<1> QED
  BY <1>1, OutsideStep DEF ReapDelete, ReapFails, IInv, TypeOK

LEMMA LandStep == ASSUME IInv, NEW i \in Instance, Land(i) PROVE IInv'
BY OutsideStep DEF Land, IInv, TypeOK

LEMMA ReapedStep == ASSUME IInv, Reaped PROVE IInv'
<1> USE DEF IInv, Core
<1>1. UNCHANGED <<cloud, late, status, res, wired, file, served, erred, missed>> /\ op = "reap" /\ Exit
  BY DEF Reaped, record, PhaseInv
<1>2. UpIsLive' /\ DownInv' /\ (Careful => file \subseteq wired)
  BY <1>1 DEF UpIsLive, DownInv, DownDestroys, DownUnwires, MapInv
<1>3. served' \subseteq Pool /\ late' \subseteq Instance /\ \A i \in late' : UnknownPool(i[1])
  BY <1>1 DEF TypeOK, LateInv
<1> QED
  BY <1>1, <1>2, <1>3, ExitStep

LEMMA KillStep == ASSUME IInv, Kill PROVE IInv'
<1> USE DEF IInv, Core
<1>1. UNCHANGED <<status, res, wired, file, served, erred, missed>> /\ op \in Killable /\ op # "none" /\ Exit
  BY OrchestratorAssumption DEF Kill, record, Commands
<1>2. cloud' \subseteq cloud
  BY DEF Kill
<1>3. UpIsLive' /\ DownInv' /\ (Careful => file \subseteq wired)
  BY <1>1 DEF UpIsLive, DownInv, DownDestroys, DownUnwires, Careful, MapInv
<1>4. late' \subseteq Instance /\ \A i \in late' : UnknownPool(i[1])
  BY Instances DEF Kill, TypeOK, LateInv, ThreadInv
<1>5. served' \subseteq Pool
  BY <1>1 DEF TypeOK
<1> QED
  BY <1>1, <1>2, <1>3, <1>4, <1>5, ExitStep

LEMMA StutterStep == ASSUME IInv, UNCHANGED vars PROVE IInv'
<1>1. UNCHANGED <<record, poolmap, threads, erred, missed, op, phase, todo, late, cloud>>
  BY DEF vars, record, poolmap, threads
<1> QED
  BY <1>1, OutsideStep DEF IInv, TypeOK

\* A step of the thread of p, and of the teardown of h.
Bring_up(p) ==
    \/ Create(p) \/ Refuse(p) \/ Unusable(p) \/ Record(p) \/ Boot(p) \/ BootFails(p) \/ SetPool(p)

Destroy(h) == Teardown(h) \/ TeardownMisled(h) \/ TeardownFails(h)

LEMMA NextIInv == IInv /\ [Next]_vars => IInv'
<1> SUFFICES ASSUME IInv, [Next]_vars PROVE IInv'
  OBVIOUS
<1>1. ASSUME NEW p \in Pool, Bring_up(p) \/ Unwire(p) PROVE IInv'
  BY <1>1, CreateStep, RefuseStep, RecordStep, BootStep, BootFailsStep, SetPoolStep, UnwireStep
  DEF Bring_up
<1>2. ASSUME NEW h \in Instance, Destroy(h) \/ ReapDelete(h) \/ ReapFails(h)
      PROVE  IInv'
  BY <1>2, TeardownStep, TeardownMissesStep, SweepStep DEF Destroy
<1>3. CASE Join \/ Write \/ Restart \/ ApplyFails \/ AdapterFails \/ Verify \/ TornDown \/ Unwired
           \/ Reaped
  BY <1>3, JoinStep, WriteStep, RestartStep, ApplyFailsStep, AdapterFailsStep, VerifyStep, TornDownStep,
     UnwiredStep, ReapedStep
<1>4. Local \/ Answered => IInv'
  BY <1>1, <1>2, <1>3 DEF Local, Answered, Bring_up, Destroy
<1>5. CASE Up \/ Down \/ Kill \/ UNCHANGED vars
  BY <1>5, UpStep, DownStep, KillStep, StutterStep
<1> QED
  BY <1>4, <1>5, ReapStep, LandStep DEF Next

-----------------------------------------------------------------------------
(* The theorems. *)

LEMMA Invariant == Spec => []IInv
BY InitIInv, NextIInv, PTL DEF Spec

\* Every variable of commands, run file and pool map stays in its range, for any
\* pools, sizes and regions.
THEOREM TypeCorrect == Spec => []TypeOK
<1>1. IInv => TypeOK
  BY DEF IInv
<1> QED
  BY <1>1, Invariant, PTL

\* State truth is provider truth: whoever is killed when, and whatever lands
\* late, what the run's file calls torn down no longer exists, sibling included, but
\* for what a delete was taken for done about (`_teardown_all`, `update_resource`).
THEOREM TornDownIsGoneHolds == Spec => []TornDownIsGone
<1>1. IInv => TornDownIsGone
  BY DEF IInv
<1> QED
  BY <1>1, Invariant, PTL

\* A run that says up has its quorum, verified to the last handle, in the map
\* that Tier-1 serves (`_join_pools`, `apply`, `up`).
THEOREM UpIsLiveHolds == Spec => []UpIsLive
<1>1. IInv => UpIsLive
  BY DEF IInv
<1> QED
  BY <1>1, Invariant, PTL

\* A run that says down has torn down all it recorded, or reported an error; and
\* if no `down` was killed or failed to write the map, nothing of it is wired or
\* served (`down`).
THEOREM DownIsDownHolds ==
    Spec => [](/\ status = "down" => DownDestroys
               /\ Careful => DownIsDown)
<1>1. IInv => /\ status = "down" => DownDestroys
              /\ Careful => DownIsDown
  BY DEF IInv, DownInv, DownIsDown
<1> QED
  BY <1>1, Invariant, PTL

-----------------------------------------------------------------------------
(* What a failed `up`, and a `down`, may leave behind: only what acquire had *)
(* created when it raised, which no handle ever named.                       *)

RecordedPool(p) == \A h \in Handles(p) : res[h] # "unknown"
Whole(p)        == RecordedPool(p) \/ UnknownPool(p)

\* add_resource notes all handles of a pool, or none: a pool is between the two
\* only while its thread is there, or when `up` was killed there.
WholeInv ==
    /\ op = "up" =>
          /\ \A p \in Pool : pc[p] = "boot" => RecordedPool(p)
          /\ \A p \in Pool : pc[p] # "record" => Whole(p)
          /\ phase # "bring_up" => \A p \in Pool : pc[p] # "record"
    /\ status = "failed" => \A p \in Pool : Whole(p)

\* The teardown of `up` has before it what it has not tried, unless it reported an
\* error; and it has tried everything when `up` has failed.
GoneInv ==
    /\ op = "up" /\ phase = "teardown" => erred \/ active_resources \subseteq todo
    /\ status = "failed" => DownDestroys

LeftInv == IInv /\ WholeInv /\ GoneInv

\* Every instance, but for what was left in a region, is covered by a handle of its pool.
LEMMA CoveredByHandle ==
    ASSUME NEW i \in Instance, i[2] # 0
    PROVE  \E h \in Handles(i[1]) : i \in Covers(h)
<1>1. i[1] \in Pool /\ i[2] \in 1 .. Size /\ i = <<i[1], i[2]>>
  BY Instances, OrchestratorAssumption
<1>2. CASE i[1] \in Head
  <2>1. <<i[1], 1>> \in Handles(i[1]) /\ i \in Covers(<<i[1], 1>>)
    BY <1>1, <1>2 DEF Handles, Covers
  <2> QED
    BY <2>1
<1>3. CASE i[1] \notin Head
  <2>1. i \in Handles(i[1]) /\ i \in Covers(i)
    BY <1>1, <1>3 DEF Handles, Covers
  <2> QED
    BY <2>1
<1> QED
  BY <1>2, <1>3

\* What is noted of a pool changes only when a handle is noted.
LEMMA NotedKept ==
    ASSUME \A h \in Instance : res'[h] = "unknown" <=> res[h] = "unknown"
    PROVE  \A p \in Pool : /\ RecordedPool(p)' <=> RecordedPool(p)
                           /\ UnknownPool(p)' <=> UnknownPool(p)
                           /\ Whole(p)' <=> Whole(p)
BY Instances DEF RecordedPool, UnknownPool, Whole

\* A step of a thread that moves no other and notes nothing.
LEMMA WholeThread ==
    ASSUME LeftInv, NEW p \in Pool, InThread(p, "create") \/ InThread(p, "boot"),
           UNCHANGED Rest,
           \A h \in Instance : res'[h] = "unknown" <=> res[h] = "unknown",
           \A r \in Pool : r # p => pc'[r] = pc[r],
           pc'[p] = "boot" => pc[p] = "boot"
    PROVE  WholeInv'
<1>1. op' = op /\ phase' = phase /\ status' = status /\ op = "up" /\ phase = "bring_up"
  BY DEF Rest, InThread
<1>2. Whole(p)
  BY DEF InThread, LeftInv, WholeInv
<1>3. \A r \in Pool : pc'[r] = "boot" => RecordedPool(r)'
  BY <1>1, NotedKept DEF LeftInv, WholeInv
<1>4. \A r \in Pool : pc'[r] # "record" => Whole(r)'
  BY <1>1, <1>2, NotedKept DEF LeftInv, WholeInv
<1>5. status' # "failed"
  BY <1>1 DEF LeftInv, IInv, Core, PhaseInv
<1> QED
  BY <1>1, <1>3, <1>4, <1>5 DEF WholeInv

\* The last handle makes the pool whole.
LEMMA WholeRecord == ASSUME LeftInv, NEW p \in Pool, Record(p) PROVE WholeInv'
<1>1. PICK h \in Handles(p) :
         /\ \A g \in Handles(p) : g[2] < h[2] => res[g] # "unknown"
         /\ res' = [res EXCEPT ![h] = "created"]
         /\ pc' = [pc EXCEPT ![p] = IF \A g \in Handles(p) : g[2] <= h[2] THEN "boot" ELSE @]
  BY DEF Record
<1>2. op' = "up" /\ phase' = "bring_up" /\ status' = status /\ op = "up" /\ phase = "bring_up"
      /\ pc[p] = "record" /\ res \in [Instance -> {"unknown", "created", "bootstrapped", "verified", "torn_down"}]
      /\ pc \in [Pool -> {"create", "record", "boot"} \cup Outcomes]
  BY DEF Record, Rest, InThread, LeftInv, IInv, TypeOK
<1>3. pc'[p] # "record" => RecordedPool(p)' /\ pc'[p] = "boot"
  <2> SUFFICES ASSUME \A g \in Handles(p) : g[2] <= h[2], NEW g \in Handles(p)
               PROVE  res'[g] # "unknown"
    BY <1>1, <1>2 DEF RecordedPool
  <2>1. g \in Instance /\ h \in Instance /\ g[1] = p /\ h[1] = p /\ g[2] \in 1 .. Size
        /\ h[2] \in 1 .. Size /\ g = <<p, g[2]>> /\ h = <<p, h[2]>>
    BY Instances
  <2>2. g = h \/ g[2] < h[2]
    BY <2>1, OrchestratorAssumption
  <2> QED
    BY <1>1, <1>2, <2>1, <2>2
<1>4. \A r \in Pool : r # p => /\ pc'[r] = pc[r]
                               /\ RecordedPool(r)' <=> RecordedPool(r)
                               /\ UnknownPool(r)' <=> UnknownPool(r)
  BY <1>1, <1>2, Instances DEF RecordedPool, UnknownPool
<1>5. \A r \in Pool : pc'[r] = "boot" => RecordedPool(r)'
  BY <1>2, <1>3, <1>4 DEF LeftInv, WholeInv
<1>6. \A r \in Pool : pc'[r] # "record" => Whole(r)'
  BY <1>2, <1>3, <1>4 DEF LeftInv, WholeInv, Whole
<1>7. status' # "failed"
  BY <1>2 DEF LeftInv, IInv, Core, PhaseInv
<1> QED
  BY <1>2, <1>5, <1>6, <1>7 DEF WholeInv

LEMMA WholeBringUp == ASSUME LeftInv, NEW p \in Pool, Bring_up(p) PROVE WholeInv'
<1>1. pc \in [Pool -> {"create", "record", "boot"} \cup Outcomes]
      /\ res \in [Instance -> {"unknown", "created", "bootstrapped", "verified", "torn_down"}]
  BY DEF LeftInv, IInv, TypeOK
<1>2. CASE Create(p)
  BY <1>1, <1>2, WholeThread DEF Create, InThread
<1>3. CASE Refuse(p) \/ Unusable(p)
  <2>1. PICK why \in {"capacity", "error"} : \E left : Raises(p, why, left)
    BY <1>3 DEF Refuse, Unusable, GiveUp
  <2>2. pc'[p] # "boot" /\ \A r \in Pool : r # p => pc'[r] = pc[r]
    BY <1>1, <1>3, <2>1 DEF Raises, Refuse, Unusable, InThread
  <2> QED
    BY <1>3, <2>2, WholeThread DEF Refuse, Unusable
<1>4. CASE Boot(p)
  <2>1. PICK h \in Handles(p), to \in {"bootstrapped", "verified"} :
           res' = [res EXCEPT ![h] = to]
    BY <1>4 DEF Boot
  <2>2. InThread(p, "boot") /\ pc' = pc /\ UNCHANGED Rest
    BY <1>4 DEF Boot, threads
  <2>3. RecordedPool(p)
    BY <2>2 DEF InThread, LeftInv, WholeInv
  <2>4. \A g \in Instance : res'[g] = "unknown" <=> res[g] = "unknown"
    BY <1>1, <2>1, <2>3 DEF RecordedPool
  <2> QED
    BY <2>2, <2>4, WholeThread
<1>5. CASE BootFails(p)
  BY <1>1, <1>5, WholeThread DEF BootFails, InThread
<1>6. CASE SetPool(p)
  BY <1>1, <1>6, WholeThread DEF SetPool, InThread
<1> QED
  BY <1>2, <1>3, <1>4, <1>5, <1>6, WholeRecord DEF Bring_up

\* A step of a main thread, or beside it, that notes nothing and goes on.
LEMMA WholeGoesOn ==
    ASSUME LeftInv,
           \A h \in Instance : res'[h] = "unknown" <=> res[h] = "unknown",
           pc' = pc, op' = op,
           op = "up" => phase' = phase \/ phase # "bring_up"
                                       \/ \A p \in Pool : pc[p] \in Outcomes,
           op = "up" => phase' # "bring_up" \/ phase = "bring_up",
           status' = "failed" => status = "failed"
    PROVE  WholeInv'
BY NotedKept DEF LeftInv, WholeInv, Outcomes

\* A command that ends, or is killed, or begins.
LEMMA WholeEnds ==
    ASSUME LeftInv, res' = res, op' = "none",
           status' = "failed" => status = "failed" \/ (op = "up" /\ phase # "bring_up")
    PROVE  WholeInv'
BY NotedKept DEF LeftInv, WholeInv

LEMMA WholeBegins ==
    ASSUME LeftInv, res' = res, pc' = pc, op = "none",
           op' = "up" => phase' = "bring_up" /\ status' # "failed"
                         /\ \A p \in Pool : UnknownPool(p) /\ pc[p] = "create",
           status' = "failed" => status = "failed"
    PROVE  WholeInv'
BY NotedKept DEF LeftInv, WholeInv, Whole

\* A resource that is done with was noted, and stays noted.
LEMMA DestroyedWasNoted ==
    ASSUME IInv, NEW h \in Instance, Destroy(h)
    PROVE  /\ \A g \in Instance : res'[g] = "unknown" <=> res[g] = "unknown"
           /\ res[h] \notin {"unknown", "torn_down"}
           /\ res'[h] \in {res[h], "torn_down"} /\ \A g \in Instance : g # h => res'[g] = res[g]
           /\ UNCHANGED <<status, op, phase, pc>> /\ phase = "teardown" /\ op \in {"up", "down"}
<1>1. res[h] \notin {"unknown", "torn_down"} /\ op \in {"up", "down"}
  BY DEF Destroy, Teardown, TeardownMisled, TeardownFails, IInv, Core, TodoInv, active_resources, PhaseInv, TypeOK, Commands
<1>2. res' = [res EXCEPT ![h] = "torn_down"] \/ res' = res
  BY DEF Destroy, Teardown, TeardownMisled, TeardownFails
<1>3. UNCHANGED <<status, op, phase, pc>> /\ phase = "teardown"
  BY DEF Destroy, Teardown, TeardownMisled, TeardownFails, threads
<1> QED
  BY <1>1, <1>2, <1>3 DEF IInv, TypeOK

LEMMA WholeStep == ASSUME LeftInv, Local \/ Answered PROVE WholeInv'
<1> USE DEF LeftInv, IInv, Core
<1>1. ASSUME NEW p \in Pool, Unwire(p) PROVE WholeInv'
  BY <1>1, WholeGoesOn DEF Unwire, threads
<1>2. ASSUME NEW h \in Instance, Destroy(h) PROVE WholeInv'
  BY <1>2, DestroyedWasNoted, WholeGoesOn
<1>3. ASSUME NEW h \in Instance, ReapDelete(h) \/ ReapFails(h) PROVE WholeInv'
  BY <1>3, WholeGoesOn DEF ReapDelete, ReapFails, record, threads
<1>4. ASSUME op = "up", Abort, phase # "bring_up" \/ \A p \in Pool : pc[p] \in Outcomes
      PROVE  WholeInv'
  BY <1>4, WholeGoesOn DEF Abort, threads
<1>5. CASE Join
  BY <1>4, <1>5, WholeGoesOn DEF Join, record, threads
<1>6. CASE Write
  BY <1>6, WholeGoesOn DEF Write, record, threads
<1>7. CASE Restart
  <2>1. CASE op = "up"
    BY <1>7, <2>1, WholeGoesOn DEF Restart, threads
  <2>2. CASE op = "down"
    BY <1>7, <2>2, WholeEnds DEF Restart, Exit
  <2> QED
    BY <1>7, <2>1, <2>2 DEF Restart
<1>8. CASE ApplyFails
  <2>1. phase # "bring_up"
    BY <1>8, OrchestratorAssumption DEF ApplyFails
  <2> QED
    BY <1>4, <1>8, <2>1, WholeEnds DEF ApplyFails, Exit, record
<1>9. CASE Verify
  <2>1. op = "up" /\ phase # "bring_up"
    BY <1>9 DEF Verify, PhaseInv
  <2> QED
    BY <1>4, <1>9, <2>1, WholeEnds DEF Verify, Exit
<1>10. CASE TornDown
  <2>1. CASE op = "up"
    BY <1>10, <2>1, WholeEnds DEF TornDown, Exit
  <2>2. CASE op = "down"
    BY <1>10, <2>2, WholeGoesOn DEF TornDown, threads
  <2> QED
    BY <1>10, <2>1, <2>2 DEF TornDown
<1>11. CASE Unwired
  BY <1>11, WholeGoesOn DEF Unwired, record, threads
<1>12. CASE Reaped
  BY <1>12, WholeEnds DEF Reaped, Exit, record
<1>13. CASE AdapterFails
  BY <1>13, WholeEnds DEF AdapterFails, Exit, record
<1> QED
  BY <1>1, <1>2, <1>3, <1>5, <1>6, <1>7, <1>8, <1>9, <1>10, <1>11, <1>12, <1>13, WholeBringUp
  DEF Local, Answered, Bring_up, Destroy

LEMMA WholeNext == ASSUME LeftInv, [Next]_vars PROVE WholeInv'
<1> USE DEF LeftInv, IInv, Core
<1>1. CASE Up
  BY <1>1, WholeBegins DEF Up, threads, IdleInv
<1>2. CASE Down
  BY <1>2, WholeBegins DEF Down, threads
<1>3. CASE Kill
  <2>1. status' = "failed" => status = "failed" 
    BY <1>3 DEF Kill, record
  <2> QED
    BY <1>3, <2>1, WholeEnds DEF Kill, Exit, record
<1>4. ASSUME NEW reached \in SUBSET Pool, Reap(reached) PROVE WholeInv'
  BY <1>4, WholeBegins DEF Reap, record, threads
<1>5. ASSUME NEW i \in Instance, Land(i) PROVE WholeInv'
  BY <1>5, WholeGoesOn DEF Land, record, threads
<1>6. CASE UNCHANGED vars
  BY <1>6, WholeGoesOn DEF vars
<1> QED
  BY <1>1, <1>2, <1>3, <1>4, <1>5, <1>6, WholeStep DEF Next

\* A step that moves nothing recorded, and is not in the teardown of an `up`.
LEMMA GoneKept ==
    ASSUME LeftInv, erred' = erred,
           op' = "up" /\ phase' = "teardown" => active_resources' \subseteq todo',
           status' = "failed" =>
               res' = res /\ (status = "failed" \/ (op = "up" /\ phase = "teardown" /\ todo = {}))
    PROVE  GoneInv'
BY DEF LeftInv, GoneInv, DownDestroys, active_resources

LEMMA GoneBringUp == ASSUME LeftInv, NEW p \in Pool, Bring_up(p) PROVE GoneInv'
<1>1. op = "up" /\ phase = "bring_up" /\ UNCHANGED Rest
  BY DEF Bring_up, Create, Refuse, Unusable, Record, Boot, BootFails, SetPool, InThread
<1>2. op' = "up" /\ phase' = "bring_up" /\ erred' = erred /\ status' # "failed"
  BY <1>1 DEF Rest, PhaseInv, LeftInv, IInv, Core
<1> QED
  BY <1>2, GoneKept

LEMMA GoneDestroy == ASSUME LeftInv, NEW h \in Instance, Destroy(h) PROVE GoneInv'
<1> USE DEF LeftInv, IInv, Core
<1>1. /\ UNCHANGED <<status, op, phase>> /\ phase = "teardown" /\ op \in {"up", "down"}
      /\ \A g \in Instance : g # h => res'[g] = res[g]
  BY DestroyedWasNoted
<1>2. status' # "failed"
  BY <1>1 DEF PhaseInv
<1>3. todo' = todo \ {h} /\ (erred' \/ (erred' = erred /\ res'[h] = "torn_down"))
  BY DEF Destroy, Teardown, TeardownMisled, TeardownFails, TypeOK
<1>4. op = "up" => erred' \/ active_resources' \subseteq todo'
  BY <1>1, <1>3 DEF GoneInv, active_resources
<1> QED
  BY <1>1, <1>2, <1>4 DEF GoneInv

LEMMA GoneNext == ASSUME LeftInv, [Next]_vars PROVE GoneInv'
<1> USE DEF LeftInv, IInv, Core
<1>1. ASSUME UNCHANGED <<res, erred>>, op' = "up" => op = "up" /\ phase' # "teardown",
             status' = "failed" => status = "failed"
      PROVE  GoneInv'
  BY <1>1, GoneKept
<1>2. ASSUME op = "up", Abort PROVE GoneInv'
  BY <1>2, GoneKept DEF Abort, active_resources
<1>3. CASE Join
  BY <1>1, <1>2, <1>3 DEF Join, record
<1>4. CASE Write \/ Restart \/ Unwired \/ \E p \in Pool : Unwire(p)
  BY <1>1, <1>4 DEF Write, Restart, Unwired, Unwire, record, PhaseInv, Exit
<1>5. CASE ApplyFails \/ AdapterFails
  BY <1>1, <1>2, <1>5 DEF ApplyFails, AdapterFails, Exit, record
<1>6. CASE Verify
  BY <1>1, <1>2, <1>6 DEF Verify, Exit, PhaseInv
<1>7. CASE TornDown
  <2>1. CASE op = "up"
    BY <1>7, <2>1, GoneKept DEF TornDown, Exit
  <2>2. CASE op = "down"
    BY <1>1, <1>7, <2>2 DEF TornDown
  <2> QED
    BY <1>7, <2>1, <2>2 DEF TornDown
<1>8. CASE Up \/ Down
  BY <1>8 DEF Up, Down, GoneInv
<1>9. CASE Kill \/ Reaped \/ \E reached \in SUBSET Pool : Reap(reached)
  BY <1>1, <1>9 DEF Kill, Reaped, Reap, Exit, record
<1>10. ASSUME NEW i \in Instance, ReapDelete(i) \/ ReapFails(i) PROVE GoneInv'
  BY <1>1, <1>10 DEF ReapDelete, ReapFails, record, PhaseInv
<1>11. ASSUME NEW i \in Instance, Land(i) PROVE GoneInv'
  BY <1>1, <1>11 DEF Land, record, LateInv
<1>12. CASE UNCHANGED vars
  <2>1. active_resources' = active_resources
    BY <1>12 DEF vars, active_resources
  <2> QED
    BY <1>12, <2>1 DEF vars, GoneInv, DownDestroys
<1> QED
  BY <1>3, <1>4, <1>5, <1>6, <1>7, <1>8, <1>9, <1>10, <1>11, <1>12, GoneBringUp, GoneDestroy
  DEF Next, Local, Answered, Bring_up, Destroy

LEMMA LeftInvariant == Spec => []LeftInv
<1>1. Init => LeftInv
  <2> SUFFICES ASSUME Init PROVE LeftInv
    OBVIOUS
  <2>1. IInv
    BY InitIInv
  <2>2. WholeInv /\ GoneInv
    BY Instances DEF Init, WholeInv, GoneInv, Whole, UnknownPool
  <2> QED
    BY <2>1, <2>2 DEF LeftInv
<1>2. LeftInv /\ [Next]_vars => LeftInv'
  BY NextIInv, WholeNext, GoneNext DEF LeftInv
<1> QED
  BY <1>1, <1>2, PTL DEF Spec

\* What a file with nothing left to tear down, and no error reported, has settled:
\* what is covered by a handle in it is gone, or a delete was taken for done.
LEMMA SettledIsGone ==
    ASSUME IInv, DownDestroys, ~erred, NEW h \in Instance, res[h] # "unknown"
    PROVE  Covers(h) \cap cloud \subseteq missed
BY DEF DownDestroys, IInv, TornDownIsGone

\* "Any unrecoverable error during `up` tears down the partial fabric": of a pool
\* that it had recorded, a failed `up` that reported no error leaves only what a
\* delete was wrongly taken for done about, and what acquire had left in an earlier
\* region; and of the others, what an acquire that raised had created, which is what
\* FailedIsTornDown is violated by.
THEOREM FailedLeavesWhatAcquireLost ==
    Spec => [](status = "failed" /\ ~erred =>
                 \A i \in cloud \ missed : i[2] = 0 \/ UnknownPool(i[1]))
<1>1. LeftInv => (status = "failed" /\ ~erred =>
                    \A i \in cloud \ missed : i[2] = 0 \/ UnknownPool(i[1]))
  <2> SUFFICES ASSUME LeftInv, status = "failed", ~erred, NEW i \in cloud \ missed, i[2] # 0,
                      ~UnknownPool(i[1])
               PROVE  FALSE
    OBVIOUS
  <2>1. i \in Instance /\ i[1] \in Pool /\ DownDestroys
    BY Instances DEF LeftInv, IInv, TypeOK, GoneInv
  <2>2. PICK h \in Handles(i[1]) : i \in Covers(h)
    BY <2>1, CoveredByHandle
  <2>3. h \in Instance /\ res[h] # "unknown"
    BY <2>1, <2>2, Instances DEF LeftInv, WholeInv, Whole, RecordedPool
  <2> QED
    BY <2>1, <2>2, <2>3, SettledIsGone DEF LeftInv
<1> QED
  BY <1>1, LeftInvariant, PTL

\* Nor does a `down` that reported no error leave anything that the run's file had
\* a handle for, whoever was killed, whatever failed and whatever landed late before
\* it, but for what a delete was wrongly taken for done about (`down`): what else is
\* left, a killed or failed `up` had not recorded, and only reap finds.
THEOREM DownLeavesWhatWasNotRecorded ==
    Spec => [](status = "down" /\ ~erred =>
                 \A h \in Instance : res[h] # "unknown" => Covers(h) \cap cloud \subseteq missed)
<1>1. IInv => (status = "down" /\ ~erred =>
                 \A h \in Instance : res[h] # "unknown" => Covers(h) \cap cloud \subseteq missed)
  BY SettledIsGone DEF IInv, DownInv
<1> QED
  BY <1>1, Invariant, PTL
=============================================================================
