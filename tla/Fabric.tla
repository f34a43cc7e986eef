------------------------------- MODULE Fabric -------------------------------
(***************************************************************************)
(* The fabric as clients see it: several runs of the orchestrator publish  *)
(* their pools in one pool map file (src/orchestrator/wiring.py), Tier-1   *)
(* loads the file when it is restarted and answers with the mapped pools   *)
(* that it hears (src/tier1_dns.py), and the pools emit telemetry from     *)
(* their boot to their teardown.  Orchestrator models one run in detail    *)
(* and Tier1 the threads of one query; here a run has one pool, brought up *)
(* in one step, a query is atomic, and all pools send in the same tick.    *)
(*                                                                         *)
(* A command is a process: it reads the map into memory when it starts     *)
(* (mem), changes its own entry much later, and writes the whole map back: *)
(*   acquire, teardown           before the map is touched                 *)
(*   open, write, replace        the file, by way of <map>.tmp             *)
(*   restart, verify             Tier-1, and the dig that up waits for     *)
(* The name of the temporary file is the same for every process, so fd[r]  *)
(* says which file the descriptor of r is by now: still the temporary one, *)
(* the map itself, or one that has been replaced.                          *)
(*                                                                         *)
(* An address is named by the run that owns it.                            *)
(***************************************************************************)
EXTENDS Naturals, FiniteSets

CONSTANTS
    Run, Name,
    name,          \* the backend of a run's pool: its key in the map
    NoAddr,        \* no entry
    Blank,         \* an entry with an empty address
    Whale,         \* the --failsafe-ip of Tier-1
    Absent,        \* no temporary file
    Window,        \* TIER1_FRESH, in ticks of one emission
    Overlap,       \* whether commands of two runs may overlap
    MayBeBlank,    \* whether a provider may return no address
    Killable,      \* the commands that may be killed
    Fallible       \* what may raise beside the providers: adapter, restart

ASSUME FabricAssumption ==
    /\ IsFiniteSet(Run)
    /\ name \in [Run -> Name]
    /\ Cardinality({NoAddr, Blank, Whale}) = 3
    /\ {NoAddr, Blank, Whale} \cap Run = {}
    /\ Absent \notin [Name -> Run \cup {NoAddr, Blank}]
    /\ Window \in Nat
    /\ {Overlap, MayBeBlank} \subseteq BOOLEAN
    /\ Killable \subseteq {"up", "down"}
    /\ Fallible \subseteq {"adapter", "restart"}

VARIABLES
    status, wired,        \* the run's file: its status, and its entry in pools
    op, phase, mem, fd,   \* the command of a run, its copy of the map, its file
    file, tmp,            \* the map on disk, and the temporary file if there is one
    emits, off,           \* pools: running, ticks since they ran
    running, tmap, age,   \* Tier-1: serving, its pool_map, age of a backend
    overlapped,           \* history: whether commands of two runs have overlapped,
                          \* and until then:
    owner,                \*   the last run of a name to publish the map
    cut                   \*   the runs with a down that was killed after it cleared
                          \*   the run's file, and before the map was written

runs  == <<status, wired>>
disk  == <<file, tmp>>
pools == <<emits, off>>
tier1 == <<running, tmap, age>>
past  == <<overlapped, owner, cut>>
vars  == <<status, wired, op, phase, mem, fd, file, tmp, emits, off,
           running, tmap, age, overlapped, owner, cut>>

Addr   == Run \cup {NoAddr, Blank}
Map    == [Name -> Addr]
NoMap  == [n \in Name |-> NoAddr]
NoOwner == NoMap
Stale   == Window + 1
Mapped(m) == {n \in Name : m[n] # NoAddr}

\* Ages beyond the window are not told apart.
Older(a) == IF a < Stale THEN a + 1 ELSE Stale

\* Mutant: a mapped pool is answered whether or not it is heard.
fresh_ever == Name

fresh_backends == {n \in Name : age[n] <= Window}

Live == {tmap[n] : n \in Mapped(tmap) \cap fresh_backends}

\* Mutant: the answer holds one record.
AnswerFirst ==
    IF ~running \/ Blank \in Live THEN {}
    ELSE IF Live = {} THEN {Whale} ELSE {CHOOSE a \in Live : TRUE}

\* What a query gets: the addresses of the mapped pools that are fresh, the
\* whale when there is none, and nothing at all while Tier-1 is down or when an
\* address of the answer cannot be packed.
Answer ==
    IF ~running \/ Blank \in Live THEN {}
    ELSE IF Live = {} THEN {Whale} ELSE Live

Init ==
    /\ status = [r \in Run |-> "none"]
    /\ wired = [r \in Run |-> NoAddr]
    /\ op = [r \in Run |-> "none"]
    /\ phase = [r \in Run |-> "none"]
    /\ mem = [r \in Run |-> NoMap]
    /\ fd = [r \in Run |-> "none"]
    /\ file = NoMap /\ tmp = Absent
    /\ emits = [r \in Run |-> FALSE]
    /\ off = [r \in Run |-> Stale]
    /\ running = TRUE
    /\ tmap = NoMap
    /\ age = [n \in Name |-> Stale]
    /\ overlapped = FALSE
    /\ owner = NoOwner
    /\ cut = {}

\* RealWiring.__init__ reads the map as it is now.
Read == file

Goto(r, p) == phase' = [phase EXCEPT ![r] = p] /\ UNCHANGED op

\* The process of r ends, and what it had in memory is gone.
Exit(r) ==
    /\ op' = [op EXCEPT ![r] = "none"]
    /\ phase' = [phase EXCEPT ![r] = "none"]
    /\ mem' = [mem EXCEPT ![r] = NoMap]
    /\ fd' = [fd EXCEPT ![r] = "none"]

Start(r, what, first) ==
    /\ op[r] = "none"
    /\ Overlap \/ \A q \in Run : op[q] = "none"
    /\ overlapped' = (overlapped \/ \E q \in Run : op[q] # "none")
    /\ op' = [op EXCEPT ![r] = what]
    /\ phase' = [phase EXCEPT ![r] = first]
    /\ mem' = [mem EXCEPT ![r] = Read]
    /\ IF overlapped' THEN owner' = NoOwner /\ cut' = {} ELSE UNCHANGED <<owner, cut>>
    /\ UNCHANGED <<wired, fd, disk, pools, tier1>>

At(r, p) == phase[r] = p

-----------------------------------------------------------------------------
(* The commands up to the map. *)

Up(r) ==
    /\ status[r] = "none"
    /\ Start(r, "up", "acquire")
    /\ status' = [status EXCEPT ![r] = "initializing"]

\* The pool is created, boots and begins to emit; set_pool and add_pool note the
\* address that the provider gave, if it gave one.
Acquire(r) ==
    /\ At(r, "acquire")
    /\ emits' = [emits EXCEPT ![r] = TRUE]
    /\ off' = [off EXCEPT ![r] = 0]
    /\ \E a \in {r} \cup (IF MayBeBlank THEN {Blank} ELSE {}) :
         /\ wired' = [wired EXCEPT ![r] = a]
         /\ mem' = [mem EXCEPT ![r][name[r]] = a]
    /\ Goto(r, "open")
    /\ UNCHANGED <<status, fd, disk, tier1, past>>

\* _teardown_all: a delete that fails is reported, and the pool runs on.
Destroy(r) == \E on \in {FALSE, emits[r]} : emits' = [emits EXCEPT ![r] = on]

\* up raises: the fabric is torn down.  The map is left as it is.
Abort(r) ==
    /\ status' = [status EXCEPT ![r] = "failed"]
    /\ Destroy(r)
    /\ Exit(r)
    /\ UNCHANGED <<wired, off>>

\* An acquire that is cut short may leave a pool that runs.
Leave(r) ==
    \E on \in BOOLEAN :
      /\ emits' = [emits EXCEPT ![r] = on]
      /\ off' = [off EXCEPT ![r] = IF on THEN 0 ELSE @]

\* acquire, bootstrap or verify raises, and the teardown need not find what is left.
AcquireFails(r) ==
    /\ At(r, "acquire")
    /\ status' = [status EXCEPT ![r] = "failed"]
    /\ Leave(r)
    /\ Exit(r)
    /\ UNCHANGED <<wired, disk, tier1, past>>

Down(r) ==
    /\ status[r] # "none"
    /\ Start(r, "down", "teardown")
    /\ status' = [status EXCEPT ![r] = "aborting"]

\* Mutant: the pool leaves the run's file and not the map.
UnwireForgets(r) == mem[r]

\* remove_pool, for the pool the run's file names.
Unwire(r) == IF wired[r] = NoAddr THEN mem[r] ELSE [mem[r] EXCEPT ![name[r]] = NoAddr]

\* What it recorded is destroyed, and the pool leaves the run's file and the map
\* in memory.
Teardown(r) ==
    /\ At(r, "teardown")
    /\ Destroy(r)
    /\ mem' = [mem EXCEPT ![r] = Unwire(r)]
    /\ wired' = [wired EXCEPT ![r] = NoAddr]
    /\ Goto(r, "open")
    /\ UNCHANGED <<status, fd, disk, off, tier1, past>>

\* No adapter can be made for the provider: down ends with the exception.
AdapterFails(r) ==
    /\ "adapter" \in Fallible /\ At(r, "teardown")
    /\ Exit(r)
    /\ UNCHANGED <<runs, disk, pools, tier1, past>>

-----------------------------------------------------------------------------
(* apply. *)

\* open(tmp, "w") creates the temporary file, or truncates the one there is.
Open(r) ==
    /\ At(r, "open")
    /\ tmp' = NoMap
    /\ fd' = [fd EXCEPT ![r] = "tmp"]
    /\ Goto(r, "write")
    /\ UNCHANGED <<runs, mem, file, pools, tier1, past>>

\* What is in a file of content old after m was written over its beginning: of a
\* longer text, the last lines stay.
Overwritten(old, m) ==
    {[n \in Name |-> IF n \in tail THEN old[n] ELSE m[n]] :
        tail \in IF Cardinality(Mapped(old)) > Cardinality(Mapped(m))
                   THEN SUBSET Mapped(old) ELSE {{}}}

\* Mutant: the file is not closed before it is moved.
WriteOpen(r) ==
    /\ At(r, "write") /\ fd[r] = "tmp"
    /\ tmp' \in Overwritten(tmp, mem[r])
    /\ Goto(r, "replace")
    /\ UNCHANGED <<runs, mem, fd, file, pools, tier1, past>>

\* The text reaches the file on close, whatever that file is by now.
Write(r) ==
    /\ At(r, "write")
    /\ \/ fd[r] = "tmp" /\ tmp' \in Overwritten(tmp, mem[r]) /\ UNCHANGED file
       \/ fd[r] = "map" /\ file' \in Overwritten(file, mem[r]) /\ UNCHANGED tmp
       \/ fd[r] = "gone" /\ UNCHANGED disk
    /\ fd' = [fd EXCEPT ![r] = "none"]
    /\ Goto(r, "replace")
    /\ UNCHANGED <<runs, mem, pools, tier1, past>>

\* os.replace, with the descriptors others have open.
Replace(r) ==
    /\ At(r, "replace")
    /\ tmp # Absent
    /\ file' = tmp /\ tmp' = Absent
    /\ fd' = [q \in Run |-> CASE fd[q] = "tmp" -> "map" [] fd[q] = "map" -> "gone"
                              [] OTHER -> fd[q]]
    /\ Goto(r, "restart")
    /\ owner' = IF overlapped THEN owner ELSE [owner EXCEPT ![name[r]] = r]
    /\ UNCHANGED <<runs, mem, pools, tier1, overlapped, cut>>

\* apply raises: up is aborted, down ends where it is.
Raise(r) ==
    \/ op[r] = "up" /\ Abort(r)
    \/ op[r] = "down" /\ Exit(r) /\ UNCHANGED <<runs, pools>>

\* Another process has moved the temporary file away.
ReplaceFails(r) ==
    /\ At(r, "replace")
    /\ tmp = Absent
    /\ Raise(r)
    /\ UNCHANGED <<disk, tier1, past>>

\* systemctl restart returns when the new process exists; it loads the map later.
Restart(r) ==
    /\ At(r, "restart")
    /\ running' = FALSE
    /\ \/ op[r] = "up" /\ Goto(r, "verify") /\ UNCHANGED <<status, mem, fd>>
       \/ /\ op[r] = "down"
          /\ status' = [status EXCEPT ![r] = "down"]
          /\ Exit(r)
    /\ UNCHANGED <<wired, disk, pools, tmap, age, past>>

\* systemctl restart fails, and may have stopped Tier-1 by then.
RestartRaises(r) ==
    /\ "restart" \in Fallible /\ At(r, "restart")
    /\ Raise(r)
    /\ running' \in {running, FALSE}
    /\ UNCHANGED <<disk, tmap, age, past>>

\* The run is up when its pool is in the answer, and torn down when it is not
\* there at the deadline or a completion through it fails.
Verify(r) ==
    /\ At(r, "verify")
    /\ \/ /\ wired[r] \in Answer
          /\ status' = [status EXCEPT ![r] = "up"]
          /\ Exit(r)
          /\ UNCHANGED <<wired, pools>>
       \/ Abort(r)
    /\ UNCHANGED <<disk, tier1, past>>

\* The process is killed; a request it was waiting for may be carried out.
Kill(r) ==
    /\ op[r] \in Killable
    /\ Exit(r)
    /\ \/ At(r, "acquire") /\ Leave(r)
       \/ At(r, "teardown") /\ Destroy(r) /\ UNCHANGED off
       \/ phase[r] \notin {"acquire", "teardown"} /\ UNCHANGED pools
    /\ cut' = IF ~overlapped /\ op[r] = "down" /\ phase[r] \in {"open", "write", "replace"}
                THEN cut \cup {r} ELSE cut
    /\ UNCHANGED <<runs, disk, tier1, overlapped, owner>>

-----------------------------------------------------------------------------
(* Tier-1 and the pools. *)

\* The new process of Tier-1 loads the map; it has heard nobody yet.
Load ==
    /\ ~running
    /\ running' = TRUE
    /\ tmap' = file
    /\ age' = [n \in Name |-> Stale]
    /\ UNCHANGED <<runs, op, phase, mem, fd, disk, pools, past>>

\* Every pool that runs sends its frame, which a dead Tier-1 never sees.
Tick ==
    /\ off' = [r \in Run |-> IF emits[r] THEN 0 ELSE Older(off[r])]
    /\ age' = [n \in Name |-> IF running /\ \E r \in Run : emits[r] /\ name[r] = n
                                 THEN 0 ELSE Older(age[n])]
    /\ UNCHANGED <<runs, op, phase, mem, fd, disk, emits, running, tmap, past>>

Step(r) ==
    \/ Acquire(r) \/ AcquireFails(r) \/ Teardown(r) \/ AdapterFails(r)
    \/ Open(r) \/ Write(r) \/ Replace(r) \/ ReplaceFails(r)
    \/ Restart(r) \/ RestartRaises(r) \/ Verify(r)

Next ==
    \/ \E r \in Run : Up(r) \/ Down(r) \/ Step(r) \/ Kill(r)
    \/ Load \/ Tick

\* Time passes, and systemd starts Tier-1 when it has stopped.
Fairness == WF_vars(Load) /\ WF_vars(Tick)

Spec     == Init /\ [][Next]_vars
FairSpec == Spec /\ Fairness

-----------------------------------------------------------------------------
(* Properties. *)

TypeOK ==
    /\ status \in [Run -> {"none", "initializing", "up", "aborting", "down", "failed"}]
    /\ wired \in [Run -> Addr]
    /\ op \in [Run -> {"none", "up", "down"}]
    /\ phase \in [Run -> {"none", "acquire", "teardown", "open", "write",
                          "replace", "restart", "verify"}]
    /\ mem \in [Run -> Map]
    /\ fd \in [Run -> {"none", "tmp", "map", "gone"}]
    /\ file \in Map /\ tmp \in Map \cup {Absent}
    /\ emits \in [Run -> BOOLEAN]
    /\ off \in [Run -> 0 .. Stale]
    /\ running \in BOOLEAN /\ tmap \in Map
    /\ age \in [Name -> 0 .. Stale]
    /\ overlapped \in BOOLEAN
    /\ owner \in [Name -> Run \cup {NoAddr}] /\ cut \subseteq Run
    /\ \A r \in Run : phase[r] = "write" <=> fd[r] # "none"

\* As long as commands do not overlap, a status means what it says, whatever
\* fails or is killed.  A run that is up is in the pool map with its address, until
\* a run of the same name publishes its own; and a run that is down is not
\* answered, even if its instances could not be deleted and go on emitting, unless
\* a `down` of it was killed when only the run's file was cleared.
UpIsWired  == \A r \in Run : status[r] = "up" /\ owner[name[r]] = r => file[name[r]] = r
DownIsDark == \A r \in Run : status[r] = "down" /\ r \notin cut => r \notin Answer
StatusIsHonest == ~overlapped => UpIsWired /\ DownIsDark

\* Silence is death: an address is answered only if a pool has emitted under its
\* name within the window, whatever stale entries killed, failed or overlapping
\* commands left in the map.
DeadIsDark ==
    \A r \in Run : r \in Answer =>
        \E q \in Run : name[q] = name[r] /\ off[q] <= Window

\* Once the operators rest, every pool that is up is in the answer again, however
\* many restarts its neighbours caused, unless commands overlapped or another run
\* of its name has published since.
UpComesBack ==
    <>[](\A r \in Run : op[r] = "none") =>
        \A r \in Run :
          status[r] = "up" ~> \/ r \in Answer \/ status[r] # "up"
                              \/ overlapped \/ owner[name[r]] # r

-----------------------------------------------------------------------------
(* What the documentation says, and the code does not do. *)

\* "pool wired into tier1 map": also when commands overlap.
UpStaysWired == \A r \in Run : status[r] = "up" => file[name[r]] = r

\* "silence is death": also for one of two runs of one name.
SilenceIsDeath == \A r \in Run : off[r] > Window => r \notin Answer

\* "the orchestrator can rewire live": a pool that is up and emits stays in the
\* answer while other runs come and go.
RewireIsLive ==
    [][\A r \in Run : /\ r \in Answer /\ status[r] = "up"
                      /\ status'[r] = "up" /\ emits'[r]
                      => r \in Answer']_vars

\* "Fail-open, never fail-empty": a Tier-1 that runs answers every query.
NeverSilent == running => Answer # {}
=============================================================================
