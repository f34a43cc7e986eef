---------------------------- MODULE FabricProofs ----------------------------
(***************************************************************************)
(* Proofs about Fabric, for any number of runs, any window, and every kill *)
(* and overlap, and whichever runs share a backend name: its types, and    *)
(* that no address is answered for which nobody has emitted for a window;  *)
(* that a run's status is honest until commands have overlapped; and that  *)
(* Tier-1, if every provider gives addresses, never falls silent, and      *)
(* drops a pool that goes on emitting only when it is restarted.           *)
(***************************************************************************)
EXTENDS Fabric, FiniteSetTheorems, TLAPS

-----------------------------------------------------------------------------
(* The inductive invariant: the types, and                                  *)
(* - who writes into the temporary file can count on there being one;       *)
(* - however maps are lost, mixed and left behind, the address of a run is  *)
(*   in no map but under the name of the run;                               *)
(* - what Tier-1 has heard of a name within the window, a pool of that name *)
(*   has sent since.                                                        *)

Mine(m) == \A n \in Name : m[n] \in Run => name[m[n]] = n

FdInv ==
    /\ \A r \in Run : fd[r] = "tmp" => tmp # Absent
    /\ \A r \in Run : op[r] = "none" => phase[r] = "none"

MapsInv ==
    /\ \A r \in Run : Mine(mem[r]) /\ (wired[r] \in Run => wired[r] = r)
    /\ Mine(file) /\ Mine(tmap)
    /\ tmp # Absent => Mine(tmp)

AgeInv ==
    \A n \in Name : age[n] <= Window => \E r \in Run : name[r] = n /\ off[r] <= age[n]

IInv == TypeOK /\ FdInv /\ MapsInv /\ AgeInv

-----------------------------------------------------------------------------
(* The operators. *)

\* What is neither disk nor command nor pool is as before.
Quiet == UNCHANGED <<tmap, age, past>> /\ running' \in {running, FALSE}

LEMMA NoMapMine == NoMap \in Map /\ Mine(NoMap)
BY FabricAssumption DEF NoMap, Map, Addr, Mine

LEMMA OlderGrows ==
    ASSUME NEW a \in 0 .. Stale, NEW b \in 0 .. Stale, a <= b
    PROVE  Older(a) \in 0 .. Stale /\ Older(a) <= Older(b) /\ (Older(b) <= Window => b <= Window)
BY FabricAssumption DEF Older, Stale

\* Writing over a file mixes two maps, entry by entry.
LEMMA OverwrittenMine ==
    ASSUME NEW old \in Map, NEW m \in Map, Mine(old), Mine(m),
           NEW new \in Overwritten(old, m)
    PROVE  new \in Map /\ Mine(new)
<1>1. PICK tail : new = [n \in Name |-> IF n \in tail THEN old[n] ELSE m[n]]
  BY DEF Overwritten
<1>2. new \in Map
  BY <1>1 DEF Map
<1>3. Mine(new)
  BY <1>1 DEF Mine, Map
<1> QED
  BY <1>2, <1>3

\* A process that exits leaves the invariant of what it had in memory.
LEMMA ExitKeeps ==
    ASSUME TypeOK, FdInv, NEW r \in Run, Exit(r), UNCHANGED tmp
    PROVE  /\ op' \in [Run -> {"none", "up", "down"}]
           /\ phase' \in [Run -> {"none", "acquire", "teardown", "open", "write",
                                  "replace", "restart", "verify"}]
           /\ mem' \in [Run -> Map]
           /\ fd' \in [Run -> {"none", "tmp", "map", "gone"}]
           /\ \A q \in Run : phase'[q] = "write" <=> fd'[q] # "none"
           /\ FdInv'
           /\ \A q \in Run : Mine(mem[q]) => Mine(mem'[q])
<1>1. \A q \in Run : mem'[q] = IF q = r THEN NoMap ELSE mem[q]
  BY DEF Exit, TypeOK
<1>2. \A q \in Run : Mine(mem[q]) => Mine(mem'[q])
  BY <1>1, NoMapMine
<1>0. /\ phase \in [Run -> {"none", "acquire", "teardown", "open", "write",
                           "replace", "restart", "verify"}]
      /\ op \in [Run -> {"none", "up", "down"}] /\ fd \in [Run -> {"none", "tmp", "map", "gone"}]
  BY DEF TypeOK
<1>3. \A q \in Run :
        /\ phase'[q] = IF q = r THEN "none" ELSE phase[q]
        /\ op'[q] = IF q = r THEN "none" ELSE op[q]
        /\ fd'[q] = IF q = r THEN "none" ELSE fd[q]
  BY <1>0 DEF Exit
<1>4. FdInv' /\ \A q \in Run : phase'[q] = "write" <=> fd'[q] # "none"
  BY <1>3 DEF TypeOK, FdInv
<1> QED
  BY <1>2, <1>4, NoMapMine DEF Exit, TypeOK

\* What a delete does to the pools, or an acquire that is cut short: nobody has been
\* off for longer than before.
LEMMA PoolsKeep ==
    ASSUME TypeOK, AgeInv, NEW r \in Run, (Destroy(r) /\ UNCHANGED off) \/ Leave(r), UNCHANGED age
    PROVE  emits' \in [Run -> BOOLEAN] /\ off' \in [Run -> 0 .. Stale] /\ AgeInv'
<1>1. emits' \in [Run -> BOOLEAN]
  <2>1. emits \in [Run -> BOOLEAN]
    BY DEF TypeOK
  <2> QED
    BY <2>1 DEF Destroy, Leave
<1>2. off' \in [Run -> 0 .. Stale] /\ \A q \in Run : off'[q] <= off[q]
  BY FabricAssumption DEF Leave, TypeOK, Stale
<1>3. \A n \in Name : age[n] \in Nat /\ \A q \in Run : off[q] \in Nat /\ off'[q] \in Nat
  BY <1>2 DEF TypeOK
<1>4. AgeInv'
  <2> SUFFICES ASSUME NEW n \in Name, age[n] <= Window
               PROVE  \E q \in Run : name[q] = n /\ off'[q] <= age[n]
    BY DEF AgeInv
  <2>1. PICK q \in Run : name[q] = n /\ off[q] <= age[n]
    BY DEF AgeInv
  <2> QED
    BY <1>2, <1>3, <2>1
<1> QED
  BY <1>1, <1>2, <1>4

-----------------------------------------------------------------------------
(* The exits that several actions share. *)

\* A command that ends, with or without a delete or a pool left behind.
LEMMA ExitsKeep ==
    ASSUME IInv, NEW r \in Run, Exit(r), UNCHANGED <<wired, disk, tmap, age, overlapped, owner>>,
           \/ UNCHANGED pools \/ (Destroy(r) /\ UNCHANGED off) \/ Leave(r),
           status' \in [Run -> {"none", "initializing", "up", "aborting", "down", "failed"}],
           running' \in BOOLEAN, cut' \subseteq Run
    PROVE  IInv'
<1> USE DEF IInv
<1>1. UNCHANGED <<wired, file, tmp, tmap, age, overlapped, owner>>
  BY DEF disk
<1>2. emits' \in [Run -> BOOLEAN] /\ off' \in [Run -> 0 .. Stale] /\ AgeInv'
  <2>1. CASE UNCHANGED pools
    BY <1>1, <2>1 DEF pools, AgeInv, TypeOK
  <2> QED
    BY <1>1, <2>1, PoolsKeep
<1>3. TypeOK'
  BY <1>1, <1>2, ExitKeeps DEF TypeOK
<1>4. FdInv'
  BY <1>1, ExitKeeps
<1>5. MapsInv'
  BY <1>1, ExitKeeps DEF MapsInv, Mine
<1> QED
  BY <1>2, <1>3, <1>4, <1>5

\* A command that ends in disgrace.
LEMMA AbortKeeps ==
    ASSUME IInv, NEW r \in Run, Abort(r), UNCHANGED disk, Quiet
    PROVE  IInv'
<1>1. status' \in [Run -> {"none", "initializing", "up", "aborting", "down", "failed"}]
  BY DEF Abort, IInv, TypeOK
<1>2. running' \in BOOLEAN /\ cut' \subseteq Run /\ UNCHANGED <<tmap, age, overlapped, owner>>
  BY DEF Quiet, past, IInv, TypeOK
<1> QED
  BY <1>1, <1>2, ExitsKeep DEF Abort

LEMMA RaiseKeeps ==
    ASSUME IInv, NEW r \in Run, Raise(r), UNCHANGED disk, Quiet
    PROVE  IInv'
<1>1. CASE Abort(r)
  BY <1>1, AbortKeeps
<1>2. CASE Exit(r) /\ UNCHANGED <<runs, pools>>
  <2>1. running' \in BOOLEAN /\ cut' \subseteq Run /\ UNCHANGED <<tmap, age, overlapped, owner>>
    BY DEF Quiet, past, IInv, TypeOK
  <2>2. status' \in [Run -> {"none", "initializing", "up", "aborting", "down", "failed"}] /\ wired' = wired
    BY <1>2 DEF runs, IInv, TypeOK
  <2> QED
    BY <1>2, <2>1, <2>2, ExitsKeep
<1> QED
  BY <1>1, <1>2 DEF Raise

\* The other exits change the pools at most.
LEMMA StopKeeps ==
    ASSUME IInv, NEW r \in Run, AcquireFails(r) \/ AdapterFails(r) \/ Kill(r)
    PROVE  IInv'
<1>1. status' \in [Run -> {"none", "initializing", "up", "aborting", "down", "failed"}]
  BY DEF AcquireFails, AdapterFails, Kill, runs, IInv, TypeOK
<1>2. running' \in BOOLEAN /\ cut' \subseteq Run
  BY DEF AcquireFails, AdapterFails, Kill, tier1, past, IInv, TypeOK
<1>3. UNCHANGED <<wired, disk, tmap, age, overlapped, owner>>
  BY DEF AcquireFails, AdapterFails, Kill, tier1, past, runs
<1>4. Exit(r) /\ (UNCHANGED pools \/ (Destroy(r) /\ UNCHANGED off) \/ Leave(r))
  BY DEF AcquireFails, AdapterFails, Kill
<1> QED
  BY <1>1, <1>2, <1>3, <1>4, ExitsKeep

-----------------------------------------------------------------------------
(* One lemma for each action that writes. *)

LEMMA StartKeeps ==
    ASSUME IInv, NEW r \in Run, Up(r) \/ Down(r)
    PROVE  IInv'
<1> USE DEF IInv
<1>1. PICK what \in {"up", "down"}, first \in {"acquire", "teardown"} : Start(r, what, first)
  BY DEF Up, Down
<1>2. UNCHANGED <<wired, fd, file, tmp, emits, off, running, tmap, age>>
  BY <1>1 DEF Start, disk, pools, tier1
<1>3. mem' = [mem EXCEPT ![r] = file]
  BY <1>1 DEF Start, Read
<1>4. /\ status' \in [Run -> {"none", "initializing", "up", "aborting", "down", "failed"}]
      /\ op' \in [Run -> {"none", "up", "down"}]
      /\ phase' \in [Run -> {"none", "acquire", "teardown", "open", "write",
                             "replace", "restart", "verify"}]
  BY <1>1 DEF Start, Up, Down, TypeOK
<1>5. /\ overlapped' \in BOOLEAN
      /\ owner' \in [Name -> Run \cup {NoAddr}] /\ cut' \subseteq Run
  BY <1>1 DEF Start, TypeOK, NoOwner, NoMap
<1>0. /\ phase[r] = "none" /\ fd[r] = "none"
      /\ op' = [op EXCEPT ![r] = what] /\ phase' = [phase EXCEPT ![r] = first]
  BY <1>1 DEF Start, FdInv, TypeOK
<1>9. FdInv' /\ \A q \in Run : phase'[q] = "write" <=> fd'[q] # "none"
  BY <1>0, <1>2 DEF FdInv, TypeOK
<1>6. TypeOK'
  BY <1>2, <1>3, <1>4, <1>5, <1>9 DEF TypeOK
<1>7. \A q \in Run : mem'[q] = IF q = r THEN file ELSE mem[q]
  BY <1>3 DEF TypeOK
<1>8. MapsInv'
  BY <1>2, <1>7 DEF MapsInv, Mine
<1> QED
  BY <1>2, <1>6, <1>8, <1>9 DEF AgeInv

LEMMA AcquireKeeps ==
    ASSUME IInv, NEW r \in Run, Acquire(r)
    PROVE  IInv'
<1> USE DEF IInv
<1>1. UNCHANGED <<status, op, fd, file, tmp, running, tmap, age, overlapped, owner, cut>>
  BY DEF Acquire, Goto, disk, tier1, past
<1>2. PICK a \in {r, Blank} : /\ wired' = [wired EXCEPT ![r] = a]
                              /\ mem' = [mem EXCEPT ![r][name[r]] = a]
  BY DEF Acquire
<1>3. name[r] \in Name /\ a \in Addr /\ Blank \notin Run
  BY FabricAssumption DEF Addr
<1>4. \A q \in Run : mem'[q] = IF q = r THEN [mem[r] EXCEPT ![name[r]] = a] ELSE mem[q]
  BY <1>2 DEF TypeOK
<1>5. mem' \in [Run -> Map] /\ wired' \in [Run -> Addr]
  <2>1. mem[r] \in Map
    BY DEF TypeOK
  <2>2. [mem[r] EXCEPT ![name[r]] = a] \in Map
    BY <2>1, <1>3 DEF Map
  <2>3. mem' = [mem EXCEPT ![r] = [mem[r] EXCEPT ![name[r]] = a]]
    BY <1>2
  <2> QED
    BY <1>2, <1>3, <2>2, <2>3 DEF TypeOK
<1>6. TypeOK'
  <2>1. phase' \in [Run -> {"none", "acquire", "teardown", "open", "write",
                            "replace", "restart", "verify"}]
    BY DEF Acquire, Goto, TypeOK
  <2>2. emits' \in [Run -> BOOLEAN] /\ off' \in [Run -> 0 .. Stale]
    BY FabricAssumption DEF Acquire, TypeOK, Stale
  <2>3. \A q \in Run : phase'[q] = "write" <=> fd'[q] # "none"
    BY <1>1 DEF Acquire, At, Goto, TypeOK
  <2> QED
    BY <1>1, <1>5, <2>1, <2>2, <2>3 DEF TypeOK
<1>7. Mine(mem'[r])
  <2>1. \A n \in Name : mem'[r][n] = IF n = name[r] THEN a ELSE mem[r][n]
    BY <1>3, <1>4 DEF TypeOK, Map
  <2> QED
    BY <1>2, <1>3, <2>1 DEF MapsInv, Mine
<1>8. MapsInv'
  <2>1. \A q \in Run : Mine(mem'[q])
    BY <1>4, <1>7 DEF MapsInv
  <2>2. \A q \in Run : wired'[q] \in Run => wired'[q] = q
    BY <1>2, <1>3 DEF MapsInv, TypeOK
  <2> QED
    BY <1>1, <2>1, <2>2 DEF MapsInv, Mine
<1>9. AgeInv'
  <2>1. off' = [off EXCEPT ![r] = 0] /\ \A n \in Name : age[n] \in Nat
    BY DEF Acquire, TypeOK
  <2> QED
    BY <1>1, <2>1 DEF AgeInv, TypeOK
<1>10. FdInv'
  BY <1>1 DEF FdInv, Acquire, At, Goto, TypeOK
<1> QED
  BY <1>6, <1>8, <1>9, <1>10

LEMMA TeardownKeeps ==
    ASSUME IInv, NEW r \in Run, Teardown(r)
    PROVE  IInv'
<1> USE DEF IInv
<1>1. UNCHANGED <<status, op, fd, file, tmp, off, running, tmap, age, overlapped, owner, cut>>
  BY DEF Teardown, Goto, disk, tier1, past
<1>2. name[r] \in Name /\ NoAddr \in Addr /\ NoAddr \notin Run
  BY FabricAssumption DEF Addr
<1>3. Unwire(r) \in Map /\ Mine(Unwire(r))
  <2>1. mem[r] \in Map /\ Mine(mem[r])
    BY DEF TypeOK, MapsInv
  <2>2. [mem[r] EXCEPT ![name[r]] = NoAddr] \in Map
    BY <2>1, <1>2 DEF Map
  <2>3. Mine([mem[r] EXCEPT ![name[r]] = NoAddr])
    BY <2>1, <1>2 DEF Map, Mine
  <2> QED
    BY <2>1, <2>2, <2>3 DEF Unwire
<1>4. \A q \in Run : mem'[q] = IF q = r THEN Unwire(r) ELSE mem[q]
  BY DEF Teardown, TypeOK
<1>5. emits' \in [Run -> BOOLEAN] /\ AgeInv'
  BY <1>1, PoolsKeep DEF Teardown
<1>6. TypeOK'
  <2>1. phase' \in [Run -> {"none", "acquire", "teardown", "open", "write",
                            "replace", "restart", "verify"}]
    BY DEF Teardown, Goto, TypeOK
  <2>2. mem' \in [Run -> Map]
    BY <1>3 DEF Teardown, TypeOK
  <2>3. wired' \in [Run -> Addr]
    BY <1>2 DEF Teardown, TypeOK
  <2>4. \A q \in Run : phase'[q] = "write" <=> fd'[q] # "none"
    BY <1>1 DEF Teardown, At, Goto, TypeOK
  <2> QED
    BY <1>1, <1>5, <2>1, <2>2, <2>3, <2>4 DEF TypeOK
<1>7. MapsInv'
  <2>1. \A q \in Run : Mine(mem'[q])
    BY <1>3, <1>4 DEF MapsInv
  <2>2. \A q \in Run : wired'[q] \in Run => wired'[q] = q
    BY <1>2 DEF Teardown, MapsInv, TypeOK
  <2> QED
    BY <1>1, <2>1, <2>2 DEF MapsInv, Mine
<1>8. FdInv'
  BY <1>1 DEF FdInv, Teardown, At, Goto, TypeOK
<1> QED
  BY <1>5, <1>6, <1>7, <1>8

\* The steps of apply touch the disk, and no pool.
LEMMA ApplyKeeps ==
    ASSUME IInv, NEW r \in Run, Open(r) \/ Write(r) \/ Replace(r)
    PROVE  IInv'
<1> USE DEF IInv
<1>1. UNCHANGED <<status, wired, op, mem, emits, off, running, tmap, age, overlapped>>
      /\ owner' \in [Name -> Run \cup {NoAddr}] /\ cut' = cut
  BY DEF Open, Write, Replace, Goto, runs, pools, tier1, past, TypeOK
<1>7. \A q \in Run : phase'[q] = "write" <=> fd'[q] # "none"
  BY DEF Open, Write, Replace, At, Goto, TypeOK
<1>8. \A q \in Run : op'[q] = "none" => phase'[q] = "none"
  BY <1>1 DEF Open, Write, Replace, At, Goto, FdInv, TypeOK
<1>2. phase' \in [Run -> {"none", "acquire", "teardown", "open", "write",
                          "replace", "restart", "verify"}]
  BY DEF Open, Write, Replace, Goto, TypeOK
<1>3. fd' \in [Run -> {"none", "tmp", "map", "gone"}]
  BY DEF Open, Write, Replace, TypeOK
<1>4. /\ file' \in Map /\ tmp' \in Map \cup {Absent}
      /\ Mine(file') /\ (tmp' # Absent => Mine(tmp'))
      /\ FdInv'
  <2>0. Absent \notin Map
    BY FabricAssumption DEF Map, Addr
  <2>1. CASE Open(r)
    BY <1>8, <2>0, <2>1, NoMapMine DEF Open, TypeOK, MapsInv, FdInv
  <2>2. CASE Write(r)
    <3>1. mem[r] \in Map /\ Mine(mem[r]) /\ file \in Map /\ Mine(file)
      BY DEF TypeOK, MapsInv
    <3>2. \A q \in Run : fd'[q] = "tmp" => fd[q] = "tmp"
      BY <2>2 DEF Write, TypeOK
    <3>3. CASE fd[r] = "tmp" /\ tmp' \in Overwritten(tmp, mem[r]) /\ UNCHANGED file
      <4>1. tmp \in Map /\ Mine(tmp)
        BY <3>3 DEF FdInv, TypeOK, MapsInv
      <4>2. tmp' \in Map /\ Mine(tmp')
        BY <3>1, <3>3, <4>1, OverwrittenMine
      <4> QED
        BY <1>8, <2>0, <3>1, <3>3, <4>2 DEF FdInv
    <3>4. CASE fd[r] = "map" /\ file' \in Overwritten(file, mem[r]) /\ UNCHANGED tmp
      <4>1. file' \in Map /\ Mine(file')
        BY <3>1, <3>4, OverwrittenMine
      <4> QED
        BY <1>8, <3>2, <3>4, <4>1 DEF FdInv, MapsInv, TypeOK
    <3>5. CASE fd[r] = "gone" /\ UNCHANGED disk
      BY <1>8, <3>1, <3>2, <3>5 DEF disk, FdInv, MapsInv, TypeOK
    <3> QED
      BY <2>2, <3>3, <3>4, <3>5 DEF Write
  <2>3. CASE Replace(r)
    <3>1. \A q \in Run : fd'[q] # "tmp"
      BY <2>3 DEF Replace
    <3> QED
      BY <1>8, <2>3, <3>1 DEF Replace, TypeOK, MapsInv, FdInv
  <2> QED
    BY <2>1, <2>2, <2>3
<1>5. TypeOK'
  BY <1>1, <1>2, <1>3, <1>4, <1>7 DEF TypeOK
<1>6. MapsInv'
  BY <1>1, <1>4 DEF MapsInv, Mine
<1> QED
  BY <1>1, <1>4, <1>5, <1>6 DEF AgeInv

LEMMA RestartKeeps ==
    ASSUME IInv, NEW r \in Run, Restart(r)
    PROVE  IInv'
<1> USE DEF IInv
<1>1. UNCHANGED <<wired, pools, disk, tmap, age, overlapped, owner, cut>> /\ running' \in BOOLEAN
  BY DEF Restart, past
<1>2. CASE Goto(r, "verify") /\ UNCHANGED <<status, mem, fd>>
  <2>1. UNCHANGED <<op, emits, off, file, tmp>> /\ phase' = [phase EXCEPT ![r] = "verify"]
    BY <1>1, <1>2 DEF Goto, pools, disk
  <2>2. phase' \in [Run -> {"none", "acquire", "teardown", "open", "write",
                            "replace", "restart", "verify"}]
    BY <2>1 DEF TypeOK
  <2>3. /\ \A q \in Run : phase'[q] = "write" <=> fd'[q] # "none"
        /\ \A q \in Run : op'[q] = "none" => phase'[q] = "none"
    BY <1>2, <2>1 DEF Restart, At, FdInv, TypeOK
  <2>4. TypeOK'
    BY <1>1, <1>2, <2>1, <2>2, <2>3 DEF TypeOK
  <2> QED
    BY <1>1, <1>2, <2>1, <2>3, <2>4 DEF FdInv, MapsInv, Mine, AgeInv
<1>3. CASE status' = [status EXCEPT ![r] = "down"] /\ Exit(r)
  <2>1. status' \in [Run -> {"none", "initializing", "up", "aborting", "down", "failed"}]
        /\ cut' \subseteq Run
    BY <1>1, <1>3 DEF TypeOK
  <2> QED
    BY <1>1, <1>3, <2>1, ExitsKeep
<1> QED
  BY <1>2, <1>3 DEF Restart

LEMMA VerifyKeeps ==
    ASSUME IInv, NEW r \in Run, Verify(r)
    PROVE  IInv'
<1>1. UNCHANGED disk /\ Quiet
  BY DEF Verify, Quiet, tier1
<1>2. CASE /\ status' = [status EXCEPT ![r] = "up"]
           /\ Exit(r) /\ UNCHANGED <<wired, pools>>
  <2>1. status' \in [Run -> {"none", "initializing", "up", "aborting", "down", "failed"}]
        /\ running' \in BOOLEAN /\ cut' \subseteq Run /\ UNCHANGED <<tmap, age, overlapped, owner>>
    BY <1>1, <1>2 DEF Quiet, past, IInv, TypeOK
  <2> QED
    BY <1>1, <1>2, <2>1, ExitsKeep
<1>3. CASE Abort(r)
  BY <1>1, <1>3, AbortKeeps
<1> QED
  BY <1>2, <1>3 DEF Verify

\* Time, and a Tier-1 that starts.
LEMMA ClockKeeps ==
    ASSUME IInv, Load \/ Tick
    PROVE  IInv'
<1> USE DEF IInv
<1>1. UNCHANGED <<status, wired, op, phase, mem, fd, file, tmp, emits, overlapped, owner, cut>>
  BY DEF Load, Tick, runs, disk, pools, past
<1>2. Stale \in Nat /\ ~(Stale <= Window) /\ \A q \in Run : name[q] \in Name
  BY FabricAssumption DEF Stale
<1>3. CASE Load
  <2>1. UNCHANGED off /\ tmap' = file /\ age' = [n \in Name |-> Stale] /\ running' = TRUE
    BY <1>3 DEF Load, pools
  <2> QED
    BY <1>1, <1>2, <2>1 DEF TypeOK, FdInv, MapsInv, Mine, AgeInv
<1>4. CASE Tick
  <2>1. UNCHANGED <<running, tmap>>
    BY <1>4 DEF Tick
  <2>2. \A a \in 0 .. Stale : Older(a) \in 0 .. Stale
    BY OlderGrows
  <2>3. off' \in [Run -> 0 .. Stale] /\ age' \in [Name -> 0 .. Stale]
    BY <1>2, <1>4, <2>2 DEF Tick, TypeOK
  <2>4. AgeInv'
    <3> SUFFICES ASSUME NEW n \in Name, age'[n] <= Window
                 PROVE  \E r \in Run : name[r] = n /\ off'[r] <= age'[n]
      BY DEF AgeInv
    <3>0. \A r \in Run : off'[r] = IF emits[r] THEN 0 ELSE Older(off[r])
      BY <1>4 DEF Tick
    <3>1. CASE age'[n] = Older(age[n])
      <4>1. age[n] \in 0 .. Stale /\ age[n] <= Window
        BY <3>1, OlderGrows DEF TypeOK
      <4>2. PICK r \in Run : name[r] = n /\ off[r] <= age[n]
        BY <4>1 DEF AgeInv
      <4>3. Older(off[r]) <= Older(age[n]) /\ Older(age[n]) \in Nat
        BY <4>1, <4>2, OlderGrows DEF TypeOK
      <4> QED
        BY <3>0, <3>1, <4>2, <4>3
    <3>2. CASE age'[n] # Older(age[n])
      <4>1. PICK r \in Run : emits[r] /\ name[r] = n
        BY <1>4, <3>2 DEF Tick
      <4>2. age'[n] \in Nat
        BY <2>3
      <4> QED
        BY <3>0, <4>1, <4>2
    <3> QED
      BY <3>1, <3>2
  <2> QED
    BY <1>1, <2>1, <2>3, <2>4 DEF TypeOK, FdInv, MapsInv, Mine
<1> QED
  BY <1>3, <1>4

-----------------------------------------------------------------------------
(* The invariant. *)

LEMMA InitIInv == Init => IInv
<1> SUFFICES ASSUME Init PROVE IInv
  OBVIOUS
<1>1. Stale \in Nat /\ ~(Stale <= Window)
  BY FabricAssumption DEF Stale
<1>2. NoAddr \in Addr /\ NoAddr \notin Run
  BY FabricAssumption DEF Addr
<1>3. TypeOK
  <2>1. Stale \in 0 .. Stale
    BY <1>1
  <2>2. off \in [Run -> 0 .. Stale] /\ age \in [Name -> 0 .. Stale]
    BY <2>1 DEF Init
  <2>3. wired \in [Run -> Addr]
    BY <1>2 DEF Init
  <2>4. mem \in [Run -> Map] /\ file \in Map /\ tmap \in Map
    BY NoMapMine DEF Init
  <2>5. /\ status \in [Run -> {"none", "initializing", "up", "aborting", "down", "failed"}]
        /\ op \in [Run -> {"none", "up", "down"}]
        /\ phase \in [Run -> {"none", "acquire", "teardown", "open", "write",
                              "replace", "restart", "verify"}]
        /\ fd \in [Run -> {"none", "tmp", "map", "gone"}]
        /\ emits \in [Run -> BOOLEAN]
        /\ owner \in [Name -> Run \cup {NoAddr}] /\ cut \subseteq Run
        /\ \A r \in Run : phase[r] = "write" <=> fd[r] # "none"
    BY DEF Init, NoOwner, NoMap
  <2> QED
    BY <2>2, <2>3, <2>4, <2>5 DEF Init, TypeOK
<1>4. FdInv /\ MapsInv
  BY <1>2, NoMapMine DEF Init, FdInv, MapsInv
<1>5. AgeInv
  BY <1>1 DEF Init, AgeInv
<1> QED
  BY <1>3, <1>4, <1>5 DEF IInv

LEMMA NextIInv == IInv /\ [Next]_vars => IInv'
<1> SUFFICES ASSUME IInv, [Next]_vars PROVE IInv'
  OBVIOUS
<1>1. ASSUME NEW r \in Run, Up(r) \/ Down(r) PROVE IInv'
  BY <1>1, StartKeeps
<1>2. ASSUME NEW r \in Run, Step(r) PROVE IInv'
  <2>1. CASE ReplaceFails(r) \/ RestartRaises(r)
    <3>1. Raise(r) /\ UNCHANGED disk /\ Quiet
      BY <2>1 DEF ReplaceFails, RestartRaises, Quiet, tier1
    <3> QED
      BY <3>1, RaiseKeeps
  <2> QED
    BY <1>2, <2>1, AcquireKeeps, TeardownKeeps, ApplyKeeps, RestartKeeps, VerifyKeeps, StopKeeps
       DEF Step
<1>3. ASSUME NEW r \in Run, Kill(r) PROVE IInv'
  BY <1>3, StopKeeps
<1>4. CASE Load \/ Tick
  BY <1>4, ClockKeeps
<1>5. CASE UNCHANGED vars
  BY <1>5 DEF vars, IInv, TypeOK, FdInv, MapsInv, Mine, AgeInv
<1> QED
  BY <1>1, <1>2, <1>3, <1>4, <1>5 DEF Next

LEMMA IInvDark == IInv => DeadIsDark
<1> SUFFICES ASSUME IInv, NEW r \in Run, r \in Answer
             PROVE  \E q \in Run : name[q] = name[r] /\ off[q] <= Window
  BY DEF DeadIsDark
<1>1. r \in Live
  BY FabricAssumption DEF Answer
<1>2. PICK n \in Name : tmap[n] = r /\ age[n] <= Window
  BY <1>1 DEF Live, fresh_backends
<1>3. name[r] = n
  BY <1>2 DEF IInv, MapsInv, Mine
<1>4. PICK q \in Run : name[q] = n /\ off[q] <= age[n]
  BY <1>2 DEF IInv, AgeInv
<1>5. off[q] \in Nat /\ age[n] \in Nat
  BY DEF IInv, TypeOK
<1> QED
  BY <1>2, <1>3, <1>4, <1>5, FabricAssumption

\* Every variable of the fabric stays in its range.
THEOREM TypeCorrect == Spec => []TypeOK
<1>1. IInv => TypeOK
  BY DEF IInv
<1> QED
  BY <1>1, InitIInv, NextIInv, PTL DEF Spec

\* No address is answered unless a pool of its name has emitted within the window:
\* whatever was killed, failed, overlapped or overwritten, and whichever runs share a
\* name (`current_pools`).
THEOREM DeadIsDarkHolds == Spec => []DeadIsDark
BY InitIInv, NextIInv, IInvDark, PTL DEF Spec

-----------------------------------------------------------------------------
(* That a status is honest as long as commands have not overlapped.         *)

\* A command has the disk to itself.  OwnsDisk: its descriptor is on the temporary
\* file, and what it replaces the map by is what it has in memory.
Serial == \A q, r \in Run : op[q] # "none" /\ op[r] # "none" => q = r

OwnsDisk(r) ==
    /\ op[r] = "none" => phase[r] = "none"
    /\ op[r] = "up" => phase[r] \in {"acquire", "open", "write", "replace", "restart", "verify"}
    /\ op[r] = "down" => phase[r] \in {"teardown", "open", "write", "replace", "restart"}
    /\ fd[r] = IF phase[r] = "write" THEN "tmp" ELSE "none"
    /\ phase[r] = "write" => tmp = NoMap
    /\ phase[r] = "replace" => tmp = mem[r]

\* The copy in memory differs from the map at most in the entry of the run, which
\* is the one in the run's file once up has acquired, and no longer the run's once
\* down tore down, unless an earlier down was cut short.
CopyInv(r) ==
    op[r] # "none" =>
      /\ \A n \in Name \ {name[r]} : mem[r][n] = file[n]
      /\ phase[r] \in {"teardown", "restart", "verify"} => mem[r] = file
      /\ op[r] = "up" /\ phase[r] # "acquire" =>
           wired[r] \in {r, Blank} /\ mem[r][name[r]] = wired[r]
      /\ phase[r] = "acquire" => mem[r] = file
      /\ op[r] = "down" /\ phase[r] # "teardown" =>
           /\ mem[r][name[r]] \in {NoAddr, file[name[r]]}
           /\ r \in cut \/ mem[r][name[r]] # r

\* What the map holds of a run, the run's file knows, or a down is about to write,
\* or was when it was killed.
EntryInv(r) ==
    file[name[r]] = r =>
      \/ wired[r] # NoAddr
      \/ op[r] = "down" /\ phase[r] \in {"open", "write", "replace"}
      \/ r \in cut

StatusInv(r) ==
    /\ status[r] \in {"up", "down"} => op[r] = "none"
    /\ status[r] = "up" /\ owner[name[r]] = r => file[name[r]] = r
    /\ status[r] = "down" /\ r \notin cut =>
         file[name[r]] # r /\ (running => tmap[name[r]] # r)

Orderly(r) == OwnsDisk(r) /\ CopyInv(r) /\ EntryInv(r) /\ StatusInv(r)

HonestInv == ~overlapped => Serial /\ \A r \in Run : Orderly(r)

\* What a command of r does leaves the others as they were, but that it may take
\* the place in the map of a run of its own name.
Apart(r) ==
    /\ \A q \in Run \ {r} : /\ op[q] = "none" /\ op'[q] = op[q] /\ phase'[q] = phase[q]
                            /\ mem'[q] = mem[q] /\ fd'[q] = fd[q]
                            /\ wired'[q] = wired[q] /\ status'[q] = status[q]
    /\ \A q \in Run \ {r} : /\ file'[name[q]] = q => file[name[q]] = q
                            /\ owner'[name[q]] = q =>
                                 owner[name[q]] = q /\ file'[name[q]] = file[name[q]]
                            /\ q \in cut => q \in cut'
    /\ tmap' = tmap /\ (running' => running)

LEMMA ApartKeeps ==
    ASSUME Serial, \A q \in Run : Orderly(q), NEW r \in Run, Apart(r), Orderly(r)'
    PROVE  Serial' /\ \A q \in Run : Orderly(q)'
<1>1. Serial'
  BY DEF Serial, Apart
<1>2. ASSUME NEW q \in Run \ {r} PROVE Orderly(q)'
  <2>1. /\ op[q] = "none" /\ op'[q] = op[q] /\ phase'[q] = phase[q]
        /\ mem'[q] = mem[q] /\ fd'[q] = fd[q]
        /\ wired'[q] = wired[q] /\ status'[q] = status[q]
    BY DEF Apart
  <2>2. /\ file'[name[q]] = q => file[name[q]] = q
        /\ owner'[name[q]] = q => owner[name[q]] = q /\ file'[name[q]] = file[name[q]]
        /\ q \in cut => q \in cut'
        /\ tmap' = tmap /\ (running' => running)
    BY DEF Apart
  <2>3. OwnsDisk(q) /\ EntryInv(q) /\ StatusInv(q)
    BY DEF Orderly
  <2>4. OwnsDisk(q)'
    BY <2>1, <2>3 DEF OwnsDisk
  <2>5. CopyInv(q)'
    BY <2>1 DEF CopyInv
  <2>6. EntryInv(q)'
    BY <2>1, <2>2, <2>3 DEF EntryInv
  <2>7. StatusInv(q)'
    BY <2>1, <2>2, <2>3 DEF StatusInv
  <2> QED
    BY <2>4, <2>5, <2>6, <2>7 DEF Orderly
<1> QED
  BY <1>1, <1>2

\* An empty address is none of the others.
LEMMA BlankIsOther == Blank # NoAddr /\ Blank # Whale
<1>1. \A x, y : Cardinality({x, y}) \in {1, 2}
  <2> SUFFICES ASSUME NEW x, NEW y PROVE Cardinality({x, y}) \in {1, 2}
    OBVIOUS
  <2>1. IsFiniteSet({x}) /\ Cardinality({x}) = 1
    BY FS_Singleton
  <2>2. Cardinality({x} \cup {y}) = IF y \in {x} THEN Cardinality({x}) ELSE Cardinality({x}) + 1
    BY <2>1, FS_AddElement, Zenon
  <2>3. {x} \cup {y} = {x, y}
    OBVIOUS
  <2> QED
    BY <2>1, <2>2, <2>3
<1>2. ASSUME Blank = NoAddr \/ Blank = Whale PROVE FALSE
  <2>1. {NoAddr, Blank, Whale} = {NoAddr, Whale}
    BY <1>2
  <2>2. Cardinality({NoAddr, Whale}) = 3
    BY <2>1, FabricAssumption
  <2>3. Cardinality({NoAddr, Whale}) \in {1, 2}
    BY <1>1, Zenon
  <2> QED
    BY <2>2, <2>3
<1> QED
  BY <1>2

\* A command that ends leaves nothing of its own open.
LEMMA ExitOrderly ==
    ASSUME TypeOK, NEW r \in Run, Exit(r), EntryInv(r)', StatusInv(r)'
    PROVE  Orderly(r)'
<1>1. op'[r] = "none" /\ phase'[r] = "none" /\ fd'[r] = "none"
  BY DEF Exit, TypeOK
<1>2. OwnsDisk(r)' /\ CopyInv(r)'
  BY <1>1 DEF OwnsDisk, CopyInv
<1> QED
  BY <1>2 DEF Orderly

LEMMA ExitApart ==
    ASSUME TypeOK, Serial, NEW r \in Run, op[r] # "none", Exit(r),
           \A q \in Run \ {r} : wired'[q] = wired[q] /\ status'[q] = status[q],
           file' = file, tmap' = tmap, owner' = owner, cut \subseteq cut', running' => running
    PROVE  Apart(r)
BY DEF Apart, Serial, Exit, TypeOK

\* The up that raises: what it had published is in its file.
LEMMA AbortOrderly ==
    ASSUME TypeOK, Serial, NEW r \in Run, Orderly(r), op[r] = "up",
           Abort(r), UNCHANGED <<disk, tmap, past>>, running' => running
    PROVE  Apart(r) /\ Orderly(r)'
<1>1. UNCHANGED <<wired, file, tmap, owner, cut>> /\ Exit(r)
  BY DEF Abort, disk, past
<1>2. status' = [status EXCEPT ![r] = "failed"]
  BY DEF Abort
<1>3. EntryInv(r)'
  BY <1>1 DEF Orderly, EntryInv
<1>4. StatusInv(r)'
  BY <1>2 DEF StatusInv, TypeOK
<1>5. Apart(r)
  BY <1>1, <1>2, ExitApart DEF TypeOK
<1> QED
  BY <1>1, <1>3, <1>4, <1>5, ExitOrderly

\* The down that raises at the restart: the map it wrote no longer has the run.
LEMMA RaiseOrderly ==
    ASSUME TypeOK, Serial, NEW r \in Run, Orderly(r), op[r] # "none", phase[r] = "restart",
           Raise(r), UNCHANGED <<disk, tmap, past>>, running' => running
    PROVE  Apart(r) /\ Orderly(r)'
<1>1. CASE op[r] = "up" /\ Abort(r)
  BY <1>1, AbortOrderly
<1>2. CASE op[r] = "down" /\ Exit(r) /\ UNCHANGED <<runs, pools>>
  <2>1. UNCHANGED <<status, wired, file, tmap, owner, cut>> /\ Exit(r)
    BY <1>2 DEF runs, disk, past
  <2>2. r \in cut \/ file[name[r]] # r
    BY <1>2 DEF Orderly, CopyInv
  <2>3. EntryInv(r)'
    BY <2>1, <2>2 DEF EntryInv
  <2>4. StatusInv(r)'
    BY <1>2, <2>1 DEF Orderly, StatusInv
  <2>5. Apart(r)
    BY <2>1, ExitApart
  <2> QED
    BY <2>1, <2>3, <2>4, <2>5, ExitOrderly
<1> QED
  BY <1>1, <1>2 DEF Raise

LEMMA StartOrderly ==
    ASSUME TypeOK, NEW r \in Run, Orderly(r), Up(r) \/ Down(r), ~overlapped'
    PROVE  Apart(r) /\ Orderly(r)'
<1>1. PICK what, first : /\ Start(r, what, first)
                         /\ <<what, first>> \in {<<"up", "acquire">>, <<"down", "teardown">>}
  BY DEF Up, Down
<1>2. /\ UNCHANGED <<wired, fd, file, running, tmap>>
      /\ op' = [op EXCEPT ![r] = what] /\ phase' = [phase EXCEPT ![r] = first]
      /\ mem' = [mem EXCEPT ![r] = file]
      /\ op[r] = "none" /\ \A q \in Run : op[q] = "none"
      /\ UNCHANGED <<owner, cut>>
  BY <1>1 DEF Start, disk, tier1, Read
<1>3. PICK s \in {"initializing", "aborting"} : status' = [status EXCEPT ![r] = s]
  BY DEF Up, Down
<1>4. Apart(r)
  BY <1>2, <1>3 DEF Apart, TypeOK
<1>5. op'[r] = what /\ phase'[r] = first /\ mem'[r] = file /\ status'[r] = s
  BY <1>2, <1>3 DEF TypeOK
<1>6. OwnsDisk(r)'
  BY <1>1, <1>2, <1>5 DEF Orderly, OwnsDisk
<1>7. CopyInv(r)'
  BY <1>1, <1>2, <1>5 DEF CopyInv
<1>8. EntryInv(r)'
  BY <1>2 DEF Orderly, EntryInv
<1>9. StatusInv(r)'
  BY <1>5 DEF StatusInv
<1> QED
  BY <1>4, <1>6, <1>7, <1>8, <1>9 DEF Orderly

LEMMA AcquireOrderly ==
    ASSUME TypeOK, Serial, NEW r \in Run, Orderly(r), op[r] # "none", Acquire(r)
    PROVE  Apart(r) /\ Orderly(r)'
<1>1. UNCHANGED <<status, op, fd, file, tmp, running, tmap, owner, cut>> /\ phase[r] = "acquire"
  BY DEF Acquire, Goto, disk, tier1, At, past
<1>2. PICK a \in {r, Blank} : /\ wired' = [wired EXCEPT ![r] = a]
                              /\ mem' = [mem EXCEPT ![r][name[r]] = a]
  BY DEF Acquire
<1>3. phase' = [phase EXCEPT ![r] = "open"]
  BY DEF Acquire, Goto
<1>4. name[r] \in Name /\ a # NoAddr
  BY FabricAssumption, BlankIsOther
<1>5. \A q \in Run : mem'[q] = IF q = r THEN [mem[r] EXCEPT ![name[r]] = a] ELSE mem[q]
  BY <1>2 DEF TypeOK
<1>6. \A n \in Name : mem'[r][n] = IF n = name[r] THEN a ELSE mem[r][n]
  BY <1>4, <1>5 DEF TypeOK, Map
<1>7. op[r] = "up"
  BY <1>1 DEF Orderly, OwnsDisk, TypeOK
<1>8. wired'[r] = a /\ phase'[r] = "open"
  BY <1>2, <1>3 DEF TypeOK
<1>9. Apart(r)
  BY <1>1, <1>2, <1>3, <1>5 DEF Apart, Serial, TypeOK
<1>10. OwnsDisk(r)'
  BY <1>1, <1>7, <1>8 DEF Orderly, OwnsDisk
<1>11. CopyInv(r)'
  BY <1>1, <1>4, <1>6, <1>7, <1>8 DEF Orderly, CopyInv
<1>12. EntryInv(r)'
  BY <1>4, <1>8 DEF EntryInv
<1>13. StatusInv(r)'
  BY <1>1 DEF Orderly, StatusInv
<1> QED
  BY <1>9, <1>10, <1>11, <1>12, <1>13 DEF Orderly

LEMMA TeardownOrderly ==
    ASSUME TypeOK, Serial, NEW r \in Run, Orderly(r), op[r] # "none", Teardown(r)
    PROVE  Apart(r) /\ Orderly(r)'
<1>1. UNCHANGED <<status, op, fd, file, tmp, running, tmap, owner, cut>> /\ phase[r] = "teardown"
  BY DEF Teardown, Goto, disk, tier1, At, past
<1>2. wired' = [wired EXCEPT ![r] = NoAddr] /\ mem' = [mem EXCEPT ![r] = Unwire(r)]
  BY DEF Teardown
<1>3. phase' = [phase EXCEPT ![r] = "open"]
  BY DEF Teardown, Goto
<1>4. name[r] \in Name /\ NoAddr # r /\ mem[r] \in Map
  BY FabricAssumption DEF TypeOK
<1>5. op[r] = "down" /\ mem[r] = file
  BY <1>1 DEF Orderly, OwnsDisk, CopyInv, TypeOK
<1>6. mem'[r] = Unwire(r) /\ phase'[r] = "open"
  BY <1>2, <1>3 DEF TypeOK
<1>7. /\ r \in cut \/ Unwire(r)[name[r]] # r
      /\ Unwire(r)[name[r]] \in {NoAddr, file[name[r]]}
      /\ \A n \in Name \ {name[r]} : Unwire(r)[n] = file[n]
  <2>1. CASE wired[r] = NoAddr
    BY <1>1, <1>5, <2>1 DEF Unwire, Orderly, EntryInv
  <2>2. CASE wired[r] # NoAddr
    BY <1>4, <1>5, <2>2 DEF Unwire, Map
  <2> QED
    BY <2>1, <2>2
<1>8. Apart(r)
  BY <1>1, <1>2, <1>3 DEF Apart, Serial, TypeOK
<1>9. OwnsDisk(r)'
  BY <1>1, <1>5, <1>6 DEF Orderly, OwnsDisk
<1>10. CopyInv(r)'
  BY <1>1, <1>5, <1>6, <1>7 DEF CopyInv
<1>11. EntryInv(r)'
  BY <1>1, <1>5, <1>6 DEF EntryInv
<1>12. StatusInv(r)'
  BY <1>1 DEF Orderly, StatusInv
<1> QED
  BY <1>8, <1>9, <1>10, <1>11, <1>12 DEF Orderly

\* A map written into an empty file is that map.
LEMMA OverwrittenEmpty ==
    ASSUME NEW m \in Map, NEW new \in Overwritten(NoMap, m)
    PROVE  new = m
<1>1. Mapped(NoMap) = {}
  BY DEF Mapped, NoMap
<1>2. new \in {[n \in Name |-> IF n \in tail THEN NoMap[n] ELSE m[n]] : tail \in {{}}}
  BY <1>1 DEF Overwritten
<1> QED
  BY <1>2 DEF Map

\* In a serial history apply publishes what it has in memory.
LEMMA ApplyOrderly ==
    ASSUME TypeOK, Serial, \A q \in Run : Orderly(q), NEW r \in Run, op[r] # "none",
           ~overlapped, Open(r) \/ Write(r) \/ Replace(r)
    PROVE  Apart(r) /\ Orderly(r)'
<1> DEFINE Same == UNCHANGED <<status, wired, op, mem, running, tmap, cut>>
<1>1. Same /\ op[r] \in {"up", "down"} /\ Orderly(r)
  BY DEF Open, Write, Replace, Goto, runs, tier1, past, TypeOK
<1>2. \A q \in Run \ {r} : op[q] = "none" /\ fd[q] = "none"
  BY DEF Serial, Orderly, OwnsDisk
<1>3. CASE Open(r)
  <2>1. /\ phase[r] = "open" /\ tmp' = NoMap /\ file' = file
        /\ fd' = [fd EXCEPT ![r] = "tmp"] /\ phase' = [phase EXCEPT ![r] = "write"]
        /\ owner' = owner
    BY <1>3 DEF Open, Goto, At, past
  <2>2. fd'[r] = "tmp" /\ phase'[r] = "write"
    BY <2>1 DEF TypeOK
  <2>3. Apart(r)
    BY <1>1, <1>2, <2>1 DEF Apart, TypeOK
  <2>4. OwnsDisk(r)'
    BY <1>1, <2>1, <2>2 DEF Orderly, OwnsDisk
  <2>5. CopyInv(r)' /\ EntryInv(r)' /\ StatusInv(r)'
    BY <1>1, <2>1, <2>2 DEF Orderly, CopyInv, EntryInv, StatusInv
  <2> QED
    BY <2>3, <2>4, <2>5 DEF Orderly
<1>4. CASE Write(r)
  <2>1. /\ phase[r] = "write" /\ fd[r] = "tmp" /\ tmp = NoMap
        /\ tmp' \in Overwritten(NoMap, mem[r]) /\ file' = file
        /\ fd' = [fd EXCEPT ![r] = "none"] /\ phase' = [phase EXCEPT ![r] = "replace"]
        /\ owner' = owner
    BY <1>1, <1>4 DEF Write, Goto, At, Orderly, OwnsDisk, past
  <2>2. tmp' = mem[r]
    BY <2>1, OverwrittenEmpty DEF TypeOK
  <2>3. fd'[r] = "none" /\ phase'[r] = "replace"
    BY <2>1 DEF TypeOK
  <2>4. Apart(r)
    BY <1>1, <1>2, <2>1 DEF Apart, TypeOK
  <2>5. OwnsDisk(r)'
    BY <1>1, <2>2, <2>3 DEF OwnsDisk
  <2>6. CopyInv(r)' /\ EntryInv(r)' /\ StatusInv(r)'
    BY <1>1, <2>1, <2>3 DEF Orderly, CopyInv, EntryInv, StatusInv
  <2> QED
    BY <2>4, <2>5, <2>6 DEF Orderly
<1>5. CASE Replace(r)
  <2>1. phase[r] = "replace" /\ file' = mem[r] /\ phase' = [phase EXCEPT ![r] = "restart"]
    BY <1>1, <1>5 DEF Replace, Goto, At, Orderly, OwnsDisk
  <2>2. fd[r] = "none"
    BY <1>1, <2>1 DEF Orderly, OwnsDisk
  <2>3. fd' = fd
    BY <1>2, <1>5, <2>2 DEF Replace, TypeOK
  <2>4. phase'[r] = "restart"
    BY <2>1 DEF TypeOK
  <2>5. /\ \A n \in Name \ {name[r]} : mem[r][n] = file[n]
        /\ mem[r][name[r]] \in {r, NoAddr, Blank, file[name[r]]}
    BY <1>1, <2>1 DEF Orderly, CopyInv
  <2>11. owner' = [owner EXCEPT ![name[r]] = r]
    BY <1>5 DEF Replace
  <2>12. \A q \in Run \ {r} :
           /\ file'[name[q]] = q => file[name[q]] = q
           /\ owner'[name[q]] = q => owner[name[q]] = q /\ file'[name[q]] = file[name[q]]
    <3> SUFFICES ASSUME NEW q \in Run \ {r}
                 PROVE  /\ file'[name[q]] = q => file[name[q]] = q
                        /\ owner'[name[q]] = q =>
                             owner[name[q]] = q /\ file'[name[q]] = file[name[q]]
      OBVIOUS
    <3>1. q # NoAddr /\ q # Blank /\ name[q] \in Name
      BY FabricAssumption
    <3>2. CASE name[q] = name[r]
      BY <2>1, <2>5, <2>11, <3>1, <3>2 DEF TypeOK
    <3>3. CASE name[q] # name[r]
      BY <2>1, <2>5, <2>11, <3>1, <3>3 DEF TypeOK
    <3> QED
      BY <3>2, <3>3
  <2>6. Apart(r)
    BY <1>1, <1>2, <2>1, <2>3, <2>12 DEF Apart, TypeOK
  <2>7. OwnsDisk(r)'
    BY <1>1, <2>2, <2>3, <2>4 DEF OwnsDisk
  <2>8. CopyInv(r)'
    BY <1>1, <2>1, <2>4 DEF Orderly, CopyInv
  <2>9. EntryInv(r)'
    BY <1>1, <2>1, FabricAssumption DEF Orderly, CopyInv, EntryInv
  <2>10. StatusInv(r)'
    BY <1>1 DEF Orderly, StatusInv
  <2> QED
    BY <2>6, <2>7, <2>8, <2>9, <2>10 DEF Orderly
<1> QED
  BY <1>3, <1>4, <1>5

LEMMA RestartOrderly ==
    ASSUME TypeOK, Serial, NEW r \in Run, Orderly(r), op[r] # "none", Restart(r)
    PROVE  Apart(r) /\ Orderly(r)'
<1>1. UNCHANGED <<wired, file, tmp, tmap, owner, cut>> /\ running' = FALSE /\ phase[r] = "restart"
  BY DEF Restart, disk, At, past
<1>2. mem[r] = file
  BY <1>1 DEF Orderly, CopyInv
<1>3. CASE op[r] = "up" /\ Goto(r, "verify") /\ UNCHANGED <<status, mem, fd>>
  <2>1. UNCHANGED <<status, mem, fd, op>> /\ phase' = [phase EXCEPT ![r] = "verify"]
    BY <1>3 DEF Goto
  <2>2. phase'[r] = "verify"
    BY <2>1 DEF TypeOK
  <2>3. Apart(r)
    BY <1>1, <1>3, <2>1 DEF Apart, Serial, TypeOK
  <2>4. OwnsDisk(r)'
    BY <1>1, <1>3, <2>1, <2>2 DEF Orderly, OwnsDisk
  <2>5. CopyInv(r)' /\ EntryInv(r)' /\ StatusInv(r)'
    BY <1>1, <1>2, <1>3, <2>1, <2>2 DEF Orderly, CopyInv, EntryInv, StatusInv
  <2> QED
    BY <2>3, <2>4, <2>5 DEF Orderly
<1>4. CASE op[r] = "down" /\ status' = [status EXCEPT ![r] = "down"] /\ Exit(r)
  <2>1. r \in cut \/ file[name[r]] # r
    BY <1>1, <1>2, <1>4 DEF Orderly, CopyInv
  <2>2. EntryInv(r)'
    BY <1>1, <2>1 DEF EntryInv
  <2>3. StatusInv(r)'
    BY <1>1, <1>4, <2>1 DEF StatusInv, Exit, TypeOK
  <2>4. Apart(r)
    BY <1>1, <1>4, ExitApart DEF TypeOK
  <2> QED
    BY <1>4, <2>2, <2>3, <2>4, ExitOrderly
<1> QED
  BY <1>3, <1>4 DEF Restart

\* The run is up because its own address, not a blank, is in the answer.
LEMMA VerifyOrderly ==
    ASSUME TypeOK, Serial, NEW r \in Run, Orderly(r), op[r] # "none", Verify(r)
    PROVE  Apart(r) /\ Orderly(r)'
<1>1. UNCHANGED <<disk, tmap, running, past>> /\ phase[r] = "verify"
  BY DEF Verify, At, tier1
<1>2. op[r] = "up"
  BY <1>1 DEF Orderly, OwnsDisk, TypeOK
<1>3. CASE /\ wired[r] \in Answer /\ status' = [status EXCEPT ![r] = "up"]
           /\ Exit(r) /\ UNCHANGED <<wired, pools>>
  <2>1. UNCHANGED <<file, tmap, running, wired, owner, cut>>
    BY <1>1, <1>3 DEF disk, past
  <2>2. wired[r] \in {r, Blank} /\ file[name[r]] = wired[r]
    BY <1>1, <1>2 DEF Orderly, CopyInv
  <2>3. Blank \notin Answer
    BY BlankIsOther DEF Answer
  <2>4. wired[r] = r
    BY <1>3, <2>2, <2>3
  <2>5. EntryInv(r)'
    BY <2>1, <2>4, FabricAssumption DEF EntryInv
  <2>6. StatusInv(r)'
    BY <1>3, <2>1, <2>2, <2>4 DEF StatusInv, Exit, TypeOK
  <2>7. Apart(r)
    BY <1>2, <1>3, <2>1, ExitApart DEF TypeOK
  <2> QED
    BY <1>3, <2>5, <2>6, <2>7, ExitOrderly
<1>4. CASE Abort(r)
  BY <1>1, <1>2, <1>4, AbortOrderly
<1> QED
  BY <1>3, <1>4 DEF Verify

\* A run whose down is killed before the map is written has been cut short, any
\* other command has its entry in the run's file or out of the map.
LEMMA StopOrderly ==
    ASSUME TypeOK, Serial, NEW r \in Run, Orderly(r), op[r] # "none", ~overlapped,
           AcquireFails(r) \/ AdapterFails(r) \/ Kill(r)
    PROVE  Apart(r) /\ Orderly(r)'
<1>1. Exit(r) /\ UNCHANGED <<wired, file, tmap, running, owner>> /\ cut \subseteq cut'
  BY DEF AcquireFails, AdapterFails, Kill, runs, disk, tier1, past
<1>2. status' = status \/ status' = [status EXCEPT ![r] = "failed"]
  BY DEF AcquireFails, AdapterFails, Kill, runs
<1>3. StatusInv(r)'
  BY <1>1, <1>2 DEF Orderly, StatusInv, TypeOK
<1>4. EntryInv(r)'
  <2>1. CASE Kill(r)
    BY <1>1, <2>1 DEF Kill, Orderly, EntryInv
  <2>2. CASE phase[r] \in {"acquire", "teardown"}
    BY <1>1, <2>2 DEF Orderly, EntryInv
  <2> QED
    BY <2>1, <2>2 DEF AcquireFails, AdapterFails, At
<1>5. Apart(r)
  BY <1>1, <1>2, ExitApart DEF TypeOK
<1> QED
  BY <1>1, <1>3, <1>4, <1>5, ExitOrderly

\* Tier-1 and the pools: a new Tier-1 has the map on disk.
LEMMA ClockOrderly ==
    ASSUME NEW r \in Run, Orderly(r), Load \/ Tick
    PROVE  Orderly(r)' /\ (Serial => Serial')
<1>1. UNCHANGED <<status, wired, op, phase, mem, fd, file, tmp, owner, cut>>
  BY DEF Load, Tick, runs, disk, past
<1>2. (tmap' = tmap /\ running' = running) \/ tmap' = file
  BY DEF Load, Tick
<1>3. OwnsDisk(r)' /\ CopyInv(r)' /\ EntryInv(r)'
  BY <1>1 DEF Orderly, OwnsDisk, CopyInv, EntryInv
<1>4. StatusInv(r)'
  BY <1>1, <1>2 DEF Orderly, StatusInv
<1> QED
  BY <1>1, <1>3, <1>4 DEF Orderly, Serial

LEMMA NextHonest == IInv /\ HonestInv /\ [Next]_vars => HonestInv'
<1> SUFFICES ASSUME IInv, HonestInv, [Next]_vars, ~overlapped'
             PROVE  Serial' /\ \A q \in Run : Orderly(q)'
  BY DEF HonestInv
<1>1. TypeOK
  BY DEF IInv
<1>2. ~overlapped
  <2>1. ASSUME NEW r \in Run, Up(r) \/ Down(r) PROVE overlapped => overlapped'
    BY <2>1 DEF Up, Down, Start
  <2>2. ASSUME NEW r \in Run, Step(r) \/ Kill(r) PROVE overlapped' = overlapped
    BY <2>2 DEF Step, Kill, Acquire, AcquireFails, Teardown, AdapterFails, Open, Write, Replace,
                ReplaceFails, Restart, RestartRaises, Verify, past
  <2>3. CASE Load \/ Tick \/ UNCHANGED vars
    BY <2>3 DEF Load, Tick, vars, past
  <2> QED
    BY <2>1, <2>2, <2>3 DEF Next
<1>3. Serial /\ \A q \in Run : Orderly(q)
  BY <1>2 DEF HonestInv
<1>4. ASSUME NEW r \in Run, Apart(r) /\ Orderly(r)' PROVE Serial' /\ \A q \in Run : Orderly(q)'
  BY <1>3, <1>4, ApartKeeps
<1>5. ASSUME NEW r \in Run, Up(r) \/ Down(r) PROVE Serial' /\ \A q \in Run : Orderly(q)'
  BY <1>1, <1>3, <1>4, <1>5, StartOrderly
<1>6. ASSUME NEW r \in Run, Step(r) PROVE Serial' /\ \A q \in Run : Orderly(q)'
  <2>1. phase[r] # "none"
    BY <1>6 DEF Step, Acquire, AcquireFails, Teardown, AdapterFails, Open, Write, Replace,
                ReplaceFails, Restart, RestartRaises, Verify, At
  <2>2. op[r] # "none" /\ Orderly(r)
    BY <1>3, <2>1 DEF Orderly, OwnsDisk
  <2>3. CASE AcquireFails(r) \/ AdapterFails(r)
    BY <1>1, <1>2, <1>3, <1>4, <2>2, <2>3, StopOrderly
  <2>4. CASE ReplaceFails(r)
    <3>1. phase[r] = "replace" /\ tmp = mem[r] /\ tmp = Absent
      BY <2>2, <2>4 DEF ReplaceFails, At, Orderly, OwnsDisk
    <3>2. mem[r] \in Map /\ Absent \notin Map
      BY <1>1, FabricAssumption DEF TypeOK, Map, Addr
    <3> QED
      BY <3>1, <3>2
  <2>5. CASE RestartRaises(r)
    <3>1. phase[r] = "restart" /\ Raise(r) /\ UNCHANGED <<disk, tmap, past>>
      BY <2>5 DEF RestartRaises, At
    <3>2. running' => running
      BY <2>5 DEF RestartRaises
    <3> QED
      BY <1>1, <1>3, <1>4, <2>2, <3>1, <3>2, RaiseOrderly
  <2>6. CASE Acquire(r) \/ Teardown(r)
    BY <1>1, <1>3, <1>4, <2>2, <2>6, AcquireOrderly, TeardownOrderly
  <2>7. CASE Open(r) \/ Write(r) \/ Replace(r)
    BY <1>1, <1>2, <1>3, <1>4, <2>2, <2>7, ApplyOrderly
  <2>8. CASE Restart(r) \/ Verify(r)
    BY <1>1, <1>3, <1>4, <2>2, <2>8, RestartOrderly, VerifyOrderly
  <2> QED
    BY <1>6, <2>3, <2>4, <2>5, <2>6, <2>7, <2>8 DEF Step
<1>7. ASSUME NEW r \in Run, Kill(r) PROVE Serial' /\ \A q \in Run : Orderly(q)'
  <2>1. op[r] # "none"
    BY <1>7, FabricAssumption DEF Kill
  <2> QED
    BY <1>1, <1>2, <1>3, <1>4, <1>7, <2>1, StopOrderly
<1>8. CASE Load \/ Tick
  <2>1. Serial'
    BY <1>3, <1>8 DEF Load, Tick, Serial
  <2> QED
    BY <1>3, <1>8, <2>1, ClockOrderly
<1>9. CASE UNCHANGED vars
  BY <1>3, <1>9 DEF vars, Serial, Orderly, OwnsDisk, CopyInv, EntryInv, StatusInv
<1> QED
  BY <1>5, <1>6, <1>7, <1>8, <1>9 DEF Next

LEMMA InitHonest == Init => HonestInv
<1>1. Init => Serial
  BY DEF Init, Serial
<1> SUFFICES ASSUME Init, NEW r \in Run PROVE Orderly(r)
  BY <1>1 DEF HonestInv
<1>2. name[r] \in Name /\ NoAddr # r
  BY FabricAssumption
<1>3. OwnsDisk(r) /\ CopyInv(r)
  BY DEF Init, OwnsDisk, CopyInv
<1>4. EntryInv(r) /\ StatusInv(r)
  BY <1>2 DEF Init, EntryInv, StatusInv, NoMap, NoOwner
<1> QED
  BY <1>3, <1>4 DEF Orderly

LEMMA HonestImplies == IInv /\ HonestInv => StatusIsHonest
<1> SUFFICES ASSUME IInv, HonestInv, ~overlapped PROVE UpIsWired /\ DownIsDark
  BY DEF StatusIsHonest
<1>1. \A r \in Run : StatusInv(r)
  BY DEF HonestInv, Orderly
<1>2. UpIsWired
  BY <1>1 DEF UpIsWired, StatusInv
<1>3. ASSUME NEW r \in Run, status[r] = "down", r \notin cut, r \in Answer PROVE FALSE
  <2>1. r \in Live /\ running
    BY <1>3, FabricAssumption DEF Answer
  <2>2. PICK n \in Name : tmap[n] = r
    BY <2>1 DEF Live, fresh_backends
  <2>3. name[r] = n
    BY <2>2 DEF IInv, MapsInv, Mine
  <2> QED
    BY <1>1, <1>3, <2>1, <2>2, <2>3 DEF StatusInv
<1> QED
  BY <1>2, <1>3 DEF DownIsDark

\* Until two commands have overlapped, a run that is up is in the map on disk as long
\* as no other run of its name has published, and a run that is down is not answered
\* unless a down of it was killed between the run's file and the map: whatever else
\* is killed, and whatever deletes and restarts fail (`Orchestrator.up`, `.down`).
THEOREM StatusIsHonestHolds == Spec => []StatusIsHonest
<1>1. Init => IInv /\ HonestInv
  BY InitIInv, InitHonest
<1>2. IInv /\ HonestInv /\ [Next]_vars => (IInv /\ HonestInv)'
  BY NextIInv, NextHonest
<1> QED
  BY <1>1, <1>2, HonestImplies, PTL DEF Spec

-----------------------------------------------------------------------------
(* What the documentation says, and when it is true.  A Tier-1 that runs    *)
(* fails open, and keeps what it has heard, as long as no provider returns  *)
(* an empty address: no map holds one then, whoever writes over whom.       *)

NoBlank(m) == \A n \in Name : m[n] # Blank

AddressInv ==
    /\ \A r \in Run : NoBlank(mem[r])
    /\ NoBlank(file) /\ NoBlank(tmap)
    /\ tmp # Absent => NoBlank(tmp)

LEMMA NoMapNoBlank == NoBlank(NoMap)
BY FabricAssumption, BlankIsOther DEF NoMap, NoBlank

LEMMA OverwrittenNoBlank ==
    ASSUME NEW old, NEW m, NoBlank(old), NoBlank(m), NEW new \in Overwritten(old, m)
    PROVE  NoBlank(new)
<1>1. PICK tail : new = [n \in Name |-> IF n \in tail THEN old[n] ELSE m[n]]
  BY DEF Overwritten
<1> QED
  BY <1>1 DEF NoBlank

\* A process that exits, and every step but those that write.
LEMMA ExitNoBlank ==
    ASSUME TypeOK, AddressInv, NEW r \in Run, Exit(r), UNCHANGED <<file, tmp, tmap>>
    PROVE  AddressInv'
<1>1. \A q \in Run : mem'[q] = IF q = r THEN NoMap ELSE mem[q]
  BY DEF Exit, TypeOK
<1>2. \A q \in Run : NoBlank(mem'[q])
  BY <1>1, NoMapNoBlank DEF AddressInv
<1> QED
  BY <1>2 DEF AddressInv, NoBlank

LEMMA StepNoBlank ==
    ASSUME ~MayBeBlank, TypeOK, FdInv, AddressInv, NEW r \in Run, Step(r)
    PROVE  AddressInv'
<1>1. CASE AcquireFails(r) \/ AdapterFails(r) \/ ReplaceFails(r) \/ RestartRaises(r) \/ Verify(r)
  <2>1. Exit(r) /\ UNCHANGED <<file, tmp, tmap>>
    BY <1>1 DEF AcquireFails, AdapterFails, ReplaceFails, RestartRaises, Verify, Raise, Abort,
                disk, tier1
  <2> QED
    BY <2>1, ExitNoBlank
<1>2. CASE Acquire(r)
  <2>1. mem' = [mem EXCEPT ![r][name[r]] = r] /\ UNCHANGED <<file, tmp, tmap>>
    BY <1>2 DEF Acquire, disk, tier1
  <2>2. name[r] \in Name /\ Blank \notin Run
    BY FabricAssumption
  <2>3. \A q \in Run : mem'[q] = IF q = r THEN [mem[r] EXCEPT ![name[r]] = r] ELSE mem[q]
    BY <2>1 DEF TypeOK
  <2>4. NoBlank([mem[r] EXCEPT ![name[r]] = r])
    BY <2>2 DEF AddressInv, NoBlank, TypeOK, Map
  <2>5. \A q \in Run : NoBlank(mem'[q])
    BY <2>3, <2>4 DEF AddressInv
  <2> QED
    BY <2>1, <2>5 DEF AddressInv, NoBlank
<1>3. CASE Teardown(r)
  <2>1. mem' = [mem EXCEPT ![r] = Unwire(r)] /\ UNCHANGED <<file, tmp, tmap>>
    BY <1>3 DEF Teardown, disk, tier1
  <2>2. NoBlank(Unwire(r))
    <3>1. NoBlank(mem[r])
      BY DEF AddressInv
    <3>2. NoBlank([mem[r] EXCEPT ![name[r]] = NoAddr])
      BY <3>1, BlankIsOther, FabricAssumption DEF NoBlank, TypeOK, Map
    <3> QED
      BY <3>1, <3>2 DEF Unwire
  <2>3. \A q \in Run : mem'[q] = IF q = r THEN Unwire(r) ELSE mem[q]
    BY <2>1 DEF TypeOK
  <2>4. \A q \in Run : NoBlank(mem'[q])
    BY <2>2, <2>3 DEF AddressInv
  <2> QED
    BY <2>1, <2>4 DEF AddressInv, NoBlank
<1>4. CASE Open(r)
  <2>1. tmp' = NoMap /\ UNCHANGED <<mem, file, tmap>>
    BY <1>4 DEF Open, tier1
  <2> QED
    BY <2>1, NoMapNoBlank DEF AddressInv, NoBlank
<1>5. CASE Write(r)
  <2>1. UNCHANGED <<mem, tmap>>
    BY <1>5 DEF Write, tier1
  <2>2. NoBlank(mem[r]) /\ NoBlank(file)
    BY DEF AddressInv
  <2>3. CASE fd[r] = "tmp" /\ tmp' \in Overwritten(tmp, mem[r]) /\ UNCHANGED file
    <3>1. NoBlank(tmp)
      BY <2>3 DEF FdInv, AddressInv
    <3>2. NoBlank(tmp')
      BY <2>2, <2>3, <3>1, OverwrittenNoBlank
    <3> QED
      BY <2>1, <2>3, <3>2 DEF AddressInv, NoBlank
  <2>4. CASE fd[r] = "map" /\ file' \in Overwritten(file, mem[r]) /\ UNCHANGED tmp
    <3>1. NoBlank(file')
      BY <2>2, <2>4, OverwrittenNoBlank
    <3> QED
      BY <2>1, <2>4, <3>1 DEF AddressInv, NoBlank
  <2>5. CASE UNCHANGED disk
    BY <2>1, <2>5 DEF disk, AddressInv, NoBlank
  <2> QED
    BY <1>5, <2>3, <2>4, <2>5 DEF Write
<1>6. CASE Replace(r)
  <2>1. tmp # Absent /\ file' = tmp /\ tmp' = Absent /\ UNCHANGED <<mem, tmap>>
    BY <1>6 DEF Replace, tier1
  <2> QED
    BY <2>1 DEF AddressInv, NoBlank
<1>7. CASE Restart(r)
  <2>1. UNCHANGED <<file, tmp, tmap>> /\ (Exit(r) \/ UNCHANGED mem)
    BY <1>7 DEF Restart, disk
  <2> QED
    BY <2>1, ExitNoBlank DEF AddressInv, NoBlank
<1> QED
  BY <1>1, <1>2, <1>3, <1>4, <1>5, <1>6, <1>7 DEF Step

LEMMA NextNoBlank ==
    ASSUME ~MayBeBlank, IInv, AddressInv, [Next]_vars
    PROVE  AddressInv'
<1> USE DEF IInv
<1>1. ASSUME NEW r \in Run, Up(r) \/ Down(r) PROVE AddressInv'
  <2>1. mem' = [mem EXCEPT ![r] = file] /\ UNCHANGED <<file, tmp, tmap>>
    BY <1>1 DEF Up, Down, Start, Read, disk, tier1
  <2>2. \A q \in Run : mem'[q] = IF q = r THEN file ELSE mem[q]
    BY <2>1 DEF TypeOK
  <2> QED
    BY <2>1, <2>2 DEF AddressInv, NoBlank
<1>2. ASSUME NEW r \in Run, Kill(r) PROVE AddressInv'
  BY <1>2, ExitNoBlank DEF Kill, disk, tier1
<1>3. CASE Load \/ Tick \/ UNCHANGED vars
  <2>1. UNCHANGED <<mem, file, tmp>> /\ (tmap' = file \/ tmap' = tmap)
    BY <1>3 DEF Load, Tick, disk, vars
  <2> QED
    BY <2>1 DEF AddressInv, NoBlank
<1> QED
  BY <1>1, <1>2, <1>3, StepNoBlank DEF Next

LEMMA AddressInvariant == ASSUME ~MayBeBlank PROVE Spec => [](IInv /\ AddressInv)
<1>1. Init => AddressInv
  BY NoMapNoBlank DEF Init, AddressInv
<1>2. IInv /\ AddressInv /\ [Next]_vars => IInv' /\ AddressInv'
  BY NextIInv, NextNoBlank
<1> QED
  BY <1>1, <1>2, InitIInv, PTL DEF Spec

\* The address of a run that is answered is one that Tier-1 has heard of.
LEMMA AnswerIsLive ==
    ASSUME AddressInv
    PROVE  /\ Blank \notin Live
           /\ \A r \in Run : r \in Answer <=> running /\ r \in Live
<1>1. Blank \notin Live
  BY DEF Live, AddressInv, NoBlank, fresh_backends
<1>2. \A r \in Run : r # Whale
  BY FabricAssumption
<1> QED
  BY <1>1, <1>2 DEF Answer

\* As long as every provider gives addresses, a Tier-1 that runs answers every query,
\* whatever overlapping, killed and failed commands made of the map (`answer_ips`).
THEOREM NeverSilentHolds == ASSUME ~MayBeBlank PROVE Spec => []NeverSilent
<1>1. AddressInv => NeverSilent
  BY AnswerIsLive DEF NeverSilent, Answer
<1> QED
  BY <1>1, AddressInvariant, PTL

\* What takes a pool that goes on running out of the answer is a restart of Tier-1
\* and nothing else: no other command of its own run or of a neighbour, however they
\* overlap, and no lost entry in the map on disk (`RealWiring.apply`).
THEOREM OnlyRestartsDisturb ==
    ASSUME ~MayBeBlank
    PROVE  Spec => [][\A r \in Run : r \in Answer /\ emits'[r] /\ running' => r \in Answer']_vars
<1>1. ASSUME IInv, AddressInv, AddressInv', [Next]_vars, NEW r \in Run,
             r \in Answer, emits'[r], running'
      PROVE  r \in Answer'
  <2>1. running /\ r \in Live
    BY <1>1, AnswerIsLive
  <2>2. PICK n \in Name : n \in Mapped(tmap) /\ tmap[n] = r /\ age[n] <= Window
    BY <2>1 DEF Live, fresh_backends
  <2>3. name[r] = n
    BY <1>1, <2>2 DEF IInv, MapsInv, Mine
  <2>4. tmap' = tmap
    BY <1>1, <2>1 DEF Next, Up, Down, Start, Step, Acquire, AcquireFails, Teardown, AdapterFails, Open, Write,
       Replace, ReplaceFails, Restart, RestartRaises, Verify, Kill, Load, Tick, tier1, vars
  <2>5. age'[n] <= Window
    <3>1. CASE Tick
      <4>1. emits[r]
        BY <1>1, <3>1 DEF Tick
      <4>2. age'[n] = 0
        BY <2>1, <2>3, <3>1, <4>1 DEF Tick
      <4> QED
        BY <4>2, FabricAssumption
    <3>2. ~Tick => age' = age
      BY <1>1, <2>1 DEF Next, Up, Down, Start, Step, Acquire, AcquireFails, Teardown, AdapterFails, Open, Write,
         Replace, ReplaceFails, Restart, RestartRaises, Verify, Kill, Load, tier1, vars
    <3> QED
      BY <2>2, <3>1, <3>2
  <2>6. r \in Live'
    BY <2>2, <2>4, <2>5 DEF Live, fresh_backends, Mapped
  <2>7. r # Whale /\ Blank \notin Live'
    BY <1>1, FabricAssumption DEF AddressInv, Live, fresh_backends, NoBlank
  <2> QED
    BY <1>1, <2>6, <2>7 DEF Answer
<1>2. IInv /\ AddressInv /\ (IInv /\ AddressInv)' /\ [Next]_vars =>
        [\A r \in Run : r \in Answer /\ emits'[r] /\ running' => r \in Answer']_vars
  BY <1>1
<1> QED
  BY <1>2, AddressInvariant, PTL DEF Spec
=============================================================================
