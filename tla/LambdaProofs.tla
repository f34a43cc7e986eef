---------------------------- MODULE LambdaProofs ----------------------------
(***************************************************************************)
(* Proofs about Lambda, for any number of regions and rounds: its types,   *)
(* that what some _terminate returned for no longer lives, but where it    *)
(* was misled, and that the adapter keeps the promise of Provider.         *)
(***************************************************************************)
EXTENDS Lambda, TLAPS

-----------------------------------------------------------------------------
(* acquire never goes back: it launches a slot of a region once.  So an id  *)
(* that was released cannot come to life again, as long as every id anybody *)
(* holds is of an instance that was launched already.                       *)

\* The launch of i lies behind acquire.
Past(i) ==
    \/ i[2] < region
    \/ i[2] = region /\ i[1] < slot
    \/ i[2] = region /\ i[1] = slot /\ phase # "launch"

AcquiringOK ==
    /\ phase \in {"none", "launch", "wait", "clean", "boot", "verify", "up", "teardown", "over"}
    /\ slot \in 1 .. Slots /\ region \in 1 .. Regions
    /\ handle \subseteq Inst
    /\ reason \in {"none", "capacity", "error"}
    /\ strays \subseteq Inst

DeletingOK ==
    /\ batch \in [Actors -> SUBSET Inst]
    /\ at \in [Actors -> {"idle", "post", "list", "last"}]
    /\ tries \in [Actors -> 0 .. Tries]
    /\ released \subseteq Inst
    /\ \A a \in Actors : at[a] \in {"post", "list"} => tries[a] < Tries

AccountOK == insts \in [Inst -> {"none", "booting", "active", "dying"}]

HeldArePast ==
    \A i \in Inst :
        (i \in released \/ i \in handle \/ i \in strays \/ \E a \in Actors : i \in batch[a]) => Past(i)

ExistingArePast == \A i \in Inst : Exists(i) => Past(i)

IInv ==
    AccountOK /\ AcquiringOK /\ DeletingOK /\ HeldArePast /\ ExistingArePast /\ ReturnedMeansGone

LEMMA Constants ==
    /\ Tries \in Nat /\ 0 < Tries
    /\ Slots \in {1, 2} /\ Regions \in Nat /\ 0 < Regions
    /\ \A i \in Inst : i[1] \in 1 .. Slots /\ i[2] \in 1 .. Regions
    /\ "run" \in Actors /\ "reap" \in Actors
BY LambdaAssumption DEF Inst, Actors

\* The slot at hand is one of acquire's instances.
LEMMA HereIsInst ==
    ASSUME AcquiringOK, NEW s \in 1 .. Slots
    PROVE  Here(s) \in Inst /\ Here(s)[1] = s /\ Here(s)[2] = region
BY DEF AcquiringOK, Here, Inst

-----------------------------------------------------------------------------
(* What the steps of acquire do to what is held.                            *)

\* The run went on to where the launches behind it are still behind it, and its
\* record is in order.
Onward ==
    /\ AcquiringOK' /\ DeletingOK' /\ HeldArePast'
    /\ \A i \in Inst : Past(i) => Past(i)'
    /\ released' = released

LEMMA CallKeeps ==
    ASSUME IInv, NEW a \in Actors, NEW ids \in SUBSET Inst, Call(a, ids)
    PROVE  /\ DeletingOK' /\ released' = released
           /\ \A b \in Actors : batch'[b] \subseteq batch[b] \cup ids
<1> USE DEF IInv
<1>1. batch' \in [Actors -> SUBSET Inst] /\ released' = released
  BY DEF Call, DeletingOK
<1>2. at' \in [Actors -> {"idle", "post", "list", "last"}]
  BY DEF Call, DeletingOK
<1>3. tries' \in [Actors -> 0 .. Tries]
  BY Constants DEF Call, DeletingOK
<1>4. \A b \in Actors : at'[b] \in {"post", "list"} => tries'[b] < Tries
  BY Constants DEF Call, DeletingOK
<1>5. \A b \in Actors : batch'[b] \subseteq batch[b] \cup ids
  BY DEF Call, DeletingOK
<1> QED
  BY <1>1, <1>2, <1>3, <1>4, <1>5 DEF DeletingOK

\* Nothing becomes held but what is behind the run.
LEMMA HeldKeeps ==
    ASSUME IInv, \A i \in Inst : Past(i) => Past(i)',
           NEW ids \in SUBSET Inst, \A i \in ids : Past(i)',
           released' \subseteq released \cup ids, handle' \subseteq handle \cup ids,
           strays' \subseteq strays \cup ids,
           \A b \in Actors : batch'[b] \subseteq batch[b] \cup ids
    PROVE  HeldArePast'
BY DEF IInv, HeldArePast

\* acquire goes on: the whole region is behind it.
LEMMA RegionKeeps ==
    ASSUME IInv, NEW left, left \subseteq Inst, \A i \in left : i[2] = region, NextRegion(left)
    PROVE  /\ AcquiringOK' /\ \A i \in Inst : Past(i) => Past(i)'
           /\ \A i \in Inst : i[2] = region => Past(i)'
           /\ handle' = handle /\ strays' \subseteq strays \cup left
<1> USE DEF IInv
<1>1. /\ region < Regions /\ phase' = "launch" /\ slot' = 1 /\ region' = region + 1
      /\ handle' = handle /\ reason' = "none"
      /\ strays' \subseteq strays \cup left
  BY DEF NextRegion
<1>2. AcquiringOK'
  BY <1>1, Constants DEF AcquiringOK
<1>3. \A i \in Inst : i[2] <= region => Past(i)'
  BY <1>1, <1>2, Constants DEF Past, AcquiringOK
<1>4. \A i \in Inst : Past(i) => Past(i)'
  BY <1>3, Constants DEF Past, AcquiringOK
<1>5. \A i \in Inst : i[2] = region => Past(i)'
  BY <1>3, Constants DEF AcquiringOK
<1> QED
  BY <1>1, <1>2, <1>4, <1>5

\* An exception leaves acquire, bootstrap or verify: what was at hand is behind.
LEMMA RaiseKeeps ==
    ASSUME IInv, NEW why, Raise(why)
    PROVE  Onward /\ \A i \in Inst : i = Here(slot) => Past(i)'
<1> USE DEF IInv
<1>0. \A i \in Inst : i = Here(slot) => i[1] = slot /\ i[2] = region
  BY DEF Here
<1>1. CASE NextRegion({Here(slot)}) /\ UNCHANGED deleting
  <2>1. UNCHANGED <<batch, at, tries, released>>
    BY <1>1 DEF deleting
  <2>2. Here(slot) \in Inst /\ Here(slot)[2] = region
    BY HereIsInst DEF AcquiringOK
  <2>3. /\ AcquiringOK' /\ \A i \in Inst : Past(i) => Past(i)'
        /\ \A i \in Inst : i[2] = region => Past(i)'
        /\ handle' = handle /\ strays' \subseteq strays \cup {Here(slot)}
    BY <1>1, <2>2, RegionKeeps
  <2>4. \A i \in Inst : i = Here(slot) => Past(i)'
    BY <2>2, <2>3
  <2>5. HeldArePast'
    BY <2>1, <2>2, <2>3, <2>4, HeldKeeps
  <2>6. DeletingOK'
    BY <2>1 DEF DeletingOK
  <2> QED
    BY <2>1, <2>3, <2>4, <2>5, <2>6 DEF Onward
<1>2. CASE /\ phase' \in {"over", "teardown"}
           /\ reason' = "none"
           /\ UNCHANGED <<slot, region, handle, strays>>
           /\ UNCHANGED deleting \/ Call("run", handle)
  <2>1. AcquiringOK'
    BY <1>2 DEF AcquiringOK
  <2>2. \A i \in Inst : Past(i) => Past(i)'
    BY <1>2 DEF Past
  <2>3. \A i \in Inst : i = Here(slot) => Past(i)'
    BY <1>0, <1>2, Constants DEF Past
  <2>4. handle \in SUBSET Inst /\ \A i \in handle : Past(i)'
    BY <2>2 DEF AcquiringOK, HeldArePast
  <2>5. /\ DeletingOK' /\ released' = released
        /\ \A b \in Actors : batch'[b] \subseteq batch[b] \cup handle
    <3>1. CASE UNCHANGED deleting
      BY <3>1 DEF deleting, DeletingOK
    <3>2. CASE Call("run", handle)
      BY <3>2, <2>4, Constants, CallKeeps
    <3> QED
      BY <1>2, <3>1, <3>2
  <2>6. HeldArePast'
    BY <1>2, <2>2, <2>4, <2>5, HeldKeeps
  <2> QED
    BY <2>1, <2>2, <2>3, <2>5, <2>6 DEF Onward
<1> QED
  BY <1>1, <1>2 DEF Raise

\* _launch or the wait raises; what a failed sibling leaves is cleaned up first.
LEMMA LaunchRaisesKeeps ==
    ASSUME IInv, phase \in {"launch", "wait"},
           NEW why \in {"capacity", "error"}, LaunchRaises(why)
    PROVE  Onward /\ \A i \in Inst : i = Here(slot) => Past(i)'
<1> USE DEF IInv
<1>1. CASE slot = 1 /\ Raise(why)
  BY <1>1, RaiseKeeps
<1>2. CASE /\ slot = 2
           /\ phase' = "clean" /\ reason' = why
           /\ Call("run", {Here(1)})
           /\ UNCHANGED <<slot, region, handle, strays>>
  <2>1. AcquiringOK'
    BY <1>2 DEF AcquiringOK
  <2>2. \A i \in Inst : Past(i) => Past(i)'
    BY <1>2 DEF Past
  <2>3. \A i \in Inst : i = Here(slot) => Past(i)'
    BY <1>2 DEF Past, Here
  <2>4. {Here(1)} \in SUBSET Inst /\ \A i \in {Here(1)} : Past(i)'
    <3>1. Here(1) \in Inst
      BY Constants, HereIsInst
    <3>2. \A i \in Inst : i = Here(1) => i[1] = 1 /\ i[2] = region
      BY DEF Here
    <3>3. \A i \in Inst : i[1] = 1 /\ i[2] = region => Past(i)'
      BY <1>2 DEF Past
    <3> QED
      BY <3>1, <3>2, <3>3
  <2>5. /\ DeletingOK' /\ released' = released
        /\ \A b \in Actors : batch'[b] \subseteq batch[b] \cup {Here(1)}
    BY <1>2, <2>4, Constants, CallKeeps
  <2>6. HeldArePast'
    BY <1>2, <2>2, <2>4, <2>5, HeldKeeps
  <2> QED
    BY <2>1, <2>2, <2>3, <2>5, <2>6 DEF Onward
<1> QED
  BY <1>1, <1>2 DEF LaunchRaises

\* If the run went on, and no instance changed or only the one at hand was
\* launched, all is well.
LEMMA OnwardKeeps ==
    ASSUME IInv, Onward, UNCHANGED insts
    PROVE  IInv'
BY DEF IInv, Onward, AccountOK, ExistingArePast, ReturnedMeansGone, Exists, Lives

LEMMA LaunchedKeeps ==
    ASSUME IInv, Onward, phase = "launch",
           insts' = [insts EXCEPT ![Here(slot)] = "booting"],
           \A i \in Inst : i = Here(slot) => Past(i)'
    PROVE  IInv'
<1> USE DEF IInv
<1>1. Here(slot) \in Inst /\ Here(slot)[1] = slot /\ Here(slot)[2] = region
  BY HereIsInst DEF AcquiringOK
<1>2. \A i \in Inst : insts'[i] = IF i = Here(slot) THEN "booting" ELSE insts[i]
  BY DEF AccountOK
<1>3. AccountOK'
  BY DEF AccountOK
<1>4. ExistingArePast'
  BY <1>2 DEF Onward, ExistingArePast, Exists
<1>5. ~Past(Here(slot))
  BY <1>1, Constants DEF Past, AcquiringOK
<1>6. Here(slot) \notin released
  BY <1>1, <1>5 DEF HeldArePast
<1>7. ReturnedMeansGone'
  BY <1>2, <1>6 DEF Onward, ReturnedMeansGone, Lives, DeletingOK
<1> QED
  BY <1>3, <1>4, <1>7 DEF Onward

-----------------------------------------------------------------------------
(* One lemma for each group of actions. *)

LEMMA LaunchKeeps ==
    ASSUME IInv, Launch \/ LaunchFails
    PROVE  IInv'
<1>1. CASE Launch
  <2> USE DEF IInv
  <2>1. UNCHANGED <<slot, region, handle, reason, strays, batch, at, tries, released>> /\ phase' = "wait"
    BY <1>1 DEF Launch, deleting
  <2>2. /\ \A i \in Inst : Past(i) => Past(i)'
        /\ \A i \in Inst : i = Here(slot) => Past(i)'
    BY <2>1 DEF Past, Here
  <2>3. Onward
    BY <2>1, <2>2 DEF Onward, AcquiringOK, DeletingOK, HeldArePast
  <2> QED
    BY <1>1, <2>2, <2>3, LaunchedKeeps DEF Launch
<1>2. CASE LaunchFails
  <2>1. PICK why \in {"capacity", "error"} :
            /\ LaunchRaises(why)
            /\ UNCHANGED insts \/ insts' = [insts EXCEPT ![Here(slot)] = "booting"]
    BY <1>2 DEF LaunchFails
  <2>2. phase = "launch"
    BY <1>2 DEF LaunchFails
  <2>3. Onward /\ \A i \in Inst : i = Here(slot) => Past(i)'
    BY <2>1, <2>2, LaunchRaisesKeeps
  <2> QED
    BY <2>1, <2>2, <2>3, OnwardKeeps, LaunchedKeeps
<1> QED
  BY <1>1, <1>2

LEMMA AcquireKeeps ==
    ASSUME IInv, WaitOver \/ WaitFails \/ Cleaned \/ Boot \/ Verified \/ TornDown \/ BringDown
    PROVE  IInv'
<1>1. CASE WaitFails
  <2>1. PICK why \in {"capacity", "error"} : LaunchRaises(why)
    BY <1>1 DEF WaitFails
  <2> QED
    BY <1>1, <2>1, LaunchRaisesKeeps, OnwardKeeps DEF WaitFails
<1>2. CASE Cleaned \/ BringDown
  BY <1>2, RaiseKeeps, OnwardKeeps DEF Cleaned, BringDown
<1>3. CASE WaitOver
  <2> USE DEF IInv
  <2>1. UNCHANGED <<insts, region, reason, strays, batch, at, tries, released>> /\ phase = "wait"
    BY <1>3 DEF WaitOver, deleting
  <2>2. CASE slot < Slots /\ phase' = "launch" /\ slot' = slot + 1 /\ UNCHANGED handle
    <3>1. AcquiringOK'
      BY <2>1, <2>2, Constants DEF AcquiringOK
    <3>2. \A i \in Inst : Past(i) => Past(i)'
      <4> SUFFICES ASSUME NEW i \in Inst, Past(i) PROVE Past(i)'
        OBVIOUS
      <4>1. i[1] \in Nat /\ slot \in Nat
        BY Constants DEF AcquiringOK
      <4> QED
        BY <2>1, <2>2, <4>1 DEF Past
    <3> QED
      BY <2>1, <2>2, <3>1, <3>2, OnwardKeeps DEF Onward, DeletingOK, HeldArePast
  <2>3. CASE /\ slot = Slots /\ phase' = "boot" /\ UNCHANGED slot
             /\ handle' = {Here(s) : s \in 1 .. Slots}
    <3>1. \A s \in 1 .. Slots : Here(s) \in Inst /\ Here(s)[1] = s /\ Here(s)[2] = region
      BY HereIsInst
    <3>2. AcquiringOK'
      BY <2>1, <2>3, <3>1 DEF AcquiringOK
    <3>3. \A i \in Inst : Past(i) => Past(i)'
      BY <2>1, <2>3 DEF Past
    <3>4. \A i \in handle' : Past(i)'
      <4> SUFFICES ASSUME NEW s \in 1 .. Slots PROVE \A i \in Inst : i = Here(s) => Past(i)'
        BY <2>3, <3>1
      <4>1. \A i \in Inst : i = Here(s) => i[1] = s /\ i[2] = region
        BY <3>1
      <4> QED
        BY <2>1, <2>3, <4>1, Constants DEF Past
    <3>5. HeldArePast'
      BY <2>1, <3>3, <3>4 DEF HeldArePast
    <3> QED
      BY <2>1, <3>2, <3>3, <3>5, OnwardKeeps DEF Onward, DeletingOK
  <2> QED
    BY <1>3, <2>2, <2>3, Constants DEF WaitOver, AcquiringOK
<1>4. CASE Boot \/ Verified \/ TornDown
  <2> USE DEF IInv
  <2>1. /\ UNCHANGED <<insts, slot, region, handle, reason, strays, batch, at, tries, released>>
        /\ phase' \in {"verify", "up", "over"}
    BY <1>4 DEF Boot, Verified, TornDown, deleting
  <2>2. \A i \in Inst : Past(i) => Past(i)'
    BY <2>1 DEF Past
  <2> QED
    BY <2>1, <2>2, OnwardKeeps DEF Onward, AcquiringOK, DeletingOK, HeldArePast
<1> QED
  BY <1>1, <1>2, <1>3, <1>4

\* _terminate holds the ids it was called with until it leaves.
LEMMA LeaveKeeps ==
    ASSUME IInv, NEW a \in Actors, Leave(a), UNCHANGED <<slot, region, handle>>,
           phase' \in {phase, "over"}, reason' \in {reason, "none"},
           released' \subseteq released \cup batch[a], strays' \subseteq strays \cup batch[a]
    PROVE  AcquiringOK' /\ DeletingOK' /\ HeldArePast' /\ \A i \in Inst : Past(i) => Past(i)'
<1> USE DEF IInv
<1>0. batch[a] \in SUBSET Inst
  BY DEF DeletingOK
<1>1. AcquiringOK'
  BY <1>0 DEF AcquiringOK
<1>2. DeletingOK'
  <2>1. released' \subseteq Inst
    BY <1>0 DEF DeletingOK
  <2>2. /\ batch' \in [Actors -> SUBSET Inst]
        /\ at' \in [Actors -> {"idle", "post", "list", "last"}]
        /\ tries' \in [Actors -> 0 .. Tries]
    BY Constants DEF Leave, DeletingOK
  <2>3. \A b \in Actors : at'[b] \in {"post", "list"} => tries'[b] < Tries
    BY Constants DEF Leave, DeletingOK
  <2> QED
    BY <2>1, <2>2, <2>3 DEF DeletingOK
<1>3. \A i \in Inst : Past(i) => Past(i)'
  BY DEF Past
<1>4. \A b \in Actors : batch'[b] \subseteq batch[b]
  BY DEF Leave, DeletingOK
<1>5. \A i \in batch[a] : Past(i)'
  BY <1>0, <1>3 DEF HeldArePast
<1>6. HeldArePast'
  BY <1>0, <1>3, <1>4, <1>5, HeldKeeps
<1> QED
  BY <1>1, <1>2, <1>3, <1>6

LEMMA KillKeeps ==
    ASSUME IInv, Kill
    PROVE  IInv'
<1> USE DEF IInv
<1>1. UNCHANGED <<insts, slot, region, handle, strays, released>> /\ phase' = "over" /\ Leave("run")
      /\ reason' = "none"
  BY DEF Kill
<1>2. AcquiringOK' /\ DeletingOK' /\ HeldArePast' /\ \A i \in Inst : Past(i) => Past(i)'
  BY <1>1, Constants, LeaveKeeps
<1> QED
  BY <1>1, <1>2, OnwardKeeps DEF Onward

\* A sweep takes what exists, and what exists is behind the run.
LEMMA ReapKeeps ==
    ASSUME IInv, Reap
    PROVE  IInv'
<1> USE DEF IInv
<1> DEFINE ids == {i \in Inst : Exists(i)}
<1>1. Call("reap", ids) /\ UNCHANGED <<insts, phase, slot, region, handle, reason, strays>>
  BY DEF Reap, acquiring
<1>2. /\ DeletingOK' /\ released' = released
      /\ \A b \in Actors : batch'[b] \subseteq batch[b] \cup ids
  BY <1>1, Constants, CallKeeps
<1>3. \A i \in Inst : Past(i) => Past(i)'
  BY <1>1 DEF Past
<1>4. \A i \in ids : Past(i)'
  BY <1>3 DEF ExistingArePast
<1>5. HeldArePast'
  BY <1>1, <1>2, <1>3, <1>4, HeldKeeps
<1>6. AcquiringOK'
  BY <1>1 DEF AcquiringOK
<1> QED
  BY <1>1, <1>2, <1>3, <1>5, <1>6, OnwardKeeps DEF Onward

\* It goes on with the same ids, and counts its rounds.
LEMMA GotoKeeps ==
    ASSUME IInv, NEW a \in Actors, NEW p \in {"post", "list", "last"}, Goto(a, p),
           tries' \in [Actors -> 0 .. Tries],
           \A b \in Actors \ {a} : tries'[b] = tries[b],
           p \in {"post", "list"} => tries'[a] < Tries
    PROVE  AcquiringOK' /\ DeletingOK' /\ HeldArePast' /\ \A i \in Inst : Past(i) => Past(i)'
<1> USE DEF IInv
<1>1. UNCHANGED <<batch, released, phase, slot, region, handle, reason, strays>>
  BY DEF Goto, acquiring
<1>2. AcquiringOK' /\ \A i \in Inst : Past(i) => Past(i)'
  BY <1>1 DEF AcquiringOK, Past
<1>3. at' \in [Actors -> {"idle", "post", "list", "last"}]
      /\ \A b \in Actors : at'[b] = IF b = a THEN p ELSE at[b]
  BY DEF Goto, DeletingOK
<1>4. DeletingOK'
  BY <1>1, <1>3 DEF DeletingOK
<1>5. HeldArePast'
  BY <1>1, <1>2 DEF HeldArePast
<1> QED
  BY <1>2, <1>4, <1>5

LEMMA AgainKeeps ==
    ASSUME IInv, NEW a \in Actors, at[a] \in {"post", "list"}, Again(a)
    PROVE  AcquiringOK' /\ DeletingOK' /\ HeldArePast' /\ \A i \in Inst : Past(i) => Past(i)'
<1>1. tries[a] \in 0 .. Tries /\ tries[a] < Tries
  BY DEF IInv, DeletingOK
<1>2. tries' = [tries EXCEPT ![a] = tries[a] + 1]
  BY DEF Again
<1>3. /\ tries' \in [Actors -> 0 .. Tries]
      /\ \A b \in Actors \ {a} : tries'[b] = tries[b]
      /\ tries'[a] = tries[a] + 1
  BY <1>1, <1>2, Constants DEF IInv, DeletingOK
<1>4. PICK p \in {"post", "last"} : Goto(a, p) /\ (p = "post" => tries[a] + 1 < Tries)
  BY DEF Again
<1> QED
  BY <1>3, <1>4, GotoKeeps

-----------------------------------------------------------------------------
(* The account. *)

\* No instance comes to life, and what was released before or is released now
\* does not live: all is well.
LEMMA DyingKeeps ==
    ASSUME IInv, AcquiringOK', DeletingOK', HeldArePast',
           \A i \in Inst : Past(i) => Past(i)',
           AccountOK',
           \A i \in Inst : insts'[i] # "none" => insts[i] # "none",
           \A i \in Inst : insts'[i] \in {"booting", "active"} => insts[i] \in {"booting", "active"},
           \A i \in released' : i \notin released => insts'[i] \notin {"booting", "active"}
    PROVE  IInv'
<1>1. ExistingArePast'
  BY DEF IInv, ExistingArePast, Exists
<1>2. ReturnedMeansGone'
  BY DEF IInv, ReturnedMeansGone, Lives, DeletingOK
<1> QED
  BY <1>1, <1>2 DEF IInv

LEMMA AccountKeeps ==
    ASSUME IInv, Boots \/ Dies \/ Vanish
    PROVE  IInv'
<1> USE DEF IInv
<1>1. PICK i \in Inst : \/ insts[i] = "booting" /\ insts' = [insts EXCEPT ![i] = "active"]
                        \/ insts[i] \in {"dying", "active"} /\ insts' = [insts EXCEPT ![i] = "none"]
  BY DEF Boots, Dies, Vanish, Ends
<1>2. /\ UNCHANGED <<phase, slot, region, handle, reason, batch, at, tries>>
      /\ strays' \subseteq strays /\ released' \subseteq released
  BY DEF Boots, Dies, Vanish, Ends, acquiring, deleting
<1>3. AcquiringOK' /\ DeletingOK' /\ \A j \in Inst : Past(j) => Past(j)'
  BY <1>2 DEF AcquiringOK, DeletingOK, Past
<1>4. HeldArePast'
  BY <1>2, <1>3 DEF HeldArePast
<1>5. AccountOK'
  BY <1>1 DEF AccountOK
<1>6. \A j \in Inst : insts'[j] # "none" => insts[j] # "none"
  BY <1>1 DEF AccountOK
<1>7. \A j \in Inst : insts'[j] \in {"booting", "active"} => insts[j] \in {"booting", "active"}
  BY <1>1 DEF AccountOK
<1> QED
  BY <1>2, <1>3, <1>4, <1>5, <1>6, <1>7, DyingKeeps

\* After terminate, what it was called with is dying or gone.
LEMMA DoomedDie ==
    ASSUME IInv, NEW ids \in SUBSET Inst, insts' = Doomed(ids)
    PROVE  /\ AccountOK'
           /\ \A i \in Inst : insts'[i] # "none" => insts[i] # "none"
           /\ \A i \in Inst : insts'[i] \in {"booting", "active"} => insts[i] \in {"booting", "active"}
           /\ \A i \in ids : insts'[i] \notin {"booting", "active"}
<1>1. \A i \in Inst : insts'[i] = IF i \in ids /\ insts[i] # "none" THEN "dying" ELSE insts[i]
  BY DEF Doomed, Exists
<1>2. AccountOK'
  BY DEF Doomed, AccountOK, IInv
<1> QED
  BY <1>1, <1>2

\* An exception out of _terminate.
LEMMA RaisesKeeps ==
    ASSUME IInv, NEW a \in Actors, NEW why, Raises(a, why)
    PROVE  IInv'
<1> USE DEF IInv
<1>0. Leave(a) /\ UNCHANGED <<insts, released>>
  BY DEF Raises
<1>1. CASE /\ UNCHANGED <<slot, region, handle, strays>>
           /\ phase' \in {phase, "over"} /\ reason' \in {reason, "none"}
  <2>1. AcquiringOK' /\ DeletingOK' /\ HeldArePast' /\ \A i \in Inst : Past(i) => Past(i)'
    BY <1>0, <1>1, LeaveKeeps
  <2> QED
    BY <1>0, <2>1, DyingKeeps DEF AccountOK
<1>2. CASE NextRegion({Here(s) : s \in 1 .. Slots})
  <2> DEFINE left == {Here(s) : s \in 1 .. Slots}
  <2>1. left \subseteq Inst /\ \A i \in left : i[2] = region
    BY HereIsInst
  <2>2. /\ AcquiringOK' /\ \A i \in Inst : Past(i) => Past(i)'
        /\ \A i \in Inst : i[2] = region => Past(i)'
        /\ handle' = handle /\ strays' \subseteq strays \cup left
    BY <1>2, <2>1, RegionKeeps
  <2>3. \A b \in Actors : batch'[b] \subseteq batch[b]
    BY <1>0 DEF Leave, DeletingOK
  <2>4. HeldArePast'
    <3>1. \A i \in left : Past(i)'
      BY <2>1, <2>2
    <3> QED
      BY <1>0, <2>1, <2>2, <2>3, <3>1, HeldKeeps
  <2>5. DeletingOK'
    BY <1>0, Constants DEF Leave, DeletingOK
  <2> QED
    BY <1>0, <2>2, <2>4, <2>5, DyingKeeps DEF AccountOK
<1> QED
  BY <1>1, <1>2 DEF Raises

\* Every step of _terminate keeps the invariant.
LEMMA LoopKeeps ==
    ASSUME IInv, NEW a \in Actors, Loop(a)
    PROVE  IInv'
<1>0. batch[a] \in SUBSET Inst
  BY DEF IInv, DeletingOK
<1>1. ASSUME Return(a), UNCHANGED insts \/ insts' = Doomed(batch[a]),
             \A i \in batch[a] : insts'[i] \in {"none", "dying"}
      PROVE  IInv'
  <2>1. /\ Leave(a) /\ released' \subseteq released \cup batch[a]
        /\ UNCHANGED <<phase, slot, region, handle, reason, strays>>
    BY <1>1 DEF Return, acquiring
  <2>2. AcquiringOK' /\ DeletingOK' /\ HeldArePast' /\ \A i \in Inst : Past(i) => Past(i)'
    BY <2>1, LeaveKeeps
  <2>3. CASE UNCHANGED insts
    BY <1>1, <2>1, <2>2, <2>3, DyingKeeps DEF IInv, AccountOK
  <2>4. CASE insts' = Doomed(batch[a])
    BY <1>0, <1>1, <2>1, <2>2, <2>4, DoomedDie, DyingKeeps
  <2> QED
    BY <1>1, <2>3, <2>4
<1>2. ASSUME ReturnMisled(a) PROVE IInv'
  <2>1. /\ Leave(a) /\ UNCHANGED <<insts, phase, slot, region, handle, reason>>
        /\ released' = released \cup {i \in batch[a] : insts[i] = "dying"}
        /\ strays' \subseteq strays \cup batch[a]
    BY <1>2 DEF ReturnMisled
  <2>2. AcquiringOK' /\ DeletingOK' /\ HeldArePast' /\ \A i \in Inst : Past(i) => Past(i)'
    BY <2>1, LeaveKeeps
  <2> QED
    BY <2>1, <2>2, DyingKeeps DEF IInv, AccountOK
<1>3. ASSUME at[a] \in {"post", "list"}, Again(a), insts' \in {insts, Doomed(batch[a])} PROVE IInv'
  <2>1. UNCHANGED released
    BY <1>3 DEF Again, Goto
  <2>2. AcquiringOK' /\ DeletingOK' /\ HeldArePast' /\ \A i \in Inst : Past(i) => Past(i)'
    BY <1>3, AgainKeeps
  <2>3. CASE insts' = insts
    BY <2>1, <2>2, <2>3, DyingKeeps DEF IInv, AccountOK
  <2>4. CASE insts' = Doomed(batch[a])
    BY <1>0, <2>1, <2>2, <2>4, DoomedDie, DyingKeeps
  <2> QED
    BY <1>3, <2>3, <2>4
<1>4. CASE Terminate(a)
  <2>1. Return(a) /\ insts' = Doomed(batch[a])
    BY <1>4 DEF Terminate
  <2>2. \A i \in batch[a] : insts'[i] \in {"none", "dying"}
    BY <1>0, <2>1 DEF Doomed, Exists, IInv, AccountOK
  <2> QED
    BY <1>1, <2>1, <2>2
<1>5. CASE NotFound(a) \/ ListEmpty(a)
  BY <1>2, <1>5 DEF NotFound, ListEmpty
<1>6. CASE ServerError(a)
  BY <1>3, <1>6 DEF ServerError
<1>7. CASE TerminateFails(a)
  <2>1. at[a] = "post" /\ insts' \in {insts, Doomed(batch[a])} /\ UNCHANGED tries /\ Goto(a, "list")
    BY <1>7 DEF TerminateFails
  <2>2. UNCHANGED released
    BY <2>1 DEF Goto
  <2>3. tries' \in [Actors -> 0 .. Tries] /\ tries'[a] < Tries
    BY <2>1 DEF IInv, DeletingOK
  <2>4. AcquiringOK' /\ DeletingOK' /\ HeldArePast' /\ \A i \in Inst : Past(i) => Past(i)'
    BY <2>1, <2>3, GotoKeeps
  <2>5. CASE insts' = insts
    BY <2>2, <2>4, <2>5, DyingKeeps DEF IInv, AccountOK
  <2>6. CASE insts' = Doomed(batch[a])
    BY <1>0, <2>2, <2>4, <2>6, DoomedDie, DyingKeeps
  <2> QED
    BY <2>1, <2>5, <2>6
<1>8. CASE List(a)
  <2>1. CASE Gone(a) /\ UNCHANGED insts /\ Return(a)
    <3>1. \A i \in batch[a] : insts'[i] \in {"none", "dying"}
      BY <2>1 DEF Gone, Exists
    <3> QED
      BY <1>1, <2>1, <3>1
  <2> QED
    BY <1>3, <1>8, <2>1, RaisesKeeps DEF List
<1>9. CASE ListFails(a)
  BY <1>9, RaisesKeeps DEF ListFails
<1> QED
  BY <1>4, <1>5, <1>6, <1>7, <1>8, <1>9 DEF Loop

-----------------------------------------------------------------------------
(* The theorems. *)

\* With a pool to build, or without one here.
LEMMA StartIInv ==
    ASSUME NEW ph \in {"launch", "none"}, InitAt(ph)
    PROVE  IInv
<1>1. AccountOK
  BY DEF InitAt, AccountOK
<1>2. AcquiringOK
  BY Constants DEF InitAt, AcquiringOK
<1>3. DeletingOK
  BY Constants DEF InitAt, DeletingOK
<1>4. HeldArePast /\ ExistingArePast /\ ReturnedMeansGone
  BY DEF InitAt, HeldArePast, ExistingArePast, ReturnedMeansGone, Exists
<1> QED
  BY <1>1, <1>2, <1>3, <1>4 DEF IInv

LEMMA InitIInv == Init => IInv
BY StartIInv DEF Init

LEMMA NextIInv == IInv /\ [Next]_vars => IInv'
<1> SUFFICES ASSUME IInv, [Next]_vars PROVE IInv'
  OBVIOUS
<1>1. CASE Run \/ BringDown
  BY <1>1, LaunchKeeps, AcquireKeeps DEF Run
<1>2. CASE Kill
  BY <1>2, KillKeeps
<1>3. CASE Reap
  BY <1>3, ReapKeeps
<1>4. CASE Boots \/ Dies \/ Vanish
  BY <1>4, AccountKeeps
<1>5. CASE \E a \in Actors : Loop(a)
  BY <1>5, LoopKeeps
<1>6. CASE UNCHANGED vars
  BY <1>6 DEF vars, IInv, AccountOK, AcquiringOK, DeletingOK, HeldArePast, ExistingArePast,
              ReturnedMeansGone, Past, Exists, Lives
<1> QED
  BY <1>1, <1>2, <1>3, <1>4, <1>5, <1>6 DEF Next

\* Every variable of the adapter stays in its range, for any number of regions and
\* rounds.
THEOREM TypeCorrect == Spec => []TypeOK
<1>1. IInv => TypeOK
  BY DEF IInv, AccountOK, AcquiringOK, DeletingOK, TypeOK
<1> QED
  BY <1>1, InitIInv, NextIInv, PTL DEF Spec

\* What some _terminate returned for is gone or on its way, for ever, through any
\* number of regions, rounds, failed requests, kills and sweeps in parallel: a "not
\* found" for the whole batch, and a list that came back empty, are the only answers
\* that make it return for what lives.
THEOREM ReturnedMeansGoneHolds == Spec => []ReturnedMeansGone
<1>1. IInv => ReturnedMeansGone
  BY DEF IInv
<1> QED
  BY <1>1, InitIInv, NextIInv, PTL DEF Spec

-----------------------------------------------------------------------------
(* The promise of the interface.  It needs to be known where the instances  *)
(* are that live and are no strays: in the region at hand, and if acquire   *)
(* goes on to the next region, nowhere, for what a half-built head left has *)
(* been terminated.                                                         *)

Counted(i) == Lives(i) /\ i \notin strays

PromiseInv ==
    /\ phase \in {"none", "launch", "wait", "clean"} => handle = {}
    /\ phase \in {"boot", "verify", "up"} => handle # {}
    /\ phase \in {"launch", "wait", "clean"} => \A i \in Inst : Counted(i) => i[2] = region
    /\ phase = "clean" =>
          /\ slot = 2
          /\ IF at["run"] = "idle" THEN ~Counted(Here(1)) ELSE batch["run"] = {Here(1)}

\* acquire goes on to the next region, and nothing is left that counts.
LEMMA RegionPromise ==
    ASSUME IInv, PromiseInv, NEW left, NextRegion(left), handle = {},
           \A i \in Inst : Lives(i)' => Lives(i),
           \A i \in Inst : Counted(i) => i \in left
    PROVE  /\ PromiseInv' /\ handle' = {} /\ phase' = "launch"
           /\ \A i \in Inst : ~Counted(i)'
<1>1. /\ phase' = "launch" /\ handle' = handle
      /\ strays' = strays \cup {i \in left : Exists(i)}
  BY DEF NextRegion
<1>2. \A i \in Inst : ~Counted(i)'
  <2> SUFFICES ASSUME NEW i \in Inst, Lives(i)' PROVE i \in strays'
    BY DEF Counted
  <2>1. Lives(i) /\ Exists(i)
    BY DEF Lives, Exists
  <2> QED
    BY <1>1, <2>1 DEF Counted
<1> QED
  BY <1>1, <1>2 DEF PromiseInv

\* When a launch is due, what counts was launched before it, in this region; after
\* the clean-up, only what was given up last.
LEMMA WhatCounts ==
    ASSUME IInv, PromiseInv
    PROVE  /\ phase = "launch" => ~Lives(Here(slot)) /\ Here(slot) \notin strays
           /\ phase \in {"launch", "wait"} /\ slot = 1 =>
                 \A i \in Inst : Counted(i) => i \in {Here(slot)}
           /\ phase = "clean" /\ at["run"] = "idle" =>
                 \A i \in Inst : Counted(i) => i \in {Here(slot)}
           /\ phase \in {"launch", "wait", "clean"} =>
                 \A i \in Inst : Counted(i) => i \in {Here(s) : s \in 1 .. Slots}
<1>1. \A i \in Inst : Lives(i) => Past(i)
  BY DEF IInv, ExistingArePast, Lives, Exists
<1>2. \A i \in Inst : /\ i[1] \in 1 .. Slots /\ i[1] \in Nat /\ i[2] \in Nat /\ 1 <= i[1]
                      /\ i = <<i[1], i[2]>>
  BY Constants DEF Inst
<1>3. slot \in 1 .. Slots /\ slot \in Nat /\ region \in 1 .. Regions /\ region \in Nat
  BY Constants DEF IInv, AcquiringOK
<1>4. Here(slot) \in Inst /\ Here(slot)[1] = slot /\ Here(slot)[2] = region
  BY <1>3, HereIsInst DEF IInv
<1>5. phase = "launch" => ~Past(Here(slot))
  BY <1>3, <1>4 DEF Past
<1>6. phase = "launch" => ~Lives(Here(slot)) /\ Here(slot) \notin strays
  BY <1>1, <1>4, <1>5 DEF IInv, HeldArePast
<1>7. ASSUME phase \in {"launch", "wait"}, slot = 1, NEW i \in Inst, Counted(i)
      PROVE  i \in {Here(slot)}
  <2>1. i[2] = region /\ i[1] = 1
    BY <1>1, <1>2, <1>3, <1>7 DEF Past, PromiseInv, Counted
  <2> QED
    BY <1>2, <1>7, <2>1 DEF Here
<1>8. ASSUME phase = "clean", at["run"] = "idle", NEW i \in Inst, Counted(i)
      PROVE  i \in {Here(slot)}
  <2>1. i[2] = region /\ slot = 2 /\ Slots = 2 /\ ~Counted(Here(1))
    BY <1>3, <1>8, Constants DEF PromiseInv
  <2>2. i[1] = 1 \/ i[1] = 2
    BY <1>2, <2>1
  <2>3. i = Here(1) \/ i = Here(2)
    BY <1>2, <2>1, <2>2 DEF Here
  <2> QED
    BY <1>8, <2>1, <2>3
<1>9. ASSUME phase \in {"launch", "wait", "clean"}, NEW i \in Inst, Counted(i)
      PROVE  i \in {Here(s) : s \in 1 .. Slots}
  <2>1. i[2] = region
    BY <1>9 DEF PromiseInv
  <2>2. i = Here(i[1])
    BY <1>2, <2>1 DEF Here
  <2> QED
    BY <1>2, <2>2
<1> QED
  BY <1>6, <1>7, <1>8, <1>9

\* _launch or the wait raises; an instance that nobody heard of may have been
\* launched, but not when it is for capacity that acquire goes on.
LEMMA LaunchRaisesPromise ==
    ASSUME IInv, PromiseInv, phase \in {"launch", "wait"},
           NEW why \in {"capacity", "error"}, LaunchRaises(why),
           why = "capacity" => insts' = insts,
           \A i \in Inst : Lives(i)' => Lives(i) \/ i = Here(slot)
    PROVE  /\ PromiseInv' /\ handle' = {} /\ handle = {}
           /\ \/ phase' \in {"over", "clean"} /\ strays' = strays
              \/ phase' = "launch" /\ (\A i \in Inst : ~Counted(i)')
<1>1. handle = {}
  BY DEF PromiseInv
<1>2. CASE slot = 1 /\ Raise(why)
  <2>1. CASE why = "capacity" /\ NextRegion({Here(slot)})
    <3>1. /\ \A i \in Inst : Lives(i)' => Lives(i)
          /\ \A i \in Inst : Counted(i) => i \in {Here(slot)}
      BY <1>2, <2>1, WhatCounts DEF Lives
    <3> QED
      BY <1>1, <2>1, <3>1, RegionPromise
  <2>2. CASE phase' = "over" /\ UNCHANGED <<handle, strays>>
    BY <1>1, <2>2 DEF PromiseInv
  <2> QED
    BY <1>1, <1>2, <2>1, <2>2 DEF Raise
<1>3. CASE /\ slot = 2
           /\ phase' = "clean" /\ reason' = why
           /\ Call("run", {Here(1)})
           /\ UNCHANGED <<slot, region, handle, strays>>
  <2>1. at'["run"] = "post" /\ batch'["run"] = {Here(1)}
    BY <1>3, Constants DEF Call, IInv, DeletingOK
  <2>2. Here(1)' = Here(1)
    BY <1>3 DEF Here
  <2>3. \A i \in Inst : Counted(i)' => i[2] = region
    <3>1. Here(slot)[2] = region
      BY DEF Here
    <3> QED
      BY <1>3, <3>1 DEF PromiseInv, Counted
  <2> QED
    BY <1>1, <1>3, <2>1, <2>2, <2>3 DEF PromiseInv
<1> QED
  BY <1>2, <1>3 DEF LaunchRaises

\* What Provider sees of a state.
Living  == {i \in Inst : Lives(i)} \ strays
Outcome == IF handle # {} THEN "returned"
           ELSE IF phase \in {"none", "launch", "wait", "clean"} THEN "pending" ELSE "raised"

\* The run stays where it is, and nothing comes to life.
LEMMA DestroyStep ==
    ASSUME \A i \in Inst : Counted(i)' => Counted(i), handle' = handle, Outcome' = Outcome
    PROVE  P!Next
<1>1. Living' \in SUBSET Living
  BY DEF Living, Counted
<1>2. P!Destroy
  BY <1>1 DEF P!Destroy, Living, Outcome
<1> QED
  BY <1>2 DEF P!Next

\* acquire launches an instance that did not live, and goes on.
LEMMA CreateStep ==
    ASSUME NEW x \in Inst, ~Counted(x), \A i \in Inst : Counted(i)' <=> Counted(i) \/ i = x,
           handle' = handle, Outcome = "pending", Outcome' = "pending"
    PROVE  P!Next
<1>1. x \in Inst \ Living /\ Living' = Living \cup {x}
  BY DEF Living, Counted
<1>2. P!Create
  BY <1>1 DEF P!Create, Living, Outcome
<1> QED
  BY <1>2 DEF P!Next

\* acquire is over without a handle, perhaps after a launch nobody heard of.
LEMMA RaiseStep ==
    ASSUME NEW last \in SUBSET Inst, \A i, j \in last : i = j, \A i \in last : ~Counted(i),
           \A i \in Inst : Counted(i)' <=> Counted(i) \/ i \in last,
           handle' = handle, Outcome = "pending", Outcome' = "raised"
    PROVE  P!Next
<1>1. last \in SUBSET (Inst \ Living) /\ Living' = Living \cup last
  BY DEF Living, Counted
<1>2. P!Raise
  BY <1>1 DEF P!Raise, Living, Outcome
<1> QED
  BY <1>2 DEF P!Next

\* acquire is over without a handle, and nothing was launched.
LEMMA JustRaiseStep ==
    ASSUME \A i \in Inst : Counted(i)' <=> Counted(i),
           handle' = handle, Outcome = "pending", Outcome' = "raised"
    PROVE  P!Next
<1>1. {} \in SUBSET Inst /\ \A i \in Inst : Counted(i)' <=> Counted(i) \/ i \in {}
  OBVIOUS
<1> QED
  BY <1>1, RaiseStep

LEMMA LaunchPromise ==
    ASSUME IInv, PromiseInv, Launch \/ LaunchFails \/ WaitFails
    PROVE  PromiseInv' /\ P!Next
<1>0. /\ phase \in {"launch", "wait"} /\ handle = {} /\ Outcome = "pending"
      /\ Here(slot) \in Inst /\ Here(slot)[2] = region
  <2>1. phase \in {"launch", "wait"}
    BY DEF Launch, LaunchFails, WaitFails
  <2> QED
    BY <2>1, HereIsInst DEF IInv, AcquiringOK, PromiseInv, Outcome
<1>1. CASE Launch
  <2>1. /\ phase = "launch" /\ phase' = "wait" /\ region' = region /\ handle' = handle
        /\ strays' = strays
        /\ \A i \in Inst : Lives(i)' <=> Lives(i) \/ i = Here(slot)
    BY <1>0, <1>1 DEF Launch, IInv, AccountOK, Lives
  <2>2. ~Lives(Here(slot)) /\ Here(slot) \notin strays
    BY <2>1, WhatCounts
  <2>3. ~Counted(Here(slot)) /\ \A i \in Inst : Counted(i)' <=> Counted(i) \/ i = Here(slot)
    BY <2>1, <2>2 DEF Counted
  <2>4. PromiseInv'
    BY <1>0, <2>1, <2>3 DEF PromiseInv
  <2>5. Outcome' = "pending"
    BY <1>0, <2>1 DEF Outcome
  <2> QED
    BY <1>0, <2>1, <2>3, <2>4, <2>5, CreateStep
<1>2. CASE LaunchFails
  <2>1. /\ phase = "launch"
        /\ \/ insts' = insts /\ \E why \in {"capacity", "error"} : LaunchRaises(why)
           \/ insts' = [insts EXCEPT ![Here(slot)] = "booting"] /\ LaunchRaises("error")
    BY <1>2 DEF LaunchFails
  <2>2. ~Lives(Here(slot)) /\ Here(slot) \notin strays
    BY <2>1, WhatCounts
  <2>3. PICK last \in {{}, {Here(slot)}} : \A i \in Inst : Lives(i)' <=> Lives(i) \/ i \in last
    BY <1>0, <2>1 DEF IInv, AccountOK, Lives
  <2>4. \A i \in Inst : Lives(i)' => Lives(i) \/ i = Here(slot)
    BY <2>3
  <2>5. /\ PromiseInv' /\ handle' = {}
        /\ \/ phase' \in {"over", "clean"} /\ strays' = strays
           \/ phase' = "launch" /\ (\A i \in Inst : ~Counted(i)')
    BY <2>1, <2>4, LaunchRaisesPromise
  <2>6. CASE phase' \in {"over", "clean"} /\ strays' = strays
    <3>1. /\ \A i \in Inst : Counted(i)' <=> Counted(i) \/ i \in last
          /\ last \in SUBSET Inst /\ (\A i, j \in last : i = j) /\ \A i \in last : ~Counted(i)
      BY <1>0, <2>2, <2>3, <2>6 DEF Counted
    <3>2. CASE phase' = "over"
      <4>1. Outcome' = "raised"
        BY <2>5, <3>2 DEF Outcome
      <4> QED
        BY <1>0, <2>5, <3>1, <4>1, RaiseStep
    <3>3. CASE phase' = "clean"
      <4>1. Outcome' = "pending"
        BY <2>5, <3>3 DEF Outcome
      <4>2. CASE last = {}
        BY <1>0, <2>5, <3>1, <4>1, <4>2, DestroyStep
      <4>3. CASE last = {Here(slot)}
        BY <1>0, <2>5, <3>1, <4>1, <4>3, CreateStep
      <4> QED
        BY <2>3, <4>2, <4>3
    <3> QED
      BY <2>5, <2>6, <3>2, <3>3
  <2>7. CASE phase' = "launch" /\ (\A i \in Inst : ~Counted(i)')
    <3>1. Outcome' = "pending"
      BY <2>5, <2>7 DEF Outcome
    <3> QED
      BY <1>0, <2>5, <2>7, <3>1, DestroyStep
  <2> QED
    BY <2>5, <2>6, <2>7
<1>3. CASE WaitFails
  <2>1. PICK why \in {"capacity", "error"} : insts' = insts /\ phase = "wait" /\ LaunchRaises(why)
    BY <1>3 DEF WaitFails
  <2>2. \A i \in Inst : Lives(i)' <=> Lives(i)
    BY <2>1 DEF Lives
  <2>3. /\ PromiseInv' /\ handle' = {}
        /\ \/ phase' \in {"over", "clean"} /\ strays' = strays
           \/ phase' = "launch" /\ (\A i \in Inst : ~Counted(i)')
    BY <2>1, <2>2, LaunchRaisesPromise
  <2>4. CASE phase' = "over" /\ strays' = strays
    <3>1. Outcome' = "raised" /\ \A i \in Inst : Counted(i)' <=> Counted(i)
      BY <2>2, <2>3, <2>4 DEF Outcome, Counted
    <3> QED
      BY <1>0, <2>3, <3>1, JustRaiseStep
  <2>5. CASE phase' = "clean" /\ strays' = strays
    <3>1. Outcome' = "pending" /\ \A i \in Inst : Counted(i)' <=> Counted(i)
      BY <2>2, <2>3, <2>5 DEF Outcome, Counted
    <3> QED
      BY <1>0, <2>3, <3>1, DestroyStep
  <2>6. CASE phase' = "launch" /\ (\A i \in Inst : ~Counted(i)')
    <3>1. Outcome' = "pending"
      BY <2>3, <2>6 DEF Outcome
    <3> QED
      BY <1>0, <2>3, <2>6, <3>1, DestroyStep
  <2> QED
    BY <2>3, <2>4, <2>5, <2>6
<1> QED
  BY <1>1, <1>2, <1>3

LEMMA RunPromise ==
    ASSUME IInv, PromiseInv,
           WaitOver \/ Cleaned \/ Boot \/ Verified \/ TornDown \/ BringDown \/ Kill
    PROVE  PromiseInv' /\ P!Next
<1>0. insts' = insts /\ \A i \in Inst : Lives(i)' <=> Lives(i)
  BY DEF WaitOver, Cleaned, Boot, Verified, TornDown, BringDown, Kill, Lives
<1>1. CASE WaitOver
  <2>1. phase = "wait" /\ handle = {} /\ region' = region /\ strays' = strays /\ Outcome = "pending"
    BY <1>1 DEF WaitOver, PromiseInv, Outcome
  <2>2. \A i \in Inst : Counted(i)' <=> Counted(i)
    BY <1>0, <2>1 DEF Counted
  <2>3. CASE phase' = "launch" /\ handle' = handle
    <3>1. PromiseInv'
      BY <2>1, <2>2, <2>3 DEF PromiseInv
    <3>2. Outcome' = "pending"
      BY <2>1, <2>3 DEF Outcome
    <3> QED
      BY <2>1, <2>2, <2>3, <3>1, <3>2, DestroyStep
  <2>4. CASE phase' = "boot" /\ handle' = {Here(s) : s \in 1 .. Slots}
    <3>1. Here(1) \in handle' /\ handle' \in SUBSET Inst
      BY <2>4, Constants, HereIsInst DEF IInv
    <3>2. PromiseInv'
      BY <2>4, <3>1 DEF PromiseInv
    <3>3. Living \subseteq handle'
      <4>1. \A i \in Inst : Counted(i) => i \in handle'
        BY <2>1, <2>4, WhatCounts
      <4> QED
        BY <4>1 DEF Living, Counted
    <3>4. Outcome' = "returned" /\ Living' = Living
      BY <1>0, <2>1, <3>1 DEF Outcome, Living
    <3>5. handle' \in {c \in SUBSET Inst : Living \subseteq c}
      BY <3>1, <3>3
    <3>6. P!Return
      BY <2>1, <3>4, <3>5 DEF P!Return, Living, Outcome
    <3> QED
      BY <3>2, <3>6 DEF P!Next
  <2> QED
    BY <1>1, <2>3, <2>4 DEF WaitOver
<1>2. CASE Cleaned
  <2>1. phase = "clean" /\ at["run"] = "idle" /\ Raise(reason) /\ handle = {} /\ Outcome = "pending"
    BY <1>2 DEF Cleaned, PromiseInv, Outcome
  <2>2. CASE NextRegion({Here(slot)})
    <3>1. \A i \in Inst : Counted(i) => i \in {Here(slot)}
      BY <2>1, WhatCounts
    <3>2. /\ PromiseInv' /\ handle' = {} /\ phase' = "launch"
          /\ \A i \in Inst : ~Counted(i)'
      BY <1>0, <2>1, <2>2, <3>1, RegionPromise
    <3>3. Outcome' = "pending"
      BY <3>2 DEF Outcome
    <3> QED
      BY <2>1, <3>2, <3>3, DestroyStep
  <2>3. CASE phase' = "over" /\ UNCHANGED <<handle, strays>>
    <3>1. PromiseInv' /\ Outcome' = "raised" /\ \A i \in Inst : Counted(i)' <=> Counted(i)
      BY <1>0, <2>1, <2>3 DEF PromiseInv, Outcome, Counted
    <3> QED
      BY <2>1, <2>3, <3>1, JustRaiseStep
  <2> QED
    BY <2>1, <2>2, <2>3 DEF Raise
<1>3. CASE BringDown
  <2>1. phase \in {"boot", "verify", "up"} /\ Raise("error") /\ handle # {}
    BY <1>3 DEF BringDown, PromiseInv
  <2>2. phase' = "teardown" /\ UNCHANGED <<handle, strays>>
    BY <2>1 DEF Raise
  <2>3. PromiseInv' /\ Outcome' = Outcome /\ \A i \in Inst : Counted(i)' <=> Counted(i)
    BY <1>0, <2>1, <2>2 DEF PromiseInv, Outcome, Counted
  <2> QED
    BY <2>2, <2>3, DestroyStep
<1>4. CASE Boot \/ Verified
  <2>1. /\ phase \in {"boot", "verify"} /\ phase' \in {"verify", "up"} /\ UNCHANGED <<handle, strays>>
        /\ handle # {}
    BY <1>4 DEF Boot, Verified, PromiseInv
  <2>2. PromiseInv' /\ Outcome' = Outcome /\ \A i \in Inst : Counted(i)' <=> Counted(i)
    BY <1>0, <2>1 DEF PromiseInv, Outcome, Counted
  <2> QED
    BY <2>1, <2>2, DestroyStep
<1>5. CASE Kill \/ TornDown
  <2>1. phase # "none" /\ phase' = "over" /\ UNCHANGED <<handle, strays>>
    BY <1>5 DEF Kill, TornDown
  <2>2. PromiseInv' /\ \A i \in Inst : Counted(i)' <=> Counted(i)
    BY <1>0, <2>1 DEF PromiseInv, Counted
  <2>3. CASE Outcome = "pending"
    <3>1. Outcome' = "raised"
      BY <2>1, <2>3 DEF Outcome
    <3> QED
      BY <2>1, <2>2, <2>3, <3>1, JustRaiseStep
  <2>4. CASE Outcome # "pending"
    <3>1. Outcome' = Outcome
      BY <2>1, <2>4 DEF Outcome
    <3> QED
      BY <2>1, <2>2, <3>1, DestroyStep
  <2> QED
    BY <2>3, <2>4
<1> QED
  BY <1>1, <1>2, <1>3, <1>4, <1>5

\* What goes on outside of acquire brings nothing to life.
LEMMA NothingRises ==
    ASSUME IInv, Reap \/ Boots \/ Dies \/ Vanish \/ \E a \in Actors : Loop(a)
    PROVE  \A i \in Inst : Lives(i)' => Lives(i)
<1>1. CASE Reap \/ Boots \/ Dies \/ Vanish
  BY <1>1 DEF Reap, Boots, Dies, Vanish, Ends, Lives, IInv, AccountOK
<1>2. ASSUME NEW a \in Actors, Loop(a) PROVE \A i \in Inst : Lives(i)' => Lives(i)
  <2>1. insts' = insts \/ insts' = Doomed(batch[a])
    BY <1>2 DEF Loop, Terminate, NotFound, ServerError, TerminateFails, List, ListEmpty, ListFails,
       ReturnMisled, Raises
  <2>2. \A i \in Inst : Doomed(batch[a])[i] \in {insts[i], "dying"}
    BY DEF Doomed
  <2> QED
    BY <2>1, <2>2 DEF Lives
<1> QED
  BY <1>1, <1>2

\* Whatever leaves the run's pool where it is keeps the promise, if the clean-up of
\* acquire, too, stays where it is or leaves nothing of the head that counts.
LEMMA StaysPromise ==
    ASSUME PromiseInv, IInv, UNCHANGED <<phase, slot, region, handle>>,
           \A i \in Inst : Lives(i)' => Lives(i),
           \A i \in Inst : i \in strays => i \in strays' \/ ~Lives(i)',
           \/ at'["run"] = at["run"] /\ batch'["run"] = batch["run"]
           \/ phase # "clean"
           \/ at'["run"] = "idle" /\ ~Counted(Here(1))'
           \/ batch'["run"] = batch["run"] /\ at["run"] # "idle" /\ at'["run"] # "idle"
    PROVE  PromiseInv' /\ P!Next
<1>1. \A i \in Inst : Counted(i)' => Counted(i)
  BY DEF Counted
<1>2. Here(1)' = Here(1) /\ Here(1) \in Inst
  BY Constants, HereIsInst DEF Here, IInv
<1>3. Counted(Here(1))' => Counted(Here(1))
  BY <1>1, <1>2 DEF Counted, Lives
<1>4. PromiseInv'
  BY <1>1, <1>2, <1>3 DEF PromiseInv
<1>5. Outcome' = Outcome
  BY DEF Outcome
<1> QED
  BY <1>1, <1>4, <1>5, DestroyStep

\* The sweeps and the account.
LEMMA OutsidePromise ==
    ASSUME IInv, PromiseInv, Reap \/ Boots \/ Dies \/ Vanish
    PROVE  PromiseInv' /\ P!Next
<1>1. \A i \in Inst : Lives(i)' => Lives(i)
  BY NothingRises
<1>2. UNCHANGED <<phase, slot, region, handle>> /\ at'["run"] = at["run"] /\ batch'["run"] = batch["run"]
  BY DEF Reap, Call, Boots, Dies, Vanish, Ends, acquiring, deleting, IInv, DeletingOK, Actors
<1>3. \A i \in Inst : i \in strays => i \in strays' \/ ~Lives(i)'
  <2>1. CASE Reap \/ Boots
    BY <2>1 DEF Reap, Boots, acquiring
  <2>2. CASE Dies \/ Vanish
    <3>1. PICK j \in Inst : insts' = [insts EXCEPT ![j] = "none"] /\ strays' = strays \ {j}
      BY <2>2 DEF Dies, Vanish, Ends
    <3>2. \A i \in Inst : i = j => ~Lives(i)'
      BY <3>1 DEF Lives, IInv, AccountOK
    <3> QED
      BY <3>1, <3>2
  <2> QED
    BY <2>1, <2>2
<1> QED
  BY <1>1, <1>2, <1>3, StaysPromise

\* An exception out of _terminate.
LEMMA RaisesPromise ==
    ASSUME IInv, PromiseInv, NEW a \in Actors, NEW why, at[a] # "idle", Raises(a, why)
    PROVE  PromiseInv' /\ P!Next
<1>0. Leave(a) /\ insts' = insts /\ \A i \in Inst : Lives(i)' <=> Lives(i)
  BY DEF Raises, Lives
<1>1. CASE a = "run" /\ phase = "clean" /\ NextRegion({Here(s) : s \in 1 .. Slots})
  <2>1. handle = {} /\ Outcome = "pending"
    BY <1>1 DEF PromiseInv, Outcome
  <2>2. \A i \in Inst : Counted(i) => i \in {Here(s) : s \in 1 .. Slots}
    BY <1>1, WhatCounts
  <2>3. /\ PromiseInv' /\ handle' = {} /\ phase' = "launch"
        /\ \A i \in Inst : ~Counted(i)'
    BY <1>0, <1>1, <2>1, <2>2, RegionPromise
  <2>4. Outcome' = "pending"
    BY <2>3 DEF Outcome
  <2> QED
    BY <2>1, <2>3, <2>4, DestroyStep
<1>2. CASE a = "run" /\ phase = "clean" /\ phase' = "over" /\ UNCHANGED <<handle, strays>>
  <2>1. handle = {} /\ Outcome = "pending" /\ PromiseInv' /\ Outcome' = "raised"
    BY <1>2 DEF PromiseInv, Outcome
  <2>2. \A i \in Inst : Counted(i)' <=> Counted(i)
    BY <1>0, <1>2 DEF Counted
  <2> QED
    BY <1>2, <2>1, <2>2, JustRaiseStep
<1>3. CASE ~(a = "run" /\ phase = "clean") /\ UNCHANGED <<phase, slot, region, handle, strays>>
  <2>1. phase # "clean" \/ (at'["run"] = at["run"] /\ batch'["run"] = batch["run"])
    BY <1>0, <1>3 DEF Leave, IInv, DeletingOK, Actors
  <2> QED
    BY <1>0, <1>3, <2>1, StaysPromise
<1> QED
  BY <1>1, <1>2, <1>3 DEF Raises

\* The terminates.
LEMMA LoopPromise ==
    ASSUME IInv, PromiseInv, NEW a \in Actors, Loop(a)
    PROVE  PromiseInv' /\ P!Next
<1>0. at[a] # "idle" /\ (\A i \in Inst : Lives(i)' => Lives(i)) /\ batch[a] \in SUBSET Inst
  BY NothingRises DEF Loop, Terminate, NotFound, ServerError, TerminateFails, List, ListEmpty, ListFails,
     IInv, DeletingOK
<1>1. phase = "clean" /\ a = "run" => batch[a] = {Here(1)} /\ Here(1) \in Inst
  BY <1>0, Constants, HereIsInst DEF PromiseInv, IInv
<1>2. ASSUME NEW q \in {"post", "list", "last"}, Goto(a, q) PROVE PromiseInv' /\ P!Next
  <2>1. UNCHANGED <<phase, slot, region, handle, strays, batch>>
    BY <1>2 DEF Goto, acquiring
  <2>2. \/ at'["run"] = at["run"] /\ batch'["run"] = batch["run"]
        \/ batch'["run"] = batch["run"] /\ at["run"] # "idle" /\ at'["run"] # "idle"
    BY <1>0, <1>2, <2>1, Constants DEF Goto, IInv, DeletingOK
  <2> QED
    BY <1>0, <2>1, <2>2, StaysPromise
<1>3. ASSUME Leave(a), UNCHANGED <<phase, slot, region, handle>>, strays \subseteq strays',
             phase = "clean" /\ a = "run" => \A i \in batch[a] : ~Counted(i)'
      PROVE  PromiseInv' /\ P!Next
  <2>1. CASE a = "run" /\ phase = "clean"
    <3>1. Here(1)' = Here(1) /\ ~Counted(Here(1))' /\ at'["run"] = "idle"
      BY <1>1, <1>3, <2>1 DEF Here, Counted, Leave, IInv, DeletingOK
    <3> QED
      BY <1>0, <1>3, <3>1, StaysPromise
  <2>2. CASE ~(a = "run" /\ phase = "clean")
    <3>1. phase # "clean" \/ (at'["run"] = at["run"] /\ batch'["run"] = batch["run"])
      BY <1>3, <2>2 DEF Leave, IInv, DeletingOK, Actors
    <3> QED
      BY <1>0, <1>3, <3>1, StaysPromise
  <2> QED
    BY <2>1, <2>2
<1>4. CASE Terminate(a)
  <2>1. Leave(a) /\ UNCHANGED <<phase, slot, region, handle, strays>> /\ insts' = Doomed(batch[a])
    BY <1>4 DEF Terminate, Return, acquiring
  <2>2. \A i \in batch[a] : ~Counted(i)'
    BY <1>0, <2>1, DoomedDie DEF Counted, Lives
  <2> QED
    BY <1>3, <2>1, <2>2
<1>5. CASE NotFound(a) \/ ListEmpty(a)
  <2>1. Leave(a) /\ UNCHANGED <<phase, slot, region, handle, insts>> /\ strays \subseteq strays'
    BY <1>5 DEF NotFound, ListEmpty, ReturnMisled
  <2>2. phase = "clean" /\ a = "run" => \A i \in batch[a] : ~Counted(i)'
    BY <1>5, <2>1 DEF NotFound, ListEmpty, ReturnMisled, Counted, Lives
  <2> QED
    BY <1>3, <2>1, <2>2
<1>6. CASE ServerError(a) \/ TerminateFails(a)
  BY <1>2, <1>6 DEF ServerError, TerminateFails, Again
<1>7. CASE List(a)
  <2>1. CASE Gone(a) /\ UNCHANGED insts /\ Return(a)
    <3>1. Leave(a) /\ UNCHANGED <<phase, slot, region, handle, strays, insts>>
      BY <2>1 DEF Return, acquiring
    <3>2. \A i \in batch[a] : ~Counted(i)'
      BY <2>1, <3>1 DEF Gone, Exists, Counted, Lives
    <3> QED
      BY <1>3, <3>1, <3>2
  <2>2. CASE Again(a)
    BY <1>2, <2>2 DEF Again
  <2>3. CASE Raises(a, "error")
    BY <1>0, <2>3, RaisesPromise
  <2> QED
    BY <1>7, <2>1, <2>2, <2>3 DEF List
<1>8. CASE ListFails(a)
  BY <1>0, <1>8, RaisesPromise DEF ListFails
<1> QED
  BY <1>4, <1>5, <1>6, <1>7, <1>8 DEF Loop

LEMMA StartPromise ==
    ASSUME NEW ph \in {"launch", "none"}, InitAt(ph)
    PROVE  PromiseInv /\ P!Init
<1>1. phase \in {"launch", "none"} /\ handle = {} /\ \A i \in Inst : ~Lives(i)
  BY DEF InitAt, Lives
<1> QED
  BY <1>1 DEF PromiseInv, Counted, P!Init

LEMMA NextPromise == IInv /\ PromiseInv /\ [Next]_vars => PromiseInv' /\ [P!Next]_P!vars
<1> SUFFICES ASSUME IInv, PromiseInv, [Next]_vars PROVE PromiseInv' /\ [P!Next]_P!vars
  OBVIOUS
<1>1. CASE Next
  BY <1>1, LaunchPromise, RunPromise, OutsidePromise, LoopPromise DEF Next, Run
<1>2. CASE UNCHANGED vars
  <2>1. PromiseInv'
    BY <1>2 DEF vars, PromiseInv, Counted, Lives, Here
  <2>2. UNCHANGED P!vars
    BY <1>2 DEF vars, P!vars, Lives
  <2> QED
    BY <2>1, <2>2
<1> QED
  BY <1>1, <1>2

\* The adapter keeps the promise of the interface: through any number of regions,
\* failed launches and half-built heads that are given up, acquire returns a handle
\* of every instance that lives and is no stray, or raises, and from then on instances
\* only go.  Strays are what acquire went on without because its own request about
\* them raised or was answered wrongly.
THEOREM Refinement == Spec => KeepsThePromise
<1>1. Init => IInv /\ PromiseInv /\ P!Init
  BY InitIInv, StartPromise DEF Init
<1> QED
  BY <1>1, NextIInv, NextPromise, PTL DEF Spec, KeepsThePromise, P!Spec
=============================================================================
