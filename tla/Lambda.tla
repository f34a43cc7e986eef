------------------------------- MODULE Lambda -------------------------------
(***************************************************************************)
(* The Lambda adapter (src/orchestrator/adapters/lambda_gpu.py), call by   *)
(* call: acquire with its regions, bootstrap, verify and teardown of one   *)
(* pool in the process of the orchestrator, and reap in another process,   *)
(* which may run at any time.  _api raises CapacityError or AdapterError   *)
(* for every answer that is not a 200, whatever the request was; a request *)
(* that raised may have been carried out, and the answer lost; and a 200   *)
(* without its body is taken for an answer that says nothing.              *)
(***************************************************************************)
EXTENDS Naturals

CONSTANTS
    Slots,       \* 1, or 2 for router_head: a head and its sibling
    Regions,     \* the regions that acquire tries in turn
    Tries,       \* the rounds of _terminate
    Lossy        \* whether requests may fail, and answers be lost

ASSUME LambdaAssumption ==
    /\ Slots \in {1, 2}
    /\ Regions \in Nat \ {0}
    /\ Tries \in Nat \ {0}
    /\ Lossy \in BOOLEAN

Inst   == (1 .. Slots) \X (1 .. Regions)
Actors == {"run", "reap"}

VARIABLES
    insts,       \* in the account: "none", "booting", "active" or "dying"
    phase,       \* of the run: "launch", "wait", "clean", "boot", "verify",
                 \* "up", "teardown", "over", or "none": it has no pool here
    slot, region,
    handle,      \* the instances the handle of acquire names, or none
    reason,      \* what the exception to raise after "clean" is
    strays,      \* history: of what exists, the instances acquire went on without,
                 \* as a request about them raised, or an answer called them gone
    batch,       \* the ids an actor's _terminate is called with
    at,          \* where it is: "idle", "post", "list" or "last" (the final list)
    tries,
    released     \* history: of what exists, the instances some _terminate returned
                 \* for, not by a "not found" or an empty list while they lived

acquiring == <<phase, slot, region, handle, reason, strays>>
deleting  == <<batch, at, tries, released>>
vars      == <<insts, phase, slot, region, handle, reason, strays,
               batch, at, tries, released>>

Here(s)  == <<s, region>>
Exists(i) == insts[i] # "none"
Lives(i)  == insts[i] \in {"booting", "active"}

InitAt(ph) ==
    /\ insts = [i \in Inst |-> "none"]
    /\ phase = ph /\ slot = 1 /\ region = 1
    /\ handle = {} /\ reason = "none" /\ strays = {}
    /\ batch = [a \in Actors |-> {}]
    /\ at = [a \in Actors |-> "idle"]
    /\ tries = [a \in Actors |-> 0]
    /\ released = {}

Init == InitAt("launch")

\* _terminate(ids) begins.
Call(a, ids) ==
    /\ batch' = [batch EXCEPT ![a] = ids]
    /\ at' = [at EXCEPT ![a] = "post"]
    /\ tries' = [tries EXCEPT ![a] = 0]
    /\ UNCHANGED released

\* It ends.
Leave(a) ==
    /\ batch' = [batch EXCEPT ![a] = {}]
    /\ at' = [at EXCEPT ![a] = "idle"]
    /\ tries' = [tries EXCEPT ![a] = 0]

-----------------------------------------------------------------------------
(* acquire. *)

\* acquire goes on to the next region, without what it has launched in this one.
NextRegion(left) ==
    /\ region < Regions
    /\ phase' = "launch" /\ slot' = 1 /\ region' = region + 1
    /\ strays' = strays \cup {i \in left : Exists(i)}
    /\ reason' = "none"
    /\ UNCHANGED handle

\* The exception leaves acquire, bootstrap or verify, and the engine tears down
\* the handle it has; on capacity-out, acquire goes on to the next region.
Raise(why) ==
    \/ /\ why = "capacity"
       /\ NextRegion({Here(slot)})
       /\ UNCHANGED deleting
    \/ /\ ~(why = "capacity" /\ region < Regions)
       /\ reason' = "none"
       /\ UNCHANGED <<slot, region, handle, strays>>
       /\ IF handle = {}
            THEN phase' = "over" /\ UNCHANGED deleting
            ELSE phase' = "teardown" /\ Call("run", handle)

\* Mutant: the sibling's failure leaves acquire without a look at the head.
LaunchRaisesAtOnce(why) == Raise(why)

\* _launch raises: for the sibling, the head is terminated first.
LaunchRaises(why) ==
    \/ slot = 1 /\ Raise(why)
    \/ /\ slot = 2
       /\ phase' = "clean" /\ reason' = why
       /\ Call("run", {Here(1)})
       /\ UNCHANGED <<slot, region, handle, strays>>

Launch ==
    /\ phase = "launch"
    /\ insts' = [insts EXCEPT ![Here(slot)] = "booting"]
    /\ phase' = "wait"
    /\ UNCHANGED <<slot, region, handle, reason, strays, deleting>>

LaunchFails ==
    /\ phase = "launch"
    /\ \/ UNCHANGED insts /\ \E why \in {"capacity", "error"} : LaunchRaises(why)
       \/ /\ Lossy
          /\ insts' = [insts EXCEPT ![Here(slot)] = "booting"]
          /\ LaunchRaises("error")

\* The instance is active and has its address; after the last one acquire returns
\* its handle.
WaitOver ==
    /\ phase = "wait" /\ insts[Here(slot)] = "active"
    /\ IF slot < Slots
         THEN phase' = "launch" /\ slot' = slot + 1 /\ UNCHANGED handle
         ELSE phase' = "boot" /\ handle' = {Here(s) : s \in 1 .. Slots} /\ UNCHANGED slot
    /\ UNCHANGED <<insts, region, reason, strays, deleting>>

\* It never becomes active; or asking for it raises, a CapacityError too if that
\* is what the answer speaks of.
WaitFails ==
    /\ phase = "wait"
    /\ UNCHANGED insts
    /\ \/ insts[Here(slot)] # "active" /\ LaunchRaises("error")
       \/ Lossy /\ \E why \in {"capacity", "error"} : LaunchRaises(why)

\* The clean-up has returned: the first exception is raised again.
Cleaned ==
    /\ phase = "clean" /\ at["run"] = "idle"
    /\ UNCHANGED insts
    /\ Raise(reason)

-----------------------------------------------------------------------------
(* bootstrap and verify. *)

\* The script is pushed, to the sibling first.
Boot ==
    /\ phase = "boot" /\ \A i \in handle : Lives(i)
    /\ phase' = "verify"
    /\ UNCHANGED <<insts, slot, region, handle, reason, strays, deleting>>

\* verify asks for the head alone.
Verified ==
    /\ phase = "verify" /\ insts[Here(1)] = "active"
    /\ phase' = "up"
    /\ UNCHANGED <<insts, slot, region, handle, reason, strays, deleting>>

\* No ssh, a failed copy, an instance that is not active; or `down`, later on.
BringDown ==
    /\ phase \in {"boot", "verify", "up"}
    /\ UNCHANGED insts
    /\ Raise("error")

\* The process is killed, and with it what acquire had not returned.
Kill ==
    /\ phase \notin {"none", "up", "over"}
    /\ phase' = "over"
    /\ Leave("run")
    /\ reason' = "none"
    /\ UNCHANGED <<insts, slot, region, handle, strays, released>>

-----------------------------------------------------------------------------
(* _terminate, for teardown, reap and the clean-up of acquire. *)

TornDown ==
    /\ phase = "teardown" /\ at["run"] = "idle"
    /\ phase' = "over"
    /\ UNCHANGED <<insts, slot, region, handle, reason, strays, deleting>>

\* Mutant: reap works from the record of the run.
ReapRecorded ==
    /\ at["reap"] = "idle"
    /\ LET ids == handle
       IN  ids # {} /\ Call("reap", ids)
    /\ UNCHANGED <<insts, acquiring>>

\* reap terminates everything it finds under the run's name as one batch.
Reap ==
    /\ at["reap"] = "idle"
    /\ LET ids == {i \in Inst : Exists(i)}
       IN  ids # {} /\ Call("reap", ids)
    /\ UNCHANGED <<insts, acquiring>>

\* _terminate returns, for what was terminated or is not listed.
Return(a) ==
    /\ Leave(a)
    /\ released' = released \cup {i \in batch[a] : Exists(i)'}
    /\ UNCHANGED acquiring

\* _terminate returns, whatever lives of what it was called with.
ReturnMisled(a) ==
    /\ Leave(a)
    /\ released' = released \cup {i \in batch[a] : insts[i] = "dying"}
    /\ strays' = IF a = "run" /\ phase = "clean"
                   THEN strays \cup {i \in batch[a] : Lives(i)} ELSE strays
    /\ UNCHANGED <<insts, phase, slot, region, handle, reason>>

\* _terminate raises.  Out of the clean-up the new exception replaces the first,
\* and acquire may go on for it; teardown is caught by the engine; a reap is over.
Raises(a, why) ==
    /\ Leave(a)
    /\ UNCHANGED <<insts, released>>
    /\ LET cleaning == a = "run" /\ phase = "clean"
       IN  \/ cleaning /\ why = "capacity" /\ NextRegion({Here(s) : s \in 1 .. Slots})
           \/ /\ ~(cleaning /\ why = "capacity" /\ region < Regions)
              /\ IF cleaning THEN phase' = "over" /\ reason' = "none"
                             ELSE UNCHANGED <<phase, reason>>
              /\ UNCHANGED <<slot, region, handle, strays>>

Goto(a, p) ==
    /\ at' = [at EXCEPT ![a] = p]
    /\ UNCHANGED <<batch, released, acquiring>>

\* Mutant: the rounds are not counted down.
AgainForever(a) ==
    /\ tries' = [tries EXCEPT ![a] = @ + 1]
    /\ Goto(a, "post")

\* The next round, or the final list.
Again(a) ==
    /\ tries' = [tries EXCEPT ![a] = @ + 1]
    /\ Goto(a, IF tries[a] + 1 < Tries THEN "post" ELSE "last")

Doomed(ids) == [i \in Inst |-> IF i \in ids /\ Exists(i) THEN "dying" ELSE insts[i]]

\* The provider knows an id of the batch, and that is enough for it.
Terminate(a) ==
    /\ at[a] = "post"
    /\ \E i \in batch[a] : Exists(i)
    /\ insts' = Doomed(batch[a])
    /\ Return(a)

\* It does not know an id of the batch, and rejects the whole: "already gone".
NotFound(a) ==
    /\ at[a] = "post"
    /\ \E i \in batch[a] : ~Exists(i)
    /\ ReturnMisled(a)

\* A 500, as while an instance boots or dies, goes straight to the next round.
ServerError(a) ==
    /\ at[a] = "post"
    /\ \/ Lossy /\ insts' \in {insts, Doomed(batch[a])}
       \/ UNCHANGED insts /\ \E i \in batch[a] : insts[i] \in {"booting", "dying"}
    /\ Again(a)

\* Any other error, perhaps of a request that was carried out, looks at the list.
TerminateFails(a) ==
    /\ Lossy /\ at[a] = "post"
    /\ insts' \in {insts, Doomed(batch[a])}
    /\ UNCHANGED tries
    /\ Goto(a, "list")

Gone(a) == \A i \in batch[a] : ~Exists(i)

\* Mutant: after the last round there is no look at what is left.
ListTrusting(a) ==
    \/ /\ at[a] \in {"list", "last"}
       /\ at[a] = "last" \/ Gone(a)
       /\ UNCHANGED insts
       /\ Return(a)
    \/ /\ at[a] = "list" /\ ~Gone(a)
       /\ UNCHANGED insts
       /\ Again(a)

List(a) ==
    \/ /\ at[a] \in {"list", "last"} /\ Gone(a)
       /\ UNCHANGED insts
       /\ Return(a)
    \/ /\ at[a] = "list" /\ ~Gone(a)
       /\ UNCHANGED insts
       /\ Again(a)
    \/ /\ at[a] = "last" /\ ~Gone(a)
       /\ Raises(a, "error")

\* A 200 whose body is lost reads as a list of nothing, and so as "gone".
ListEmpty(a) ==
    /\ Lossy /\ at[a] \in {"list", "last"}
    /\ ReturnMisled(a)

\* Listing raises.
ListFails(a) ==
    /\ Lossy /\ at[a] \in {"list", "last"}
    /\ \E why \in {"capacity", "error"} : Raises(a, why)

-----------------------------------------------------------------------------
(* The account. *)

Boots ==
    /\ \E i \in Inst : insts[i] = "booting" /\ insts' = [insts EXCEPT ![i] = "active"]
    /\ UNCHANGED <<acquiring, deleting>>

\* An instance comes from a state to its end, and leaves the histories.
Ends(from) ==
    /\ \E i \in Inst :
         /\ insts[i] = from /\ insts' = [insts EXCEPT ![i] = "none"]
         /\ strays' = strays \ {i} /\ released' = released \ {i}
    /\ UNCHANGED <<phase, slot, region, handle, reason, batch, at, tries>>

Dies   == Ends("dying")
Vanish == Ends("active")   \* lost to something outside: the console, another tool

Run == Launch \/ LaunchFails \/ WaitOver \/ WaitFails \/ Cleaned \/ Boot \/ Verified \/ TornDown
Loop(a) ==
    \/ Terminate(a) \/ NotFound(a) \/ ServerError(a) \/ TerminateFails(a)
    \/ List(a) \/ ListEmpty(a) \/ ListFails(a)

Next == Run \/ BringDown \/ Kill \/ Reap \/ Boots \/ Dies \/ Vanish \/ \E a \in Actors : Loop(a)

\* Somebody sweeps again and again; a sweep goes on, and so every request of it
\* returns, which the code does not see to, for its curl has no timeout; the API is
\* not down for ever; and what is dying dies.  The run may stop anywhere.
Fairness == SF_vars(Reap) /\ WF_vars(Loop("reap")) /\ SF_vars(Terminate("reap")) /\ WF_vars(Dies)

Spec     == Init /\ [][Next]_vars
FairSpec == Spec /\ Fairness

-----------------------------------------------------------------------------
(* Properties. *)

TypeOK ==
    /\ insts \in [Inst -> {"none", "booting", "active", "dying"}]
    /\ phase \in {"none", "launch", "wait", "clean", "boot", "verify", "up", "teardown", "over"}
    /\ slot \in 1 .. Slots /\ region \in 1 .. Regions
    /\ handle \subseteq Inst
    /\ reason \in {"none", "capacity", "error"}
    /\ strays \subseteq Inst
    /\ batch \in [Actors -> SUBSET Inst]
    /\ at \in [Actors -> {"idle", "post", "list", "last"}]
    /\ tries \in [Actors -> 0 .. Tries]
    /\ released \subseteq Inst

\* When _terminate returns, what it was called with is gone or on its way, and
\* stays so: the engine marks resources as torn down, and reap reports them killed,
\* on the strength of that.  Only two answers can make it return for an instance
\* that lives, a "not found" and an empty list, and no loss, kill or race adds one.
ReturnedMeansGone == \A i \in released : ~Lives(i)

\* However the run ended, and whatever its file says, repeated sweeps empty the
\* account.
SweptClean == phase = "over" ~> \A i \in Inst : ~Exists(i)

\* The adapter keeps the promise of the interface: through all the regions it
\* tries, and the half-built heads it gives up, acquire returns a handle that
\* covers every instance that lives, but for the strays.
P == INSTANCE Provider WITH
       insts <- {i \in Inst : Lives(i)} \ strays,
       covered <- handle,
       outcome <- IF handle # {} THEN "returned"
                  ELSE IF phase \in {"none", "launch", "wait", "clean"} THEN "pending" ELSE "raised"

KeepsThePromise == P!Spec

-----------------------------------------------------------------------------
(* What the code's comments say without those exceptions, and does not hold. *)

\* "Treat already gone as success": what is taken for gone is gone.
TakenIsGone == [][\A a \in Actors : NotFound(a) => \A i \in batch[a] : ~Lives(i)]_vars

\* The handle of acquire covers all that lives, always.
HandleCoversAll == phase = "boot" => \A i \in Inst : Lives(i) => i \in handle
=============================================================================
