------------------------------- MODULE RunPod -------------------------------
(***************************************************************************)
(* The RunPod adapter (src/orchestrator/adapters/runpod_gpu.py), call by   *)
(* call: acquire, bootstrap, verify and teardown of one pool in the        *)
(* process of the orchestrator, and reap in another process, which may run *)
(* at any time.  Every request is a curl whose answer may be               *)
(*   "ok"        what the API says                                         *)
(*   "unusable"  nothing, an error, or no JSON: _curl makes a dict of it   *)
(*   "raise"     no answer in time: subprocess raises                      *)
(* and a request whose answer is not "ok" may have been carried out.       *)
(***************************************************************************)
EXTENDS Naturals

CONSTANTS
    N,           \* the pods of the pool
    Roles,       \* whether a pool may be a router_head, or may not be one: a
                 \* head is one handle, whose sibling is pod 2
    Tries,       \* the rounds of _delete
    Faults,      \* the answers other than "ok" that may be met
    NoPod

Pod    == 1 .. N
Actors == {"run", "reap"}

VARIABLES
    head,      \* the role of the pool
    pods,      \* in the account: "none", "booting", "running", "kicked" (the
               \* bootstrap runs), "serving" or "dying"
    phase,     \* of the run: "create", "wait", "boot", "verify", "up",
               \* "teardown", "over", or "none": it has no pool here
    cur,       \* the pod that the run is at
    handles,   \* the pods that the handles of acquire name
    todo,      \* what an actor still has to delete
    target,    \* the pod that an actor's _delete is at
    asked,     \* whether it has sent the DELETE of this round
    tries,     \* its rounds so far
    killed,    \* what reap reports
    served     \* history: the pods that have served

acquiring == <<head, phase, cur, handles>>
deleting  == <<todo, target, asked, tries, killed>>
vars      == <<head, pods, phase, cur, handles, todo, target, asked, tries, killed, served>>

Exists(p) == pods[p] # "none"
Up(p)     == pods[p] \in {"running", "kicked", "serving"}

\* The pods that one teardown(handle) deletes.
Mates(p) == IF head THEN Pod ELSE {p}

InitAt(ph) ==
    /\ head \in Roles
    /\ pods = [p \in Pod |-> "none"]
    /\ phase = ph /\ cur = 1 /\ handles = {}
    /\ todo = [a \in Actors |-> {}]
    /\ target = [a \in Actors |-> NoPod]
    /\ asked = [a \in Actors |-> FALSE]
    /\ tries = [a \in Actors |-> 0]
    /\ killed = {} /\ served = {}

Init == InitAt("create")

-----------------------------------------------------------------------------
(* acquire. *)

Goto(ph, p) == phase' = ph /\ cur' = p

\* acquire, bootstrap or verify raises: the pool has failed, and the engine tears
\* down the handles it has, which are none before acquire has returned.
Fail ==
    /\ phase' = "teardown" /\ cur' = 1
    /\ todo' = [todo EXCEPT !["run"] = handles]
    /\ UNCHANGED <<head, handles, target, asked, tries, killed>>

\* All pods are created before the first is waited for.
CreatePod ==
    /\ phase = "create"
    /\ pods' = [pods EXCEPT ![cur] = "booting"]
    /\ IF cur = N THEN Goto("wait", 1) ELSE Goto("create", cur + 1)
    /\ UNCHANGED <<head, handles, deleting>>

\* Capacity-out, or no id in the answer: the pod may exist.
CreateFails ==
    /\ phase = "create"
    /\ \/ UNCHANGED pods
       \/ Faults # {} /\ pods' = [pods EXCEPT ![cur] = "booting"]
    /\ Fail

\* What the handles of acquire name.
Handled == Pod

\* The pod is RUNNING and its ports are mapped; after the last one the handles
\* are returned.  bootstrap begins with the sibling of a head.
WaitOver ==
    /\ phase = "wait" /\ Up(cur)
    /\ IF cur < N
         THEN Goto("wait", cur + 1) /\ UNCHANGED handles
         ELSE Goto("boot", IF head THEN 2 ELSE 1) /\ handles' = Handled
    /\ UNCHANGED <<head, pods, deleting>>

WaitFails ==
    /\ phase = "wait"
    /\ Up(cur) => Faults # {}
    /\ UNCHANGED pods
    /\ Fail

-----------------------------------------------------------------------------
(* bootstrap and verify. *)

\* _boot_pod, once ssh answers.  Whether the push arrived is not looked at.
BootPod ==
    /\ phase = "boot" /\ Up(cur)
    /\ \/ pods' = [pods EXCEPT ![cur] = IF @ = "running" THEN "kicked" ELSE @]
       \/ UNCHANGED pods
    /\ IF head /\ cur = 2 THEN Goto("boot", 1) ELSE Goto("verify", cur)
    /\ UNCHANGED <<head, handles, deleting>>

\* ssh never comes up.
BootFails ==
    /\ phase = "boot"
    /\ UNCHANGED pods
    /\ Fail

\* Mutant: __stats is there, whoever is in it.
SeesRouter(p) == Up(p)

\* __stats lists the node of this pod as eligible; a worker_only pod answers 200
\* to its secret.
SeesNode(p) == pods[p] = "serving"

Verified ==
    /\ phase = "verify" /\ SeesNode(cur)
    /\ IF cur < N /\ ~head THEN Goto("boot", cur + 1) ELSE Goto("up", 1)
    /\ UNCHANGED <<head, pods, handles, deleting>>

VerifyFails ==
    /\ phase = "verify"
    /\ UNCHANGED pods
    /\ Fail

\* The process is killed, and with it what acquire had not returned.
Kill ==
    /\ phase \notin {"none", "up", "over"}
    /\ phase' = "over" /\ cur' = 1
    /\ todo' = [todo EXCEPT !["run"] = {}]
    /\ target' = [target EXCEPT !["run"] = NoPod]
    /\ asked' = [asked EXCEPT !["run"] = FALSE]
    /\ tries' = [tries EXCEPT !["run"] = 0]
    /\ UNCHANGED <<head, pods, handles, killed>>

-----------------------------------------------------------------------------
(* teardown, reap, and the _delete of both. *)

Down ==
    /\ phase = "up"
    /\ UNCHANGED pods
    /\ Fail

\* Every handle has been tried.
TornDown ==
    /\ phase = "teardown"
    /\ todo["run"] = {} /\ target["run"] = NoPod
    /\ phase' = "over"
    /\ UNCHANGED <<head, pods, cur, handles, deleting>>

\* The list of a reap.  An answer that is no list is taken for an empty one, and
\* an exception ends the reap of this provider: either way there is nothing to do.
Reap ==
    /\ todo["reap"] = {} /\ target["reap"] = NoPod
    /\ todo' = [todo EXCEPT !["reap"] = {p \in Pod : Exists(p)}]
    /\ killed' = {}
    /\ UNCHANGED <<pods, acquiring, target, asked, tries>>

ReapSeesNothing ==
    /\ Faults # {}
    /\ todo["reap"] = {} /\ target["reap"] = NoPod
    /\ killed' = {}
    /\ UNCHANGED <<pods, acquiring, todo, target, asked, tries>>

\* _delete of the next pod.
Take(a) ==
    /\ target[a] = NoPod
    /\ \E p \in todo[a] :
         /\ todo' = [todo EXCEPT ![a] = @ \ {p}]
         /\ target' = [target EXCEPT ![a] = p]
    /\ UNCHANGED <<pods, acquiring, asked, tries, killed>>

\* _delete is over, and what it knew with it.
Leave(a) ==
    /\ target' = [target EXCEPT ![a] = NoPod]
    /\ asked' = [asked EXCEPT ![a] = FALSE]
    /\ tries' = [tries EXCEPT ![a] = 0]

\* The exception leaves _delete: a reap is over, a teardown goes on with the next
\* handle.
Raises(a) ==
    /\ "raise" \in Faults
    /\ todo' = [todo EXCEPT ![a] = IF a = "reap" THEN {} ELSE @ \ Mates(target[a])]
    /\ Leave(a)
    /\ UNCHANGED <<acquiring, killed>>

Dying(p) == [pods EXCEPT ![p] = IF @ = "none" THEN @ ELSE "dying"]

\* DELETE /pods/<id>; its answer is not looked at.
Delete(a) ==
    /\ target[a] # NoPod /\ ~asked[a]
    /\ pods' = Dying(target[a])
    /\ asked' = [asked EXCEPT ![a] = TRUE]
    /\ UNCHANGED <<acquiring, todo, target, tries, killed>>

DeleteFails(a) ==
    /\ Faults # {}
    /\ target[a] # NoPod /\ ~asked[a]
    /\ \/ /\ UNCHANGED pods
          /\ asked' = [asked EXCEPT ![a] = TRUE]
          /\ UNCHANGED <<acquiring, todo, target, tries, killed>>
       \/ /\ pods' \in {pods, Dying(target[a])}
          /\ Raises(a)

\* _delete returns; only reap looks at what.
Deleted(a, gone) ==
    /\ Leave(a)
    /\ killed' = IF a = "reap" /\ gone THEN killed \cup {target[a]} ELSE killed
    /\ UNCHANGED <<pods, acquiring, todo>>

\* What the GET after a DELETE shows of a pod.
SeesGone(p) == ~Exists(p)

Confirm(a) ==
    /\ target[a] # NoPod /\ asked[a]
    /\ \/ /\ SeesGone(target[a])
          /\ Deleted(a, TRUE)
       \/ /\ ~SeesGone(target[a])
          /\ tries[a] + 1 = Tries
          /\ Deleted(a, FALSE)
       \/ /\ ~SeesGone(target[a])
          /\ tries[a] + 1 < Tries
          /\ tries' = [tries EXCEPT ![a] = @ + 1]
          /\ asked' = [asked EXCEPT ![a] = FALSE]
          /\ UNCHANGED <<pods, acquiring, todo, target, killed>>

\* An answer without the id of the pod says that the pod is gone.
ConfirmFails(a) ==
    /\ target[a] # NoPod /\ asked[a]
    /\ \/ "unusable" \in Faults /\ Deleted(a, TRUE)
       \/ UNCHANGED pods /\ Raises(a)

-----------------------------------------------------------------------------
(* The pods. *)

Becomes(p, from, to) ==
    /\ pods[p] = from /\ pods' = [pods EXCEPT ![p] = to]
    /\ served' = IF to = "serving" THEN served \cup {p} ELSE served
    /\ UNCHANGED <<acquiring, deleting>>

Boots(p)  == Becomes(p, "booting", "running")
Serves(p) == Becomes(p, "kicked", "serving")
Dies(p)   == Becomes(p, "dying", "none")

\* Its processes die, or it is not heard of for a while.
Stops(p) == Becomes(p, "serving", "running") \/ Becomes(p, "serving", "kicked")

Account == \E p \in Pod : Boots(p) \/ Serves(p) \/ Stops(p) \/ Dies(p)

Run    == \/ CreatePod \/ CreateFails \/ WaitOver \/ WaitFails \/ BootPod \/ BootFails
          \/ Verified \/ VerifyFails \/ TornDown
Loop(a) == Take(a) \/ Delete(a) \/ DeleteFails(a) \/ Confirm(a) \/ ConfirmFails(a)

Next ==
    \/ /\ Run \/ Down \/ Kill \/ Reap \/ ReapSeesNothing \/ \E a \in Actors : Loop(a)
       /\ UNCHANGED served
    \/ Account

\* Somebody sweeps again and again; a sweep goes on, its requests having a timeout;
\* the API is not down for ever; and what is dying dies.  The run may stop anywhere.
Sweeping == Loop("reap") /\ UNCHANGED served

Fairness ==
    /\ SF_vars(Reap /\ UNCHANGED served) /\ WF_vars(Sweeping)
    /\ SF_vars(Delete("reap") /\ UNCHANGED served) /\ WF_vars(\E p \in Pod : Dies(p))

Spec     == Init /\ [][Next]_vars
FairSpec == Spec /\ Fairness

-----------------------------------------------------------------------------
(* Properties. *)

TypeOK ==
    /\ head \in Roles
    /\ pods \in [Pod -> {"none", "booting", "running", "kicked", "serving", "dying"}]
    /\ phase \in {"none", "create", "wait", "boot", "verify", "up", "teardown", "over"}
    /\ cur \in Pod /\ handles \subseteq Pod
    /\ todo \in [Actors -> SUBSET Pod]
    /\ target \in [Actors -> Pod \cup {NoPod}]
    /\ asked \in [Actors -> BOOLEAN]
    /\ tries \in [Actors -> 0 .. Tries - 1]
    /\ killed \subseteq Pod /\ served \subseteq Pod

\* Every router of a pool that came up has served since it was created: a bootstrap
\* that was never heard is not mistaken for one that ran.
UpServes == phase = "up" => (IF head THEN {1} ELSE Pod) \subseteq served

\* What reap reports as killed no longer exists.
ReapIsHonest == \A p \in killed : ~Exists(p)

\* However the run ended, and whatever its file says, repeated sweeps empty the
\* account.
SweptClean == phase = "over" ~> \A p \in Pod : ~Exists(p)

\* The adapter keeps the promise of the interface.
P == INSTANCE Provider WITH
       Inst <- Pod,
       insts <- {p \in Pod : Exists(p)},
       covered <- handles,
       outcome <- IF handles # {} THEN "returned"
                  ELSE IF phase \in {"none", "create", "wait"} THEN "pending" ELSE "raised"

KeepsThePromise == P!Spec
=============================================================================
