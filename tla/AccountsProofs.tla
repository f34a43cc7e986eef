--------------------------- MODULE AccountsProofs ---------------------------
(***************************************************************************)
(* Proofs about the three that create and destroy instances, as MCAccounts *)
(* puts them side by side: the RunPod adapter, the dead man, and, from     *)
(* LambdaProofs, the Lambda adapter.  For any number of pods, instances,   *)
(* regions and rounds, whatever fails: first what their logs and reports   *)
(* are worth, then what they are worth once some failure is left out.      *)
(***************************************************************************)
EXTENDS MCAccounts, LambdaProofs, FiniteSetTheorems, TLAPS

-----------------------------------------------------------------------------
(* RunPod: the inductive invariant. *)

\* acquire creates each pod once, and returns handles of all of them or of none.
PodsAcquired ==
    /\ rphase = "create" => \A p \in R!Pod : cur <= p => pods[p] = "none"
    /\ rphase \in {"none", "create", "wait"} => handles = {}
    /\ rphase \in {"boot", "verify", "up"} => handles = R!Pod
    /\ handles \in {{}, R!Pod}

\* The pods behind the run have been verified, and so have served; of a head, only
\* the head is verified.
PodsVerified ==
    /\ \A p \in R!Pod : pods[p] = "serving" => p \in served
    /\ rphase \in {"boot", "verify"} /\ ~head => \A p \in R!Pod : p < cur => p \in served
    /\ rphase = "verify" /\ head => cur = 1
    /\ UpServes

PodsInv == R!TypeOK /\ PodsAcquired /\ PodsVerified

LEMMA PodsConstants ==
    /\ 1 \in R!Pod /\ N \in R!Pod /\ R!Pod \subseteq Nat /\ 0 \in 0 .. Tries - 1
           /\ \A h \in Roles : h \in BOOLEAN /\ (h => 2 \in R!Pod /\ R!Pod = {1, 2})
           /\ "run" \in R!Actors /\ "reap" \in R!Actors
<1>1. 1 \in R!Pod /\ N \in R!Pod /\ R!Pod \subseteq Nat /\ 0 \in 0 .. Tries - 1
  BY AccountsAssumption, LambdaAssumption DEF R!Pod
<1>2. TRUE \in Roles => 2 \in R!Pod /\ R!Pod = {1, 2}
  BY AccountsAssumption, LambdaAssumption DEF R!Pod
<1> QED
  BY <1>1, <1>2, AccountsAssumption, LambdaAssumption DEF R!Actors

-----------------------------------------------------------------------------
(* The types. *)

PodsDeletingTypes ==
    /\ todo \in [R!Actors -> SUBSET R!Pod]
    /\ target \in [R!Actors -> R!Pod \cup {NoPod}]
    /\ asked \in [R!Actors -> BOOLEAN]
    /\ rtries \in [R!Actors -> 0 .. Tries - 1]
    /\ killed \subseteq R!Pod /\ served \subseteq R!Pod

PodsAcquiringTypes ==
    /\ head \in Roles
    /\ rphase \in {"none", "create", "wait", "boot", "verify", "up", "teardown", "over"}
    /\ cur \in R!Pod /\ handles \subseteq R!Pod

PodsTypes == pods \in [R!Pod -> {"none", "booting", "running", "kicked", "serving", "dying"}]

LEMMA PodsTypesSplit ==
    /\ R!TypeOK <=> PodsAcquiringTypes /\ PodsTypes /\ PodsDeletingTypes
    /\ R!TypeOK' <=> PodsAcquiringTypes' /\ PodsTypes' /\ PodsDeletingTypes'
BY DEF R!TypeOK, PodsAcquiringTypes, PodsTypes, PodsDeletingTypes

LEMMA PodsFailTypes ==
    ASSUME R!TypeOK, R!Fail, UNCHANGED served
    PROVE  PodsAcquiringTypes' /\ PodsDeletingTypes'
BY PodsConstants DEF R!TypeOK, R!Fail, PodsAcquiringTypes, PodsDeletingTypes

LEMMA PodsRunTypes ==
    ASSUME R!TypeOK, R!Run \/ R!Down \/ R!Kill, UNCHANGED served
    PROVE  R!TypeOK'
<1>1. CASE R!CreatePod
  <2>1. PodsAcquiringTypes'
    <3>1. cur # N => cur + 1 \in R!Pod
      BY <1>1, AccountsAssumption, LambdaAssumption DEF R!TypeOK, R!Pod
    <3> QED
      BY <1>1, <3>1, PodsConstants DEF R!CreatePod, R!Goto, R!TypeOK, PodsAcquiringTypes
  <2>2. PodsTypes' /\ PodsDeletingTypes'
    BY <1>1 DEF R!CreatePod, R!deleting, R!TypeOK, PodsTypes, PodsDeletingTypes
  <2> QED
    BY <2>1, <2>2, PodsTypesSplit
<1>2. CASE R!CreateFails
  <2>1. PodsTypes'
    BY <1>2 DEF R!CreateFails, R!TypeOK, PodsTypes
  <2> QED
    BY <1>2, <2>1, PodsFailTypes, PodsTypesSplit DEF R!CreateFails
<1>3. CASE R!WaitOver
  <2>1. cur < N => cur + 1 \in R!Pod
    BY <1>3, AccountsAssumption, LambdaAssumption DEF R!TypeOK, R!Pod
  <2>2. PodsAcquiringTypes'
    BY <1>3, <2>1, PodsConstants DEF R!WaitOver, R!Goto, R!Handled, R!TypeOK, PodsAcquiringTypes
  <2>3. PodsTypes' /\ PodsDeletingTypes'
    BY <1>3 DEF R!WaitOver, R!deleting, R!TypeOK, PodsTypes, PodsDeletingTypes
  <2> QED
    BY <2>2, <2>3, PodsTypesSplit
<1>4. CASE R!WaitFails \/ R!BootFails \/ R!VerifyFails \/ R!Down
  <2>1. R!Fail /\ UNCHANGED pods
    BY <1>4 DEF R!WaitFails, R!BootFails, R!VerifyFails, R!Down
  <2> QED
    BY <2>1, PodsFailTypes, PodsTypesSplit DEF PodsTypes
<1>5. CASE R!BootPod
  <2>1. PodsAcquiringTypes'
    BY <1>5, PodsConstants DEF R!BootPod, R!Goto, R!TypeOK, PodsAcquiringTypes
  <2>2. PodsTypes' /\ PodsDeletingTypes'
    BY <1>5 DEF R!BootPod, R!deleting, R!TypeOK, PodsTypes, PodsDeletingTypes
  <2> QED
    BY <2>1, <2>2, PodsTypesSplit
<1>6. CASE R!Verified
  <2>1. cur < N => cur + 1 \in R!Pod
    BY <1>6, AccountsAssumption, LambdaAssumption DEF R!TypeOK, R!Pod
  <2>2. PodsAcquiringTypes'
    BY <1>6, <2>1, PodsConstants DEF R!Verified, R!Goto, R!TypeOK, PodsAcquiringTypes
  <2>3. PodsTypes' /\ PodsDeletingTypes'
    BY <1>6 DEF R!Verified, R!deleting, R!TypeOK, PodsTypes, PodsDeletingTypes
  <2> QED
    BY <2>2, <2>3, PodsTypesSplit
<1>7. CASE R!Kill
  BY <1>7, PodsConstants DEF R!Kill, R!TypeOK
<1>8. CASE R!TornDown
  BY <1>8 DEF R!TornDown, R!deleting, R!TypeOK
<1> QED
  BY <1>1, <1>2, <1>3, <1>4, <1>5, <1>6, <1>7, <1>8 DEF R!Run

LEMMA PodsRaisesTypes ==
    ASSUME R!TypeOK, NEW a \in R!Actors, R!Raises(a), UNCHANGED served
    PROVE  PodsAcquiringTypes' /\ PodsDeletingTypes'
BY PodsConstants DEF R!TypeOK, R!Raises, R!Leave, R!acquiring, PodsAcquiringTypes, PodsDeletingTypes

LEMMA PodsDyingTypes ==
    ASSUME R!TypeOK, NEW p
    PROVE  R!Dying(p) \in [R!Pod -> {"none", "booting", "running", "kicked", "serving", "dying"}]
BY DEF R!TypeOK, R!Dying

LEMMA PodsLoopTypes ==
    ASSUME R!TypeOK, NEW a \in R!Actors, R!Loop(a), UNCHANGED served
    PROVE  R!TypeOK'
<1>1. CASE R!Take(a)
  BY <1>1, PodsConstants DEF R!Take, R!acquiring, R!TypeOK
<1>2. CASE R!Delete(a)
  <2>1. PodsTypes'
    BY <1>2, PodsDyingTypes DEF R!Delete, PodsTypes
  <2>2. PodsAcquiringTypes' /\ PodsDeletingTypes'
    BY <1>2 DEF R!Delete, R!acquiring, R!TypeOK, PodsAcquiringTypes, PodsDeletingTypes
  <2> QED
    BY <2>1, <2>2, PodsTypesSplit
<1>3. CASE R!DeleteFails(a)
  <2>1. PodsTypes'
    BY <1>3, PodsDyingTypes DEF R!DeleteFails, PodsTypes, R!TypeOK
  <2>2. PodsAcquiringTypes' /\ PodsDeletingTypes'
    <3>1. CASE R!Raises(a)
      BY <3>1, PodsRaisesTypes
    <3>2. CASE asked' = [asked EXCEPT ![a] = TRUE] /\ UNCHANGED <<R!acquiring, todo, target, rtries, killed>>
      BY <3>2 DEF R!acquiring, R!TypeOK, PodsAcquiringTypes, PodsDeletingTypes
    <3> QED
      BY <1>3, <3>1, <3>2 DEF R!DeleteFails
  <2> QED
    BY <2>1, <2>2, PodsTypesSplit
<1>4. ASSUME NEW gone \in BOOLEAN, R!Deleted(a, gone), target[a] # NoPod PROVE R!TypeOK'
  BY <1>4, PodsConstants DEF R!Deleted, R!Leave, R!acquiring, R!TypeOK
<1>5. CASE R!Confirm(a)
  <2>1. CASE /\ rtries[a] + 1 < Tries
             /\ rtries' = [rtries EXCEPT ![a] = @ + 1]
             /\ asked' = [asked EXCEPT ![a] = FALSE]
             /\ UNCHANGED <<pods, R!acquiring, todo, target, killed>>
    <3>1. rtries[a] + 1 \in 0 .. Tries - 1
      BY <2>1, AccountsAssumption, LambdaAssumption DEF R!TypeOK
    <3> QED
      BY <2>1, <3>1 DEF R!acquiring, R!TypeOK
  <2> QED
    BY <1>4, <1>5, <2>1 DEF R!Confirm
<1>6. CASE R!ConfirmFails(a)
  <2>1. CASE UNCHANGED pods /\ R!Raises(a)
    BY <2>1, PodsRaisesTypes, PodsTypesSplit DEF PodsTypes
  <2> QED
    BY <1>4, <1>6, <2>1 DEF R!ConfirmFails
<1> QED
  BY <1>1, <1>2, <1>3, <1>5, <1>6 DEF R!Loop

LEMMA PodsNextTypes ==
    ASSUME R!TypeOK, [R!Next]_R!vars
    PROVE  R!TypeOK'
<1>1. CASE (R!Reap \/ R!ReapSeesNothing) /\ UNCHANGED served
  <2>1. /\ \E S \in SUBSET R!Pod : todo' = [todo EXCEPT !["reap"] = S]
        /\ killed' = {} /\ UNCHANGED <<pods, R!acquiring, target, asked, rtries>>
    <3>1. CASE R!Reap
      <4> DEFINE S == {p \in R!Pod : R!Exists(p)}
      <4>1. S \in SUBSET R!Pod
        OBVIOUS
      <4> QED
        BY <3>1, <4>1 DEF R!Reap
    <3>2. CASE R!ReapSeesNothing
      <4>1. todo' = [todo EXCEPT !["reap"] = todo["reap"]] /\ todo["reap"] \in SUBSET R!Pod
        BY <3>2, PodsConstants DEF R!ReapSeesNothing, R!TypeOK
      <4> QED
        BY <3>2, <4>1 DEF R!ReapSeesNothing
    <3> QED
      BY <1>1, <3>1, <3>2
  <2> QED
    BY <1>1, <2>1, PodsConstants DEF R!acquiring, R!TypeOK
<1>2. CASE R!Account
  <2>1. PICK p \in R!Pod,
            from, to \in {"none", "booting", "running", "kicked", "serving", "dying"} :
            R!Becomes(p, from, to)
    BY <1>2 DEF R!Account, R!Boots, R!Serves, R!Stops, R!Dies
  <2>2. PodsTypes' /\ served' \subseteq R!Pod
    BY <2>1 DEF R!Becomes, R!TypeOK, PodsTypes
  <2>3. PodsAcquiringTypes' /\ PodsDeletingTypes'
    BY <2>1, <2>2 DEF R!Becomes, R!acquiring, R!deleting, R!TypeOK, PodsAcquiringTypes, PodsDeletingTypes
  <2> QED
    BY <2>2, <2>3, PodsTypesSplit
<1>3. CASE UNCHANGED R!vars
  BY <1>3 DEF R!vars, R!TypeOK
<1> QED
  BY <1>1, <1>2, <1>3, PodsRunTypes, PodsLoopTypes DEF R!Next

-----------------------------------------------------------------------------
(* What the account, the sweeps and the deletions do to a pod: it boots, or *)
(* it goes; it never comes.                                                 *)

Ages(p) ==
    \/ pods'[p] = pods[p]
    \/ pods[p] # "none" /\ pods'[p] = "dying"
    \/ pods[p] = "booting" /\ pods'[p] = "running"
    \/ pods[p] = "kicked" /\ pods'[p] = "serving" /\ p \in served'
    \/ pods[p] = "serving" /\ pods'[p] \in {"running", "kicked"}
    \/ pods[p] = "dying" /\ pods'[p] = "none"

Outside ==
    \/ (R!Reap \/ R!ReapSeesNothing \/ \E a \in R!Actors : R!Loop(a)) /\ UNCHANGED served
    \/ R!Account
    \/ UNCHANGED R!vars

LEMMA OutsideAges ==
    ASSUME R!TypeOK, Outside
    PROVE  /\ UNCHANGED <<head, rphase, cur, handles>> /\ served \subseteq served'
           /\ \A p \in R!Pod : Ages(p)
<1>1. CASE ((R!Reap \/ R!ReapSeesNothing) /\ UNCHANGED served) \/ UNCHANGED R!vars
  BY <1>1 DEF R!Reap, R!ReapSeesNothing, R!acquiring, R!vars, Ages
<1>2. CASE R!Account
  BY <1>2 DEF R!Account, R!acquiring, R!Boots, R!Serves, R!Stops, R!Dies, R!Becomes, Ages, R!TypeOK
<1>3. CASE (\E a \in R!Actors : R!Loop(a)) /\ UNCHANGED served
  <2>1. PICK a \in R!Actors : R!Loop(a)
    BY <1>3
  <2>2. UNCHANGED <<head, rphase, cur, handles>> /\ (pods' = pods \/ pods' = R!Dying(target[a]))
    BY <2>1 DEF R!Loop, R!Take, R!Delete, R!DeleteFails, R!Confirm, R!ConfirmFails, R!Deleted, R!Raises, R!Leave, R!acquiring
  <2>3. \A p \in R!Pod : R!Dying(target[a])[p] = pods[p] \/ (pods[p] # "none" /\ R!Dying(target[a])[p] = "dying")
    BY DEF R!Dying, R!TypeOK
  <2> QED
    BY <1>3, <2>2, <2>3 DEF Ages
<1> QED
  BY <1>1, <1>2, <1>3 DEF Outside

LEMMA OutsideKeeps ==
    ASSUME PodsInv, Outside
    PROVE  PodsAcquired' /\ PodsVerified'
<1>1. /\ UNCHANGED <<head, rphase, cur, handles>> /\ served \subseteq served'
      /\ \A p \in R!Pod : Ages(p)
  BY OutsideAges DEF PodsInv
<1>2. PodsAcquired'
  BY <1>1 DEF PodsInv, PodsAcquired, Ages
<1>3. PodsVerified'
  BY <1>1 DEF PodsInv, PodsVerified, UpServes, R!UpServes, Ages
<1> QED
  BY <1>2, <1>3

LEMMA PodsRunKeeps ==
    ASSUME PodsInv, R!Run \/ R!Down \/ R!Kill, UNCHANGED served
    PROVE  PodsAcquired' /\ PodsVerified'
<1> USE DEF UpServes, R!UpServes
<1>0. /\ R!TypeOK /\ PodsAcquired /\ PodsVerified /\ head \in BOOLEAN /\ cur \in R!Pod /\ cur \in Nat
      /\ R!Pod \subseteq Nat /\ 1 \in R!Pod /\ (head => R!Pod = {1, 2})
  BY PodsConstants DEF PodsInv, R!TypeOK
<1>1. CASE R!CreatePod
  <2>1. UNCHANGED <<head, handles>> /\ pods' = [pods EXCEPT ![cur] = "booting"] /\ rphase = "create"
    BY <1>1 DEF R!CreatePod
  <2>2. (rphase' = "wait") \/ (rphase' = "create" /\ cur' = cur + 1)
    BY <1>1 DEF R!CreatePod, R!Goto
  <2> QED
    BY <1>0, <2>1, <2>2 DEF PodsAcquired, PodsVerified, R!TypeOK
<1>2. ASSUME R!Fail, \A p \in R!Pod : pods'[p] = pods[p] \/ pods'[p] # "serving"
      PROVE  PodsAcquired' /\ PodsVerified'
  BY <1>0, <1>2 DEF R!Fail, PodsAcquired, PodsVerified
<1>3. CASE R!CreateFails \/ R!WaitFails \/ R!BootFails \/ R!VerifyFails \/ R!Down
  BY <1>0, <1>2, <1>3 DEF R!CreateFails, R!WaitFails, R!BootFails, R!VerifyFails, R!Down, R!TypeOK
<1>4. CASE R!WaitOver
  <2>1. UNCHANGED <<head, pods>> /\ rphase = "wait"
    BY <1>4 DEF R!WaitOver
  <2>2. CASE rphase' = "wait" /\ handles' = handles
    BY <1>0, <2>1, <2>2 DEF PodsAcquired, PodsVerified
  <2>3. CASE rphase' = "boot" /\ cur' = (IF head THEN 2 ELSE 1) /\ handles' = R!Pod
    <3>1. ~head => \A p \in R!Pod : ~(p < cur')
      BY <2>3, AccountsAssumption, LambdaAssumption DEF R!Pod
    <3> QED
      BY <1>0, <2>1, <2>3, <3>1 DEF PodsAcquired, PodsVerified
  <2> QED
    BY <1>4, <2>2, <2>3 DEF R!WaitOver, R!Goto, R!Handled
<1>5. CASE R!BootPod
  <2>1. /\ UNCHANGED <<head, handles>> /\ rphase = "boot" /\ rphase' \in {"boot", "verify"}
        /\ head /\ cur = 2 => rphase' = "boot" /\ cur' = 1
        /\ ~(head /\ cur = 2) => rphase' = "verify" /\ cur' = cur
    BY <1>5 DEF R!BootPod, R!Goto
  <2>2. \A p \in R!Pod : pods'[p] = pods[p] \/ (pods[p] = "running" /\ pods'[p] = "kicked")
    BY <1>0, <1>5 DEF R!BootPod, R!TypeOK
  <2>3. PodsAcquired'
    BY <1>0, <2>1 DEF PodsAcquired
  <2>4. PodsVerified'
    BY <1>0, <2>1, <2>2 DEF PodsVerified
  <2> QED
    BY <2>3, <2>4
<1>6. CASE R!Verified
  <2>1. UNCHANGED <<head, pods, handles>> /\ rphase = "verify" /\ cur \in served
    BY <1>0, <1>6 DEF R!Verified, R!SeesNode, PodsVerified
  <2>2. CASE cur < N /\ ~head /\ rphase' = "boot" /\ cur' = cur + 1
    <3>1. \A p \in R!Pod : p < cur' => p < cur \/ p = cur
      BY <1>0, <2>2
    <3> QED
      BY <1>0, <2>1, <2>2, <3>1 DEF PodsAcquired, PodsVerified
  <2>3. CASE (cur = N \/ head) /\ rphase' = "up" /\ cur' = 1
    <3>1. \A p \in (IF head THEN {1} ELSE R!Pod) : p \in served
      <4>1. CASE head
        BY <1>0, <2>1, <4>1 DEF PodsVerified
      <4>2. CASE ~head
        <5>1. \A p \in R!Pod : p < cur \/ p = cur
          BY <2>3, <4>2, AccountsAssumption, LambdaAssumption DEF R!Pod
        <5> QED
          BY <1>0, <2>1, <4>2, <5>1 DEF PodsVerified
      <4> QED
        BY <1>0, <4>1, <4>2
    <3> QED
      BY <1>0, <2>1, <2>3, <3>1 DEF PodsAcquired, PodsVerified
  <2>4. cur < N \/ cur = N
    BY <1>0, AccountsAssumption, LambdaAssumption DEF R!Pod
  <2> QED
    BY <1>0, <1>6, <2>2, <2>3, <2>4 DEF R!Verified, R!Goto
<1>7. CASE R!Kill \/ R!TornDown
  BY <1>0, <1>7 DEF R!Kill, R!TornDown, PodsAcquired, PodsVerified
<1> QED
  BY <1>1, <1>3, <1>4, <1>5, <1>6, <1>7 DEF R!Run

-----------------------------------------------------------------------------
(* RunPod: the invariant holds, and every step keeps the promise of the     *)
(* interface.                                                               *)

LEMMA PodsStart ==
    ASSUME NEW ph \in {"create", "none"}, R!InitAt(ph)
    PROVE  PodsInv /\ R!P!Init
<1>1. R!TypeOK
  BY PodsConstants DEF R!InitAt, R!TypeOK
<1>2. PodsAcquired /\ PodsVerified
  BY DEF R!InitAt, PodsAcquired, PodsVerified, UpServes, R!UpServes
<1>3. R!P!Init
  BY DEF R!InitAt, R!P!Init, R!Exists
<1> QED
  BY <1>1, <1>2, <1>3 DEF PodsInv

LEMMA PodsNext == PodsInv /\ [R!Next]_R!vars => PodsInv'
<1> SUFFICES ASSUME PodsInv, [R!Next]_R!vars PROVE PodsInv'
  OBVIOUS
<1>1. R!TypeOK'
  BY PodsNextTypes DEF PodsInv
<1>2. ((R!Run \/ R!Down \/ R!Kill) /\ UNCHANGED served) \/ Outside
  BY DEF R!Next, Outside
<1> QED
  BY <1>1, <1>2, PodsRunKeeps, OutsideKeeps DEF PodsInv

LEMMA PodsPromise == PodsInv /\ [R!Next]_R!vars => [R!P!Next]_R!P!vars
<1> DEFINE Pods == {p \in R!Pod : R!Exists(p)}
           Answer == IF handles # {} THEN "returned"
                     ELSE IF rphase \in {"none", "create", "wait"} THEN "pending" ELSE "raised"
<1> SUFFICES ASSUME PodsInv, [R!Next]_R!vars PROVE R!P!Next \/ UNCHANGED R!P!vars
  OBVIOUS
<1>0. R!TypeOK /\ PodsAcquired /\ R!Pod # {}
  BY PodsConstants DEF PodsInv
<1>1. ASSUME Pods' = Pods, handles' = handles, Answer' = Answer
      PROVE  UNCHANGED R!P!vars
  BY <1>1 DEF R!P!vars
<1>2. CASE R!CreatePod
  <2>1. /\ pods' = [pods EXCEPT ![cur] = "booting"] /\ handles' = handles /\ handles = {}
        /\ rphase = "create" /\ rphase' \in {"create", "wait"} /\ pods[cur] = "none" /\ cur \in R!Pod
    BY <1>0, <1>2, PodsConstants DEF R!CreatePod, R!Goto, PodsAcquired, R!TypeOK
  <2>2. cur \in R!Pod \ Pods /\ Pods' = Pods \cup {cur}
    BY <1>0, <2>1 DEF R!Exists, R!TypeOK
  <2>3. Answer = "pending" /\ Answer' = Answer
    BY <2>1
  <2>4. R!P!Create
    BY <2>1, <2>2, <2>3 DEF R!P!Create
  <2> QED
    BY <2>4 DEF R!P!Next
<1>3. CASE R!CreateFails
  <2>1. /\ handles' = handles /\ handles = {} /\ rphase = "create" /\ rphase' = "teardown"
        /\ pods[cur] = "none" /\ cur \in R!Pod
        /\ pods' = pods \/ pods' = [pods EXCEPT ![cur] = "booting"]
    BY <1>0, <1>3, PodsConstants DEF R!CreateFails, R!Fail, PodsAcquired, R!TypeOK
  <2>2. /\ Pods' = Pods \cup {} \/ Pods' = Pods \cup {cur}
        /\ {} \in SUBSET (R!Pod \ Pods) /\ {cur} \in SUBSET (R!Pod \ Pods)
    BY <1>0, <2>1 DEF R!Exists, R!TypeOK
  <2>3. Answer = "pending" /\ Answer' = "raised"
    BY <2>1
  <2>4. R!P!Raise
    BY <2>1, <2>2, <2>3 DEF R!P!Raise
  <2> QED
    BY <2>4 DEF R!P!Next
<1>4. CASE R!WaitOver
  <2>1. pods' = pods /\ handles = {} /\ rphase = "wait"
    BY <1>0, <1>4 DEF R!WaitOver, PodsAcquired
  <2>2. (rphase' = "wait" /\ handles' = handles) \/ (rphase' = "boot" /\ handles' = R!Pod)
    BY <1>4 DEF R!WaitOver, R!Goto, R!Handled
  <2>3. Pods' = Pods /\ Answer = "pending"
    BY <2>1 DEF R!Exists
  <2>4. CASE rphase' = "wait" /\ handles' = handles
    BY <1>1, <2>1, <2>3, <2>4
  <2>5. CASE rphase' = "boot" /\ handles' = R!Pod
    <3>1. Answer' = "returned" /\ handles' \in {c \in SUBSET R!Pod : Pods \subseteq c}
      BY <1>0, <2>5
    <3>2. R!P!Return
      BY <2>3, <3>1 DEF R!P!Return
    <3> QED
      BY <3>2 DEF R!P!Next
  <2> QED
    BY <2>2, <2>4, <2>5
<1>5. CASE R!WaitFails \/ R!BootFails \/ R!VerifyFails \/ R!Down \/ R!Kill \/ R!TornDown
  <2>1. /\ pods' = pods /\ handles' = handles /\ rphase' \in {"teardown", "over"} /\ rphase # "none"
    BY <1>5 DEF R!WaitFails, R!BootFails, R!VerifyFails, R!Down, R!Kill, R!TornDown, R!Fail
  <2>2. Pods' = Pods
    BY <2>1 DEF R!Exists
  <2>3. CASE Answer = "pending"
    <3>1. Answer' = "raised"
      BY <2>1, <2>3
    <3>2. {} \in SUBSET (R!Pod \ Pods) /\ Pods' = Pods \cup {}
      BY <2>2
    <3>3. R!P!Raise
      BY <2>1, <2>3, <3>1, <3>2 DEF R!P!Raise
    <3> QED
      BY <3>3 DEF R!P!Next
  <2>4. CASE Answer # "pending"
    BY <1>1, <2>1, <2>2, <2>4
  <2> QED
    BY <2>3, <2>4
<1>6. CASE R!BootPod \/ R!Verified
  <2>1. /\ handles' = handles /\ handles = R!Pod
        /\ \A p \in R!Pod : pods'[p] = pods[p] \/ (pods[p] = "running" /\ pods'[p] = "kicked")
    BY <1>0, <1>6 DEF R!BootPod, R!Verified, PodsAcquired, R!TypeOK
  <2>2. Pods' = Pods
    BY <2>1 DEF R!Exists
  <2> QED
    BY <1>0, <1>1, <2>1, <2>2
<1>7. CASE Outside
  <2>1. UNCHANGED <<head, rphase, cur, handles>> /\ \A p \in R!Pod : Ages(p)
    BY <1>0, <1>7, OutsideAges
  <2>2. Pods' \in SUBSET Pods
    BY <2>1 DEF Ages, R!Exists
  <2>3. R!P!Destroy
    BY <2>1, <2>2 DEF R!P!Destroy
  <2> QED
    BY <2>3 DEF R!P!Next
<1> QED
  BY <1>2, <1>3, <1>4, <1>5, <1>6, <1>7 DEF R!Next, R!Run, Outside

-----------------------------------------------------------------------------
(* The dead man: the inductive invariant.  As long as nobody disturbs, what *)
(* a loop has listed is all there is, and what lies behind the script is    *)
(* empty, except for a batch of several Lambda instances.                   *)

Alone == \A i, j \in LambdaInst : i = j

Swept ==
    ~disturbed =>
      /\ dat \in {"lambda", "runpod"} /\ listed => ids = cloud \cap D!Of(dat)
      /\ Alone /\ dat \in {"runpod", "gcp", "reap", "done"} => cloud \cap LambdaInst = {}
      /\ dat \in {"gcp", "reap", "done"} => cloud \cap RunPodInst = {}
      /\ dat \in {"reap", "done"} => cloud \cap GcpInst = {}
      /\ backstop /\ dat = "done" => cloud = {}

DeadManInv == D!TypeOK /\ Swept

LEMMA FirstAttempt == 1 \in 1 .. Attempts
<1>1. Attempts \in Nat \ {0}
  BY AccountsAssumption
<1> QED
  BY <1>1

\* A batch of one is named as it is.
LEMMA OneIsJoined ==
    ASSUME Alone, ids \subseteq LambdaInst, ids # {}
    PROVE  D!Joined(ids) = ids
<1>1. PICK i \in ids : \A j \in ids : j = i
  BY DEF Alone
<1>2. Cardinality({i}) = 1
  BY FS_Singleton
<1>3. ids = {i}
  BY <1>1
<1>4. D!Cardinality(ids) = Cardinality(ids)
  BY DEF D!Cardinality, Cardinality
<1>5. D!Cardinality(ids) = 1
  BY <1>2, <1>3, <1>4
<1> QED
  BY <1>5 DEF D!Joined

LEMMA DeadManStart ==
    ASSUME NEW q \in {"lambda", "done"}, D!InitAt(q), cloud \in SUBSET D!Inst, q = "done" => cloud = {}
    PROVE  DeadManInv
BY FirstAttempt DEF D!InitAt, DeadManInv, D!TypeOK, Swept

\* A request deletes all it names, or disturbs.
LEMMA DeletedIs ==
    ASSUME NEW S, D!Deleted(S), D!TypeOK
    PROVE  /\ cloud' \subseteq cloud /\ disturbed' \in BOOLEAN
           /\ disturbed => disturbed'
           /\ ~disturbed' => cloud' = cloud \ S
BY DEF D!Deleted, D!TypeOK

\* The next round of a loop, or the next provider.
LEMMA AgainIs ==
    ASSUME D!TypeOK, NEW p \in D!Loops, dat = p, D!Again(p)
    PROVE  /\ dat' \in {p, D!After(p)} /\ ids' = {} /\ listed' = FALSE
           /\ attempt' \in 1 .. Attempts
BY AccountsAssumption DEF D!Again, D!Goto, D!TypeOK, D!Loops, D!After

LEMMA DeadManNext == DeadManInv /\ [D!Next]_D!vars => DeadManInv'
<1> SUFFICES ASSUME DeadManInv, [D!Next]_D!vars PROVE DeadManInv'
  OBVIOUS
<1> USE DEF DeadManInv
<1>0. backstop' = backstop
  BY DEF D!Next, D!Script, D!Create, D!vars
<1>1. ASSUME NEW p \in D!Loops, D!List(p) PROVE DeadManInv'
  <2>1. /\ dat = p /\ cloud' = cloud /\ p \in {"lambda", "runpod"}
        /\ D!Of(p) = IF p = "lambda" THEN LambdaInst ELSE RunPodInst
        /\ D!After(p) = IF p = "lambda" THEN "runpod" ELSE "gcp"
    BY <1>1 DEF D!List, D!Loops, D!Of, D!After
  <2>2. PICK seen \in {cloud \cap D!Of(p)} \cup (IF Flaky THEN {{}} ELSE {}) :
             /\ \/ seen = {} /\ clean' = clean \cup {p} /\ D!Goto(D!After(p))
                \/ /\ seen # {}
                   /\ ids' = seen /\ listed' = TRUE
                   /\ UNCHANGED <<dat, attempt, clean>>
             /\ disturbed' = (disturbed \/ seen # cloud \cap D!Of(p))
    BY <1>1 DEF D!List
  <2>3. CASE seen = {} /\ clean' = clean \cup {p} /\ D!Goto(D!After(p))
    BY <1>0, <2>1, <2>2, <2>3, FirstAttempt DEF D!Goto, D!TypeOK, D!Loops, Swept
  <2>4. CASE /\ seen # {} /\ ids' = seen /\ listed' = TRUE
             /\ UNCHANGED <<dat, attempt, clean>>
    <3>1. seen = cloud \cap D!Of(dat)
      BY <2>1, <2>2, <2>4
    <3>2. D!TypeOK'
      BY <1>0, <2>1, <2>2, <2>4, <3>1 DEF D!TypeOK
    <3>3. Swept'
      BY <1>0, <2>1, <2>2, <2>4, <3>1 DEF D!TypeOK, Swept, D!Of
    <3> QED
      BY <3>2, <3>3
  <2> QED
    BY <2>2, <2>3, <2>4
<1>2. CASE D!TerminateLambda
  <2>1. /\ dat = "lambda" /\ listed /\ D!Deleted(D!Joined(ids)) /\ clean' = clean
        /\ dat' \in {"lambda", "runpod"} /\ ids' = {} /\ listed' = FALSE
        /\ attempt' \in 1 .. Attempts
    BY <1>2, AgainIs DEF D!TerminateLambda, D!Loops, D!After
  <2>2. D!TypeOK'
    BY <1>0, <2>1, DeletedIs DEF D!TypeOK
  <2>3. ASSUME ~disturbed', Alone PROVE cloud' \cap LambdaInst = {}
    <3>1. ~disturbed /\ cloud' = cloud \ D!Joined(ids)
      BY <2>1, <2>3, DeletedIs
    <3>2. ids = cloud \cap LambdaInst
      BY <2>1, <3>1 DEF Swept, D!Of
    <3>3. ids # {} => D!Joined(ids) = ids
      BY <2>3, <3>2, OneIsJoined
    <3> QED
      BY <3>1, <3>2, <3>3
  <2>4. Swept'
    BY <1>0, <2>1, <2>3 DEF Swept, D!TypeOK
  <2> QED
    BY <2>2, <2>4
<1>3. CASE D!DeletePods
  <2>1. /\ dat = "runpod" /\ listed /\ D!Deleted(ids) /\ clean' = clean
        /\ dat' \in {"runpod", "gcp"} /\ ids' = {} /\ listed' = FALSE
        /\ attempt' \in 1 .. Attempts
    BY <1>3, AgainIs DEF D!DeletePods, D!Pods, D!Loops, D!After
  <2>2. D!TypeOK'
    BY <1>0, <2>1, DeletedIs DEF D!TypeOK
  <2>3. ASSUME ~disturbed'
        PROVE  /\ ~disturbed /\ cloud' \subseteq cloud
               /\ cloud' \cap RunPodInst = {}
    <3>1. ~disturbed /\ cloud' = cloud \ ids
      BY <2>1, <2>3, DeletedIs
    <3>2. ids = cloud \cap RunPodInst
      BY <2>1, <3>1 DEF Swept, D!Of
    <3> QED
      BY <3>1, <3>2
  <2>4. Swept'
    BY <1>0, <2>1, <2>3 DEF Swept, D!TypeOK
  <2> QED
    BY <2>2, <2>4
<1>4. CASE D!DeleteGcp
  <2>1. dat = "gcp" /\ D!Deleted(GcpInst) /\ clean' = clean /\ D!Goto("reap")
    BY <1>4 DEF D!DeleteGcp
  <2>2. D!TypeOK'
    BY <1>0, <2>1, DeletedIs, FirstAttempt DEF D!TypeOK, D!Goto
  <2>3. Swept'
    BY <1>0, <2>1, DeletedIs DEF D!Goto, Swept
  <2> QED
    BY <2>2, <2>3
<1>5. CASE D!Reap
  <2>1. /\ dat = "reap" /\ D!Deleted(IF backstop THEN D!Inst ELSE {})
        /\ clean' = clean /\ D!Goto("done")
    BY <1>5 DEF D!Reap
  <2>2. D!TypeOK'
    BY <1>0, <2>1, DeletedIs, FirstAttempt DEF D!TypeOK, D!Goto
  <2>3. Swept'
    BY <1>0, <2>1, DeletedIs DEF D!Goto, Swept, D!TypeOK
  <2> QED
    BY <2>2, <2>3
<1>6. CASE D!Create
  BY <1>6 DEF D!Create, D!TypeOK, Swept
<1>7. CASE UNCHANGED D!vars
  BY <1>7 DEF D!vars, D!TypeOK, Swept
<1> QED
  BY <1>1, <1>2, <1>3, <1>4, <1>5, <1>6, <1>7 DEF D!Next, D!Script, D!Request

-----------------------------------------------------------------------------
(* The three side by side. *)

AccountsInv == IInv /\ PromiseInv /\ PodsInv /\ DeadManInv

LEMMA MCStart == MCInit => AccountsInv /\ P!Init /\ R!P!Init
<1> SUFFICES ASSUME MCInit PROVE AccountsInv /\ P!Init /\ R!P!Init
  OBVIOUS
<1>1. PICK ph \in {"launch", "none"} : InitAt(ph)
  BY DEF MCInit, Init
<1>2. PICK rph \in {"create", "none"} : R!InitAt(rph)
  BY DEF MCInit, R!Init, RunPodRests
<1>3. PICK q \in {"lambda", "done"} :
           D!InitAt(q) /\ cloud \in SUBSET D!Inst /\ (q = "done" => cloud = {})
  BY DEF MCInit, D!Init, DeadManRests
<1> QED
  BY <1>1, <1>2, <1>3, StartIInv, StartPromise, PodsStart, DeadManStart DEF AccountsInv

LEMMA MCStep == [MCNext]_allvars => [Next]_vars /\ [R!Next]_R!vars /\ [D!Next]_D!vars
BY DEF MCNext, allvars, rvars, dvars, R!vars, D!vars

LEMMA MCKeeps ==
    AccountsInv /\ [MCNext]_allvars => AccountsInv' /\ [P!Next]_P!vars /\ [R!P!Next]_R!P!vars
BY MCStep, NextIInv, NextPromise, PodsNext, PodsPromise, DeadManNext DEF AccountsInv

LEMMA MCInvariant == MCSpec => []AccountsInv
BY MCStart, MCKeeps, PTL DEF MCSpec

\* Every variable of the three stays in its range.
THEOREM TypesCorrect == MCSpec => []TypesOK
<1>1. AccountsInv => TypesOK
  <2>1. IInv => TypeOK
    BY DEF IInv, AccountOK, AcquiringOK, DeletingOK, TypeOK
  <2> QED
    BY <2>1 DEF AccountsInv, PodsInv, DeadManInv, TypesOK
<1> QED
  BY <1>1, MCInvariant, PTL

\* RunPod: every router of a pool that came up has served since it was created: a
\* bootstrap that was lost is never mistaken for one that ran, though pods stop and
\* come back meanwhile (`verify`).
THEOREM UpServesHolds == MCSpec => []UpServes
BY MCInvariant, PTL DEF AccountsInv, PodsInv, PodsVerified

\* Both adapters keep the promise of the interface (base.py): acquire returns
\* handles of all that it created, or raises, and from then on instances only go.
THEOREM BothRefine == MCSpec => BothKeepThePromise
<1>1. MCSpec => P!Spec
  BY MCStart, MCKeeps, PTL DEF MCSpec, P!Spec
<1>2. MCSpec => R!P!Spec
  BY MCStart, MCKeeps, PTL DEF MCSpec, R!P!Spec
<1> QED
  BY <1>1, <1>2 DEF BothKeepThePromise, KeepsThePromise, R!KeepsThePromise

\* The dead man leaves nothing, if no request fails and nobody is creating: with the
\* orchestrator's reap as his backstop, or by himself if there is no more than one
\* Lambda instance (deadman.sh).
THEOREM DoneMeansZeroHolds == MCSpec => [](backstop \/ Alone => DoneMeansZero)
<1>1. DeadManInv => (backstop \/ Alone => DoneMeansZero)
  BY DEF DeadManInv, Swept, D!TypeOK, D!Inst, DoneMeansZero, D!DoneMeansZero
<1>2. AccountsInv => (backstop \/ Alone => DoneMeansZero)
  BY <1>1 DEF AccountsInv
<1> QED
  BY <1>2, MCInvariant, PTL

\* The dead man by himself, without a backstop, leaves at most Lambda instances.
THEOREM OnlyLambdaIsLeft ==
    MCSpec => [](dat = "done" /\ ~disturbed => cloud \subseteq LambdaInst)
<1>1. AccountsInv => (dat = "done" /\ ~disturbed => cloud \subseteq LambdaInst)
  BY DEF AccountsInv, DeadManInv, Swept, D!TypeOK, D!Inst
<1> QED
  BY <1>1, MCInvariant, PTL

-----------------------------------------------------------------------------
(* RunPod: when reap can be believed.  An answer without the id of a pod is *)
(* taken for its absence, and nothing else is.                              *)

\* The run will not create this pod any more.
PodPast(p) == rphase = "create" => p < cur

\* reap deletes pods that were there, and reports those that are not.
ReportInv ==
    /\ \A p \in todo["reap"] : PodPast(p)
    /\ target["reap"] # NoPod => PodPast(target["reap"])
    /\ \A p \in killed : PodPast(p) /\ pods[p] = "none"

\* What no longer exists does not come back, but for the pod the run creates.
LEMMA PodPastKept ==
    ASSUME PodsInv, [R!Next]_R!vars
    PROVE  \A p \in R!Pod : PodPast(p) => PodPast(p)' /\ (pods[p] = "none" => pods'[p] = "none")
<1>0. R!TypeOK /\ cur \in Nat /\ R!Pod \subseteq Nat
  BY PodsConstants DEF PodsInv, R!TypeOK
<1>1. CASE R!CreatePod
  <2>1. /\ pods' = [pods EXCEPT ![cur] = "booting"] /\ rphase = "create"
        /\ rphase' = "wait" \/ (rphase' = "create" /\ cur' = cur + 1)
    BY <1>1 DEF R!CreatePod, R!Goto
  <2> QED
    BY <1>0, <2>1 DEF PodPast, R!TypeOK
<1>2. CASE R!CreateFails
  <2>1. /\ pods' = pods \/ pods' = [pods EXCEPT ![cur] = "booting"]
        /\ rphase = "create" /\ rphase' = "teardown"
    BY <1>2 DEF R!CreateFails, R!Fail
  <2> QED
    BY <1>0, <2>1 DEF PodPast, R!TypeOK
<1>3. CASE R!WaitOver \/ R!WaitFails \/ R!BootFails \/ R!Verified \/ R!VerifyFails \/ R!TornDown
           \/ R!Down \/ R!Kill
  <2>1. pods' = pods /\ (rphase' = "create" => FALSE)
    BY <1>3 DEF R!WaitOver, R!WaitFails, R!BootFails, R!Verified, R!VerifyFails, R!TornDown, R!Down,
       R!Kill, R!Fail, R!Goto
  <2> QED
    BY <2>1 DEF PodPast
<1>4. CASE R!BootPod
  <2>1. rphase' \in {"boot", "verify"} /\ \A p \in R!Pod : pods[p] = "none" => pods'[p] = "none"
    BY <1>0, <1>4 DEF R!BootPod, R!Goto, R!TypeOK
  <2> QED
    BY <2>1 DEF PodPast
<1>5. CASE Outside
  BY <1>0, <1>5, OutsideAges DEF PodPast, Ages
<1> QED
  BY <1>1, <1>2, <1>3, <1>4, <1>5 DEF R!Next, R!Run, Outside

LEMMA ReportKept ==
    ASSUME "unusable" \notin Faults, PodsInv, ReportInv, [R!Next]_R!vars
    PROVE  ReportInv'
<1>0. /\ R!TypeOK /\ "reap" \in R!Actors /\ "run" \in R!Actors /\ NoPod \notin R!Pod
      /\ todo["reap"] \subseteq R!Pod /\ target["reap"] \in R!Pod \cup {NoPod} /\ killed \subseteq R!Pod
      /\ R!Pod \subseteq Nat /\ cur \in R!Pod
  BY PodsConstants, AccountsAssumption DEF PodsInv, R!TypeOK, R!Pod
\* It is enough that nothing comes into a report but what has been seen to be gone.
<1>1. ASSUME \A p \in todo'["reap"] : p \in R!Pod /\ PodPast(p),
             target'["reap"] # NoPod => target'["reap"] \in R!Pod /\ PodPast(target'["reap"]),
             \A p \in killed' : p \in R!Pod /\ PodPast(p) /\ pods[p] = "none"
      PROVE  ReportInv'
  BY <1>1, PodPastKept DEF ReportInv
<1>2. CASE UNCHANGED <<todo["reap"], target["reap"], killed>>
  BY <1>0, <1>1, <1>2 DEF ReportInv
<1>3. CASE R!Reap
  <2>1. todo'["reap"] = {p \in R!Pod : R!Exists(p)} /\ target' = target /\ killed' = {}
    BY <1>0, <1>3 DEF R!Reap, R!TypeOK
  <2>2. \A p \in R!Pod : R!Exists(p) => PodPast(p)
    <3>1. \A p \in R!Pod : p < cur \/ cur <= p
      BY <1>0
    <3> QED
      BY <3>1 DEF PodsInv, PodsAcquired, R!Exists, PodPast
  <2> QED
    BY <1>0, <1>1, <2>1, <2>2 DEF ReportInv
<1>4. CASE R!ReapSeesNothing
  BY <1>0, <1>1, <1>4 DEF R!ReapSeesNothing, ReportInv
<1>5. CASE R!Loop("reap")
  <2>1. CASE R!Take("reap")
    <3>1. PICK p \in todo["reap"] :
               todo' = [todo EXCEPT !["reap"] = @ \ {p}] /\ target' = [target EXCEPT !["reap"] = p]
      BY <2>1 DEF R!Take
    <3>2. killed' = killed /\ todo'["reap"] \subseteq todo["reap"] /\ target'["reap"] = p
      BY <1>0, <2>1, <3>1 DEF R!Take, R!TypeOK
    <3> QED
      BY <1>0, <1>1, <3>1, <3>2 DEF ReportInv
  <2>2. CASE R!Raises("reap")
    <3>1. killed' = killed /\ todo'["reap"] = {} /\ target'["reap"] = NoPod
      BY <1>0, <2>2 DEF R!Raises, R!Leave, R!TypeOK
    <3> QED
      BY <1>0, <1>1, <3>1 DEF ReportInv
  <2>3. ASSUME NEW gone \in BOOLEAN, R!Deleted("reap", gone), target["reap"] # NoPod,
               gone => ~R!Exists(target["reap"])
        PROVE  ReportInv'
    <3>1. /\ todo' = todo /\ target'["reap"] = NoPod
          /\ killed' = IF gone THEN killed \cup {target["reap"]} ELSE killed
      BY <1>0, <2>3 DEF R!Deleted, R!Leave, R!TypeOK
    <3> QED
      BY <1>0, <1>1, <2>3, <3>1 DEF ReportInv, R!Exists
  <2>4. CASE R!Confirm("reap")
    BY <1>2, <2>3, <2>4 DEF R!Confirm, R!SeesGone
  <2>5. CASE R!Delete("reap") \/ R!DeleteFails("reap") \/ R!ConfirmFails("reap")
    BY <1>2, <2>2, <2>5 DEF R!Delete, R!DeleteFails, R!ConfirmFails
  <2> QED
    BY <1>5, <2>1, <2>4, <2>5 DEF R!Loop
<1>6. CASE R!Loop("run")
  <2>1. UNCHANGED <<todo["reap"], target["reap"], killed>>
    BY <1>0, <1>6 DEF R!Loop, R!Take, R!Delete, R!DeleteFails, R!Confirm, R!ConfirmFails, R!Deleted, R!Raises, R!Leave,
       R!TypeOK
  <2> QED
    BY <1>2, <2>1
<1>7. CASE R!Run \/ R!Down \/ R!Kill \/ R!Account \/ UNCHANGED R!vars
  <2>1. UNCHANGED <<todo["reap"], target["reap"], killed>>
    BY <1>0, <1>7 DEF R!Run, R!CreatePod, R!CreateFails, R!WaitOver, R!WaitFails, R!BootPod, R!BootFails,
       R!Verified, R!VerifyFails, R!TornDown, R!Down, R!Kill, R!Account, R!Boots, R!Serves, R!Stops, R!Dies, R!Becomes, R!Fail, R!deleting, R!vars, R!TypeOK
  <2> QED
    BY <1>2, <2>1
<1> QED
  BY <1>3, <1>4, <1>5, <1>6, <1>7 DEF R!Next, R!Actors

\* What reap reports as killed no longer exists, if every answer that comes is one:
\* requests may go unanswered, deletes be lost or late, and the run go on creating
\* and deleting meanwhile (`reap`, `_delete`).
THEOREM ReapIsHonestHolds == ASSUME "unusable" \notin Faults PROVE MCSpec => []R!ReapIsHonest
<1>1. MCInit => ReportInv
  <2>1. ASSUME NEW ph, R!InitAt(ph) PROVE ReportInv
    BY <2>1, PodsConstants DEF R!InitAt, ReportInv
  <2> QED
    BY <2>1 DEF MCInit, R!Init, RunPodRests
<1>2. AccountsInv /\ ReportInv /\ [MCNext]_allvars => ReportInv'
  BY MCStep, ReportKept DEF AccountsInv
<1>3. ReportInv => R!ReapIsHonest
  BY DEF ReportInv, R!ReapIsHonest, R!Exists
<1> QED
  BY <1>1, <1>2, <1>3, MCInvariant, PTL DEF MCSpec

-----------------------------------------------------------------------------
(* The dead man: what its log says, and how long it takes.                  *)

\* A provider that was logged as clean stays clean, as long as nobody disturbs.
CleanInv == ~disturbed => \A p \in clean : cloud \cap D!Of(p) = {}

LEMMA CleanKept == ASSUME DeadManInv, CleanInv, [D!Next]_D!vars PROVE CleanInv'
<1>1. CASE D!TerminateLambda \/ D!DeletePods \/ D!DeleteGcp \/ D!Reap
  <2>1. PICK S : D!Deleted(S) /\ clean' = clean
    BY <1>1 DEF D!TerminateLambda, D!DeletePods, D!DeleteGcp, D!Reap
  <2> QED
    BY <2>1, DeletedIs DEF DeadManInv, CleanInv
<1>2. ASSUME NEW p \in D!Loops, D!List(p) PROVE CleanInv'
  BY <1>2 DEF D!List, CleanInv, DeadManInv, D!TypeOK
<1>3. CASE D!Create \/ UNCHANGED D!vars
  BY <1>3 DEF D!Create, D!vars, CleanInv
<1> QED
  BY <1>1, <1>2, <1>3 DEF D!Next, D!Script, D!Request

\* Every request of the script is one of those, and nothing else is.
LEMMA RequestsCount ==
    ASSUME D!TypeOK, [D!Next]_D!vars
    PROVE  /\ D!RequestsLeft \in 0 .. 4 * Attempts + 2
           /\ D!Script => D!RequestsLeft' < D!RequestsLeft
           /\ ~D!Script => D!RequestsLeft' = D!RequestsLeft
<1>1. /\ Attempts \in Nat \ {0} /\ attempt \in 1 .. Attempts /\ listed \in BOOLEAN
      /\ dat \in {"lambda", "runpod", "gcp", "reap", "done"}
  BY AccountsAssumption DEF D!TypeOK
<1>2. D!RequestsLeft \in 0 .. 4 * Attempts + 2
  BY <1>1 DEF D!RequestsLeft, D!LoopLeft
<1>3. ASSUME NEW p \in D!Loops, D!List(p) PROVE D!RequestsLeft' < D!RequestsLeft
  <2>1. dat = p /\ p \in {"lambda", "runpod"} /\ ~listed
        /\ D!After(p) = IF p = "lambda" THEN "runpod" ELSE "gcp"
    BY <1>3 DEF D!List, D!Loops, D!After
  <2>2. \/ dat' = dat /\ listed' = TRUE /\ attempt' = attempt
        \/ dat' = D!After(p) /\ listed' = FALSE /\ attempt' = 1
    BY <1>3, <2>1 DEF D!List, D!Goto
  <2> QED
    BY <1>1, <2>1, <2>2 DEF D!RequestsLeft, D!LoopLeft
<1>4. ASSUME NEW p \in D!Loops, dat = p, listed, D!Again(p) PROVE D!RequestsLeft' < D!RequestsLeft
  <2>1. p \in {"lambda", "runpod"} /\ D!After(p) = IF p = "lambda" THEN "runpod" ELSE "gcp"
    BY <1>4 DEF D!Loops, D!After
  <2>2. \/ dat' = dat /\ listed' = FALSE /\ attempt' = attempt + 1
        \/ dat' = D!After(p) /\ listed' = FALSE /\ attempt' = 1
    BY <1>4 DEF D!Again, D!Goto
  <2> QED
    BY <1>1, <1>4, <2>1, <2>2 DEF D!RequestsLeft, D!LoopLeft
<1>5. ASSUME D!TerminateLambda \/ D!DeletePods PROVE D!RequestsLeft' < D!RequestsLeft
  BY <1>4, <1>5 DEF D!TerminateLambda, D!DeletePods, D!Loops
<1>6. ASSUME D!DeleteGcp \/ D!Reap PROVE D!RequestsLeft' < D!RequestsLeft
  BY <1>6 DEF D!DeleteGcp, D!Reap, D!Goto, D!RequestsLeft
<1>7. ASSUME D!Create \/ UNCHANGED D!vars PROVE D!RequestsLeft' = D!RequestsLeft
  BY <1>1, <1>7 DEF D!Create, D!vars, D!RequestsLeft, D!LoopLeft
<1>8. ~D!Script => D!Create \/ UNCHANGED D!vars
  BY DEF D!Next
<1> QED
  BY <1>2, <1>3, <1>5, <1>6, <1>7, <1>8 DEF D!Script, D!Request

\* A provider that the log calls clean is empty at that moment, if no request fails,
\* even while somebody is creating (deadman.sh).
THEOREM CleanIsCleanHolds == ASSUME ~Flaky PROVE MCSpec => D!CleanIsClean
<1>1. AccountsInv /\ [MCNext]_allvars => [\A p \in clean' \ clean : cloud \cap D!Of(p) = {}]_D!vars
  <2> SUFFICES ASSUME AccountsInv, [MCNext]_allvars, NEW p \in clean' \ clean
               PROVE  cloud \cap D!Of(p) = {}
    OBVIOUS
  <2>1. PICK q \in D!Loops : D!List(q)
    BY MCStep DEF D!Next, D!Script, D!Request, D!TerminateLambda, D!DeletePods, D!DeleteGcp, D!Reap, D!Create, D!vars
  <2> QED
    BY <2>1 DEF D!List
<1> QED
  BY <1>1, MCInvariant, PTL DEF MCSpec, D!CleanIsClean

\* What the log calls clean stays clean to the end, unless a request has failed or
\* somebody has created meanwhile: the passes over the other providers bring nothing
\* back (deadman.sh).
THEOREM CleanStaysClean ==
    MCSpec => [](~disturbed => \A p \in clean : cloud \cap D!Of(p) = {})
<1>1. MCInit => CleanInv
  BY MCStart DEF MCInit, D!Init, D!InitAt, DeadManRests, CleanInv
<1>2. AccountsInv /\ CleanInv /\ [MCNext]_allvars => CleanInv'
  BY MCStep, CleanKept DEF AccountsInv
<1> QED
  BY <1>1, <1>2, MCInvariant, PTL DEF MCSpec, CleanInv

\* The dead man has at most 4 * Attempts + 2 requests before him, whatever fails and
\* whoever creates meanwhile: each that returns brings the end nearer, and nothing
\* that others do takes it further away (deadman.sh).
THEOREM RequestsAreBoundedHolds == MCSpec => RequestsAreBounded
<1>1. AccountsInv /\ [MCNext]_allvars =>
        [/\ D!RequestsLeft \in 0 .. 4 * Attempts + 2
         /\ IF D!Script THEN D!RequestsLeft' < D!RequestsLeft
                        ELSE D!RequestsLeft' = D!RequestsLeft]_D!vars
  BY MCStep, RequestsCount DEF AccountsInv, DeadManInv
<1> QED
  BY <1>1, MCInvariant, PTL DEF MCSpec, RequestsAreBounded, D!RequestsAreBounded
=============================================================================
