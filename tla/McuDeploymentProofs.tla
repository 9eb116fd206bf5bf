------------------------ MODULE McuDeploymentProofs ------------------------
(***************************************************************************)
(* Theorems about McuDeployment, for any sets of deployments, nodes,       *)
(* images and controllers.                                                 *)
(***************************************************************************)
EXTENDS McuDeployment, TLAPS

USE DEF OptDeployment, OptImage, OptNode

(***************************************************************************)
(* Lemmas about the objects                                                *)
(***************************************************************************)
\* The initial and the deleted object have the type of an object.
LEMMA FixedObjects ==
    /\ NewDep \in Dep /\ DeletedDep \in Dep
    /\ NewNode \in McuNode /\ DeletedNode \in McuNode
    /\ Factory \in Device
BY DEF NewDep, DeletedDep, Dep, Phase, Reason, CondStatus, NewNode, DeletedNode,
       McuNode, NodeState, Factory, Device, DeviceState, Staged, StagedState, EmptySlot

\* A merge patch of well-typed objects is well typed.
LEMMA MergeType ==
    ASSUME NEW stored \in Dep, NEW base \in Dep, NEW want \in Dep
    PROVE  MergeStatus(stored, base, want) \in Dep
<1> DEFINE conds == <<want.phase, want.progressing, want.available>> #
                    <<base.phase, base.progressing, base.available>>
           ph == Patched(stored.phase, base.phase, want.phase)
           bo == Patched(stored.bound, base.bound, want.bound)
           di == Patched(stored.digest, base.digest, want.digest)
           re == Patched(stored.reason, base.reason, want.reason)
           pr == IF conds THEN want.progressing ELSE stored.progressing
           av == IF conds THEN want.available ELSE stored.available
<1>1. ph \in Phase /\ bo \in OptNode /\ di \in OptImage /\ re \in Reason
  BY DEF Patched, Dep
<1>2. pr \in CondStatus /\ av \in CondStatus
  BY DEF Dep
<1>3. MergeStatus(stored, base, want) =
        [stored EXCEPT !.phase = ph, !.bound = bo, !.digest = di, !.reason = re,
                       !.progressing = pr, !.available = av]
  BY DEF MergeStatus
<1> HIDE DEF ph, bo, di, re, pr, av
<1> QED BY <1>1, <1>2, <1>3 DEF Dep

\* What setPhase, phasePulling and fail want is well typed.
LEMMA WithConditionsType ==
    ASSUME NEW o \in Dep, NEW ph \in Phase
    PROVE  WithConditions(o, ph) \in Dep
<1>1. CASE ph = "Deployed"
  BY <1>1 DEF WithConditions, Dep, CondStatus
<1>2. CASE ph = "Confirming"
  BY <1>2 DEF WithConditions, Dep, CondStatus
<1>3. CASE ph # "Deployed" /\ ph # "Confirming"
  BY <1>3 DEF WithConditions, Dep, CondStatus
<1> QED BY <1>1, <1>2, <1>3

\* What setPhase wants is well typed.
LEMMA InPhaseType ==
    ASSUME NEW o \in Dep, NEW ph \in Phase, NEW n \in OptNode
    PROVE  InPhase(o, ph, n) \in Dep
<1> DEFINE p == [o EXCEPT !.phase = ph, !.bound = n, !.reason = ""]
<1>1. p \in Dep
  BY DEF Dep, Reason
<1> QED BY <1>1, WithConditionsType DEF InPhase

\* What fail wants is well typed.
LEMMA FailedWithType ==
    ASSUME NEW o \in Dep, NEW r \in Reason
    PROVE  FailedWith(o, r) \in Dep
BY DEF FailedWith, Dep, Phase, CondStatus

\* What the device does to itself, and what the calls do to it, keep its type.
LEMMA DeviceType ==
    ASSUME NEW a \in Device
    PROVE  /\ Prepared(a) \in Device /\ Activated(a) \in Device
           /\ Rebooted(a) \in Device /\ Booted(a) \in Device
           /\ Started(a) \in Device /\ Validated(a) \in Device
           /\ [a EXCEPT !.state = "degraded"] \in Device
           /\ \A d \in OptDeployment, i \in OptImage : Written(a, d, i) \in Device
BY DEF Device, DeviceState, Staged, StagedState, EmptySlot, Prepared, Activated,
       Rebooted, Booted, Started, Validated, Written

(***************************************************************************)
(* Type correctness                                                        *)
(***************************************************************************)
\* What a controller reads is an object.
LEMMA SeenType ==
    ASSUME TypeOK, NEW c \in Controller, NEW d \in Deployment
    PROVE  Seen(c, d) \in Dep
BY DEF TypeOK, Seen

\* A reconcile that will write a well-typed object is well typed.
LEMMA WillWriteType ==
    ASSUME TypeOK, NEW c \in Controller, NEW d \in Deployment, NEW want \in Dep,
           WillWrite(c, d, want)
    PROVE  /\ rec' \in [Controller -> Rec]
           /\ queue' \in [Controller -> SUBSET Deployment]
<1> DEFINE r == [pc   |-> IF want.phase = "Confirming" /\ ~Seen(c, d).armed
                          THEN "annotate" ELSE "commit",
                 dep  |-> d,
                 base |-> Seen(c, d),
                 want |-> want]
<1>1. r \in Rec
  BY SeenType DEF Rec, Working
<1>2. rec' = [rec EXCEPT ![c] = r]
  BY DEF WillWrite
<1>3. rec' \in [Controller -> Rec]
  BY <1>1, <1>2 DEF TypeOK
<1>4. queue' \in [Controller -> SUBSET Deployment]
  BY DEF WillWrite, Forget, TypeOK
<1> QED BY <1>3, <1>4

\* A reconcile that will set a phase is well typed.
LEMMA WillSetPhaseType ==
    ASSUME TypeOK, NEW c \in Controller, NEW d \in Deployment,
           NEW ph \in Phase, NEW n \in OptNode, WillSetPhase(c, d, ph, n)
    PROVE  /\ rec' \in [Controller -> Rec]
           /\ queue' \in [Controller -> SUBSET Deployment]
BY SeenType, InPhaseType, WillWriteType DEF WillSetPhase

\* A reconcile that will fail its deployment is well typed.
LEMMA WillFailType ==
    ASSUME TypeOK, NEW c \in Controller, NEW d \in Deployment,
           NEW r \in Reason, WillFail(c, d, r)
    PROVE  /\ rec' \in [Controller -> Rec]
           /\ queue' \in [Controller -> SUBSET Deployment]
BY SeenType, FailedWithType, WillWriteType DEF WillFail

\* The bound node of an object is a node or NoNode.
LEMMA BoundType ==
    ASSUME TypeOK, NEW c \in Controller, NEW d \in Deployment
    PROVE  Seen(c, d).bound \in OptNode /\ Seen(c, d).digest \in OptImage
BY SeenType DEF Dep

\* A step of a reconcile that reads keeps the types.
LEMMA ReconcileType ==
    ASSUME TypeOK, NEW c \in Controller, NEW d \in Deployment, Reconcile(c, d)
    PROVE  TypeOK'
<1>1. CASE ReconcileBinding(c, d)
  <2>1. /\ rec' \in [Controller -> Rec]
        /\ queue' \in [Controller -> SUBSET Deployment]
    <3>1. CASE WillFail(c, d, "NoDeviceMatched") \/ WillFail(c, d, "AmbiguousBinding")
               \/ WillFail(c, d, "DeviceBusy")
      BY <3>1, WillFailType DEF Reason
    <3>2. CASE \E n \in Candidates(d) : WillSetPhase(c, d, "Pulling", n)
      <4>1. PICK n \in Candidates(d) : WillSetPhase(c, d, "Pulling", n)
        BY <3>2
      <4>2. n \in OptNode /\ "Pulling" \in Phase
        BY MatchesAssumption DEF Candidates, Phase
      <4> QED BY <4>1, <4>2, WillSetPhaseType
    <3> QED BY <1>1, <3>1, <3>2 DEF ReconcileBinding
  <2> QED BY <1>1, <2>1 DEF ReconcileBinding, TypeOK
<1>2. CASE ReconcilePulling(c, d)
  <2> DEFINE o == [Seen(c, d) EXCEPT !.phase = "Preparing", !.digest = image[d]]
  <2>1. o \in Dep /\ "Preparing" \in Phase
    <3>1. image[d] \in Image
      BY DEF TypeOK
    <3> QED BY <3>1, SeenType DEF Dep, Phase
  <2>2. WithConditions(o, "Preparing") \in Dep
    BY <2>1, WithConditionsType
  <2>3. /\ rec' \in [Controller -> Rec]
        /\ queue' \in [Controller -> SUBSET Deployment]
    BY <1>2, <2>2, WillWriteType DEF ReconcilePulling
  <2> QED BY <1>2, <2>3 DEF ReconcilePulling, TypeOK
<1>3. CASE PermanentError(c, d)
  <2>1. WillFail(c, d, "ConfigInvalid") \/ WillFail(c, d, "APIVersionUnsupported")
    BY <1>3 DEF PermanentError
  <2>2. /\ rec' \in [Controller -> Rec]
        /\ queue' \in [Controller -> SUBSET Deployment]
    BY <2>1, WillFailType DEF Reason
  <2> QED BY <1>3, <2>2 DEF PermanentError, TypeOK
<1>4. CASE PreparingResumes(c, d)
  <2>1. \/ WillSetPhase(c, d, "Confirming", Seen(c, d).bound)
        \/ WillSetPhase(c, d, "Activating", Seen(c, d).bound)
    BY <1>4 DEF PreparingResumes
  <2>2. /\ rec' \in [Controller -> Rec]
        /\ queue' \in [Controller -> SUBSET Deployment]
    BY <2>1, BoundType, WillSetPhaseType DEF Phase
  <2> QED BY <1>4, <2>2 DEF PreparingResumes, TypeOK
<1>5. CASE PreparingCallsPrepare(c, d)
  <2>1. \/ WillSetPhase(c, d, "Writing", Seen(c, d).bound)
        \/ WillFail(c, d, "PrepareRefused")
        \/ UNCHANGED <<rec, queue>>
    BY <1>5 DEF PreparingCallsPrepare
  <2>2. /\ rec' \in [Controller -> Rec]
        /\ queue' \in [Controller -> SUBSET Deployment]
    BY <2>1, BoundType, WillSetPhaseType, WillFailType DEF Phase, Reason, TypeOK
  <2>3. dev' \in [Node -> Device]
    <3> DEFINE n == Seen(c, d).bound
    <3>1. n \in Node /\ dev[n] \in Device
      BY <1>5 DEF PreparingCallsPrepare, Answers, HasClient, TypeOK
    <3>2. Prepared(dev[n]) \in Device
      BY <3>1, DeviceType, BoundType
    <3> QED BY <1>5, <3>1, <3>2 DEF PreparingCallsPrepare, TypeOK
  <2> QED BY <1>5, <2>2, <2>3 DEF PreparingCallsPrepare, TypeOK
<1>6. CASE ReconcileWriting(c, d)
  <2>1. \/ WillSetPhase(c, d, "Activating", Seen(c, d).bound)
        \/ UNCHANGED <<rec, queue>>
    BY <1>6 DEF ReconcileWriting
  <2>2. /\ rec' \in [Controller -> Rec]
        /\ queue' \in [Controller -> SUBSET Deployment]
    BY <2>1, BoundType, WillSetPhaseType DEF Phase, TypeOK
  <2>3. dev' \in [Node -> Device]
    <3> DEFINE n == Seen(c, d).bound
    <3>1. n \in Node /\ dev[n] \in Device
      BY <1>6 DEF ReconcileWriting, Answers, HasClient, TypeOK
    <3>2. Prepared(dev[n]) \in Device /\ Written(dev[n], d, Seen(c, d).digest) \in Device
      BY <3>1, DeviceType, BoundType
    <3> QED BY <1>6, <3>1, <3>2 DEF ReconcileWriting, TypeOK
  <2> QED BY <1>6, <2>2, <2>3 DEF ReconcileWriting, TypeOK
<1>7. CASE ActivatingSkips(c, d)
  <2>1. WillSetPhase(c, d, "Confirming", Seen(c, d).bound)
    BY <1>7 DEF ActivatingSkips
  <2>2. /\ rec' \in [Controller -> Rec]
        /\ queue' \in [Controller -> SUBSET Deployment]
    BY <2>1, BoundType, WillSetPhaseType DEF Phase
  <2> QED BY <1>7, <2>2 DEF ActivatingSkips, TypeOK
<1>8. CASE ActivatingCallsActivate(c, d)
  <2>1. \/ WillSetPhase(c, d, "Confirming", Seen(c, d).bound)
        \/ UNCHANGED <<rec, queue>>
    BY <1>8 DEF ActivatingCallsActivate
  <2>2. /\ rec' \in [Controller -> Rec]
        /\ queue' \in [Controller -> SUBSET Deployment]
    BY <2>1, BoundType, WillSetPhaseType DEF Phase, TypeOK
  <2>3. dev' \in [Node -> Device]
    <3> DEFINE n == Seen(c, d).bound
    <3>1. n \in Node /\ dev[n] \in Device
      BY <1>8 DEF ActivatingCallsActivate, Answers, HasClient, TypeOK
    <3>2. Activated(dev[n]) \in Device
      BY <3>1, DeviceType, BoundType
    <3> QED BY <1>8, <3>1, <3>2 DEF ActivatingCallsActivate, TypeOK
  <2> QED BY <1>8, <2>2, <2>3 DEF ActivatingCallsActivate, TypeOK
<1>9. CASE ReconcileConfirming(c, d)
  <2>1. \/ WillSetPhase(c, d, "Deployed", Seen(c, d).bound)
        \/ WillFail(c, d, "DeviceRollback")
        \/ WillFail(c, d, "ConfirmTimeout")
    BY <1>9 DEF ReconcileConfirming
  <2>2. /\ rec' \in [Controller -> Rec]
        /\ queue' \in [Controller -> SUBSET Deployment]
    BY <2>1, BoundType, WillSetPhaseType, WillFailType DEF Phase, Reason
  <2> QED BY <1>9, <2>2 DEF ReconcileConfirming, TypeOK
<1>10. CASE ReconcileDeployed(c, d)
  <2>1. PICK a \in {"True", "False"} :
           WillWrite(c, d, [Seen(c, d) EXCEPT !.available = a])
    BY <1>10 DEF ReconcileDeployed
  <2>2. [Seen(c, d) EXCEPT !.available = a] \in Dep
    BY SeenType DEF Dep, CondStatus
  <2>3. /\ rec' \in [Controller -> Rec]
        /\ queue' \in [Controller -> SUBSET Deployment]
    BY <2>1, <2>2, WillWriteType
  <2> QED BY <1>10, <2>3 DEF ReconcileDeployed, TypeOK
<1>11. CASE ReconcileDrops(c, d)
  BY <1>11 DEF ReconcileDrops, Forget, TypeOK
<1> QED BY <1>1, <1>2, <1>3, <1>4, <1>5, <1>6, <1>7, <1>8, <1>9, <1>10, <1>11 DEF Reconcile

\* A reconcile that writes works on a deployment.
LEMMA WorkingType ==
    ASSUME TypeOK, NEW c \in Controller, rec[c].pc # "idle"
    PROVE  rec[c] \in Working
BY DEF TypeOK, Rec, Idle

\* A step of a reconcile that writes, a crash or a sync keeps the types.
LEMMA ControllerType ==
    ASSUME TypeOK, NEW c \in Controller, ControllerActs(c)
    PROVE  TypeOK'
<1>1. CASE \E d \in Deployment : Reconcile(c, d)
  BY <1>1, ReconcileType
<1>2. CASE \E d \in Deployment : SyncCache(c, d)
  BY <1>2 DEF SyncCache, Requeue, TypeOK
<1>3. CASE Annotate(c)
  <2> DEFINE d == rec[c].dep
             armed == [dep[d] EXCEPT !.armed = TRUE]
             r == [rec[c] EXCEPT !.pc = "commit", !.base = armed,
                                 !.want = InPhase(armed, "Confirming", rec[c].want.bound)]
  <2>1. rec[c] \in Working
    BY <1>3, WorkingType DEF Annotate
  <2>2. d \in Deployment /\ rec[c].want.bound \in OptNode
    BY <2>1 DEF Working, Dep
  <2>3. armed \in Dep
    <3>1. dep[d] \in Dep
      BY <2>2 DEF TypeOK
    <3> QED BY <3>1 DEF Dep
  <2>4. InPhase(armed, "Confirming", rec[c].want.bound) \in Dep
    BY <2>2, <2>3, InPhaseType DEF Phase
  <2>5. r \in Rec
    BY <2>1, <2>3, <2>4 DEF Rec, Working
  <2>6. rec' = [rec EXCEPT ![c] = r]
    BY <1>3, <2>2 DEF Annotate, TypeOK
  <2>7. rec' \in [Controller -> Rec]
    BY <2>5, <2>6 DEF TypeOK
  <2>8. dep' \in [Deployment -> Dep]
    BY <1>3, <2>3 DEF Annotate, TypeOK
  <2>9. queue' \in [Controller -> SUBSET Deployment]
    BY <1>3, <2>2 DEF Annotate, DepEvent, OwnEvent, TypeOK
  <2> QED BY <1>3, <2>7, <2>8, <2>9 DEF Annotate, TypeOK
<1>4. CASE Commit(c)
  <2> DEFINE d == rec[c].dep
             merged == MergeStatus(dep[d], rec[c].base, rec[c].want)
             r == [rec[c] EXCEPT !.pc = "config", !.base = merged, !.want = merged]
  <2>1. rec[c] \in Working
    BY <1>4, WorkingType DEF Commit
  <2>2. d \in Deployment /\ rec[c].base \in Dep /\ rec[c].want \in Dep
    BY <2>1 DEF Working
  <2>3. merged \in Dep
    BY <2>2, MergeType DEF TypeOK
  <2>4. r \in Rec /\ Idle \in Rec
    BY <2>1, <2>3 DEF Rec, Working
  <2>5. rec' \in [Controller -> Rec]
    BY <1>4, <2>4 DEF Commit, TypeOK
  <2>6. dep' \in [Deployment -> Dep]
    BY <1>4, <2>3 DEF Commit, TypeOK
  <2>7. queue' \in [Controller -> SUBSET Deployment]
    BY <1>4, <2>2 DEF Commit, OwnEvent, TypeOK
  <2> QED BY <1>4, <2>5, <2>6, <2>7 DEF Commit, TypeOK
<1>5. CASE ReconcileConfigOnly(c)
  <2> DEFINE r == [rec[c] EXCEPT !.pc = "commit",
                                 !.want = FailedWith(rec[c].base, "ConfigInvalid")]
  <2>1. rec[c] \in Working
    BY <1>5, WorkingType DEF ReconcileConfigOnly
  <2>2. rec[c].dep \in Deployment /\ rec[c].base \in Dep
    BY <2>1 DEF Working
  <2>3. FailedWith(rec[c].base, "ConfigInvalid") \in Dep
    BY <2>2, FailedWithType DEF Reason
  <2>4. r \in Rec /\ Idle \in Rec
    BY <2>1, <2>3 DEF Rec, Working
  <2>5. rec' = [rec EXCEPT ![c] = Idle] \/ rec' = [rec EXCEPT ![c] = r]
    BY <1>5 DEF ReconcileConfigOnly, TypeOK
  <2>6. rec' \in [Controller -> Rec]
    BY <2>4, <2>5 DEF TypeOK
  <2>7. dev' \in [Node -> Device]
    <3> DEFINE n == rec[c].base.bound
    <3>1. CASE n \in Node
      <4>1. Rebooted(dev[n]) \in Device
        BY <3>1, DeviceType DEF TypeOK
      <4> QED BY <1>5, <4>1 DEF ReconcileConfigOnly, TypeOK
    <3>2. CASE n \notin Node
      BY <1>5, <3>2 DEF ReconcileConfigOnly, Answers, HasClient, TypeOK
    <3> QED BY <3>1, <3>2
  <2>8. queue' \in [Controller -> SUBSET Deployment]
    <3>1. UNCHANGED queue \/ Requeue(c, rec[c].dep)
      BY <1>5 DEF ReconcileConfigOnly
    <3> QED BY <2>2, <3>1 DEF Requeue, TypeOK
  <2> QED BY <1>5, <2>6, <2>7, <2>8 DEF ReconcileConfigOnly, TypeOK
<1>6. CASE PatchFails(c)
  <2>1. rec[c].dep \in Deployment
    BY <1>6, WorkingType DEF PatchFails, Working
  <2> QED BY <1>6, <2>1 DEF PatchFails, Requeue, TypeOK, Rec
<1>7. CASE Crash(c)
  BY <1>7 DEF Crash, TypeOK, Rec
<1> QED BY <1>1, <1>2, <1>3, <1>4, <1>5, <1>6, <1>7 DEF ControllerActs

\* Heartbeats, silence, the operator and the devices keep the types.
LEMMA NodeStepType ==
    ASSUME TypeOK, NEW n \in Node, NodeStep(n)
    PROVE  TypeOK'
<1>1. queue' \in [Controller -> SUBSET Deployment]
  BY DEF NodeStep, Heartbeat, HeartbeatExpires, ReconcileNode, NodeEvent, WokenBy, TypeOK
<1>2. node[n] \in McuNode /\ dev[n] \in Device
  BY DEF TypeOK
<1>3. CASE Heartbeat(n)
  <2> DEFINE h == [exists |-> TRUE, seen |-> TRUE, fresh |-> TRUE,
                   state |-> dev[n].state, id |-> dev[n].fw,
                   validated |-> dev[n].validated]
  <2>1. h \in McuNode
    BY <1>2, <1>3 DEF Heartbeat, Up, Device, DeviceState, McuNode, NodeState
  <2> QED BY <1>1, <1>3, <2>1 DEF Heartbeat, TypeOK
<1>4. CASE HeartbeatExpires(n)
  <2>1. [node[n] EXCEPT !.fresh = FALSE] \in McuNode
    BY <1>2 DEF McuNode
  <2> QED BY <1>1, <1>4, <2>1 DEF HeartbeatExpires, TypeOK
<1>5. CASE ReconcileNode(n)
  <2>1. [node[n] EXCEPT !.state = "offline"] \in McuNode
    BY <1>2 DEF McuNode, NodeState
  <2> QED BY <1>1, <1>5, <2>1 DEF ReconcileNode, TypeOK
<1> QED BY <1>3, <1>4, <1>5 DEF NodeStep

\* The operator, who deletes, creates and patches, keeps the types.
LEMMA OperatorType ==
    ASSUME TypeOK, Operator
    PROVE  TypeOK'
<1>1. CASE \E d \in Deployment : DeleteDeployment(d)
  BY <1>1, FixedObjects DEF DeleteDeployment, DepEvent, OwnEvent, TypeOK
<1>2. CASE \E d \in Deployment, i \in Image : PatchImage(d, i)
  BY <1>2 DEF PatchImage, TypeOK
<1>3. CASE \E n \in Node : DeleteNode(n) \/ CreateNode(n)
  <2>1. queue' \in [Controller -> SUBSET Deployment]
    BY <1>3 DEF DeleteNode, CreateNode, NodeEvent, WokenBy, TypeOK
  <2> QED BY <1>3, <2>1, FixedObjects DEF DeleteNode, CreateNode, TypeOK
<1> QED BY <1>1, <1>2, <1>3 DEF Operator

\* The devices keep the types.
LEMMA DeviceActsType ==
    ASSUME TypeOK, NEW n \in Node, DeviceActs(n)
    PROVE  TypeOK'
<1>1. dev[n] \in Device
  BY DEF TypeOK
<1>2. PICK a \in Device : DeviceStep(n, a)
  BY <1>1, DeviceType DEF DeviceActs, DeviceReboots, DeviceBoots, SelfCheckPasses,
                          MarksValid, Degrades, Recovers
<1> QED BY <1>2 DEF DeviceStep, TypeOK

\* Every step keeps the types.
LEMMA TypeStep == TypeOK /\ [Next]_vars => TypeOK'
<1> SUFFICES ASSUME TypeOK, [Next]_vars PROVE TypeOK'
  OBVIOUS
<1>1. CASE UNCHANGED vars
  BY <1>1 DEF TypeOK, vars
<1>2. CASE \E d \in Deployment : ConfirmTimeoutElapses(d)
  BY <1>2 DEF ConfirmTimeoutElapses, TypeOK
<1> QED BY <1>1, <1>2, ControllerType, NodeStepType, DeviceActsType, OperatorType DEF Next

\* Every variable of the controller keeps its type, for any number of
\* deployments, nodes, images and controllers, with a stale cache or without.
THEOREM TypeCorrect == Spec => []TypeOK
<1>1. Init => TypeOK
  BY FixedObjects DEF Init, TypeOK, Rec
<1> QED BY <1>1, TypeStep, PTL DEF Spec

(***************************************************************************)
(* The negative timeout is armed                                           *)
(***************************************************************************)
\* The annotation is on the object, or the object is deleted.
Armed(d) == dep[d].armed \/ dep[d].phase = "Gone"

\* ConfirmingArmed is not inductive: a patch to Confirming may be on its way.
\* Until it lands, the annotation was written by the same reconcile or read in
\* a cache, and nothing but a deletion takes it away.
ArmedInv ==
    /\ ConfirmingArmed
    /\ \A c \in Controller, d \in Deployment : cache[c][d].armed => Armed(d)
    /\ \A c \in Controller :
          rec[c].pc = "commit" /\ rec[c].want.phase = "Confirming" => Armed(rec[c].dep)

\* A step of a reconcile that reads changes no object, and either goes on
\* retrying or decides what to write.
LEMMA ReconcileShape ==
    ASSUME NEW c \in Controller, NEW d \in Deployment, Reconcile(c, d)
    PROVE  /\ UNCHANGED <<dep, cache>>
           /\ UNCHANGED rec \/ \E want : WillWrite(c, d, want)
BY DEF Reconcile, ReconcileBinding, ReconcilePulling, PermanentError, PreparingResumes,
       PreparingCallsPrepare, ReconcileWriting, ActivatingSkips, ActivatingCallsActivate,
       ReconcileConfirming, ReconcileDeployed, ReconcileDrops, WillSetPhase, WillFail

\* The steps that change an object or a reconcile in progress.
LEMMA Writers ==
    ASSUME [Next]_vars
    PROVE  \/ UNCHANGED <<dep, rec>>
           \/ \E d \in Deployment : DeleteDeployment(d)
           \/ \E c \in Controller : \/ \E d \in Deployment : Reconcile(c, d)
                                   \/ Annotate(c) \/ Commit(c) \/ ReconcileConfigOnly(c)
                                   \/ PatchFails(c) \/ Crash(c)
<1>1. CASE \E c \in Controller : ControllerActs(c)
  BY <1>1 DEF ControllerActs, SyncCache
<1>2. CASE \E d \in Deployment : ConfirmTimeoutElapses(d)
  BY <1>2 DEF ConfirmTimeoutElapses
<1>3. CASE \E n \in Node : NodeStep(n) \/ DeviceActs(n)
  BY <1>3 DEF NodeStep, Heartbeat, HeartbeatExpires, ReconcileNode, DeviceActs,
              DeviceReboots, DeviceBoots, SelfCheckPasses, MarksValid, Degrades,
              Recovers, DeviceStep
<1>4. CASE Operator
  BY <1>4 DEF Operator, PatchImage, DeleteNode, CreateNode
<1>5. CASE UNCHANGED vars
  BY <1>5 DEF vars
<1> QED BY <1>1, <1>2, <1>3, <1>4, <1>5 DEF Next

\* Only the two patches of a reconcile and a deletion change objects.
LEMMA ObjectWriters ==
    ASSUME [Next]_vars
    PROVE  \/ UNCHANGED dep
           \/ \E c \in Controller : Annotate(c) \/ Commit(c)
           \/ \E d \in Deployment : DeleteDeployment(d)
BY Writers, ReconcileShape DEF ReconcileConfigOnly, PatchFails, Crash

\* How the reconcile of controller c can change: only by a step of c.
LEMMA RecWriters ==
    ASSUME TypeOK, [Next]_vars, NEW c \in Controller
    PROVE  \/ rec'[c] = rec[c]
           \/ \E d \in Deployment : \E want : WillWrite(c, d, want) /\ UNCHANGED dep
           \/ Annotate(c) \/ Commit(c) \/ ReconcileConfigOnly(c)
           \/ PatchFails(c) \/ Crash(c)
<1>1. CASE UNCHANGED rec
  BY <1>1
<1>2. CASE \E x \in Controller, d \in Deployment : Reconcile(x, d)
  <2>1. PICK x \in Controller, d \in Deployment : Reconcile(x, d)
    BY <1>2
  <2>2. ASSUME NEW want, WillWrite(x, d, want), x # c
        PROVE  rec'[c] = rec[c]
    BY <2>2 DEF WillWrite, TypeOK
  <2> QED BY <2>1, <2>2, ReconcileShape
<1>3. CASE \E x \in Controller : /\ x # c
                                /\ \/ Annotate(x) \/ Commit(x) \/ ReconcileConfigOnly(x)
                                   \/ PatchFails(x) \/ Crash(x)
  BY <1>3 DEF Annotate, Commit, ReconcileConfigOnly, PatchFails, Crash, TypeOK
<1>4. CASE \E d \in Deployment : DeleteDeployment(d)
  BY <1>4 DEF DeleteDeployment
<1> QED BY <1>1, <1>2, <1>3, <1>4, Writers

\* A copy in a cache stays as it is or becomes the object as it is.
LEMMA CacheWriters ==
    ASSUME TypeOK, [Next]_vars, NEW c \in Controller, NEW d \in Deployment
    PROVE  cache'[c][d] = cache[c][d] \/ (cache'[c][d] = dep[d] /\ UNCHANGED dep)
<1>1. CASE \E x \in Controller : ControllerActs(x)
  <2>1. PICK x \in Controller : ControllerActs(x)
    BY <1>1
  <2>2. CASE \E e \in Deployment : SyncCache(x, e)
    BY <2>2 DEF SyncCache, TypeOK
  <2>3. CASE Crash(x)
    BY <2>3 DEF Crash, TypeOK
  <2> QED BY <2>1, <2>2, <2>3, ReconcileShape
          DEF ControllerActs, Annotate, Commit, ReconcileConfigOnly, PatchFails
<1>2. CASE UNCHANGED cache
  BY <1>2
<1>3. CASE \E e \in Deployment : ConfirmTimeoutElapses(e)
  BY <1>3 DEF ConfirmTimeoutElapses
<1>4. CASE \E n \in Node : NodeStep(n) \/ DeviceActs(n)
  BY <1>4 DEF NodeStep, Heartbeat, HeartbeatExpires, ReconcileNode, DeviceActs,
              DeviceReboots, DeviceBoots, SelfCheckPasses, MarksValid, Degrades,
              Recovers, DeviceStep
<1>5. CASE Operator
  BY <1>5 DEF Operator, DeleteDeployment, PatchImage, DeleteNode, CreateNode
<1> QED BY <1>1, <1>2, <1>3, <1>4, <1>5 DEF Next, vars

\* How the reconcile of controller c can change, with the reading step named.
LEMMA RecSteps ==
    ASSUME TypeOK, [Next]_vars, NEW c \in Controller
    PROVE  \/ rec'[c] = rec[c]
           \/ \E d \in Deployment : Reconcile(c, d) /\ rec'[c] # rec[c]
           \/ Annotate(c) \/ Commit(c) \/ ReconcileConfigOnly(c)
           \/ PatchFails(c) \/ Crash(c)
<1>1. ASSUME NEW x \in Controller, NEW d \in Deployment, Reconcile(x, d), x # c
      PROVE  rec'[c] = rec[c]
  BY <1>1, ReconcileShape DEF WillWrite, TypeOK
<1>2. ASSUME NEW x \in Controller, x # c,
             Annotate(x) \/ Commit(x) \/ ReconcileConfigOnly(x) \/ PatchFails(x) \/ Crash(x)
      PROVE  rec'[c] = rec[c]
  BY <1>2 DEF Annotate, Commit, ReconcileConfigOnly, PatchFails, Crash, TypeOK
<1>3. ASSUME NEW d \in Deployment, DeleteDeployment(d)
      PROVE  rec'[c] = rec[c]
  BY <1>3 DEF DeleteDeployment
<1> QED BY <1>1, <1>2, <1>3, Writers

\* An object once armed stays so until it is deleted, whatever the step.
LEMMA ArmedStays ==
    ASSUME TypeOK, [Next]_vars, NEW d \in Deployment, Armed(d)
    PROVE  Armed(d)'
<1>1. CASE UNCHANGED dep
  BY <1>1 DEF Armed
<1>2. CASE \E c \in Controller : Annotate(c)
  <2>1. PICK c \in Controller : Annotate(c)
    BY <1>2
  <2>2. rec[c].dep \in Deployment
    BY <2>1, WorkingType DEF Annotate, Working
  <2> DEFINE e == rec[c].dep
             armed == [dep[e] EXCEPT !.armed = TRUE]
  <2>3. dep[e] \in Dep
    BY <2>2 DEF TypeOK
  <2>4. armed.armed
    BY <2>3 DEF Dep
  <2>5. dep' = [dep EXCEPT ![e] = armed]
    BY <2>1 DEF Annotate
  <2>6. dep'[d] = dep[d] \/ dep'[d] = armed
    BY <2>5 DEF TypeOK
  <2> QED BY <2>4, <2>6 DEF Armed
<1>3. CASE \E c \in Controller : Commit(c)
  <2>1. PICK c \in Controller : Commit(c)
    BY <1>3
  <2> DEFINE e == rec[c].dep
             merged == MergeStatus(dep[e], rec[c].base, rec[c].want)
  <2>2. merged.armed = dep[e].armed
    <3>1. e \in Deployment
      BY <2>1, WorkingType DEF Commit, Working
    <3>2. dep[e] \in Dep
      BY <3>1 DEF TypeOK
    <3> QED BY <3>2 DEF MergeStatus, Dep
  <2>3. dep' = [dep EXCEPT ![e] = merged] /\ dep[e].phase # "Gone"
    BY <2>1 DEF Commit
  <2>4. dep'[d] = dep[d] \/ (d = e /\ dep'[d] = merged)
    BY <2>3 DEF TypeOK
  <2> HIDE DEF merged, e
  <2>5. CASE d = e /\ dep'[d] = merged
    BY <2>2, <2>3, <2>5 DEF Armed
  <2>6. CASE dep'[d] = dep[d]
    BY <2>6 DEF Armed
  <2> QED BY <2>4, <2>5, <2>6
<1>4. CASE \E e \in Deployment : DeleteDeployment(e)
  <2>1. DeletedDep.phase = "Gone"
    BY DEF DeletedDep, NewDep
  <2>2. dep'[d] = dep[d] \/ dep'[d] = DeletedDep
    BY <1>4 DEF DeleteDeployment, TypeOK
  <2> QED BY <2>1, <2>2 DEF Armed
<1> QED BY <1>1, <1>2, <1>3, <1>4, ObjectWriters

\* Every step keeps the annotation of the objects that need it.
LEMMA ArmedStep == TypeOK /\ ArmedInv /\ [Next]_vars => ArmedInv'
<1> SUFFICES ASSUME TypeOK, ArmedInv, [Next]_vars PROVE ArmedInv'
  OBVIOUS
<1>0. TypeOK'
  BY TypeStep
<1>1. \A d \in Deployment : Armed(d) => Armed(d)'
  BY ArmedStays
\* The objects: only a status patch brings one to Confirming.
<1>2. ConfirmingArmed'
  <2>1. CASE UNCHANGED dep
    BY <2>1 DEF ArmedInv, ConfirmingArmed
  <2>2. ASSUME NEW c \in Controller, Annotate(c) PROVE ConfirmingArmed'
    <3>1. rec[c].dep \in Deployment
      BY <2>2, WorkingType DEF Annotate, Working
    <3>2. dep[rec[c].dep] \in Dep
      BY <3>1 DEF TypeOK
    <3> QED BY <2>2, <3>1, <3>2 DEF Annotate, ArmedInv, ConfirmingArmed, TypeOK, Dep
  <2>3. ASSUME NEW c \in Controller, Commit(c) PROVE ConfirmingArmed'
    <3> DEFINE d == rec[c].dep
               merged == MergeStatus(dep[d], rec[c].base, rec[c].want)
    <3>1. rec[c] \in Working /\ d \in Deployment
      BY <2>3, WorkingType DEF Commit, Working
    <3>2. dep[d] \in Dep
      BY <3>1 DEF TypeOK
    <3>3. /\ merged.armed = dep[d].armed
          /\ merged.phase \in {dep[d].phase, rec[c].want.phase}
      BY <3>2 DEF MergeStatus, Patched, Dep
    <3>4. merged.phase = "Confirming" => merged.armed
      BY <2>3, <3>1, <3>3 DEF Commit, ArmedInv, ConfirmingArmed, Armed
    <3> QED BY <2>3, <3>1, <3>4 DEF Commit, ArmedInv, ConfirmingArmed, TypeOK
  <2>4. ASSUME NEW e \in Deployment, DeleteDeployment(e) PROVE ConfirmingArmed'
    BY <2>4 DEF DeleteDeployment, DeletedDep, NewDep, ArmedInv, ConfirmingArmed, TypeOK
  <2> QED BY <2>1, <2>2, <2>3, <2>4, ObjectWriters
\* The caches: a copy is as old as the object or older.
<1>3. ASSUME NEW c \in Controller, NEW d \in Deployment, cache'[c][d].armed
      PROVE  Armed(d)'
  <2>1. CASE cache'[c][d] = cache[c][d]
    BY <1>1, <1>3, <2>1 DEF ArmedInv
  <2>2. CASE cache'[c][d] = dep[d] /\ UNCHANGED dep
    BY <1>3, <2>2 DEF Armed
  <2> QED BY <2>1, <2>2, CacheWriters
\* The patches on their way.
<1>4. ASSUME NEW c \in Controller, rec'[c].pc = "commit", rec'[c].want.phase = "Confirming"
      PROVE  Armed(rec[c].dep)'
  <2>1. CASE rec'[c] = rec[c]
    <3>1. rec[c].dep \in Deployment
      BY <1>4, <2>1, WorkingType DEF Working
    <3>2. Armed(rec[c].dep)
      BY <1>4, <2>1 DEF ArmedInv
    <3> QED BY <1>1, <2>1, <3>1, <3>2 DEF Armed
  <2>2. ASSUME NEW d \in Deployment, NEW want, WillWrite(c, d, want), UNCHANGED dep
        PROVE  Armed(rec[c].dep)'
    <3>1. rec'[c].dep = d /\ Seen(c, d).armed
      BY <1>4, <2>2 DEF WillWrite, TypeOK
    <3>2. Armed(d)
      BY <3>1 DEF Seen, ArmedInv, Armed
    <3> QED BY <2>2, <3>1, <3>2 DEF Armed
  <2>3. CASE Annotate(c)
    <3> DEFINE d == rec[c].dep
    <3>1. d \in Deployment
      BY <2>3, WorkingType DEF Annotate, Working
    <3>2. dep[d] \in Dep
      BY <3>1 DEF TypeOK
    <3>3. dep'[d].armed
      BY <2>3, <3>1, <3>2 DEF Annotate, TypeOK, Dep
    <3>4. rec'[c].dep = d
      BY <2>3 DEF Annotate, TypeOK
    <3> QED BY <3>3, <3>4 DEF Armed
  <2>4. CASE Commit(c)
    BY <1>4, <2>4 DEF Commit, TypeOK, Idle
  <2>5. CASE ReconcileConfigOnly(c)
    <3> DEFINE want == FailedWith(rec[c].base, "ConfigInvalid")
               r == [rec[c] EXCEPT !.pc = "commit", !.want = want]
    <3>1. rec[c] \in Working
      BY <2>5, WorkingType DEF ReconcileConfigOnly
    <3>2. want.phase = "Failed"
      BY <3>1 DEF FailedWith, Working, Dep
    <3>3. rec'[c] = Idle \/ rec'[c] = r
      BY <2>5 DEF ReconcileConfigOnly, TypeOK
    <3>4. r.want = want
      BY <3>1 DEF Working
    <3>5. Idle.pc = "idle" /\ r.want.phase = "Failed"
      BY <3>2, <3>4 DEF Idle
    <3> HIDE DEF r
    <3> QED BY <1>4, <3>3, <3>5
  <2>6. CASE PatchFails(c) \/ Crash(c)
    BY <1>4, <2>6 DEF PatchFails, Crash, TypeOK, Idle
  <2> QED BY <2>1, <2>2, <2>3, <2>4, <2>5, <2>6, RecWriters
<1> QED BY <1>2, <1>3, <1>4 DEF ArmedInv

\* An object that waits for its confirmation carries the annotation from which
\* the negative timeout is measured: whatever the controllers, their caches,
\* crashes and failed patches do.
THEOREM TimeoutAlwaysArmed == Spec => []ConfirmingArmed
<1>1. Init => ArmedInv
  <2> SUFFICES ASSUME Init PROVE ArmedInv
    OBVIOUS
  <2>1. ConfirmingArmed
    BY DEF Init, ConfirmingArmed, NewDep
  <2>2. \A c \in Controller, d \in Deployment : ~cache[c][d].armed
    BY DEF Init, NewDep
  <2>3. \A c \in Controller : rec[c].pc = "idle"
    BY DEF Init, Idle
  <2> QED BY <2>1, <2>2, <2>3 DEF ArmedInv
<1>2. ArmedInv => ConfirmingArmed
  BY DEF ArmedInv
<1> QED BY <1>1, <1>2, TypeCorrect, ArmedStep, PTL DEF Spec

(***************************************************************************)
(* One deployment per node, when the cache is current and one controller   *)
(* runs.  Without either, TLC shows that NodeExclusive does not hold.      *)
(***************************************************************************)
Alive(d) == dep[d].phase # "Gone"

\* No other object than d is bound to n, Failed ones aside.
Sole(d, n) == \A e \in Deployment \ {d} : dep[e].bound = n => dep[e].phase = "Failed"

\* What a reconcile that is about to patch may rely on: it read the object as
\* it still is, and the node it claims or keeps is its own.
Owns(r) ==
    /\ Alive(r.dep) => r.base = dep[r.dep]
    /\ r.want.phase # "Gone"
    /\ r.pc = "annotate" => r.want.phase = "Confirming"
    /\ Alive(r.dep) /\ r.want.bound \in Node /\ r.want.phase # "Failed"
          => Sole(r.dep, r.want.bound)

\* NodeExclusive is not inductive: a patch on its way must not break it when it
\* lands, so the claim that Busy checked has to last until then.
ExclusiveInv ==
    /\ NodeExclusive
    /\ \A d \in Deployment : ~Alive(d) => dep[d].bound = NoNode
    /\ \A c \in Controller : rec[c].pc # "idle" => Owns(rec[c])

\* What setPhase and fail want.
LEMMA WantShape ==
    ASSUME NEW o \in Dep
    PROVE  /\ \A ph \in Phase, n \in OptNode :
                 InPhase(o, ph, n).phase = ph /\ InPhase(o, ph, n).bound = n
           /\ \A r \in Reason : FailedWith(o, r).phase = "Failed"
<1>1. ASSUME NEW ph \in Phase, NEW n \in OptNode
      PROVE  InPhase(o, ph, n).phase = ph /\ InPhase(o, ph, n).bound = n
  <2>1. CASE ph = "Deployed"
    BY <2>1 DEF InPhase, WithConditions, Dep
  <2>2. CASE ph = "Confirming"
    BY <2>2 DEF InPhase, WithConditions, Dep
  <2>3. CASE ph # "Deployed" /\ ph # "Confirming"
    BY <2>3 DEF InPhase, WithConditions, Dep
  <2> QED BY <2>1, <2>2, <2>3
<1>2. \A r \in Reason : FailedWith(o, r).phase = "Failed"
  BY DEF FailedWith, Dep
<1> QED BY <1>1, <1>2

\* A reconcile reads a live object that is not Failed, and wants to fail it, to
\* keep its node, or to bind it to a node that Busy found free.
Wants(c, d, want) ==
    /\ WillWrite(c, d, want)
    /\ dep[d].phase \notin {"Failed", "Gone"}
    /\ want.phase # "Gone"
    /\ \/ want.phase = "Failed"
       \/ want.bound = dep[d].bound
       \/ ~Busy(c, d, want.bound)

\* What a reconcile that reads decides to write: the node is kept, free, or given up.
LEMMA ReconcileWants ==
    ASSUME TypeOK, ~CacheLag, NEW c \in Controller, NEW d \in Deployment, Reconcile(c, d)
    PROVE  UNCHANGED rec \/ \E want : Wants(c, d, want)
<1>1. Seen(c, d) = dep[d] /\ dep[d] \in Dep
  BY DEF Seen, TypeOK
<1>2. ASSUME NEW r \in Reason, WillFail(c, d, r), dep[d].phase \notin {"Failed", "Gone"}
      PROVE  \E want : Wants(c, d, want)
  <2>1. FailedWith(dep[d], r).phase = "Failed"
    BY <1>1, WantShape
  <2> QED BY <1>1, <1>2, <2>1 DEF WillFail, Wants
<1>3. ASSUME NEW ph \in Phase \ {"Gone"}, NEW n \in OptNode, WillSetPhase(c, d, ph, n),
             dep[d].phase \notin {"Failed", "Gone"},
             n = dep[d].bound \/ ~Busy(c, d, n)
      PROVE  \E want : Wants(c, d, want)
  <2>1. InPhase(dep[d], ph, n).phase = ph /\ InPhase(dep[d], ph, n).bound = n
    BY <1>1, WantShape
  <2> QED BY <1>1, <1>3, <2>1 DEF WillSetPhase, Wants
<1>4. dep[d].bound \in OptNode
  BY <1>1 DEF Dep
<1>5. CASE ReconcileBinding(c, d)
  <2>1. dep[d].phase = ""
    BY <1>1, <1>5 DEF ReconcileBinding, Takes
  <2>2. CASE \E r \in Reason : WillFail(c, d, r)
    BY <1>2, <2>1, <2>2
  <2>3. CASE \E n \in Candidates(d) : ~Busy(c, d, n) /\ WillSetPhase(c, d, "Pulling", n)
    <3>1. Candidates(d) \subseteq OptNode
      BY MatchesAssumption DEF Candidates
    <3> QED BY <1>3, <2>1, <2>3, <3>1 DEF Phase
  <2> QED BY <1>5, <2>2, <2>3 DEF ReconcileBinding, Reason
<1>6. CASE ReconcilePulling(c, d)
  <2> DEFINE want == WithConditions([dep[d] EXCEPT !.phase = "Preparing",
                                                   !.digest = image[d]], "Preparing")
  <2>1. want.phase = "Preparing" /\ want.bound = dep[d].bound
    BY <1>1 DEF WithConditions, Dep
  <2>2. WillWrite(c, d, want) /\ dep[d].phase = "Pulling"
    BY <1>1, <1>6 DEF ReconcilePulling, Takes
  <2> QED BY <2>1, <2>2 DEF Wants
<1>7. CASE PermanentError(c, d)
  BY <1>1, <1>2, <1>7 DEF PermanentError, Takes, Reason
<1>8. CASE PreparingResumes(c, d) \/ PreparingCallsPrepare(c, d) \/ ReconcileWriting(c, d)
           \/ ActivatingSkips(c, d) \/ ActivatingCallsActivate(c, d)
           \/ ReconcileConfirming(c, d)
  <2>1. \/ UNCHANGED rec
        \/ \E r \in Reason : WillFail(c, d, r)
        \/ \E ph \in Phase \ {"Gone"} : WillSetPhase(c, d, ph, dep[d].bound)
    BY <1>1, <1>8 DEF PreparingResumes, PreparingCallsPrepare, ReconcileWriting,
       ActivatingSkips, ActivatingCallsActivate, ReconcileConfirming, Reason, Phase
  <2>2. dep[d].phase \notin {"Failed", "Gone"}
    BY <1>1, <1>8 DEF PreparingResumes, PreparingCallsPrepare, ReconcileWriting,
       ActivatingSkips, ActivatingCallsActivate, ReconcileConfirming, Takes
  <2> QED BY <1>2, <1>3, <1>4, <2>1, <2>2
<1>9. CASE ReconcileDeployed(c, d)
  <2>1. PICK a \in {"True", "False"} :
           WillWrite(c, d, [dep[d] EXCEPT !.available = a])
    BY <1>1, <1>9 DEF ReconcileDeployed
  <2> DEFINE want == [dep[d] EXCEPT !.available = a]
  <2>2. want.phase = dep[d].phase /\ want.bound = dep[d].bound
    BY <1>1 DEF Dep
  <2>3. dep[d].phase = "Deployed"
    BY <1>1, <1>9 DEF ReconcileDeployed, Takes
  <2> QED BY <2>1, <2>2, <2>3 DEF Wants
<1>10. CASE ReconcileDrops(c, d)
  BY <1>10 DEF ReconcileDrops
<1> QED BY <1>5, <1>6, <1>7, <1>8, <1>9, <1>10 DEF Reconcile

\* A deletion takes nothing away from a claim.
LEMMA OwnsStays ==
    ASSUME TypeOK, NEW r \in Working, Owns(r),
           NEW d \in Deployment, DeleteDeployment(d)
    PROVE  Owns(r)'
<1>1. DeletedDep.phase = "Gone" /\ DeletedDep.bound = NoNode
  BY DEF DeletedDep, NewDep
<1>2. \A e \in Deployment : dep'[e] = IF e = d THEN DeletedDep ELSE dep[e]
  BY DEF DeleteDeployment, TypeOK
<1>3. r.dep \in Deployment
  BY DEF Working
<1>4. ASSUME r.want.bound \in Node, Sole(r.dep, r.want.bound)
      PROVE  Sole(r.dep, r.want.bound)'
  BY <1>1, <1>2, <1>4, NoNodeAssumption DEF Sole
<1> QED BY <1>1, <1>2, <1>3, <1>4 DEF Owns, Alive

\* Every step keeps the claims apart, with a current cache and one controller.
LEMMA ExclusiveStep ==
    ASSUME ~CacheLag, \A c, k \in Controller : c = k,
           TypeOK, ExclusiveInv, [Next]_vars
    PROVE  ExclusiveInv'
<1>1. CASE UNCHANGED <<dep, rec>>
  BY <1>1 DEF ExclusiveInv, NodeExclusive, Alive, Owns, Sole
<1>2. ASSUME NEW d \in Deployment, DeleteDeployment(d)
      PROVE  ExclusiveInv'
  <2>1. DeletedDep.phase = "Gone" /\ DeletedDep.bound = NoNode
    BY DEF DeletedDep, NewDep
  <2>2. \A e \in Deployment : dep'[e] = IF e = d THEN DeletedDep ELSE dep[e]
    BY <1>2 DEF DeleteDeployment, TypeOK
  <2>3. NodeExclusive'
    BY <2>1, <2>2, NoNodeAssumption DEF ExclusiveInv, NodeExclusive
  <2>4. \A e \in Deployment : ~Alive(e)' => dep'[e].bound = NoNode
    BY <2>1, <2>2 DEF ExclusiveInv, Alive
  <2>5. ASSUME NEW c \in Controller, rec'[c].pc # "idle"
        PROVE  Owns(rec[c])'
    <3>1. UNCHANGED rec
      BY <1>2 DEF DeleteDeployment
    <3>2. rec[c] \in Working /\ Owns(rec[c])
      BY <2>5, <3>1, WorkingType DEF ExclusiveInv
    <3> QED BY <1>2, <3>1, <3>2, OwnsStays DEF Owns, Alive, Sole
  <2> QED BY <2>3, <2>4, <2>5 DEF ExclusiveInv
<1>3. ASSUME NEW c \in Controller, NEW d \in Deployment, Reconcile(c, d)
      PROVE  ExclusiveInv'
  <2>1. UNCHANGED dep
    BY <1>3, ReconcileShape
  <2>2. ASSUME NEW want, Wants(c, d, want)
        PROVE  Owns(rec[c])'
    <3> DEFINE r == [pc   |-> IF want.phase = "Confirming" /\ ~Seen(c, d).armed
                              THEN "annotate" ELSE "commit",
                     dep  |-> d, base |-> Seen(c, d), want |-> want]
    <3>1. rec'[c] = r
      BY <2>2 DEF Wants, WillWrite, TypeOK
    <3>2. Seen(c, d) = dep[d]
      BY DEF Seen
    <3>3. ASSUME want.bound \in Node, want.phase # "Failed"
          PROVE  Sole(d, want.bound)
      <4>1. CASE want.bound = dep[d].bound
        BY <2>2, <3>3, <4>1 DEF Wants, Sole, ExclusiveInv, NodeExclusive
      <4>2. CASE ~Busy(c, d, want.bound)
        <5>1. \A e \in Deployment : Seen(c, e) = dep[e]
          BY DEF Seen
        <5> QED BY <3>3, <4>2, <5>1, NoNodeAssumption
                DEF Busy, Sole, ExclusiveInv, Alive
      <4> QED BY <2>2, <3>3, <4>1, <4>2 DEF Wants
    <3> QED BY <2>1, <2>2, <3>1, <3>2, <3>3 DEF Owns, Alive, Sole, Wants
  <2>3. ASSUME NEW x \in Controller, rec'[x].pc # "idle"
        PROVE  Owns(rec[x])'
    <3>1. x = c
      OBVIOUS
    <3>2. CASE UNCHANGED rec
      BY <2>1, <2>3, <3>2 DEF ExclusiveInv, Owns, Alive, Sole
    <3> QED BY <1>3, <2>2, <3>1, <3>2, ReconcileWants
  <2> QED BY <2>1, <2>3 DEF ExclusiveInv, NodeExclusive, Alive
\* The other steps of a reconcile: its own record changes, and at most its own
\* object.
<1>4. ASSUME NEW c \in Controller, rec[c].pc # "idle", UNCHANGED dep,
             rec'[c].pc # "idle" => Owns(rec'[c])
      PROVE  ExclusiveInv'
  <2>1. ASSUME NEW x \in Controller, rec'[x].pc # "idle"
        PROVE  Owns(rec[x])'
    <3>1. x = c
      OBVIOUS
    <3> QED BY <1>4, <2>1, <3>1 DEF Owns, Alive, Sole
  <2> QED BY <1>4, <2>1 DEF ExclusiveInv, NodeExclusive, Alive
<1>5. ASSUME NEW c \in Controller, PatchFails(c) \/ Crash(c)
      PROVE  ExclusiveInv'
  <2>1. UNCHANGED dep /\ rec'[c].pc = "idle"
    BY <1>5 DEF PatchFails, Crash, Idle, TypeOK
  <2>2. ASSUME NEW x \in Controller
        PROVE  rec'[x].pc = "idle"
    BY <2>1
  <2> QED BY <2>1, <2>2 DEF ExclusiveInv, NodeExclusive, Alive
<1>6. ASSUME NEW c \in Controller, ReconcileConfigOnly(c)
      PROVE  ExclusiveInv'
  <2> DEFINE want == FailedWith(rec[c].base, "ConfigInvalid")
             r == [rec[c] EXCEPT !.pc = "commit", !.want = want]
  <2>1. rec[c] \in Working /\ Owns(rec[c]) /\ rec[c].pc # "idle"
    BY <1>6, WorkingType DEF ReconcileConfigOnly, ExclusiveInv
  <2>2. want.phase = "Failed"
    BY <2>1, WantShape DEF Working, Reason
  <2>3. UNCHANGED dep /\ (rec'[c] = Idle \/ rec'[c] = r)
    BY <1>6 DEF ReconcileConfigOnly, TypeOK
  <2>4. Owns(r)
    <3>1. r.dep = rec[c].dep /\ r.base = rec[c].base /\ r.want = want /\ r.pc = "commit"
      BY <2>1 DEF Working
    <3> HIDE DEF r
    <3> QED BY <2>1, <2>2, <3>1 DEF Owns
  <2>5. Idle.pc = "idle"
    BY DEF Idle
  <2> HIDE DEF r
  <2> QED BY <1>4, <2>1, <2>3, <2>4, <2>5
<1>7. ASSUME NEW c \in Controller, Annotate(c)
      PROVE  ExclusiveInv'
  <2> DEFINE d == rec[c].dep
             armed == [dep[d] EXCEPT !.armed = TRUE]
             want == InPhase(armed, "Confirming", rec[c].want.bound)
             r == [rec[c] EXCEPT !.pc = "commit", !.base = armed, !.want = want]
  <2>1. rec[c] \in Working /\ Owns(rec[c]) /\ Alive(d) /\ rec[c].pc = "annotate"
    BY <1>7, WorkingType DEF Annotate, ExclusiveInv, Alive
  <2>2. d \in Deployment /\ dep[d] \in Dep /\ rec[c].want.bound \in OptNode
    BY <2>1 DEF Working, Dep, TypeOK
  <2>3. armed \in Dep /\ armed.phase = dep[d].phase /\ armed.bound = dep[d].bound
    BY <2>2 DEF Dep
  <2>4. want.phase = "Confirming" /\ want.bound = rec[c].want.bound
    <3>1. "Confirming" \in Phase
      BY DEF Phase
    <3> HIDE DEF armed
    <3> QED BY <2>2, <2>3, <3>1, WantShape
  <2>5. rec'[c] = r
    BY <1>7, <2>1 DEF Annotate, TypeOK
  <2>6. r.dep = d /\ r.base = armed /\ r.want = want /\ r.pc = "commit"
    BY <2>1 DEF Working
  <2>7. \A e \in Deployment : dep'[e] = IF e = d THEN armed ELSE dep[e]
    BY <1>7 DEF Annotate, TypeOK
  <2>8. \A e \in Deployment : dep'[e].phase = dep[e].phase /\ dep'[e].bound = dep[e].bound
    BY <2>3, <2>7
  <2>9. NodeExclusive' /\ \A e \in Deployment : ~Alive(e)' => dep'[e].bound = NoNode
    BY <2>8 DEF ExclusiveInv, NodeExclusive, Alive
  <2>10. rec[c].want.bound \in Node => Sole(d, rec[c].want.bound)
    BY <2>1 DEF Owns
  <2>11. Owns(rec[c])'
    <3> HIDE DEF armed, want, r, d
    <3> QED BY <2>2, <2>4, <2>5, <2>6, <2>7, <2>8, <2>10 DEF Owns, Alive, Sole
  <2>12. \A x \in Controller : x = c
    OBVIOUS
  <2> QED BY <2>9, <2>11, <2>12 DEF ExclusiveInv
<1>8. ASSUME NEW c \in Controller, Commit(c)
      PROVE  ExclusiveInv'
  <2> DEFINE d == rec[c].dep
             want == rec[c].want
             merged == MergeStatus(dep[d], rec[c].base, want)
             r == [rec[c] EXCEPT !.pc = "config", !.base = merged, !.want = merged]
  <2>1. rec[c] \in Working /\ Owns(rec[c]) /\ Alive(d)
    BY <1>8, WorkingType DEF Commit, ExclusiveInv, Alive
  <2>2. d \in Deployment /\ dep[d] \in Dep /\ want \in Dep /\ rec[c].base = dep[d]
    BY <2>1 DEF Working, TypeOK, Owns
  <2>3. merged.phase = want.phase /\ merged.bound = want.bound
    BY <2>2 DEF MergeStatus, Patched, Dep
  <2>4. want.phase # "Gone" /\ (want.bound \in Node /\ want.phase # "Failed"
                                 => Sole(d, want.bound))
    BY <2>1 DEF Owns
  <2>5. rec'[c] = Idle \/ rec'[c] = r
    BY <1>8 DEF Commit, TypeOK
  <2>6. r.dep = d /\ r.base = merged /\ r.want = merged /\ r.pc = "config" /\ Idle.pc = "idle"
    BY <2>1 DEF Working, Idle
  <2>7. \A e \in Deployment : dep'[e] = IF e = d THEN merged ELSE dep[e]
    BY <1>8 DEF Commit, TypeOK
  <2> HIDE DEF merged, want, r, d
  <2>8. NodeExclusive'
    BY <2>2, <2>3, <2>4, <2>7 DEF ExclusiveInv, NodeExclusive, Sole
  <2>9. \A e \in Deployment : ~Alive(e)' => dep'[e].bound = NoNode
    BY <2>2, <2>3, <2>4, <2>7 DEF ExclusiveInv, Alive
  <2>10. rec'[c].pc # "idle" => Owns(rec[c])'
    BY <2>2, <2>3, <2>4, <2>5, <2>6, <2>7 DEF Owns, Alive, Sole
  <2>11. \A x \in Controller : x = c
    OBVIOUS
  <2> QED BY <2>8, <2>9, <2>10, <2>11 DEF ExclusiveInv
<1> QED BY <1>1, <1>2, <1>3, <1>5, <1>6, <1>7, <1>8, Writers

\* With a current cache and one controller, no two live deployments hold the
\* same device, for any number of deployments and nodes: the claim that
\* checkNotBusy looked at lasts until the patch that makes it lands.
THEOREM OneDeploymentPerNode ==
    ASSUME ~CacheLag, \A c, k \in Controller : c = k
    PROVE  Spec => []NodeExclusive
<1>1. Init => ExclusiveInv
  <2> SUFFICES ASSUME Init PROVE ExclusiveInv
    OBVIOUS
  <2>1. \A d \in Deployment : dep[d].bound = NoNode /\ dep[d].phase = ""
    BY DEF Init, NewDep
  <2>2. \A c \in Controller : rec[c].pc = "idle"
    BY DEF Init, Idle
  <2> QED BY <2>1, <2>2, NoNodeAssumption DEF ExclusiveInv, NodeExclusive, Alive
<1>2. TypeOK /\ ExclusiveInv /\ [Next]_vars => ExclusiveInv'
  BY ExclusiveStep
<1>3. ExclusiveInv => NodeExclusive
  BY DEF ExclusiveInv
<1> QED BY <1>1, <1>2, <1>3, TypeCorrect, PTL DEF Spec

(***************************************************************************)
(* The status stays coherent, whatever the caches, the number of           *)
(* controllers and the mixture of their patches.                           *)
(***************************************************************************)
\* The object has the node and the digest its phase needs.
Coherent(o) ==
    /\ o.phase \notin {"", "Failed", "Gone"} => o.bound \in Node
    /\ o.phase \notin {"", "Pulling", "Failed", "Gone"} => o.digest \in Image

\* What the copy o has of the object d, the stored object still has.
Covers(d, o) ==
    \/ ~Alive(d)
    \/ /\ o.bound \in Node => dep[d].bound \in Node
       /\ o.digest \in Image => dep[d].digest \in Image

\* A reconcile that read o and wants w takes neither the node nor the digest away.
Keeps(o, w) ==
    /\ Coherent(w)
    /\ w.bound \in Node \cup {o.bound}
    /\ w.digest \in Image \cup {o.digest}
    /\ w.phase = "Confirming" => o.digest \in Image

Sound(r) ==
    /\ Coherent(r.base) /\ Covers(r.dep, r.base)
    /\ Keeps(r.base, r.want)
    /\ r.pc = "annotate" => r.want.phase = "Confirming"

\* StatusCoherent is not inductive: a patch computed from an old copy lands on an
\* object that other controllers have changed.  The node and the digest are
\* never taken away, so what the copy had, the object has.
CoherentInv ==
    /\ StatusCoherent
    /\ \A c \in Controller, d \in Deployment :
          Coherent(cache[c][d]) /\ Covers(d, cache[c][d])
    /\ \A c \in Controller : rec[c].pc # "idle" => Sound(rec[c])

\* The fields that matter here of what setPhase and fail want.
LEMMA WantFields ==
    ASSUME NEW o \in Dep
    PROVE  /\ \A ph \in Phase, n \in OptNode :
                 /\ InPhase(o, ph, n) \in Dep
                 /\ InPhase(o, ph, n).phase = ph
                 /\ InPhase(o, ph, n).bound = n
                 /\ InPhase(o, ph, n).digest = o.digest
           /\ \A r \in Reason : /\ FailedWith(o, r) \in Dep
                                /\ FailedWith(o, r).phase = "Failed"
                                /\ FailedWith(o, r).bound = o.bound
                                /\ FailedWith(o, r).digest = o.digest
<1>1. ASSUME NEW ph \in Phase, NEW n \in OptNode
      PROVE  InPhase(o, ph, n).digest = o.digest
  <2>1. CASE ph = "Deployed"
    BY <2>1 DEF InPhase, WithConditions, Dep
  <2>2. CASE ph = "Confirming"
    BY <2>2 DEF InPhase, WithConditions, Dep
  <2>3. CASE ph # "Deployed" /\ ph # "Confirming"
    BY <2>3 DEF InPhase, WithConditions, Dep
  <2> QED BY <2>1, <2>2, <2>3
<1>2. \A r \in Reason : FailedWith(o, r).bound = o.bound /\ FailedWith(o, r).digest = o.digest
  BY DEF FailedWith, Dep
<1> QED BY <1>1, <1>2, WantShape, InPhaseType, FailedWithType

\* What a controller reads is coherent and covered.
LEMMA SeenCoherent ==
    ASSUME CoherentInv, NEW c \in Controller, NEW d \in Deployment
    PROVE  Coherent(Seen(c, d)) /\ Covers(d, Seen(c, d))
BY DEF Seen, CoherentInv, StatusCoherent, Coherent, Covers

\* A reconcile that reads decides to write something that keeps what it read.
LEMMA ReconcileKeeps ==
    ASSUME TypeOK, CoherentInv, NEW c \in Controller, NEW d \in Deployment, Reconcile(c, d)
    PROVE  \/ UNCHANGED rec
           \/ \E want \in Dep : WillWrite(c, d, want) /\ Keeps(Seen(c, d), want)
<1> DEFINE o == Seen(c, d)
<1>1. o \in Dep /\ Coherent(o)
  BY SeenType, SeenCoherent
<1> HIDE DEF o
<1>2. ASSUME NEW r \in Reason, WillFail(c, d, r)
      PROVE  \E want \in Dep : WillWrite(c, d, want) /\ Keeps(o, want)
  <2>1. Keeps(o, FailedWith(o, r)) /\ FailedWith(o, r) \in Dep
    BY <1>1, WantFields DEF Keeps, Coherent
  <2> QED BY <1>2, <2>1 DEF WillFail, o
\* A phase of a bound object whose digest is known.
<1>3. ASSUME NEW ph \in Phase, WillSetPhase(c, d, ph, o.bound),
             o.bound \in Node, o.digest \in Image
      PROVE  \E want \in Dep : WillWrite(c, d, want) /\ Keeps(o, want)
  <2> DEFINE want == InPhase(o, ph, o.bound)
  <2>1. want \in Dep /\ want.bound = o.bound /\ want.digest = o.digest
    BY <1>1, <1>3, WantFields
  <2> HIDE DEF want
  <2>2. Keeps(o, want)
    BY <1>3, <2>1 DEF Keeps, Coherent
  <2> QED BY <1>3, <2>1, <2>2 DEF WillSetPhase, o, want
<1>4. o.bound \in OptNode
  BY <1>1 DEF Dep
<1>5. CASE ReconcileBinding(c, d)
  <2>1. CASE \E r \in Reason : WillFail(c, d, r)
    BY <1>2, <2>1 DEF o
  <2>2. CASE \E n \in Candidates(d) : WillSetPhase(c, d, "Pulling", n)
    <3>1. PICK n \in Candidates(d) : WillSetPhase(c, d, "Pulling", n)
      BY <2>2
    <3>2. n \in Node /\ "Pulling" \in Phase
      BY MatchesAssumption DEF Candidates, Phase
    <3> DEFINE want == InPhase(o, "Pulling", n)
    <3>3. /\ want \in Dep /\ want.phase = "Pulling"
          /\ want.bound = n /\ want.digest = o.digest
      BY <1>1, <3>2, WantFields
    <3> HIDE DEF want
    <3>4. Keeps(o, want)
      BY <3>2, <3>3 DEF Keeps, Coherent
    <3> QED BY <3>1, <3>3, <3>4 DEF WillSetPhase, o, want
  <2> QED BY <1>5, <2>1, <2>2 DEF ReconcileBinding, Reason
<1>6. CASE ReconcilePulling(c, d)
  <2> DEFINE p == [o EXCEPT !.phase = "Preparing", !.digest = image[d]]
             want == WithConditions(p, "Preparing")
  <2>1. image[d] \in Image /\ o.phase = "Pulling"
    BY <1>6 DEF ReconcilePulling, Takes, TypeOK, o
  <2>2. p \in Dep
    BY <1>1, <2>1 DEF Dep, Phase
  <2>3. want.phase = "Preparing" /\ want.bound = o.bound /\ want.digest = image[d]
    BY <1>1 DEF WithConditions, Dep
  <2>4. want \in Dep
    BY <2>2, WithConditionsType DEF Phase
  <2>5. WillWrite(c, d, want)
    BY <1>6 DEF ReconcilePulling, o
  <2> HIDE DEF want
  <2>6. Keeps(o, want)
    BY <1>1, <2>1, <2>3 DEF Keeps, Coherent
  <2> QED BY <2>4, <2>5, <2>6 DEF o
<1>7. CASE PermanentError(c, d)
  BY <1>2, <1>7 DEF PermanentError, Reason, o
<1>8. CASE PreparingResumes(c, d) \/ PreparingCallsPrepare(c, d) \/ ReconcileWriting(c, d)
           \/ ActivatingSkips(c, d) \/ ActivatingCallsActivate(c, d)
           \/ ReconcileConfirming(c, d)
  <2>1. \/ UNCHANGED rec
        \/ \E r \in Reason : WillFail(c, d, r)
        \/ \E ph \in Phase : WillSetPhase(c, d, ph, o.bound)
    BY <1>8 DEF PreparingResumes, PreparingCallsPrepare, ReconcileWriting,
       ActivatingSkips, ActivatingCallsActivate, ReconcileConfirming, Reason, Phase, o
  <2>2. o.phase \in {"Preparing", "Writing", "Activating", "Confirming"}
    BY <1>8 DEF PreparingResumes, PreparingCallsPrepare, ReconcileWriting,
       ActivatingSkips, ActivatingCallsActivate, ReconcileConfirming, Takes, o
  <2>3. o.bound \in Node /\ o.digest \in Image
    BY <1>1, <2>2 DEF Coherent
  <2> QED BY <1>2, <1>3, <2>1, <2>3 DEF o
<1>9. CASE ReconcileDeployed(c, d)
  <2>1. PICK a \in {"True", "False"} : WillWrite(c, d, [o EXCEPT !.available = a])
    BY <1>9 DEF ReconcileDeployed, o
  <2> DEFINE want == [o EXCEPT !.available = a]
  <2>2. /\ want.phase = o.phase /\ want.bound = o.bound /\ want.digest = o.digest
        /\ want \in Dep
    BY <1>1 DEF Dep, CondStatus
  <2>3. Keeps(o, want)
    BY <1>1, <2>2 DEF Keeps, Coherent
  <2> QED BY <2>1, <2>2, <2>3 DEF o
<1>10. CASE ReconcileDrops(c, d)
  BY <1>10 DEF ReconcileDrops
<1> QED BY <1>5, <1>6, <1>7, <1>8, <1>9, <1>10 DEF Reconcile, o

\* A patch of a reconcile that keeps what it read leaves a coherent object, and
\* takes neither the node nor the digest from it.
LEMMA MergeCoherent ==
    ASSUME NEW stored \in Dep, NEW base \in Dep, NEW want \in Dep,
           Coherent(stored), Coherent(base), Keeps(base, want), stored.phase # "Gone",
           base.bound \in Node => stored.bound \in Node,
           base.digest \in Image => stored.digest \in Image
    PROVE  LET m == MergeStatus(stored, base, want) IN
           /\ Coherent(m)
           /\ stored.bound \in Node => m.bound \in Node
           /\ stored.digest \in Image => m.digest \in Image
<1> DEFINE m == MergeStatus(stored, base, want)
<1>1. /\ m.phase = IF want.phase # base.phase THEN want.phase ELSE stored.phase
      /\ m.bound = IF want.bound # base.bound THEN want.bound ELSE stored.bound
      /\ m.digest = IF want.digest # base.digest THEN want.digest ELSE stored.digest
  BY DEF MergeStatus, Patched, Dep
<1> HIDE DEF m
<1>2. stored.bound \in Node => m.bound \in Node
  BY <1>1 DEF Keeps
<1>3. stored.digest \in Image => m.digest \in Image
  BY <1>1 DEF Keeps
<1>4. want.bound \in Node => m.bound \in Node
  BY <1>1
<1>5. want.digest \in Image => m.digest \in Image
  BY <1>1
<1>6. Coherent(m)
  BY <1>1, <1>2, <1>3, <1>4, <1>5 DEF Keeps, Coherent
<1> QED BY <1>2, <1>3, <1>6 DEF m

\* What a status patch leaves in the object it lands on.
LEMMA CommitCoherent ==
    ASSUME TypeOK, CoherentInv, NEW c \in Controller, Commit(c)
    PROVE  LET d == rec[c].dep
               m == MergeStatus(dep[d], rec[c].base, rec[c].want)
           IN  /\ d \in Deployment /\ dep' = [dep EXCEPT ![d] = m]
               /\ Coherent(m)
               /\ dep[d].bound \in Node => m.bound \in Node
               /\ dep[d].digest \in Image => m.digest \in Image
<1>1. rec[c] \in Working /\ Sound(rec[c])
  BY WorkingType DEF Commit, CoherentInv
<1>2. /\ rec[c].dep \in Deployment /\ rec[c].base \in Dep /\ rec[c].want \in Dep
      /\ dep[rec[c].dep] \in Dep
  BY <1>1 DEF Working, TypeOK
<1>3. Alive(rec[c].dep)
  BY DEF Commit, Alive
<1>4. Coherent(dep[rec[c].dep])
  BY <1>2 DEF CoherentInv, StatusCoherent, Coherent
<1>5. dep' = [dep EXCEPT ![rec[c].dep] = MergeStatus(dep[rec[c].dep], rec[c].base, rec[c].want)]
  BY DEF Commit
<1> QED BY <1>1, <1>2, <1>3, <1>4, <1>5, MergeCoherent DEF Sound, Covers, Alive

\* What Annotate leaves in the object: all but the annotation.
LEMMA AnnotateShape ==
    ASSUME TypeOK, NEW c \in Controller, Annotate(c)
    PROVE  LET d == rec[c].dep
               a == [dep[d] EXCEPT !.armed = TRUE]
           IN  /\ d \in Deployment /\ a \in Dep /\ dep' = [dep EXCEPT ![d] = a]
               /\ a.phase = dep[d].phase /\ a.bound = dep[d].bound
               /\ a.digest = dep[d].digest
<1>1. rec[c].dep \in Deployment
  BY WorkingType DEF Annotate, Working
<1>2. dep[rec[c].dep] \in Dep
  BY <1>1 DEF TypeOK
<1> QED BY <1>1, <1>2 DEF Annotate, Dep

\* A copy stays covered: nothing takes a node or a digest away but a deletion.
LEMMA CoversStays ==
    ASSUME TypeOK, CoherentInv, [Next]_vars, NEW d \in Deployment, NEW o, Covers(d, o)
    PROVE  Covers(d, o)'
<1>1. CASE UNCHANGED dep
  BY <1>1 DEF Covers, Alive
<1>2. ASSUME NEW c \in Controller, Annotate(c) PROVE Covers(d, o)'
  BY <1>2, AnnotateShape DEF Covers, Alive, TypeOK
<1>3. ASSUME NEW c \in Controller, Commit(c) PROVE Covers(d, o)'
  <2>1. dep[rec[c].dep].phase # "Gone"
    BY <1>3 DEF Commit
  <2> QED BY <1>3, <2>1, CommitCoherent DEF Covers, Alive, TypeOK
<1>4. ASSUME NEW e \in Deployment, DeleteDeployment(e) PROVE Covers(d, o)'
  BY <1>4 DEF DeleteDeployment, DeletedDep, NewDep, Covers, Alive, TypeOK
<1> QED BY <1>1, <1>2, <1>3, <1>4, ObjectWriters

\* Every step keeps the status coherent.
LEMMA CoherentStep == TypeOK /\ CoherentInv /\ [Next]_vars => CoherentInv'
<1> SUFFICES ASSUME TypeOK, CoherentInv, [Next]_vars PROVE CoherentInv'
  OBVIOUS
\* The objects.
<1>1. StatusCoherent'
  <2>1. CASE UNCHANGED dep
    BY <2>1 DEF CoherentInv, StatusCoherent
  <2>2. ASSUME NEW c \in Controller, Annotate(c) PROVE StatusCoherent'
    BY <2>2, AnnotateShape DEF CoherentInv, StatusCoherent, TypeOK
  <2>3. ASSUME NEW c \in Controller, Commit(c) PROVE StatusCoherent'
    BY <2>3, CommitCoherent DEF CoherentInv, StatusCoherent, Coherent, TypeOK
  <2>4. ASSUME NEW e \in Deployment, DeleteDeployment(e) PROVE StatusCoherent'
    BY <2>4 DEF DeleteDeployment, DeletedDep, NewDep, CoherentInv, StatusCoherent, TypeOK
  <2> QED BY <2>1, <2>2, <2>3, <2>4, ObjectWriters
\* The caches: a copy is the one there was, or the object as it is.
<1>2. ASSUME NEW c \in Controller, NEW d \in Deployment
      PROVE  Coherent(cache'[c][d]) /\ Covers(d, cache[c][d])'
  <2>1. CASE cache'[c][d] = cache[c][d]
    <3>1. Coherent(cache[c][d]) /\ Covers(d, cache[c][d])
      BY DEF CoherentInv
    <3>2. ASSUME NEW o, o = cache[c][d] PROVE Covers(d, o)'
      BY <3>1, <3>2, CoversStays
    <3> QED BY <2>1, <3>1, <3>2 DEF Covers
  <2>2. CASE cache'[c][d] = dep[d] /\ UNCHANGED dep
    BY <2>2 DEF CoherentInv, StatusCoherent, Coherent, Covers
  <2> QED BY <2>1, <2>2, CacheWriters
\* The reconciles in progress.
<1>3. ASSUME NEW c \in Controller, rec'[c].pc # "idle"
      PROVE  Sound(rec[c])'
  <2>1. CASE rec'[c] = rec[c]
    <3>1. rec[c] \in Working /\ Sound(rec[c])
      BY <1>3, <2>1, WorkingType DEF CoherentInv
    <3>2. Covers(rec[c].dep, rec[c].base)
      BY <3>1 DEF Sound
    <3>3. ASSUME NEW d \in Deployment, d = rec[c].dep, NEW o, o = rec[c].base
          PROVE  Covers(d, o)'
      BY <3>2, <3>3, CoversStays
    <3> QED BY <2>1, <3>1, <3>3 DEF Sound, Covers, Alive, Working
  <2>2. ASSUME NEW d \in Deployment, Reconcile(c, d), rec'[c] # rec[c]
        PROVE  Sound(rec[c])'
    <3>1. PICK want \in Dep : WillWrite(c, d, want) /\ Keeps(Seen(c, d), want)
      BY <2>2, ReconcileKeeps
    <3> DEFINE r == [pc   |-> IF want.phase = "Confirming" /\ ~Seen(c, d).armed
                              THEN "annotate" ELSE "commit",
                     dep  |-> d, base |-> Seen(c, d), want |-> want]
    <3>2. rec'[c] = r
      BY <3>1 DEF WillWrite, TypeOK
    <3>3. Coherent(Seen(c, d)) /\ Covers(d, Seen(c, d)) /\ UNCHANGED dep
      BY <2>2, SeenCoherent, ReconcileShape
    <3> QED BY <3>1, <3>2, <3>3 DEF Sound, Covers, Alive
  <2>3. CASE Annotate(c)
    <3> DEFINE d == rec[c].dep
               a == [dep[d] EXCEPT !.armed = TRUE]
               want == InPhase(a, "Confirming", rec[c].want.bound)
    <3>1. rec[c] \in Working /\ Sound(rec[c]) /\ Alive(d) /\ rec[c].pc = "annotate"
      BY <2>3, WorkingType DEF Annotate, CoherentInv, Alive
    <3>2. /\ d \in Deployment /\ a \in Dep /\ dep' = [dep EXCEPT ![d] = a]
          /\ a.phase = dep[d].phase /\ a.bound = dep[d].bound
          /\ a.digest = dep[d].digest
      BY <2>3, AnnotateShape
    <3>3. rec[c].want.bound \in Node /\ a.digest \in Image
      BY <3>1, <3>2 DEF Sound, Keeps, Coherent, Covers
    <3>4. want.phase = "Confirming" /\ want.bound = rec[c].want.bound /\ want.digest = a.digest
      <4>1. "Confirming" \in Phase /\ rec[c].want.bound \in OptNode
        BY <3>3 DEF Phase
      <4> HIDE DEF a
      <4> QED BY <3>2, <4>1, WantFields
    <3>5. Coherent(a)
      BY <3>2 DEF CoherentInv, StatusCoherent, Coherent
    <3>6. rec'[c].pc = "commit" /\ rec'[c].dep = d /\ rec'[c].base = a /\ rec'[c].want = want
      BY <2>3, <3>1 DEF Annotate, TypeOK, Working
    <3>7. dep'[d] = a
      BY <3>2 DEF TypeOK
    <3> HIDE DEF a, want, d
    <3> QED BY <3>3, <3>4, <3>5, <3>6, <3>7 DEF Sound, Keeps, Coherent, Covers, Alive
  <2>4. CASE Commit(c)
    <3> DEFINE d == rec[c].dep
               m == MergeStatus(dep[d], rec[c].base, rec[c].want)
               r == [rec[c] EXCEPT !.pc = "config", !.base = m, !.want = m]
    <3>1. rec[c] \in Working
      BY <2>4, WorkingType DEF Commit
    <3>2. rec'[c] = r \/ rec'[c] = Idle
      BY <2>4 DEF Commit, TypeOK
    <3>3. rec'[c] = r
      BY <1>3, <3>2 DEF Idle
    <3>4. r.pc = "config" /\ r.dep = d /\ r.base = m /\ r.want = m
      BY <3>1 DEF Working
    <3>5. d \in Deployment /\ dep' = [dep EXCEPT ![d] = m] /\ Coherent(m)
      BY <2>4, CommitCoherent
    <3>6. dep'[d] = m
      BY <3>5 DEF TypeOK
    <3> HIDE DEF m, r, d
    <3> QED BY <3>3, <3>4, <3>5, <3>6 DEF Sound, Keeps, Coherent, Covers
  <2>5. CASE ReconcileConfigOnly(c)
    <3> DEFINE want == FailedWith(rec[c].base, "ConfigInvalid")
               r == [rec[c] EXCEPT !.pc = "commit", !.want = want]
    <3>1. rec[c] \in Working /\ Sound(rec[c])
      BY <2>5, WorkingType DEF ReconcileConfigOnly, CoherentInv
    <3>2. rec'[c] = Idle \/ rec'[c] = r
      BY <2>5 DEF ReconcileConfigOnly, TypeOK
    <3>3. rec'[c] = r
      BY <1>3, <3>2 DEF Idle
    <3>4. /\ want.phase = "Failed" /\ want.bound = rec[c].base.bound
          /\ want.digest = rec[c].base.digest
      BY <3>1, WantFields DEF Working, Reason
    <3>5. r.pc = "commit" /\ r.dep = rec[c].dep /\ r.base = rec[c].base /\ r.want = want
      BY <3>1 DEF Working
    <3>6. UNCHANGED dep
      BY <2>5 DEF ReconcileConfigOnly
    <3> HIDE DEF want, r
    <3> QED BY <3>1, <3>3, <3>4, <3>5, <3>6 DEF Sound, Keeps, Coherent, Covers, Alive
  <2>6. CASE PatchFails(c) \/ Crash(c)
    BY <1>3, <2>6 DEF PatchFails, Crash, Idle, TypeOK
  <2> QED BY <2>1, <2>2, <2>3, <2>4, <2>5, <2>6, RecSteps
<1> QED BY <1>1, <1>2, <1>3 DEF CoherentInv

\* The patches of any number of controllers, computed from caches however old,
\* never leave a deployment without the node or the digest its phase needs.
THEOREM StatusStaysCoherent == Spec => []StatusCoherent
<1>1. Init => CoherentInv
  <2> SUFFICES ASSUME Init PROVE CoherentInv
    OBVIOUS
  <2>1. \A d \in Deployment : dep[d] = NewDep /\ NewDep.phase = ""
    BY DEF Init, NewDep
  <2>2. \A c \in Controller, d \in Deployment : cache[c][d] = dep[d]
    BY DEF Init
  <2>3. \A c \in Controller : rec[c].pc = "idle"
    BY DEF Init, Idle
  <2> QED BY <2>1, <2>2, <2>3 DEF CoherentInv, StatusCoherent, Coherent, Covers
<1>2. CoherentInv => StatusCoherent
  BY DEF CoherentInv
<1> QED BY <1>1, <1>2, TypeCorrect, CoherentStep, PTL DEF Spec

(***************************************************************************)
(* Ready is true of Deployed objects only.  The conditions are one array,  *)
(* the phase is a field of its own: a patch sets both together only when   *)
(* it was computed from the object as it still is, which is what Owns      *)
(* says of a reconcile.                                                    *)
(***************************************************************************)
Ripe(o) == Ready(o) => o.phase = "Deployed"

ReadyInv ==
    /\ ReadyImpliesDeployed
    /\ \A c \in Controller : rec[c].pc # "idle" => Ripe(rec[c].want)

\* What setPhase and fail want is ready only as Deployed.
LEMMA RipeWants ==
    ASSUME NEW o \in Dep
    PROVE  /\ \A ph \in Phase, n \in OptNode : Ripe(InPhase(o, ph, n))
           /\ \A r \in Reason : Ripe(FailedWith(o, r))
<1>1. ASSUME NEW ph \in Phase, NEW n \in OptNode
      PROVE  Ripe(InPhase(o, ph, n))
  <2>1. CASE ph = "Deployed"
    BY <2>1, WantShape DEF Ripe
  <2>2. CASE ph = "Confirming"
    BY <2>2 DEF InPhase, WithConditions, Dep, Ripe, Ready
  <2>3. CASE ph # "Deployed" /\ ph # "Confirming"
    BY <2>3 DEF InPhase, WithConditions, Dep, Ripe, Ready
  <2> QED BY <2>1, <2>2, <2>3
<1>2. \A r \in Reason : Ripe(FailedWith(o, r))
  BY DEF FailedWith, Dep, Ripe, Ready
<1> QED BY <1>1, <1>2

\* A reconcile that reads wants an object that is ready only as Deployed.
LEMMA ReconcileRipe ==
    ASSUME TypeOK, NEW c \in Controller, NEW d \in Deployment, Reconcile(c, d)
    PROVE  UNCHANGED rec \/ \E want \in Dep : WillWrite(c, d, want) /\ Ripe(want)
<1> DEFINE o == Seen(c, d)
<1>1. o \in Dep
  BY SeenType
<1> HIDE DEF o
<1>2. ASSUME NEW r \in Reason, WillFail(c, d, r)
      PROVE  \E want \in Dep : WillWrite(c, d, want) /\ Ripe(want)
  BY <1>1, <1>2, RipeWants, FailedWithType DEF WillFail, o
<1>3. ASSUME NEW ph \in Phase, NEW n \in OptNode, WillSetPhase(c, d, ph, n)
      PROVE  \E want \in Dep : WillWrite(c, d, want) /\ Ripe(want)
  BY <1>1, <1>3, RipeWants, InPhaseType DEF WillSetPhase, o
<1>4. o.bound \in OptNode
  BY <1>1 DEF Dep
<1>5. CASE ReconcileBinding(c, d)
  <2>1. Candidates(d) \subseteq OptNode
    BY MatchesAssumption DEF Candidates
  <2> QED BY <1>2, <1>3, <1>5, <2>1 DEF ReconcileBinding, Reason, Phase
<1>6. CASE ReconcilePulling(c, d)
  <2> DEFINE p == [o EXCEPT !.phase = "Preparing", !.digest = image[d]]
             want == WithConditions(p, "Preparing")
  <2>1. p \in Dep
    BY <1>1 DEF Dep, Phase, TypeOK
  <2>2. want \in Dep
    BY <2>1, WithConditionsType DEF Phase
  <2>3. Ripe(want)
    BY <1>1 DEF WithConditions, Dep, Ripe, Ready
  <2> QED BY <1>6, <2>2, <2>3 DEF ReconcilePulling, o
<1>7. CASE PermanentError(c, d)
  BY <1>2, <1>7 DEF PermanentError, Reason
<1>8. CASE PreparingResumes(c, d) \/ PreparingCallsPrepare(c, d) \/ ReconcileWriting(c, d)
           \/ ActivatingSkips(c, d) \/ ActivatingCallsActivate(c, d)
           \/ ReconcileConfirming(c, d)
  <2>1. \/ UNCHANGED rec
        \/ \E r \in Reason : WillFail(c, d, r)
        \/ \E ph \in Phase : WillSetPhase(c, d, ph, o.bound)
    BY <1>8 DEF PreparingResumes, PreparingCallsPrepare, ReconcileWriting,
       ActivatingSkips, ActivatingCallsActivate, ReconcileConfirming, Reason, Phase, o
  <2> QED BY <1>2, <1>3, <1>4, <2>1
<1>9. CASE ReconcileDeployed(c, d)
  <2>1. PICK a \in {"True", "False"} : WillWrite(c, d, [o EXCEPT !.available = a])
    BY <1>9 DEF ReconcileDeployed, o
  <2>2. [o EXCEPT !.available = a] \in Dep
    BY <1>1 DEF Dep, CondStatus
  <2>3. o.phase = "Deployed"
    BY <1>9 DEF ReconcileDeployed, Takes, o
  <2>4. Ripe([o EXCEPT !.available = a])
    BY <1>1, <2>3 DEF Ripe, Dep
  <2> QED BY <2>1, <2>2, <2>4
<1>10. CASE ReconcileDrops(c, d)
  BY <1>10 DEF ReconcileDrops
<1> QED BY <1>5, <1>6, <1>7, <1>8, <1>9, <1>10 DEF Reconcile

\* A patch computed from the object it lands on makes it what was wanted.
LEMMA MergeCurrent ==
    ASSUME NEW stored \in Dep, NEW want \in Dep
    PROVE  LET m == MergeStatus(stored, stored, want) IN
           /\ m.phase = want.phase
           /\ m.progressing = want.progressing
           /\ m.available = want.available
BY DEF MergeStatus, Patched, Dep

\* Every step keeps Ready to Deployed objects.
LEMMA ReadyStep ==
    ASSUME TypeOK, ExclusiveInv, ReadyInv, [Next]_vars
    PROVE  ReadyInv'
\* What a status patch leaves in the object.
<1>1. ASSUME NEW c \in Controller, Commit(c)
      PROVE  LET d == rec[c].dep
                 m == MergeStatus(dep[d], rec[c].base, rec[c].want)
             IN  d \in Deployment /\ dep' = [dep EXCEPT ![d] = m] /\ Ripe(m)
  <2>1. rec[c] \in Working /\ Owns(rec[c]) /\ Ripe(rec[c].want)
    BY <1>1, WorkingType DEF Commit, ExclusiveInv, ReadyInv
  <2>2. rec[c].dep \in Deployment /\ rec[c].want \in Dep /\ dep[rec[c].dep] \in Dep
    BY <2>1 DEF Working, TypeOK
  <2>3. rec[c].base = dep[rec[c].dep]
    BY <1>1, <2>1 DEF Commit, Owns, Alive
  <2>4. Ripe(MergeStatus(dep[rec[c].dep], rec[c].base, rec[c].want))
    BY <2>1, <2>2, <2>3, MergeCurrent DEF Ripe, Ready
  <2> QED BY <1>1, <2>2, <2>4 DEF Commit
\* The objects.
<1>2. ReadyImpliesDeployed'
  <2>1. CASE UNCHANGED dep
    BY <2>1 DEF ReadyInv, ReadyImpliesDeployed, Ready
  <2>2. ASSUME NEW c \in Controller, Annotate(c) PROVE ReadyImpliesDeployed'
    <3>1. rec[c].dep \in Deployment
      BY <2>2, WorkingType DEF Annotate, Working
    <3> QED BY <2>2, <3>1 DEF Annotate, ReadyInv, ReadyImpliesDeployed, Ready, TypeOK, Dep
  <2>3. ASSUME NEW c \in Controller, Commit(c) PROVE ReadyImpliesDeployed'
    BY <1>1, <2>3 DEF ReadyInv, ReadyImpliesDeployed, Ripe, Ready, TypeOK
  <2>4. ASSUME NEW e \in Deployment, DeleteDeployment(e) PROVE ReadyImpliesDeployed'
    BY <2>4 DEF DeleteDeployment, DeletedDep, NewDep, ReadyInv, ReadyImpliesDeployed,
                Ready, TypeOK
  <2> QED BY <2>1, <2>2, <2>3, <2>4, ObjectWriters
\* The reconciles in progress.
<1>3. ASSUME NEW c \in Controller, rec'[c].pc # "idle"
      PROVE  Ripe(rec'[c].want)
  <2>1. CASE rec'[c] = rec[c]
    BY <1>3, <2>1 DEF ReadyInv
  <2>2. ASSUME NEW d \in Deployment, Reconcile(c, d), rec'[c] # rec[c]
        PROVE  Ripe(rec'[c].want)
    BY <2>2, ReconcileRipe DEF WillWrite, TypeOK
  <2>3. CASE Annotate(c)
    <3> DEFINE a == [dep[rec[c].dep] EXCEPT !.armed = TRUE]
               want == InPhase(a, "Confirming", rec[c].want.bound)
    <3>1. rec[c] \in Working
      BY <2>3, WorkingType DEF Annotate
    <3>2. a \in Dep /\ rec[c].want.bound \in OptNode
      BY <2>3, <3>1, AnnotateShape DEF Working, Dep
    <3>3. Ripe(want)
      BY <3>2, RipeWants DEF Phase
    <3>4. rec'[c].want = want
      BY <2>3, <3>1 DEF Annotate, TypeOK, Working
    <3> QED BY <3>3, <3>4
  <2>4. CASE Commit(c)
    <3> DEFINE m == MergeStatus(dep[rec[c].dep], rec[c].base, rec[c].want)
               r == [rec[c] EXCEPT !.pc = "config", !.base = m, !.want = m]
    <3>1. rec[c] \in Working
      BY <2>4, WorkingType DEF Commit
    <3>2. rec'[c] = r \/ rec'[c] = Idle
      BY <2>4 DEF Commit, TypeOK
    <3>3. rec'[c] = r
      BY <1>3, <3>2 DEF Idle
    <3>4. r.want = m
      BY <3>1 DEF Working
    <3>5. Ripe(m)
      BY <1>1, <2>4
    <3> HIDE DEF m, r
    <3> QED BY <3>3, <3>4, <3>5
  <2>5. CASE ReconcileConfigOnly(c)
    <3> DEFINE want == FailedWith(rec[c].base, "ConfigInvalid")
               r == [rec[c] EXCEPT !.pc = "commit", !.want = want]
    <3>1. rec[c] \in Working
      BY <2>5, WorkingType DEF ReconcileConfigOnly
    <3>2. Ripe(want)
      BY <3>1, RipeWants DEF Working, Reason
    <3>3. rec'[c] = r \/ rec'[c] = Idle
      BY <2>5 DEF ReconcileConfigOnly, TypeOK
    <3>4. rec'[c] = r
      BY <1>3, <3>3 DEF Idle
    <3>5. r.want = want
      BY <3>1 DEF Working
    <3> HIDE DEF want, r
    <3> QED BY <3>2, <3>4, <3>5
  <2>6. CASE PatchFails(c) \/ Crash(c)
    BY <1>3, <2>6 DEF PatchFails, Crash, Idle, TypeOK
  <2> QED BY <2>1, <2>2, <2>3, <2>4, <2>5, <2>6, RecSteps
<1>4. \A c \in Controller : (rec[c].pc # "idle" => Ripe(rec[c].want))'
  BY <1>3 DEF Ripe, Ready
<1> QED BY <1>2, <1>4 DEF ReadyInv

\* With a current cache and one controller, kubectl wait --for=condition=Ready
\* returns only for a Deployed deployment, although the phase and the conditions
\* are patched as separate fields.
THEOREM ReadyIsDeployed ==
    ASSUME ~CacheLag, \A c, k \in Controller : c = k
    PROVE  Spec => []ReadyImpliesDeployed
<1>1. Init => ExclusiveInv
  <2> SUFFICES ASSUME Init PROVE ExclusiveInv
    OBVIOUS
  <2>1. \A d \in Deployment : dep[d].bound = NoNode /\ dep[d].phase = ""
    BY DEF Init, NewDep
  <2>2. \A c \in Controller : rec[c].pc = "idle"
    BY DEF Init, Idle
  <2> QED BY <2>1, <2>2, NoNodeAssumption DEF ExclusiveInv, NodeExclusive, Alive
<1>2. Init => ReadyInv
  <2> SUFFICES ASSUME Init PROVE ReadyInv
    OBVIOUS
  <2>1. \A d \in Deployment : dep[d].progressing = "Unset"
    BY DEF Init, NewDep
  <2>2. \A c \in Controller : rec[c].pc = "idle"
    BY DEF Init, Idle
  <2> QED BY <2>1, <2>2 DEF ReadyInv, ReadyImpliesDeployed, Ready
<1>3. TypeOK /\ ExclusiveInv /\ [Next]_vars => ExclusiveInv'
  BY ExclusiveStep
<1>4. TypeOK /\ ExclusiveInv /\ ReadyInv /\ [Next]_vars => ReadyInv'
  BY ReadyStep
<1>5. ReadyInv => ReadyImpliesDeployed
  BY DEF ReadyInv
<1> QED BY <1>1, <1>2, <1>3, <1>4, <1>5, TypeCorrect, PTL DEF Spec
=============================================================================
