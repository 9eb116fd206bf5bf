--------------------------- MODULE McuDeployment ---------------------------
(***************************************************************************)
(* The McuDeployment reconciler                                            *)
(* (src/internal/controller/mcudeployment_controller.go): the one worker   *)
(* of a controller takes deployments from a work queue and drives each     *)
(*   "" -> Pulling -> Preparing -> Writing -> Activating -> Confirming     *)
(*      -> Deployed, or to Failed,                                         *)
(* talking to the agent of the bound node and reading the node status that *)
(* heartbeats write.  Two controllers run at once while the Kubernetes     *)
(* Deployment rolls (one replica, no leader election).                     *)
(*                                                                         *)
(*  - A reconcile reads its object in the informer cache, acts on the      *)
(*    device, and ends in a merge patch of the status: the patch carries   *)
(*    the fields that differ from what was READ, and no resourceVersion.   *)
(*    rec holds the reconcile between its read and its patches.            *)
(*  - A reconcile that ends in an error or a RequeueAfter without having   *)
(*    changed anything leaves the object in the queue: it is a stuttering  *)
(*    step and has no action.  Delays are not measured.                    *)
(*  - node[n] is the McuNode as informers show it: a heartbeat is applied  *)
(*    when that copy changes.  The copies of deployments lag when CacheLag *)
(*    is TRUE; a copy that was behind catches up at once, not one version  *)
(*    at a time.                                                           *)
(*  - The message, the events, the firmware size, the observed hardware    *)
(*    and the application port are left out; reason keeps the bracketed    *)
(*    prefix that fail() puts in the message.                              *)
(***************************************************************************)
EXTENDS Agent

CONSTANTS Node,       \* McuNode objects, one device each
          NoNode,     \* empty status.boundNode
          Matches,    \* the nodes spec.nodeName / spec.nodeSelector select
          ConfigRef,  \* the deployments with a spec.configMapRef
          Controller, \* controller processes
          CacheLag    \* the informer caches may be behind the API server

ASSUME NoNodeAssumption    == NoNode \notin Node
ASSUME MatchesAssumption   == Matches \in [Deployment -> SUBSET Node]
ASSUME ConfigRefAssumption == ConfigRef \subseteq Deployment
ASSUME CacheLagAssumption  == CacheLag \in BOOLEAN

VARIABLES dep,      \* API server: the McuDeployment objects
          cache,    \* the copies of them in the informer of each controller
          image,    \* spec.firmware.image, which the operator may patch
          expired,  \* deployments armed for longer than ConfirmTimeout
          node,     \* the McuNode objects
          dev,      \* the devices
          queue,    \* the work queue of each controller
          rec       \* the reconcile in progress in each controller

vars == <<dep, cache, image, expired, node, dev, queue, rec>>

(***************************************************************************)
(* Objects                                                                 *)
(***************************************************************************)
OptNode == Node \cup {NoNode}

\* "Gone" is an object deleted from the API server.
Phase == {"", "Pulling", "Preparing", "Writing", "Activating", "Confirming",
          "Deployed", "Failed", "Gone"}

Reason == {"", "NoDeviceMatched", "AmbiguousBinding", "DeviceBusy",
           "ConfigInvalid", "APIVersionUnsupported", "PrepareRefused",
           "DeviceRollback", "ConfirmTimeout"}

CondStatus == {"Unset", "True", "False"}

\* armed: the annotation embewi.io/confirming-since is present.
Dep == [phase : Phase, bound : OptNode, digest : OptImage, reason : Reason,
        progressing : CondStatus, available : CondStatus, armed : BOOLEAN]

NewDep == [phase |-> "", bound |-> NoNode, digest |-> NoImage, reason |-> "",
           progressing |-> "Unset", available |-> "Unset", armed |-> FALSE]

DeletedDep == [NewDep EXCEPT !.phase = "Gone"]

\* What the devices of Agent say, and "offline" for a silent node.  No test of this
\* reconciler tells "failed" from "degraded", or "booting", and "offline" in a
\* heartbeat (NodeStatus), from "pending_verify".
NodeState == {"", "pending_verify", "running", "degraded", "rollback", "offline"}

\* seen: a heartbeat set the IP; fresh: the last one is within HeartbeatTimeout.
McuNode == [exists : BOOLEAN, seen : BOOLEAN, fresh : BOOLEAN, state : NodeState,
            id : OptDeployment, validated : BOOLEAN]

NewNode == [exists |-> TRUE, seen |-> FALSE, fresh |-> FALSE, state |-> "",
            id |-> NoDeployment, validated |-> FALSE]

DeletedNode == [NewNode EXCEPT !.exists = FALSE]

Idle == [pc |-> "idle", dep |-> NoDeployment, base |-> NewDep, want |-> NewDep]

\* A reconcile between its read and its writes: the object, as it was read and
\* as the status patch will make it.
Working == [pc : {"annotate", "commit", "config"}, dep : Deployment,
          base : Dep, want : Dep]

Rec == Working \cup {Idle}

\* What r.Get and r.List return for a deployment in controller c.
Seen(c, d) == IF CacheLag THEN cache[c][d] ELSE dep[d]

\* The condition setReadyCondition derives.
Ready(o) == o.progressing = "False" /\ o.available = "True"

(***************************************************************************)
(* Status writes                                                           *)
(***************************************************************************)
Patched(stored, base, want) == IF want # base THEN want ELSE stored

\* Merge patch of the status, computed against base.  The conditions are one
\* JSON array: if one of them changed, all are written.  With the phase a message
\* among them changes ("phase: Writing"); a new message of Available alone, from one
\* cause of False to another, is not kept.
MergeStatus(stored, base, want) ==
    LET conds == <<want.phase, want.progressing, want.available>> #
                 <<base.phase, base.progressing, base.available>>
    IN  [stored EXCEPT
           !.phase       = Patched(@, base.phase, want.phase),
           !.bound       = Patched(@, base.bound, want.bound),
           !.digest      = Patched(@, base.digest, want.digest),
           !.reason      = Patched(@, base.reason, want.reason),
           !.progressing = IF conds THEN want.progressing ELSE @,
           !.available   = IF conds THEN want.available ELSE @]

\* setDeploymentConditions
WithConditions(o, phase) ==
    CASE phase = "Deployed"   -> [o EXCEPT !.progressing = "False", !.available = "True"]
      [] phase = "Confirming" -> [o EXCEPT !.progressing = "True", !.available = "False"]
      [] OTHER                -> [o EXCEPT !.progressing = "True"]

\* Mutated form: setPhase puts its message where fail() puts its reason.
InPhaseWithMessage(o, phase, n) ==
    WithConditions([o EXCEPT !.phase = phase, !.bound = n, !.reason = phase], phase)

\* Mutated form: setPhase leaves boundNode as it was.
InPhaseUnbound(o, phase, n) ==
    WithConditions([o EXCEPT !.phase = phase, !.reason = ""], phase)

\* The object setPhase wants.
InPhase(o, phase, n) ==
    WithConditions([o EXCEPT !.phase = phase, !.bound = n, !.reason = ""], phase)

\* Mutated form: fail() does not withdraw Available.
FailedWithAvailable(o, reason) ==
    [o EXCEPT !.phase = "Failed", !.reason = reason, !.progressing = "False"]

\* The object fail wants.
FailedWith(o, reason) ==
    [o EXCEPT !.phase = "Failed", !.reason = reason,
              !.progressing = "False", !.available = "False"]

(***************************************************************************)
(* The work queue                                                          *)
(***************************************************************************)
\* Mutated form: only the deployments that wait for a confirmation.
WokenInConfirming(c, n) == {d \in Deployment : /\ Seen(c, d).bound = n
                                               /\ Seen(c, d).phase = "Confirming"}

\* nodeToDeployments: an event on node n wakes these deployments.
WokenBy(c, n) == {d \in Deployment : /\ Seen(c, d).bound = n
                                     /\ Seen(c, d).phase \in {"Confirming", "Deployed"}}

NodeEvent(n) == queue' = [c \in Controller |-> queue[c] \cup WokenBy(c, n)]

\* An event on the object itself comes with the informer's copy (SyncCache).
OwnEvent(d) == IF CacheLag THEN {} ELSE {d}

DepEvent(d) == queue' = [c \in Controller |-> queue[c] \cup OwnEvent(d)]

Requeue(c, d) == queue' = [queue EXCEPT ![c] = @ \cup {d}]
Forget(c, d)  == queue' = [queue EXCEPT ![c] = @ \ {d}]

(***************************************************************************)
(* Reading: one action per phase                                           *)
(***************************************************************************)
\* The worker is free and takes d, which its cache shows in this phase.
Takes(c, d, phase) == rec[c].pc = "idle" /\ d \in queue[c] /\ Seen(c, d).phase = phase

\* Mutated form: the annotation is never written.
WillWriteUnarmed(c, d, want) ==
    /\ rec' = [rec EXCEPT ![c] = [pc |-> "commit", dep |-> d,
                                  base |-> Seen(c, d), want |-> want]]
    /\ Forget(c, d)

\* The reconcile decided what to write; setPhase(Confirming) first arms the
\* timeout, unless the object it read is already armed.
WillWrite(c, d, want) ==
    /\ rec' = [rec EXCEPT ![c] =
                 [pc   |-> IF want.phase = "Confirming" /\ ~Seen(c, d).armed
                           THEN "annotate" ELSE "commit",
                  dep  |-> d,
                  base |-> Seen(c, d),
                  want |-> want]]
    /\ Forget(c, d)

WillSetPhase(c, d, phase, n) == WillWrite(c, d, InPhase(Seen(c, d), phase, n))
WillFail(c, d, reason)       == WillWrite(c, d, FailedWith(Seen(c, d), reason))

\* nodeClient succeeds: the node exists and a heartbeat gave its IP.
HasClient(n) == n \in Node /\ node[n].exists /\ node[n].seen

\* ... and the agent answers.
Answers(n) == HasClient(n) /\ Up(dev[n])

Candidates(d) == {n \in Matches[d] : node[n].exists}

\* Mutated form, and the rule of docs/core/controllers.md:120: a Deployed object does
\* not keep its node.
BusyUnlessDeployed(c, d, n) ==
    \E e \in Deployment \ {d} :
        Seen(c, e).bound = n /\ Seen(c, e).phase \notin {"Deployed", "Failed", "Gone"}

\* checkNotBusy: bound to n by another deployment that is not Failed; a Deployed one
\* still drives the device.
Busy(c, d, n) ==
    \E e \in Deployment \ {d} :
        Seen(c, e).bound = n /\ Seen(c, e).phase \notin {"Failed", "Gone"}

\* phaseBinding; an error of the List in checkNotBusy fails it like a busy node.
ReconcileBinding(c, d) ==
    /\ Takes(c, d, "")
    /\ \/ /\ Candidates(d) = {}
          /\ WillFail(c, d, "NoDeviceMatched")
       \/ \E n \in Candidates(d) :
             /\ Candidates(d) = {n}
             /\ \/ WillFail(c, d, "DeviceBusy")
                \/ ~Busy(c, d, n) /\ WillSetPhase(c, d, "Pulling", n)
       \/ /\ \E m, n \in Candidates(d) : m # n
          /\ WillFail(c, d, "AmbiguousBinding")
    /\ UNCHANGED <<dep, cache, image, expired, node, dev>>

\* The registry resolves the image; the deployment id is the object's UID.
ReconcilePulling(c, d) ==
    /\ Takes(c, d, "Pulling")
    /\ WillWrite(c, d, WithConditions(
            [Seen(c, d) EXCEPT !.phase = "Preparing", !.digest = image[d]], "Preparing"))
    /\ UNCHANGED <<dep, cache, image, expired, node, dev>>

\* Errors no retry mends: phasePreparing finds the McuConfigMap missing or
\* invalid, or phasePreparing or phaseActivating finds no API version in common
\* with the agent.
PermanentError(c, d) ==
    LET n == Seen(c, d).bound IN
    /\ \/ /\ Takes(c, d, "Preparing") /\ HasClient(n)
          /\ d \in ConfigRef
          /\ WillFail(c, d, "ConfigInvalid")
       \/ /\ Takes(c, d, "Preparing") \/ Takes(c, d, "Activating")
          /\ Answers(n)
          /\ WillFail(c, d, "APIVersionUnsupported")
    /\ UNCHANGED <<dep, cache, image, expired, node, dev>>

\* GET /info shows the image of this deployment in the inactive slot.
IsWritten(c, d, n) ==
    dev[n].staged = [state |-> "written", id |-> d, digest |-> Seen(c, d).digest]

\* phasePreparing finds the device already past write, or past activate.
PreparingResumes(c, d) ==
    LET n == Seen(c, d).bound IN
    /\ Takes(c, d, "Preparing")
    /\ Answers(n)
    /\ \/ IsActivating(dev[n], d) /\ WillSetPhase(c, d, "Confirming", n)
       \/ IsWritten(c, d, n) /\ WillSetPhase(c, d, "Activating", n)
    /\ UNCHANGED <<dep, cache, image, expired, node, dev>>

\* phasePreparing with nothing of this deployment staged: POST /ota/prepare is
\* accepted (its answer may be lost) or refused.
PreparingCallsPrepare(c, d) ==
    LET n == Seen(c, d).bound IN
    /\ Takes(c, d, "Preparing")
    /\ Answers(n)
    /\ ~IsActivating(dev[n], d) /\ ~IsWritten(c, d, n)
    /\ \/ /\ dev' = [dev EXCEPT ![n] = Prepared(@)]
          /\ WillSetPhase(c, d, "Writing", n) \/ UNCHANGED <<rec, queue>>
       \/ /\ WillFail(c, d, "PrepareRefused")
          /\ UNCHANGED dev
    /\ UNCHANGED <<dep, cache, image, expired, node>>

\* Mutated form: the blob of the image spec.firmware names now is written.
ReconcileWritingLatest(c, d) ==
    LET n == Seen(c, d).bound IN
    /\ Takes(c, d, "Writing")
    /\ Answers(n)
    /\ dev' = [dev EXCEPT ![n] = Written(@, d, image[d])]
    /\ WillSetPhase(c, d, "Activating", n)
    /\ UNCHANGED <<dep, cache, image, expired, node>>

\* phaseWriting: the whole blob is on the device, or the write stopped with
\* the slot open; in the first case too the last answer may be lost.
ReconcileWriting(c, d) ==
    LET n == Seen(c, d).bound IN
    /\ Takes(c, d, "Writing")
    /\ Answers(n)
    /\ \/ /\ dev' = [dev EXCEPT ![n] = Written(@, d, Seen(c, d).digest)]
          /\ WillSetPhase(c, d, "Activating", n) \/ UNCHANGED <<rec, queue>>
       \/ /\ dev' = [dev EXCEPT ![n] = Prepared(@)]
          /\ UNCHANGED <<rec, queue>>
    /\ UNCHANGED <<dep, cache, image, expired, node>>

\* The test of phaseActivating on GET /info; pending_verify has no id with it.
AlreadyActivated(d, n) == IsActivating(dev[n], d) \/ dev[n].state = "pending_verify"

ActivatingSkips(c, d) ==
    LET n == Seen(c, d).bound IN
    /\ Takes(c, d, "Activating")
    /\ Answers(n)
    /\ AlreadyActivated(d, n)
    /\ WillSetPhase(c, d, "Confirming", n)
    /\ UNCHANGED <<dep, cache, image, expired, node, dev>>

\* POST /ota/activate; a refusal is retried for ever and changes nothing.
ActivatingCallsActivate(c, d) ==
    LET n == Seen(c, d).bound IN
    /\ Takes(c, d, "Activating")
    /\ Answers(n)
    /\ ~AlreadyActivated(d, n)
    /\ CanActivate(dev[n], d)
    /\ dev' = [dev EXCEPT ![n] = Activated(@)]
    /\ WillSetPhase(c, d, "Confirming", n) \/ UNCHANGED <<rec, queue>>
    /\ UNCHANGED <<dep, cache, image, expired, node>>

\* Mutated form: ota_validated is not looked at.
ConfirmedUnvalidated(d, n) == node[n].state = "running" /\ node[n].id = d

\* Mutated form: the deployment id of the heartbeat is not looked at.
ConfirmedByAny(d, n) == node[n].state = "running" /\ node[n].validated

\* The heartbeat that phaseConfirming waits for.
ConfirmedBy(d, n) == node[n].state = "running" /\ node[n].validated /\ node[n].id = d

\* The code's test names "failed" too; no agent state differs from degraded here.
ReportsFailure(n) == node[n].state \in {"rollback", "degraded"}

\* Mutated form: the timeout is only for devices that still send heartbeats.
TimedOutIfFresh(c, d) ==
    Seen(c, d).armed /\ d \in expired /\ node[Seen(c, d).bound].fresh

\* ConfirmTimeout has elapsed since the annotation on the object that was read.
TimedOut(c, d) == Seen(c, d).armed /\ d \in expired

ReconcileConfirming(c, d) ==
    LET n == Seen(c, d).bound IN
    /\ Takes(c, d, "Confirming")
    /\ HasClient(n)
    /\ \/ ConfirmedBy(d, n) /\ WillSetPhase(c, d, "Deployed", n)
       \/ ReportsFailure(n) /\ WillFail(c, d, "DeviceRollback")
       \/ /\ ~ConfirmedBy(d, n)
          /\ ~ReportsFailure(n)
          /\ TimedOut(c, d)
          /\ WillFail(c, d, "ConfirmTimeout")
    /\ UNCHANGED <<dep, cache, image, expired, node, dev>>

\* reconcileDeployed up to its status patch.
ReconcileDeployed(c, d) ==
    LET n == Seen(c, d).bound
        alive == node[n].fresh /\ ~ReportsFailure(n)
    IN
    /\ Takes(c, d, "Deployed")
    /\ n \in Node /\ node[n].exists
    /\ WillWrite(c, d, [Seen(c, d) EXCEPT !.available = IF alive THEN "True" ELSE "False"])
    /\ UNCHANGED <<dep, cache, image, expired, node, dev>>

\* Reconcile returns at once on a Failed or deleted object.
ReconcileDrops(c, d) ==
    /\ Takes(c, d, "Failed") \/ Takes(c, d, "Gone")
    /\ Forget(c, d)
    /\ UNCHANGED <<dep, cache, image, expired, node, dev, rec>>

(***************************************************************************)
(* Writing: the patches that end a reconcile                               *)
(***************************************************************************)
\* setPhase arms the timeout with the present time; the answer refreshes the
\* object, and the status patch is computed from it.
Annotate(c) ==
    LET d == rec[c].dep
        armed == [dep[d] EXCEPT !.armed = TRUE]
    IN
    /\ rec[c].pc = "annotate"
    /\ dep[d].phase # "Gone"
    /\ dep' = [dep EXCEPT ![d] = armed]
    /\ expired' = expired \ {d}
    /\ rec' = [rec EXCEPT ![c].pc = "commit", ![c].base = armed,
                          ![c].want = InPhase(armed, "Confirming", rec[c].want.bound)]
    /\ DepEvent(d)
    /\ UNCHANGED <<cache, image, node, dev>>

\* reconcileDeployed only sets Available; it and fail() ask for no requeue.
Watches(r) == r.base.phase = "Deployed" /\ r.want.phase = "Deployed"
Requeues(r) == ~Watches(r) /\ r.want.phase # "Failed"

\* Status().Patch.  A deployment with a config map goes on to
\* reconcileConfigOnly with the object the answer refreshed.
Commit(c) ==
    LET d == rec[c].dep
        merged == MergeStatus(dep[d], rec[c].base, rec[c].want)
    IN
    /\ rec[c].pc = "commit"
    /\ dep[d].phase # "Gone"
    /\ dep' = [dep EXCEPT ![d] = merged]
    /\ rec' = [rec EXCEPT ![c] =
                 IF Watches(@) /\ d \in ConfigRef
                 THEN [@ EXCEPT !.pc = "config", !.base = merged, !.want = merged]
                 ELSE Idle]
    /\ queue' = [x \in Controller |->
                   queue[x] \cup (IF merged # dep[d] THEN OwnEvent(d) ELSE {})
                            \cup (IF x = c /\ Requeues(rec[c]) THEN {d} ELSE {})]
    /\ UNCHANGED <<cache, image, expired, node, dev>>

\* reconcileConfigOnly: the config is pushed and the device rebooted, or there
\* was nothing to push; a transient error is retried after 30 s (the reboot may
\* have taken place); a permanent one fails the deployment.
ReconcileConfigOnly(c) ==
    LET d == rec[c].dep
        n == rec[c].base.bound
    IN
    /\ rec[c].pc = "config"
    /\ \/ /\ Answers(n)
          /\ dev' \in {dev, [dev EXCEPT ![n] = Rebooted(@)]}
          /\ rec' = [rec EXCEPT ![c] = Idle]
          /\ Requeue(c, d) \/ UNCHANGED queue
       \/ /\ ~Answers(n)
          /\ rec' = [rec EXCEPT ![c] = Idle]
          /\ Requeue(c, d)
          /\ UNCHANGED dev
       \/ /\ HasClient(n)
          /\ rec' = [rec EXCEPT ![c].pc = "commit",
                                ![c].want = FailedWith(rec[c].base, "ConfigInvalid")]
          /\ UNCHANGED <<queue, dev>>
    /\ UNCHANGED <<dep, cache, image, expired, node>>

\* The API server refuses a patch (unreachable, or the object is gone): the
\* error requeues the object.
PatchFails(c) ==
    /\ rec[c].pc \in {"annotate", "commit"}
    /\ rec' = [rec EXCEPT ![c] = Idle]
    /\ Requeue(c, rec[c].dep)
    /\ UNCHANGED <<dep, cache, image, expired, node, dev>>

\* A controller dies and a new one starts by listing every object.
Crash(c) ==
    /\ rec' = [rec EXCEPT ![c] = Idle]
    /\ cache' = IF CacheLag THEN [cache EXCEPT ![c] = dep] ELSE cache
    /\ queue' = [queue EXCEPT ![c] = Deployment]
    /\ UNCHANGED <<dep, image, expired, node, dev>>

\* The informer of c catches up with the API server.
SyncCache(c, d) ==
    /\ CacheLag
    /\ cache[c][d] # dep[d]
    /\ cache' = [cache EXCEPT ![c][d] = dep[d]]
    /\ Requeue(c, d)
    /\ UNCHANGED <<dep, image, expired, node, dev, rec>>

\* ConfirmTimeout has elapsed since the annotation was written.
ConfirmTimeoutElapses(d) ==
    /\ dep[d].armed
    /\ d \notin expired
    /\ expired' = expired \cup {d}
    /\ UNCHANGED <<dep, cache, image, node, dev, queue, rec>>

(***************************************************************************)
(* Nodes: the heartbeat server and the McuNode reconciler                  *)
(***************************************************************************)
\* handleHeartbeat stores what the device reports.
Heartbeat(n) ==
    /\ node[n].exists
    /\ Up(dev[n])
    /\ node' = [node EXCEPT ![n] = [exists |-> TRUE, seen |-> TRUE, fresh |-> TRUE,
                                    state |-> dev[n].state, id |-> dev[n].fw,
                                    validated |-> dev[n].validated]]
    /\ NodeEvent(n)
    /\ UNCHANGED <<dep, cache, image, expired, dev, rec>>

\* HeartbeatTimeout has elapsed since the last heartbeat.
HeartbeatExpires(n) ==
    /\ node[n].fresh
    /\ node' = [node EXCEPT ![n].fresh = FALSE]
    /\ UNCHANGED <<dep, cache, image, expired, dev, queue, rec>>

\* McuNodeReconciler.Reconcile, every 10 s: a silent node becomes offline.
ReconcileNode(n) ==
    /\ node[n].exists /\ node[n].seen /\ ~node[n].fresh
    /\ node[n].state # "offline"
    /\ node' = [node EXCEPT ![n].state = "offline"]
    /\ NodeEvent(n)
    /\ UNCHANGED <<dep, cache, image, expired, dev, rec>>

(***************************************************************************)
(* The operator                                                            *)
(***************************************************************************)
DeleteDeployment(d) ==
    /\ dep[d].phase # "Gone"
    /\ dep' = [dep EXCEPT ![d] = DeletedDep]
    /\ DepEvent(d)
    /\ expired' = expired \ {d}
    /\ UNCHANGED <<cache, image, node, dev, rec>>

PatchImage(d, i) ==
    /\ dep[d].phase # "Gone"
    /\ image[d] # i
    /\ image' = [image EXCEPT ![d] = i]
    /\ queue' = [c \in Controller |-> queue[c] \cup {d}]
    /\ UNCHANGED <<dep, cache, expired, node, dev, rec>>

DeleteNode(n) ==
    /\ node[n].exists
    /\ node' = [node EXCEPT ![n] = DeletedNode]
    /\ NodeEvent(n)
    /\ UNCHANGED <<dep, cache, image, expired, dev, rec>>

CreateNode(n) ==
    /\ ~node[n].exists
    /\ node' = [node EXCEPT ![n] = NewNode]
    /\ NodeEvent(n)
    /\ UNCHANGED <<dep, cache, image, expired, dev, rec>>

(***************************************************************************)
(* The devices                                                             *)
(***************************************************************************)
DeviceStep(n, a) ==
    /\ dev' = [dev EXCEPT ![n] = a]
    /\ UNCHANGED <<dep, cache, image, expired, node, queue, rec>>

DeviceReboots(n) ==
    /\ Up(dev[n])
    /\ DeviceStep(n, Rebooted(dev[n]))

DeviceBoots(n) ==
    /\ ~Up(dev[n])
    /\ DeviceStep(n, Booted(dev[n]))

SelfCheckPasses(n) ==
    /\ dev[n].state = "pending_verify"
    /\ DeviceStep(n, Started(dev[n]))

MarksValid(n) ==
    /\ dev[n].state = "running" /\ ~dev[n].validated
    /\ DeviceStep(n, Validated(dev[n]))

Degrades(n) ==
    /\ dev[n].state = "running"
    /\ DeviceStep(n, [dev[n] EXCEPT !.state = "degraded"])

Recovers(n) ==
    /\ dev[n].state \in {"degraded", "rollback"}
    /\ DeviceStep(n, Started(dev[n]))

(***************************************************************************)
(* Specification                                                           *)
(***************************************************************************)
Init ==
    /\ dep = [d \in Deployment |-> NewDep]
    /\ cache = [c \in Controller |-> dep]
    /\ image \in [Deployment -> Image]
    /\ expired = {}
    /\ node = [n \in Node |-> NewNode]
    /\ dev = [n \in Node |-> Factory]
    /\ queue = [c \in Controller |-> Deployment]
    /\ rec = [c \in Controller |-> Idle]

Reconcile(c, d) ==
    \/ ReconcileBinding(c, d)       \/ ReconcilePulling(c, d)
    \/ PermanentError(c, d)         \/ PreparingResumes(c, d)
    \/ PreparingCallsPrepare(c, d)  \/ ReconcileWriting(c, d)
    \/ ActivatingSkips(c, d)        \/ ActivatingCallsActivate(c, d)
    \/ ReconcileConfirming(c, d)    \/ ReconcileDeployed(c, d)
    \/ ReconcileDrops(c, d)

ControllerActs(c) ==
    \/ \E d \in Deployment : Reconcile(c, d) \/ SyncCache(c, d)
    \/ Annotate(c) \/ Commit(c) \/ ReconcileConfigOnly(c)
    \/ PatchFails(c) \/ Crash(c)

NodeStep(n) == Heartbeat(n) \/ HeartbeatExpires(n) \/ ReconcileNode(n)

Operator ==
    \/ \E d \in Deployment : DeleteDeployment(d) \/ \E i \in Image : PatchImage(d, i)
    \/ \E n \in Node : DeleteNode(n) \/ CreateNode(n)

DeviceActs(n) ==
    \/ DeviceReboots(n)   \/ DeviceBoots(n)  \/ SelfCheckPasses(n)
    \/ MarksValid(n)      \/ Degrades(n)     \/ Recovers(n)

Next ==
    \/ \E c \in Controller : ControllerActs(c)
    \/ \E d \in Deployment : ConfirmTimeoutElapses(d)
    \/ \E n \in Node : NodeStep(n) \/ DeviceActs(n)
    \/ Operator

Spec == Init /\ [][Next]_vars

(***************************************************************************)
(* Fairness.  The work queue is served in order and a key that fails is    *)
(* put back, so a step of a deployment that keeps being possible is taken, *)
(* even when controllers crash or patches fail in between: strong fairness *)
(* for the steps of the worker.  Time passes, the McuNode reconciler is    *)
(* requeued every 10 s, and a device that reboots comes back, finishes its *)
(* self-check and sends heartbeats.  Nothing is assumed of the operator,   *)
(* of a permanent error, or of the agent's answers.                        *)
(***************************************************************************)
ControllerFairness ==
    /\ \A c \in Controller :
          /\ WF_vars(ReconcileConfigOnly(c))
          /\ \A d \in Deployment :
                /\ SF_vars(ReconcileConfirming(c, d))
                /\ SF_vars(ReconcileDeployed(c, d))
                /\ SF_vars(ActivatingSkips(c, d))
                /\ SF_vars(ActivatingCallsActivate(c, d) /\ rec'[c].dep = d)
                /\ SF_vars(Annotate(c) /\ rec[c].dep = d)
                /\ SF_vars(Commit(c) /\ rec[c].dep = d)
    /\ \A d \in Deployment : WF_vars(ConfirmTimeoutElapses(d))
    /\ \A n \in Node : WF_vars(ReconcileNode(n))

DeviceFairness ==
    \A n \in Node : /\ WF_vars(DeviceBoots(n))
                    /\ WF_vars(SelfCheckPasses(n))
                    /\ WF_vars(MarksValid(n))
                    /\ SF_vars(Heartbeat(n))

\* Nothing is assumed of the devices: they may stay silent for ever.
ControllerSpec == Spec /\ ControllerFairness

FairSpec == ControllerSpec /\ DeviceFairness

(***************************************************************************)
(* Properties                                                              *)
(***************************************************************************)
\* Every variable keeps its type, over all the interleavings of the worker.
TypeOK ==
    /\ dep \in [Deployment -> Dep]
    /\ cache \in [Controller -> [Deployment -> Dep]]
    /\ image \in [Deployment -> Image]
    /\ expired \in SUBSET Deployment
    /\ node \in [Node -> McuNode]
    /\ dev \in [Node -> Device]
    /\ queue \in [Controller -> SUBSET Deployment]
    /\ rec \in [Controller -> Rec]

\* Two deployments never drive the same device: at most one object that is not
\* Failed is bound to a node (checkNotBusy, "1 McuDeployment -> 1 McuNode").  The
\* documented test, which lets a Deployed one go (BusyUnlessDeployed), breaks it.
NodeExclusive ==
    \A d, e \in Deployment :
        /\ d # e
        /\ dep[d].bound = dep[e].bound
        /\ dep[d].bound \in Node
        => dep[d].phase = "Failed" \/ dep[e].phase = "Failed"

\* The negative timeout can always fire: an object in Confirming carries the
\* annotation it is measured from (setPhase writes it before the phase).
ConfirmingArmed ==
    \A d \in Deployment : dep[d].phase = "Confirming" => dep[d].armed

\* The field-by-field patches of two controllers never mix into a status that
\* names no node to talk to, or no digest to write, for its phase.
StatusCoherent ==
    \A d \in Deployment :
        /\ dep[d].phase \notin {"", "Failed", "Gone"} => dep[d].bound \in Node
        /\ dep[d].phase \notin {"", "Pulling", "Failed", "Gone"} => dep[d].digest \in Image

\* Deployed is a fact about the device, not only about a past heartbeat: the
\* device of the bound node runs the image of that deployment, validated.
DeployedRuns ==
    \A d \in Deployment :
        dep[d].phase = "Deployed" =>
            /\ dep[d].bound \in Node
            /\ dev[dep[d].bound].fw = d
            /\ dev[dep[d].bound].validated

\* kubectl wait --for=condition=Ready answers only for a deployment that is
\* Deployed (setReadyCondition over all the writers of the conditions).
ReadyImpliesDeployed ==
    \A d \in Deployment : Ready(dep[d]) => dep[d].phase = "Deployed"

\* A device is told to boot a slot only for a deployment that has come to
\* Activating on its node, and the slot holds the digest that deployment
\* resolved.  When the cache is behind, the deployment may have failed or been
\* deleted since; it may wait in Confirming already, when the device was trying
\* the image of another one (pending_verify) and the call was skipped.
ActivatedAsResolved ==
    [][\A n \in Node :
         /\ dev[n].staged.state = "written"
         /\ dev'[n].staged.state = "activating"
         => LET d == dev[n].staged.id IN
            /\ d \in Deployment
            /\ dep[d].phase \in {"Activating", "Confirming", "Failed", "Gone"}
            /\ \/ dep[d].phase = "Gone"
               \/ dep[d].bound = n /\ dep[d].digest = dev[n].staged.digest]_vars

\* Controller c is between the read and the writes of a reconcile of d.
InHand(c, d) == rec[c].pc # "idle" /\ rec[c].dep = d

\* The node of a deployment that is Deployed is known to be offline.
Silent(d) ==
    /\ dep[d].phase = "Deployed"
    /\ dep[d].bound \in Node
    /\ node[dep[d].bound].exists
    /\ node[dep[d].bound].state = "offline"

\* No event is lost: a deployment that has not ended, and one whose Available has
\* to follow its node, is in the queue of every controller, in its hands, or in a
\* version that its informer has still to deliver.
NothingForgotten ==
    \A c \in Controller, d \in Deployment :
        \/ dep[d].phase \notin {"Deployed", "Failed", "Gone"}
        \/ Silent(d) /\ dep[d].available # "False"
        => \/ d \in queue[c]
           \/ InHand(c, d)
           \/ CacheLag /\ cache[c][d] # dep[d]

\* A deployment that waits for its confirmation gets an answer, whatever the
\* device does: Deployed or Failed, unless its node cannot be reached.
ConfirmationDecided ==
    \A d \in Deployment :
        dep[d].phase = "Confirming" ~>
            \/ dep[d].phase \in {"Deployed", "Failed", "Gone"}
            \/ ~HasClient(dep[d].bound)

\* A device that falls silent is reported: its deployment loses Available, or
\* the device speaks again, or the deployment or its node goes away.
SilenceDetected ==
    \A d \in Deployment :
        dep[d].phase = "Deployed" /\ ~node[dep[d].bound].fresh ~>
            \/ dep[d].available = "False"
            \/ dep[d].phase # "Deployed"
            \/ node[dep[d].bound].fresh
            \/ ~node[dep[d].bound].exists

\* A deployment in Activating moves on, even when the answer to activate is
\* lost or the controller crashes before it wrote Confirming.
ActivationDecided ==
    \A d \in Deployment :
        dep[d].phase = "Activating" ~>
            dep[d].phase # "Activating" \/ ~HasClient(dep[d].bound)

(***************************************************************************)
(* The controller implements Rollout when its cache is not behind.         *)
(***************************************************************************)
StageOf(phase) ==
    CASE phase = ""           -> "pending"
      [] phase = "Confirming" -> "confirming"
      [] phase = "Deployed"   -> "deployed"
      [] phase = "Failed"     -> "failed"
      [] phase = "Gone"       -> "gone"
      [] OTHER                -> "claimed"

R == INSTANCE Rollout WITH
        stage <- [d \in Deployment |-> StageOf(dep[d].phase)],
        place <- [d \in Deployment |-> dep[d].bound],
        runs  <- [n \in Node |-> IF dev[n].validated THEN dev[n].fw ELSE NoDeployment]

\* The whole life of a deployment, as Rollout states it.
ImplementsRollout == R!RolloutSpec
=============================================================================
