# Verification of embewi-core

embewi-core is a Kubernetes control plane for ESP microcontrollers. A device runs
the embewi agent (HTTP API, other repository), sends a heartbeat to the Core every
5 s, and receives firmware over the air. This directory holds TLA+ models of the
Core, the TLC runs that check them on small instances, and TLAPS proofs of the
facts that should hold for any number of deployments, nodes, handlers and bytes.

Paths below are relative to the root of the repository.

```
cd tla
tlc -config MCMcuDeployment_exclusive.cfg MCMcuDeployment.tla    # one run
tlapm McuDeploymentProofs.tla                                    # one proof module
```

## 1. Inventory

One process (`cmd/controller/main.go`) holds a cached Kubernetes client, two
reconcilers with one worker each, and an HTTP(S) server whose handlers run
concurrently. The parts share no memory but the Prometheus registry; they talk
through objects of the API server, which each of them READS IN AN INFORMER CACHE
and WRITES WITH A MERGE PATCH, sometimes under an optimistic lock and sometimes
not. Most of what can go wrong comes from that.

| component | state it keeps | operations |
|---|---|---|
| McuDeployment reconciler (`internal/controller/mcudeployment_controller.go`) | `status` of a McuDeployment (phase, boundNode, digest, message, conditions) and the annotation `embewi.io/confirming-since` | binding, Pulling, Preparing, Writing, Activating, Confirming, Deployed, `fail`, `setPhase`, `reconcileConfigOnly` |
| McuNode reconciler (`internal/controller/mcunode_controller.go`) | Ready, state and conditions of a McuNode; its Service and EndpointSlice | heartbeat timeout, publication, token rotation, TLS certificate, reboot request, application port, finalizer |
| Heartbeat server (`internal/heartbeat/server.go`) | `status` of a McuNode, `previousToken` of its Secret | `handleHeartbeat`, `validateToken`, `clearPreviousToken`, log ingestion |
| Agent client (`internal/agent/client.go`) | none between calls; offset and attempt within `OTAWrite` | info, prepare, write (ranges, resync), activate, config, token, TLS, port, reboot |
| OCI client (`internal/oci/client.go`) | running digest of a blob | resolve, stream, signature |
| Metrics (`internal/metrics/metrics.go`) | labels of each node | set, remove |
| Agent of the device (external) | running image, image on trial, inactive slot, update session, token | the HTTP API, reboot, self-check, rollback, heartbeats |

How they interact:

* The McuDeployment reconciler calls the agent of the bound node. It learns the
  node's IP, state, deployment id and `ota_validated` from the McuNode, which only
  heartbeats fill. A change of a McuNode wakes the deployments bound to it that are
  in Confirming or Deployed (`nodeToDeployments`).
* The heartbeat server and the McuNode reconciler write the same McuNode status.
  The second also turns silence, which produces no event, into `offline` and takes
  the endpoint out of the slice.
* The operator writes a new and a previous token in a Secret; the McuNode
  reconciler posts the new one to the device; the heartbeat server removes the
  previous one when the device authenticates with the new one.
* Both reconcilers change settings of the same device: configuration and port follow
  the deployments, certificate and reboots the node. Each then remembers the call in
  the status of the McuNode, or asks the device.
* The handlers set the Prometheus series of a node after they patched its status; the
  McuNode reconciler removes them before it takes the finalizer off a deleted node.

What is hard:

* *Stale reads.* `checkNotBusy`, the phase machine, `validateToken` and the
  EndpointSlice all decide on cached copies. The status patches of a deployment
  carry no resourceVersion.
* *Several writes for one decision.* Arming the timeout and entering Confirming
  are two patches; acting on the device and remembering it are a call and a patch;
  removing the metrics of a node and its finalizer are a call and an update; a crash
  or a failed patch may come between any two.
* *Lost answers.* prepare, write, activate and token may have taken effect although
  the caller saw an error. The code has a resume path for each.
* *Two controllers.* Leader election is off by default, so old and new pods overlap
  during a rolling update.
* *Races with the device.* It reboots, rolls back, degrades, validates and speaks
  whenever it likes; `ConfirmTimeout` runs against its heartbeat.

What makes each part correct (the property that says so, in brackets):

* McuDeployment: one deployment per device [NodeExclusive]; Deployed is a fact
  about the device [DeployedRuns]; Ready means Deployed [ReadyImpliesDeployed]; the
  negative timeout is always armed [ConfirmingArmed]; the device boots only what was
  resolved [ActivatedAsResolved]; mixed patches stay coherent [StatusCoherent];
  no event is lost [NothingForgotten]; confirmation ends [ConfirmationDecided]; silence
  is reported [SilenceDetected]; and, as a whole, it implements `Rollout` [ImplementsRollout].
* McuNode status: Ready agrees with what the device said [ReadyAgrees], offline
  never erases a newer heartbeat [ImplementsRegister], the slice follows
  [SilenceUnpublished, SliceFollowsStatus], and the two kinds of writer together
  implement `StatusRegister` [ImplementsRegister].
* Token rotation: the Core never loses the device [NotLockedOut, HeartbeatAccepted],
  a rotation is issued, adopted and retired in this order and one at a time, as in
  `Handover` [ImplementsHandover], and it ends [RotationCompletes].
* Transfer: bytes in order [SlotInOrder], success means staged [DoneIsStaged], and
  it ends [TransferEnds].
* Device settings: what is recorded as applied is in effect [CertRecorded,
  PortRecorded, RequestHonoured], no request is carried out again once recorded
  [NoRepeatedReboot], what is wanted comes into effect [ConfigEffective,
  PortEffective, CertEffective, RequestCarriedOut], and the Core then leaves the
  device alone [RebootsSettle].
* Metrics: one set of labels per node [OneLabelSet], that of its status
  [SeriesAgree]; a deleted node goes [DeletionEnds] and leaves no series
  [NoOrphans].

`PROJECT.json` lists the hazards one by one, at their lines, with the properties
that would catch them or the reason why none does.

## 2. Modules

| module | models | proofs |
|---|---|---|
| `Agent` | the device as the deployment controller sees it (external): pure functions of one device record | |
| `Rollout` | abstract specification of a deployment: claim, await, deploy, fail, delete | |
| `McuDeployment` (EXTENDS `Agent`, INSTANCE `Rollout`) | the McuDeployment reconciler, its queue, caches and patches, node objects, devices, operator | `McuDeploymentProofs`, `RolloutProofs`, `ActivationProofs` |
| `StatusRegister` | abstract specification of a node's status: one register, whole writes, each heartbeat at most once | |
| `NodeStatus` (INSTANCE `StatusRegister`) | heartbeat handlers, McuNode reconciler, EndpointSlice | `NodeStatusProofs` |
| `Handover` | abstract specification of a token rotation: issue, adopt, retire | |
| `TokenRotation` (INSTANCE `Handover`) | Secret, POST /token, heartbeats | `TokenRotationProofs` |
| `FirmwareTransfer` | `phaseWriting`, `OTAWrite`, `putOTAChunk`, the update session | `FirmwareTransferProofs` |
| `DeviceSettings` | config, port, certificate and reboots of one device; both reconcilers | `DeviceSettingsProofs` |
| `NodeMetrics` | series of one node, handlers, finalizer and deletion | `NodeMetricsProofs` |
| `MC*` | constants and constraints for TLC | |

### McuDeployment

`dep` are the objects on the API server, `cache` each controller's copies of them,
`queue` its work queue, `rec` the reconcile in progress: the object as it was read
(`base`) and as the patch should make it (`want`). A reconcile is cut where others
can come between:

* reading and talking to the device is ONE action per phase and outcome
  (`ReconcileBinding` ... `ReconcileDeployed`). The single worker handles no other
  deployment meanwhile; the device's own steps commute with the call, and a call
  that took effect without an answer is a disjunct of its own;
* the annotation patch of `setPhase` (`Annotate`), the status patch (`Commit`), and
  `reconcileConfigOnly` are further actions, and between them `Crash`, `PatchFails`,
  heartbeats, the operator and the other controller may act;
* `MergeStatus` is what a merge patch does: a field changes only if it differs from
  what was READ; conditions are one array and travel together.

A reconcile that ends in an error or in RequeueAfter without any change leaves its
key in the queue, so it is a stuttering step. An informer that is behind catches up in
one step instead of showing every version on the way. Durations are not modelled: the
timeouts elapse at any time after they are armed (`expired`, `node.fresh`).
`reason` stands for the bracketed prefix of `status.message`. The messages of conditions
are left out. Every phase has one of its own, so the array of conditions is written
whenever the phase changes; a new message of Available alone, from one cause of False to
another, writes Available False again, which no property can be broken by.
A config push of a
Deployed deployment is done, postponed or a permanent error here; what it does is in
`DeviceSettings`, where the update of the firmware is one step in its turn.

A node is free when no deployment but a Failed one is bound to it (`Busy`, and `Claim`
in `Rollout`): this is `checkNotBusy`, and not the rule of `docs/core/controllers.md:120`
(see the findings in section 3).

In this module a node is one object whose informer copy changes when a heartbeat is
applied; how handlers and the McuNode reconciler compete for it is `NodeStatus`.
Each of the two is the other's environment: `Heartbeat(n)` here may come at any
time and overwrite anything, which is more than `NodeStatus` lets happen.

### NodeStatus

A heartbeat is a handler that authenticates, timestamps, gets and patches in
separate actions, several at once; the reconciler reads, patches and publishes.
An optimistic lock needs to know only whether a copy is still the stored version, so
a copy carries a boolean `current` and not a counter. Heartbeats are numbered, and
`horizon` says up to which number they are older than HeartbeatTimeout. Devices may report
each of the seven states of `validNodeStates`, `offline` and `failed` included, so a node
may be offline and heard of: a node that the reconciler found silent is known by its
condition HeartbeatTimeout (`DeclaredSilent`), not by its state. In the mapping to
`StatusRegister`, `ModeOf` reads "unheard", "live", "ready" or "silent" off
the status, and `InFlight` is what the handlers hold; copies, versions and patches that
are refused have no image there.

### TokenRotation

Tokens are numbered by rotation. `posts` are POST /token requests in flight, which
arrive in any order, once, or never. Handlers authenticate with the cached Secret
and then, in another step, remove previousToken in whatever is stored by then. The
mapping to `Handover` keeps the number of the stored token, whether there is a previous
one, and the token of the device.

### FirmwareTransfer

A byte is its own offset, so "in order" is `slot[i] = i`. A range may be cut at any
byte, an answer lost, a session continued or restarted, and the writer started over;
the blob may be a wrong one, and the Core may or may not meet the end of the stream
(where its digest is compared), which the code leaves to the transport.
`StreamBlob` chooses which blob the registry sends, `Mismatch` is the test of
`BlobStream.Read`.

### DeviceSettings

One device with what it has in store (`nvs`, `cert`) and what it runs since its last
boot (`active`, `certActive`), and two workers, `dwork` and `nwork`, that stand for
the McuDeployment and the McuNode reconciler. Every HTTP call and every patch is a
step, and `Fault` marks the ones whose answer is lost (the call may have taken effect)
or that fail. The McuNode is stored in `node` and cached in `seen`. The patch of the
node reconciler's status carries a resourceVersion, so `ReconcileNode` needs
`seen = node`; the patches that record a port, a digest or a request do not, and only
the fields they change are written.

A TLS Secret is a certificate and whether `tls.crt` and `tls.key` are both there
(`secret.complete`). Without them `reconcileTLSCert` returns an error and the reconcile
of the node ends before `reconcileRebootRequest` (`RejectSecret`); the operator may take
the keys out and put them back (`SpoilSecret`, `RenewCert`). Other errors end a step
without anything that lasts, and are faults.

`generation` and `active_generation` are read for one comparison and are kept as one
boolean. `fulfilled` is a history variable; `orders` is the parity of the reboots the
Core has ordered, which is enough to say that they come to an end.

### NodeMetrics

A series is a pair of a gauge and its labels. `prev` is the entry of `prevLabels`; a
handler exchanges it under the mutex (`HandlerUpdatesLabels`) and then sets its gauges
one by one without it (`HandlerSetsGauge`). `holders` are the writers that have read
the version of the object that is stored: a patch or an `Update` of the others is
refused. Two gauges stand for eight: one that every heartbeat sets and one that it may
leave alone.

`raced` is a history variable: an update overlapped another one or a `RemoveNode`. The
mutex does not cover the gauges, so an overlap may leave series that nothing removes
before the process ends; the properties excuse it and say what holds otherwise.
A node that is deleted before its finalizer was added leaves its series too, and so
does one whose `spec.nodeId` is edited (not modelled: the series are keyed by it).

## 3. Runs

Passing runs:

| run | instance | shows |
|---|---|---|
| `exclusive` | 2 deployments, 1 node, 1 controller, current cache, one of them with a McuConfigMap | NodeExclusive, DeployedRuns, ReadyImpliesDeployed; implements `Rollout` |
| `stale_cache` | 1 deployment, 2 images patched on the way, stale cache | ConfirmingArmed, StatusCoherent, ActivatedAsResolved, NothingForgotten |
| `progress` | 1 deployment, 2 nodes (no device behind the second), from the start or after an overlap of two controllers, fairness of the controller only | ConfirmationDecided, SilenceDetected |
| `node_status` | 2 handlers, 2 heartbeats among 6 reports, one of them `offline` | the McuNode properties; implements `StatusRegister` |
| `token_rotation` | 2 handlers, 3 rotations, patient operator | the token properties; implements `Handover` |
| `firmware_transfer` | 8 bytes in ranges of 3, 3 attempts, 1 writer | the transfer properties |
| `device_settings` | 2 deployments that agree, 2 changes by the operator (a TLS Secret without its keys is one), 1 fault | the settings properties |
| `node_metrics` | 2 handlers, 2 heartbeats, 2 workloads, 1 chip | the metrics properties |

Bounds and why they are enough:

* Two deployments and one node are what a double claim needs; the theorem
  `OneDeploymentPerNode` covers any number. One node also reaches every branch of the
  binding except AmbiguousBinding, for which `progress` has a second node. No device
  is behind it (`SecondNodeIsSilent`), since no deployment can be bound to either of
  two candidates; when one node is deleted the other is the only candidate.
* In `stale_cache` an object that has failed, was deleted or is in Confirming already
  may still be activated, because the copy shows Activating: ActivatedAsResolved says
  so, and says what stays true. Confirming takes a second deployment on the node, whose
  image on trial makes `phaseActivating` skip the call; the theorem has any number.
* Two images let a patch of `spec.firmware.image` fall in every phase.
* Two overlapping controllers are left to the theorems `TypeCorrect`,
  `TimeoutAlwaysArmed` and `StatusStaysCoherent`, which hold for any number of them.
  One controller never finds a device past write while its deployment is in Preparing
  (theorem `OneControllerNeverResumes`); `progress` therefore also starts from what an
  overlap may leave (`TakesOver`: a late patch of the other controller took the phase
  back), which two controllers reach from the initial state.
  DeployedRuns and ReadyImpliesDeployed are NOT claimed with two of them: an older
  reconcile can write an earlier phase or older conditions back for a while.
* Two heartbeats: one that is stored and one in flight while the reconciler decides.
  Two handlers make two of them compete. MaxBeats bounds a counter that never resets;
  after the last heartbeat the system is allowed to stop, hence CHECK_DEADLOCK FALSE.
* Three rotations: the one a late message belongs to, the current one and one more.
  `TokenRotationProofs` has any number.
* 8 = 3 + 3 + 2: a first, a middle and a short last range, cut at every byte.
* Two changes and one fault in `device_settings`: a change that falls between a call
  and the patch that remembers it, with one of the two lost. The deployments want the
  same map and port: two that disagree would push in turn for ever, which takes a
  violation of NodeExclusive first. A map with a reserved key, with other values, and
  no map at all are among the wishes.
* A certificate or port never goes back to an earlier value there (`Reverts` is
  FALSE). If it does, CertEffective and PortEffective fail: after a push that was
  never recorded, the digest (or port) that is recorded matches again, and nothing
  tells the Core that the device has another one.
* Two heartbeats with different workloads change the labels once, before, while and
  after the node is deleted; the chip appears in between. DeletionEnds is about what
  comes after the last of them.

Four runs find a violation (each is a finding in `PROJECT.json`):

* `double_binding`: with a stale cache, the second reconcile does not see the first
  claim in `checkNotBusy`, and two deployments end up bound to one node.
* `stuck_activation`: the answer to activate is lost, the device boots and validates
  before the retry, and neither resume test of `phaseActivating` matches: the
  deployment stays in Activating, where there is no timeout. That activate is refused
  then is the external contract in `Agent` (`CanActivate`).
* `clock_unsynced`: the handler stores Ready=False for a heartbeat with
  `reason=clock_unsynced`; the next reconcile computes Ready from state and
  `ota_validated` alone and makes it true.
* `reboot_loop`: the agent ignores keys it does not know, so they are missing from
  `GET /config`; the comparison finds a difference at every reconcile, and an unchanged
  McuConfigMap reboots the device for ever.

Two more findings are disagreements between a document and the code that PASSING runs
show, since what they check is what the code does:

* *A Deployed deployment and its node* (`exclusive`, NodeExclusive).
  `docs/core/controllers.md:120` says that a node is busy when another McuDeployment that
  is "non Deployed/Failed" has it. In `checkNotBusy`
  (`internal/controller/mcudeployment_controller.go:160-170`), and in its comment, a Deployed
  one keeps the node and only Failed lets it go. The model follows the code. The
  documented rule is the mutant `BusyUnlessDeployed`: with it TLC finds two deployments
  that drive one device.
* *A reboot request and the TLS certificate* (`device_settings`, RequestCarriedOut).
  `docs/core/controllers.md:93` and the comment at
  `internal/controller/mcunode_controller.go:420` call a reboot request decoupled from the
  certificate. A TLS Secret without its keys is an error (line 350) that ends every
  reconcile before the request is looked at (lines 156-159). RequestCarriedOut therefore
  holds only for a Secret that ends up complete: without `secret.complete =>` TLC finds
  the loop `ReconcileNode`, `RejectSecret`. The theorem `IncompleteSecretHoldsRequests`
  (RequestHeld) says the same for any instance: from the moment a reconcile meets such a
  Secret, no request is recorded until the operator repairs it.

Two more behaviours were met that no run keeps. A `degraded` reported before the
activation fails a deployment as DeviceRollback "après activation", although no device
booted its image (`ReportsFailure` reads the stored state). And an operator who rotates
a token again as soon as previousToken is gone can have the new previousToken removed
by a heartbeat that was judged with the Secret of the rotation before: `Patient` in
`TokenRotation`.

## 4. Fairness

* The work queue serves keys in order and puts back a key whose reconcile failed, so
  a step of a deployment that is possible again and again, crashes and failed patches
  notwithstanding, is taken: strong fairness of the worker's steps. It is stated per
  deployment, so one of them cannot use up the turns of another.
* The McuNode reconciler is requeued every 10 s (`RequeueAfter: HeartbeatTimeout`),
  informers deliver what they watch, and timeouts elapse: weak fairness.
* `progress` assumes nothing of the devices (`ControllerFairness` only): one that never speaks
  again must still be decided and reported, so a fair device would hide what the two
  properties are about. `stuck_activation` gives the code more (`FairSpec`): a device
  comes back from a reboot, ends its self-check and speaks, and it is still stuck.
* In `TokenRotation` a message that is sent again for ever arrives once, and devices
  send heartbeats.
* Strong fairness of the reconciler's patch in `NodeStatus` says that it does not
  lose against heartbeats for ever; with a heartbeat every 5 s and a patch in
  milliseconds that is what happens.
* In `FirmwareTransfer` every request ends in an answer or an error of the
  connection. THE CODE DOES NOT GUARANTEE THIS: `httpStream` has no timeout and no
  context, so a device that stays connected and silent blocks the only worker. The
  liveness properties hold up to that hazard.
* In `DeviceSettings` the workers are started again on every event (a heartbeat every
  5 s is one), every 10 s for the node and 30 s after an error: weak fairness. Changes
  and faults are bounded, since what a device settles on can only be asked when nobody
  goes on changing it.
* In `NodeMetrics` the reconciler's removal and its update get strong fairness: a
  conflict or a crash puts the node back in the queue. Heartbeats are bounded; one
  before every update would delay a deletion for ever.
* Nothing is assumed of the operator, of permanent errors, or of which answer comes.

## 5. Proofs

| theorem | module | assumptions |
|---|---|---|
| `TypeCorrect` | every `*Proofs` module | none but those of the constants |
| `TimeoutAlwaysArmed` (ConfirmingArmed) | `McuDeploymentProofs` | none: stale caches, any number of controllers |
| `StatusStaysCoherent` (StatusCoherent) | `McuDeploymentProofs` | none |
| `OneDeploymentPerNode` (NodeExclusive) | `McuDeploymentProofs` | ~CacheLag and one controller, which `double_binding` shows to be needed |
| `ReadyIsDeployed` (ReadyImpliesDeployed) | `McuDeploymentProofs` | ~CacheLag and one controller |
| `DeployedIsAFact` (DeployedRuns), `ControllerImplementsRollout` (ImplementsRollout) | `RolloutProofs` | ~CacheLag and one controller |
| `ActivatesWhatItResolved` (ActivatedAsResolved), `NeverTwoPatchesBehind`, `SlotHoldsWhatWasResolved`, `PhasesInOrder`, `OneControllerNeverResumes` | `ActivationProofs` | one controller; any lag of the informer |
| `NoLostWakeup` (NothingForgotten) | `ActivationProofs` | ~CacheLag and any number of controllers, or one controller and any lag |
| `ReadyAlwaysAgrees`, `OfflineAlwaysExplained`, `HeartbeatNeverErased` | `NodeStatusProofs` | none: any number of handlers and heartbeats |
| `WritersImplementRegister` (ImplementsRegister) | `NodeStatusProofs` | none |
| `NeverLockedOut`, `AlwaysAccepted`, `ClearedInTime`, `RotationIsAHandover` (ImplementsHandover) | `TokenRotationProofs` | Patient |
| `TransferInOrder` (SlotInOrder), `TransferGoesForward` | `FirmwareTransferProofs` | none: any number of writers |
| `SuccessIsStaged` (DoneIsStaged) | `FirmwareTransferProofs` | one writer |
| `RequestsHonoured`, `NeverRepeated`, `IncompleteSecretHoldsRequests`, `ConfigRunsAtRest` | `DeviceSettingsProofs` | none |
| `CertNeverForgotten` (CertRecorded) | `DeviceSettingsProofs` | ~Reverts |
| `PortNeverForgotten` (PortRecorded) | `DeviceSettingsProofs` | ~Reverts, and deployments that agree on the port (`Agreed`) |
| `NothingLeftAtRest` | `DeviceSettingsProofs` | ~Reverts and `Agreed` |
| `OneLabelSetOnly`, `SeriesAlwaysAgree`, `NothingLeftBehind` | `NodeMetricsProofs` | none |

The arguments:

* *Armed.* ConfirmingArmed is not inductive: the phase is written by a reconcile
  that read the object earlier. `ArmedInv` adds that a reconcile about to write
  Confirming without annotating first works on an object that is armed NOW, which
  lasts because only deletion disarms, and nothing is written after a deletion.
* *Exclusive.* NodeExclusive speaks of stored objects, while the claim was checked
  when it was read. `ExclusiveInv` adds that the pending claim of the one reconcile in
  progress (`Owns`) is still the only one: nobody else writes boundNode before its
  patch lands, and a deletion only takes claims away. `ReadyIsDeployed` rests on it too:
  the object a patch was computed from is the one it lands on, so that phase and
  conditions change together.
* *Deployed.* Deployed is written from a heartbeat that came earlier, and another image
  may have been staged by a deployment that failed since. `DeployedInv` follows an image
  through the device: staged only after its deployment prepared the slot and before it
  ever ran, activated or running only once that deployment came to Activating
  (`TracesOf`); a slot that was prepared boots no other image (`SlotOwn`); what the last
  heartbeat said of the image of a live deployment is still true (`Settled`). What a
  reconcile in progress relies on lasts until its patch lands (`Advances`), and phases
  follow one line (`Follows`).
* *Refinement.* With these, each patch is the step of `Rollout` its two phases name
  (a patch to Pulling is a claim because of `Sole`), calls touch the inactive slot only,
  and a device step that changes the validated image happens on a node no Deployed
  object has.
* *Activated.* An informer that is behind shows an old phase, and a patch computed from
  it lands on a newer object. What bounds the damage with ONE controller is that it
  patches what it reads: its copy is the object of now or of one patch ago
  (`NeverTwoPatchesBehind`, from `Behind` and `Pending`), and node and digest are fixed
  before any image of the deployment is on a device (`Passed`). So the slot holds what
  the object says (`SlotMatches`), and activating from an old copy boots the right image.
  The same facts order the phases (`PhasesInOrder`). The exception is Failed, which is
  not final while the informer is behind: a reconcile of the copy from before the failure
  may take the object on. With two controllers none of this holds, since a late patch of
  one takes the object back.
* *No lost wakeup.* A worker takes a key out of the queue when it reads, and a reconcile
  that fails or watches a deployment asks for no requeue. NothingForgotten, the safety
  half of ConfirmationDecided and SilenceDetected, says that nothing falls through. Where
  no event is to come (`Outstanding`), `AttendedInv` says that the reconcile in progress
  works on the object as it is, that Available of a silent node is about to be withdrawn
  or has been, and that only a reconcile that will requeue holds a phase that has not
  ended. An event that is late may also be none at all: a patch that brings the object
  back to what the copy shows. `CopyInHand` rules it out for one controller. With two of
  them AND copies that lag the model cannot tell such a version from one that never
  changed, while the code can (a resourceVersion), so nothing is claimed there.
* *Coherent.* A patch computed from an old copy lands on an object that has moved on,
  so each field of the result may come from another version. What saves it is that
  boundNode and resolvedDigest are never taken away: `CoherentInv` says that every
  copy and every reconcile in hand is coherent itself and that what it has, the stored
  object has too (`Covers`), so the merged object has at least what its phase needs.
* *Status.* `NodeStatusProofs` rests on one fact about the optimistic lock: a copy that
  is marked current IS the stored object. Under it, what a writer is about to patch is
  sound by itself (`WantIsSound`), and the merge with the stored object is the new
  object, whole.
* *Register.* The same fact makes each read, decision and patch one step: the patch that
  is accepted was computed from what is stored. `RegisterInv` adds that a node
  declared silent is one whose heartbeat has expired (`SilenceLasts`), that what the
  reconciler is about to patch is a decision on the stored object that is still right
  (`WantIsDecision`:
  heartbeats only grow older), and that no two handlers hold the same heartbeat
  (`BeatsInHand`), so that the one that is stored leaves `pending`.
* *Tokens.* NotLockedOut needs to know what messages in flight may do. The invariant
  says that previous is the token before the current one, that posts are of rotations
  the informer has seen, that the cache is at most one write behind, that the device
  has the new token when somebody is about to remove the previous one, and which
  bearers can be in flight. A patient operator is used in one place, the step
  `Rotate`. The same invariant leaves to each step one action of `Handover`, or none: a
  rotation is issued when the device has the current token, a post that arrives late
  brings a token the device has, and only a confirmed one retires the previous.
* *Transfer.* SlotInOrder needs that the body of a range starts with the byte its
  offset names (`BodyAtOffset`), which is what the resync has to preserve.
  `SuccessIsStaged` adds, for one writer, that range 0 opens a session of its own
  (`OwnSession`), that a session with all its bytes is staged (`WholeIsStaged`), and
  that the answer in flight is still true when it is read (`AnswerIsTrue`), which is
  what a second writer would break. `TransferGoesForward` is the measure of a transfer:
  the start of the range goes up, or stays and an attempt is used up (`TakesNext`,
  `TriesAgain`), so that only a request without an answer can keep it from ending.
* *Requests.* RequestHonoured compares a request with a record that another step
  writes. `RequestInHand` adds that a worker about to record a request has booted the
  device since that request was the last one; the lock gives `DoneIsKnown`, that the
  worker's object has the record of now.
* *Held requests.* A worker that starts a reconcile, or is before `reconcileTLSCert`, while
  the Secret is incomplete can only go on to the error and start again (`Held`); a crash
  does not change that. One that has passed that test already may still reboot.
* *Certificate.* The worker may push a certificate that was replaced meanwhile.
  `NoneNewer` says that no certificate beyond that of the Secret is anywhere, and
  `CertInHand` that the one in hand is in store, and active once it is to be recorded;
  since certificates only grow, one that equals the Secret's is the latest.
* *Port.* Two paths post and record the port, and a patch may fail after the call took
  effect. `WasWanted` says that only a port that was wanted, or the 1 the device came
  with, is on the device or in the record; `PortInHand` that the port about to be
  recorded is the one the device serves. Without agreement the deployments overwrite
  each other's port, and the record tells nothing.
* *Rest.* The liveness properties of the settings say that the device ends up as it is
  wanted. Their safety half is proved: where the workers' own tests find nothing to do,
  there is nothing to do (`ConfigRunsAtRest`, `NothingLeftAtRest`). Nothing is recorded
  between the push of a configuration and its reboot; `Noticed` says that the device's
  generations always tell the two apart, which is all the worker has to go by.
* *Series.* `Locked` says what the writers in `holders` know of the object, `Tracked`
  that the series are under `prev` unless updates overlapped, `Followed` where the
  workload of the status is, and `Removed` that between RemoveNode and the Update the
  series are gone, unless the Update is bound to be refused.

The facts that only the proof modules state (OnePatchBehind, SlotsResolved, OneStepForward,
NothingToResume, OnlyForward, RestRunsConfig, RestIsEffective) hold on the instances of
`stale_cache`, `firmware_transfer` and `device_settings` as well; OfflineExplained,
OfflineOnlyIfSilent (which `StatusRegister` implies), ClearedOnceConfirmed and RequestHeld are proved
and no run repeats them.

Only model-checked: all liveness, because fairness and ENABLED are out of the prover's
reach. Nothing is recursive, so nothing rests on induction over data.

## 6. Not modelled

* Log ingestion: best effort by contract, it writes to the logger only, and no state of
  another part depends on it.
* Manifests, references, registry authentication and signatures: functions of their
  input; a refusal is one of the outcomes of `ReconcilePulling`.
* The Service of a node: patched like the slice, its only variable part is the port.
  The names of ports, labels and owners in it, flags and probes of the manager.
* The values of measurements and gauges. A temperature gauge keeps its last value when
  the sensor disappears, although `internal/metrics/metrics.go:31` says it is absent;
  that is a matter of values only.
* A heartbeat of a `clock_unsynced` device that confirms a deployment: the node of
  `McuDeployment` has no reason, as the status the code reads has none.
* Durations, and calls that never return.

What could follow: a composition of `DeviceSettings` with the phases of an update, where
a reboot that the node asks for meets an image on trial.
