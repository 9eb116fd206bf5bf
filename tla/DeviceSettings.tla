--------------------------- MODULE DeviceSettings ---------------------------
(***************************************************************************)
(* What the Core changes on a device beside its firmware, and how it       *)
(* remembers to have done so.  Two workers act on the same device:         *)
(*                                                                         *)
(*  - the McuDeployment reconciler pushes the McuConfigMap and the         *)
(*    application port of the deployments bound to the device              *)
(*    (src/internal/controller/mcudeployment_controller.go);               *)
(*  - the McuNode reconciler pushes the TLS certificate and carries out    *)
(*    reboot requests (src/internal/controller/mcunode_controller.go).     *)
(*                                                                         *)
(* Each of them calls the device and then records the call in the status   *)
(* of the McuNode, or, for the configuration, asks the device what it has  *)
(* in store and what it runs.  Between any two steps the other worker, the *)
(* operator, a reboot of the device or a crash of the Core may come.       *)
(*                                                                         *)
(*  - The objects that only the operator writes (McuConfigMap, Secret,     *)
(*    spec of a deployment) are modelled as the informer shows them.  The  *)
(*    McuNode, which the workers write, has a stored form and an informer  *)
(*    copy.  The patch of a deployment's own status is McuDeployment's.    *)
(*  - Ports, certificates and reboot requests are numbers, 0 for none.     *)
(*  - generation > active_generation is the boolean pending.               *)
(*  - A device without an IP and an absent token stop a worker before its  *)
(*    first call: no step.  A TLS Secret without tls.crt or tls.key is an  *)
(*    error that ends the reconcile of the node (RejectSecret).            *)
(***************************************************************************)
EXTENDS Naturals

CONSTANTS Deployment,  \* deployments bound to the device
          Wish,        \* what the operator may want of each: port, map
          Key,         \* keys of a McuConfigMap
          Value,
          Reserved,    \* keys with the prefix "_"
          Known,       \* keys the agent stores, the others are ignored
          NoValue,     \* no entry in NVS
          NoMap,       \* no McuConfigMap of that name
          BadMap,      \* one with a key or a value that is too long
          NoDeployment,
          Reverts,     \* the operator may go back to an old port or certificate
          MaxChanges,  \* bound: changes by the operator
          MaxFaults    \* bound: lost calls, failed patches, crashes, reboots

\* Contents of a McuConfigMap.
Data == UNION {[K -> Value] : K \in SUBSET Key}

ASSUME KeysAssumption == Reserved \subseteq Key /\ Known \subseteq Key \ Reserved
ASSUME NoValueAssumption == NoValue \notin Value
ASSUME WishAssumption ==
    Wish \subseteq [Deployment -> [port : Nat, map : Data \cup {NoMap, BadMap}]]
ASSUME NoDeploymentAssumption == NoDeployment \notin Deployment
ASSUME RevertsAssumption == Reverts \in BOOLEAN
ASSUME BoundsAssumption == MaxChanges \in Nat /\ MaxFaults \in Nat

VARIABLES wish,     \* spec of the deployments, and their McuConfigMaps
          secret,   \* the TLS Secret
          phase,    \* API server: the phase of each deployment
          node,     \* API server: annotation and status of the McuNode
          seen,     \* the informer's copy of node
          device,   \* what the device has in store and what it runs
          dwork,    \* the McuDeployment worker
          nwork,    \* the McuNode worker
          orders,   \* parity of the reboots ordered by the Core
          fulfilled,\* history: the device has booted since the last request
          changes,  \* changes by the operator so far
          faults    \* faults so far

vars == <<wish, secret, phase, node, seen, device, dwork, nwork, orders, fulfilled,
          changes, faults>>

objects == <<wish, secret, phase, node, seen>>

(***************************************************************************)
(* Types                                                                   *)
(***************************************************************************)
\* request: annotation reboot-requested; done: Status.LastRebootRequested;
\* digest: Status.TLSCertDigest; port: Status.AppPort.
NodeObject == [request : Nat, done : Nat, digest : Nat, port : Nat]

\* cert: the certificate, or the last one if tls.crt or tls.key is missing now.
Secret == [cert : Nat, complete : BOOLEAN]

Nvs == [Known -> Value \cup {NoValue}]

\* active and certActive are what nvs and cert were at the last boot.
Device == [nvs : Nvs, active : Nvs, pending : BOOLEAN,
           cert : Nat, certActive : Nat, port : Nat]

DeploymentWork ==
    [step : {"idle", "recordPort", "config", "push", "reboot", "info"},
     dep : Deployment \cup {NoDeployment}, port : Nat, data : Data]

NodeWork == [step : {"idle", "cert", "certReboot", "recordCert", "request", "recordRequest"},
             obj : NodeObject, cert : Nat]

NoData == [k \in {} |-> NoValue]
IdleDeployment == [step |-> "idle", dep |-> NoDeployment, port |-> 0, data |-> NoData]

(***************************************************************************)
(* The device                                                              *)
(***************************************************************************)
\* What is in store becomes effective; active_generation = generation.
Booted(v) == [v EXCEPT !.active = v.nvs, !.pending = FALSE, !.certActive = v.cert]

\* POST /config merges key by key and counts a generation.
Configured(v, data) ==
    [v EXCEPT !.nvs = [k \in Known |-> IF k \in DOMAIN data THEN data[k] ELSE v.nvs[k]],
              !.pending = TRUE]

\* A call whose outcome is unknown to the caller, or a patch that fails.
Fault == faults < MaxFaults /\ faults' = faults + 1
NoFault == UNCHANGED faults

\* POST /reboot takes effect.
Reboots ==
    /\ device' = Booted(device)
    /\ orders' = 1 - orders
    /\ fulfilled' = TRUE

NoReboot == UNCHANGED <<orders, fulfilled>>
NoCall == UNCHANGED device /\ NoReboot

(***************************************************************************)
(* The McuDeployment worker                                                *)
(***************************************************************************)
PortDiverges(d) == wish[d].port # 0 /\ wish[d].port # seen.port

\* Mutated form: the port is recorded although the call failed.
PostAppPortUnchecked(d) ==
    /\ dwork.step = "idle"
    /\ phase[d] = "Deployed"
    /\ PortDiverges(d)
    /\ \/ NoFault /\ device' = [device EXCEPT !.port = wish[d].port]
       \/ Fault /\ UNCHANGED device
    /\ dwork' = [step |-> "recordPort", dep |-> d, port |-> wish[d].port, data |-> NoData]
    /\ NoReboot
    /\ UNCHANGED <<objects, nwork, changes>>

\* reconcileDeployed, reconcileAppPort: the port is compared with the cached
\* node.  After an error the configuration has to wait as well.
PostAppPort(d) ==
    /\ dwork.step = "idle"
    /\ phase[d] = "Deployed"
    /\ PortDiverges(d)
    /\ \/ /\ device' = [device EXCEPT !.port = wish[d].port]
          /\ NoFault
          /\ dwork' = [step |-> "recordPort", dep |-> d, port |-> wish[d].port,
                       data |-> NoData]
       \/ /\ device' \in {device, [device EXCEPT !.port = wish[d].port]}
          /\ Fault
          /\ UNCHANGED dwork
    /\ NoReboot
    /\ UNCHANGED <<objects, nwork, changes>>

\* Mutated form: Status.AppPort is left to the next GET /info.
RecordsNoPort ==
    /\ dwork.step = "recordPort"
    /\ dwork' = [dwork EXCEPT !.step = "config"]
    /\ NoFault /\ NoCall
    /\ UNCHANGED <<objects, nwork, changes>>

\* Status.AppPort is patched; a failure is logged and the reconcile goes on.
RecordPort ==
    /\ dwork.step = "recordPort"
    /\ dwork' = [dwork EXCEPT !.step = "config"]
    /\ \/ NoFault /\ node' = [node EXCEPT !.port = dwork.port]
       \/ Fault /\ UNCHANGED node
    /\ NoCall
    /\ UNCHANGED <<wish, secret, phase, seen, nwork, changes>>

\* Mutated form: reserved keys are sent and compared like the others.
UnfilteredData(map) == map

\* The keys that are sent and compared.
Filtered(map) == [k \in DOMAIN map \ Reserved |-> map[k]]

NeedsPush(data) == \E k \in DOMAIN data : k \notin Known \/ data[k] # device.nvs[k]

\* Mutated form: only a push asks for a reboot.
RebootsOnlyAfterPush == FALSE

\* The configuration is in store and the reboot that had to follow never came.
NeedsReboot == device.pending

\* phasePreparing pushes before the image and leaves the reboot to it;
\* reconcileConfigOnly reboots.
AfterConfig(d) ==
    IF phase[d] = "Preparing" THEN "info" ELSE "reboot"

AtConfig(d) ==
    \/ /\ dwork.step = "idle"
       /\ phase[d] = "Preparing" \/ (phase[d] = "Deployed" /\ ~PortDiverges(d))
    \/ dwork.step = "config" /\ dwork.dep = d

\* Mutated form: the reason goes where the phase belongs.
FailConfigWithReason(d) ==
    /\ AtConfig(d)
    /\ wish[d].map \in {NoMap, BadMap}
    /\ phase' = [phase EXCEPT ![d] = "ConfigInvalid"]
    /\ dwork' = IdleDeployment
    /\ NoFault /\ NoCall
    /\ UNCHANGED <<wish, secret, node, seen, nwork, changes>>

\* A missing McuConfigMap or one with a bad key or value is permanent.
FailConfig(d) ==
    /\ AtConfig(d)
    /\ wish[d].map \in {NoMap, BadMap}
    /\ phase' = [phase EXCEPT ![d] = "Failed"]
    /\ dwork' = IdleDeployment
    /\ NoFault /\ NoCall
    /\ UNCHANGED <<wish, secret, node, seen, nwork, changes>>

\* GET /config and the comparison with the map.  The node was read at the start
\* of the reconcile: port keeps what it said for persistNodeInfo.
CompareConfig(d) ==
    /\ AtConfig(d)
    /\ wish[d].map \notin {NoMap, BadMap}
    /\ LET data  == Filtered(wish[d].map)
           work  == [step |-> "push", dep |-> d, port |-> seen.port, data |-> data]
       IN  \/ /\ NoFault
              /\ dwork' = IF NeedsPush(data) THEN work
                          ELSE IF phase[d] = "Preparing" \/ NeedsReboot
                               THEN [work EXCEPT !.step = AfterConfig(d), !.data = NoData]
                               ELSE IdleDeployment
           \/ dwork.step = "config" /\ Fault /\ dwork' = IdleDeployment
    /\ NoCall
    /\ UNCHANGED <<objects, nwork, changes>>

PostConfig ==
    /\ dwork.step = "push"
    /\ \/ /\ device' = Configured(device, dwork.data)
          /\ NoFault
          /\ dwork' = [dwork EXCEPT !.step = AfterConfig(dwork.dep), !.data = NoData]
       \/ /\ device' \in {device, Configured(device, dwork.data)}
          /\ Fault
          /\ dwork' = IdleDeployment
    /\ NoReboot
    /\ UNCHANGED <<objects, nwork, changes>>

PostReboot ==
    /\ dwork.step = "reboot"
    /\ \/ Reboots /\ NoFault
       \/ NoCall /\ Fault
    /\ dwork' = IdleDeployment
    /\ UNCHANGED <<objects, nwork, changes>>

\* GET /info and persistNodeInfo: a merge patch against the node as it was read,
\* whose failure is not an error.
PersistNodeInfo ==
    /\ dwork.step = "info"
    /\ \/ /\ NoFault
          /\ node' = IF device.port # dwork.port THEN [node EXCEPT !.port = device.port]
                     ELSE node
       \/ Fault /\ UNCHANGED node
    /\ phase' = [phase EXCEPT ![dwork.dep] = "Updating"]
    /\ dwork' = IdleDeployment
    /\ NoCall
    /\ UNCHANGED <<wish, secret, seen, nwork, changes>>

(***************************************************************************)
(* The McuNode worker                                                      *)
(***************************************************************************)
\* Mutated form: the status patch carries no resourceVersion.
ReconcileNodeUnlocked ==
    /\ nwork.step = "idle"
    /\ nwork' = [step |-> "cert", obj |-> seen, cert |-> 0]
    /\ NoFault /\ NoCall
    /\ UNCHANGED <<objects, dwork, changes>>

\* Reconcile reads the cached node and patches its status under an optimistic
\* lock: it goes on only with the object as it is stored.
ReconcileNode ==
    /\ nwork.step = "idle"
    /\ seen = node
    /\ nwork' = [step |-> "cert", obj |-> seen, cert |-> 0]
    /\ NoFault /\ NoCall
    /\ UNCHANGED <<objects, dwork, changes>>

NodeGoes(step) == nwork' = [nwork EXCEPT !.step = step]

\* Mutated form: the reboot after the certificate is left to somebody else.
PostTLSCertOnly ==
    /\ nwork.step = "cert" /\ secret.complete
    /\ IF secret.cert \in {0, nwork.obj.digest}
       THEN NodeGoes("request") /\ UNCHANGED device
       ELSE /\ device' = [device EXCEPT !.cert = secret.cert]
            /\ nwork' = [nwork EXCEPT !.step = "recordCert", !.cert = secret.cert]
    /\ NoFault /\ NoReboot
    /\ UNCHANGED <<objects, dwork, changes>>

\* reconcileTLSCert: a Secret without its keys is an error, with which Reconcile
\* returns before it comes to the reboot request.
RejectSecret ==
    /\ nwork.step = "cert" /\ ~secret.complete
    /\ NodeGoes("idle")
    /\ NoFault /\ NoCall
    /\ UNCHANGED <<objects, dwork, changes>>

\* reconcileTLSCert up to the first call, the Secret being complete.
PostTLSCert ==
    /\ nwork.step = "cert" /\ secret.complete
    /\ IF secret.cert \in {0, nwork.obj.digest}
       THEN NodeGoes("request") /\ NoFault /\ UNCHANGED device
       ELSE \/ /\ device' = [device EXCEPT !.cert = secret.cert]
               /\ NoFault
               /\ nwork' = [nwork EXCEPT !.step = "certReboot", !.cert = secret.cert]
            \/ /\ device' \in {device, [device EXCEPT !.cert = secret.cert]}
               /\ Fault
               /\ NodeGoes("request")
    /\ NoReboot
    /\ UNCHANGED <<objects, dwork, changes>>

\* Mutated form: the digest is recorded whatever the answer to the reboot.
RebootForCertUnchecked ==
    /\ nwork.step = "certReboot"
    /\ \/ Reboots /\ NoFault
       \/ NoCall /\ Fault
    /\ NodeGoes("recordCert")
    /\ UNCHANGED <<objects, dwork, changes>>

\* The digest is recorded only if the answer to the reboot has come.
RebootForCert ==
    /\ nwork.step = "certReboot"
    /\ \/ Reboots /\ NoFault /\ NodeGoes("recordCert")
       \/ (Reboots \/ NoCall) /\ Fault /\ NodeGoes("request")
    /\ UNCHANGED <<objects, dwork, changes>>

\* The answer to the patch is the object as it is stored now.
RecordCert ==
    /\ nwork.step = "recordCert"
    /\ \/ /\ NoFault
          /\ node' = [node EXCEPT !.digest = nwork.cert]
          /\ nwork' = [nwork EXCEPT !.step = "request", !.obj = node', !.cert = 0]
       \/ Fault /\ NodeGoes("idle") /\ UNCHANGED node
    /\ NoCall
    /\ UNCHANGED <<wish, secret, phase, seen, dwork, changes>>

\* Mutated form: any recorded request will do.
RebootAsFirstRequested ==
    /\ nwork.step = "request"
    /\ IF nwork.obj.request = 0 \/ nwork.obj.done # 0
       THEN NodeGoes("idle") /\ NoCall
       ELSE Reboots /\ NodeGoes("recordRequest")
    /\ NoFault
    /\ UNCHANGED <<objects, dwork, changes>>

\* reconcileRebootRequest up to its call.
RebootAsRequested ==
    /\ nwork.step = "request"
    /\ IF nwork.obj.request \in {0, nwork.obj.done}
       THEN NodeGoes("idle") /\ NoFault /\ NoCall
       ELSE \/ Reboots /\ NoFault /\ NodeGoes("recordRequest")
            \/ (Reboots \/ NoCall) /\ Fault /\ NodeGoes("idle")
    /\ UNCHANGED <<objects, dwork, changes>>

\* Mutated form: what is recorded is the annotation of now.
RecordsLatestRequest ==
    /\ nwork.step = "recordRequest"
    /\ NoFault
    /\ node' = [node EXCEPT !.done = node.request]
    /\ NodeGoes("idle")
    /\ NoCall
    /\ UNCHANGED <<wish, secret, phase, seen, dwork, changes>>

RecordRequest ==
    /\ nwork.step = "recordRequest"
    /\ \/ NoFault /\ node' = [node EXCEPT !.done = nwork.obj.request]
       \/ Fault /\ UNCHANGED node
    /\ NodeGoes("idle")
    /\ NoCall
    /\ UNCHANGED <<wish, secret, phase, seen, dwork, changes>>

(***************************************************************************)
(* Operator and environment                                                *)
(***************************************************************************)
Change == changes < MaxChanges /\ changes' = changes + 1

\* kubectl annotate mcunode ... reboot-requested="$(date +%s)": never a value
\* that was used before.
RequestReboot ==
    /\ Change
    /\ node' = [node EXCEPT !.request = @ + 1]
    /\ fulfilled' = FALSE
    /\ NoFault
    /\ UNCHANGED <<wish, secret, phase, seen, device, dwork, nwork, orders>>

\* A new certificate, or the same one put back after SpoilSecret.
RenewCert ==
    /\ Change
    /\ \E c \in 1 .. secret.cert + 1 :
          /\ c # secret.cert \/ ~secret.complete
          /\ c < secret.cert => Reverts
          /\ secret' = [cert |-> c, complete |-> TRUE]
    /\ NoFault /\ NoCall
    /\ UNCHANGED <<wish, phase, node, seen, dwork, nwork>>

\* The Secret loses tls.crt or tls.key, or is created without them.
SpoilSecret ==
    /\ Change
    /\ secret.complete
    /\ secret' = [secret EXCEPT !.complete = FALSE]
    /\ NoFault /\ NoCall
    /\ UNCHANGED <<wish, phase, node, seen, dwork, nwork>>

ChangeWish ==
    /\ Change
    /\ \E w \in Wish :
          /\ w # wish
          /\ ~Reverts => \A d \in Deployment : w[d].port >= wish[d].port
          /\ wish' = w
    /\ NoFault /\ NoCall
    /\ UNCHANGED <<secret, phase, node, seen, dwork, nwork>>

\* The rest of an update: the activation boots the device, or the update fails.
UpdateEnds(d) ==
    /\ phase[d] = "Updating"
    /\ \/ /\ phase' = [phase EXCEPT ![d] = "Deployed"]
          /\ device' = Booted(device)
          /\ fulfilled' = TRUE
          /\ UNCHANGED orders
       \/ phase' = [phase EXCEPT ![d] = "Failed"] /\ NoCall
    /\ NoFault
    /\ UNCHANGED <<wish, secret, node, seen, dwork, nwork, changes>>

SyncNode ==
    /\ seen # node
    /\ seen' = node
    /\ NoFault /\ NoCall
    /\ UNCHANGED <<wish, secret, phase, node, dwork, nwork, changes>>

\* The device boots by itself.
PowerCycle ==
    /\ Fault
    /\ device' = Booted(device)
    /\ fulfilled' = TRUE
    /\ UNCHANGED <<objects, dwork, nwork, orders, changes>>

\* The controller dies and starts again from a fresh list.
Crash ==
    /\ Fault
    /\ seen' = node
    /\ dwork' = IdleDeployment
    /\ NodeGoes("idle")
    /\ NoCall
    /\ UNCHANGED <<wish, secret, phase, node, changes>>

(***************************************************************************)
(* Specification                                                           *)
(***************************************************************************)
Init ==
    /\ wish \in Wish
    /\ secret = [cert |-> 0, complete |-> TRUE]
    /\ phase = [d \in Deployment |-> "Preparing"]
    /\ node = [request |-> 0, done |-> 0, digest |-> 0, port |-> 0]
    /\ seen = node
    /\ LET unset == [k \in Known |-> NoValue] IN
       device = [nvs |-> unset, active |-> unset, pending |-> FALSE,
                 cert |-> 0, certActive |-> 0, port |-> 1]
    /\ dwork = IdleDeployment
    /\ nwork = [step |-> "idle", obj |-> node, cert |-> 0]
    /\ orders = 0
    /\ fulfilled = TRUE
    /\ changes = 0
    /\ faults = 0

Starts(d) == PostAppPort(d) \/ FailConfig(d) \/ CompareConfig(d)

GoesOn == RecordPort \/ PostConfig \/ PostReboot \/ PersistNodeInfo

NodeActs ==
    \/ ReconcileNode \/ RejectSecret \/ PostTLSCert \/ RebootForCert \/ RecordCert
    \/ RebootAsRequested \/ RecordRequest

Operator == RequestReboot \/ RenewCert \/ SpoilSecret \/ ChangeWish

Next ==
    \/ \E d \in Deployment : Starts(d) \/ UpdateEnds(d)
    \/ GoesOn \/ NodeActs \/ Operator
    \/ SyncNode \/ PowerCycle \/ Crash

Spec == Init /\ [][Next]_vars

\* The workers go on and start again: on every event (heartbeats come every 5 s),
\* every 10 s for the node, 30 s after an error; one deployment does not use up
\* the turns of another.  The informer delivers.  Operator and faults are bounded.
FairSpec == /\ Spec
            /\ \A d \in Deployment : WF_vars(Starts(d))
            /\ WF_vars(GoesOn) /\ WF_vars(NodeActs) /\ WF_vars(SyncNode)

(***************************************************************************)
(* Properties                                                              *)
(***************************************************************************)
\* Every variable keeps its type.
TypeOK ==
    /\ wish \in Wish /\ secret \in Secret
    /\ phase \in [Deployment -> {"Preparing", "Updating", "Deployed", "Failed"}]
    /\ node \in NodeObject /\ seen \in NodeObject
    /\ device \in Device
    /\ dwork \in DeploymentWork /\ nwork \in NodeWork
    /\ orders \in {0, 1} /\ fulfilled \in BOOLEAN
    /\ changes \in 0 .. MaxChanges /\ faults \in 0 .. MaxFaults

\* A certificate that counts as applied is the one the device runs: a lost
\* answer, a crash or a failed patch between push, reboot and record cannot
\* make the Core forget a certificate that is stored but not active.
CertRecorded ==
    secret.cert # 0 /\ node.digest = secret.cert => device.certActive = secret.cert

\* A port that counts as applied is the one the device serves, although a lost
\* answer or a failed patch leaves the record behind and two paths write it.
PortRecorded ==
    \A d \in Deployment :
        wish[d].port # 0 /\ node.port = wish[d].port => device.port = wish[d].port

\* A reboot request that counts as carried out was followed by a boot, also when
\* it was made while another one was being carried out.
RequestHonoured == node.request # 0 /\ node.done = node.request => fulfilled

\* The worker never reboots a device for a request that is already recorded,
\* however stale the informer is.
NoRepeatedReboot ==
    [][nwork.step = "request" /\ nwork'.step # "request" /\ orders' # orders
          => node.done # nwork.obj.request]_vars

RunsConfig(d) ==
    /\ wish[d].map \notin {NoMap, BadMap}
    /\ LET data == Filtered(wish[d].map) IN \A k \in DOMAIN data : device.active[k] = data[k]

\* A deployment that stays Deployed has its configuration running in the end,
\* although push and reboot are two calls with nothing recorded between them.
ConfigEffective ==
    \A d \in Deployment : <>[](phase[d] = "Deployed") => <>[]RunsConfig(d)

\* In the end the device serves the port that is wanted and published.
PortEffective ==
    \A d \in Deployment :
        <>[](phase[d] = "Deployed" /\ wish[d].port # 0) =>
            <>[](device.port = wish[d].port /\ node.port = wish[d].port)

\* In the end the device runs the certificate of the Secret, if there is one in it.
CertEffective ==
    <>[](secret.cert # 0 /\ secret.complete => device.certActive = secret.cert)

\* In the end every reboot request has been carried out and recorded, also one
\* made while the Secret was incomplete, unless the Secret stays so: the error of
\* reconcileTLSCert keeps every reconcile from reconcileRebootRequest.
RequestCarriedOut == <>[](secret.complete => node.done = node.request)

\* A request made when a reconcile meets an incomplete Secret waits until the
\* operator repairs it.  (docs/core/controllers.md:93 and the comment on
\* reconcileRebootRequest say it is decoupled from the certificate.)
Held == ~secret.complete /\ nwork.step \in {"idle", "cert"}

RequestHeld == [][Held => secret'.complete \/ (Held' /\ node'.done = node.done)]_vars

\* When nobody changes anything, the Core stops rebooting the device: its
\* orders come to an end ("si le McuConfigMap change, la config est re-poussee
\* et le device reboot").
RebootsSettle == <>[](orders = 0) \/ <>[](orders = 1)
=============================================================================
