----------------------- MODULE DeviceSettingsProofs -----------------------
(***************************************************************************)
(* For any number of deployments, keys, changes and faults: types are      *)
(* kept, a recorded request was honoured and is not repeated, an           *)
(* incomplete TLS Secret holds requests up, and, unless the operator goes  *)
(* back to an old certificate or port, a recorded one is the one the       *)
(* device runs or serves.                                                  *)
(***************************************************************************)
EXTENDS DeviceSettings, TLAPS

(***************************************************************************)
(* Types                                                                   *)
(***************************************************************************)
\* Dropping the reserved keys leaves a content of a map.
LEMMA FilteredIsData == ASSUME NEW m \in Data PROVE Filtered(m) \in Data
<1>1. PICK K \in SUBSET Key : m \in [K -> Value]
  BY DEF Data
<1>2. Filtered(m) \in [K \ Reserved -> Value] /\ K \ Reserved \in SUBSET Key
  BY <1>1 DEF Filtered
<1>3. QED
  BY <1>2 DEF Data

\* The empty content.
LEMMA NoDataIsData == NoData \in Data
<1>1. NoData \in [{} -> Value] /\ {} \in SUBSET Key
  BY DEF NoData
<1>2. QED
  BY <1>1 DEF Data

\* A worker without work.
LEMMA IdleIsWork == IdleDeployment \in DeploymentWork
BY NoDataIsData DEF IdleDeployment, DeploymentWork

\* A boot keeps the type of the device.
LEMMA BootedIsDevice == ASSUME NEW v \in Device PROVE Booted(v) \in Device
BY DEF Booted, Device

\* So does POST /config.
LEMMA ConfiguredIsDevice ==
    ASSUME NEW v \in Device, NEW data \in Data PROVE Configured(v, data) \in Device
<1>1. PICK K \in SUBSET Key : data \in [K -> Value]
  BY DEF Data
<1>2. DOMAIN data = K /\ \A k \in K : data[k] \in Value
  BY <1>1
<1>3. v.nvs \in Nvs
  BY DEF Device
<1>4. [k \in Known |-> IF k \in DOMAIN data THEN data[k] ELSE v.nvs[k]] \in Nvs
  BY <1>2, <1>3 DEF Nvs
<1>5. QED
  BY <1>4 DEF Configured, Device

\* Every wish has a port and, if it is not an error, a content.
LEMMA WishTypes ==
    ASSUME TypeOK, NEW d \in Deployment
    PROVE  /\ wish[d].port \in Nat
           /\ wish[d].map \notin {NoMap, BadMap} => wish[d].map \in Data
BY WishAssumption DEF TypeOK

\* Counting a fault, or none, keeps the counter in its range.
LEMMA FaultType == TypeOK /\ (Fault \/ NoFault) => faults' \in 0 .. MaxFaults
BY BoundsAssumption DEF TypeOK, Fault, NoFault

\* An order to reboot, or none, keeps the types of what it changes.
LEMMA RebootType ==
    TypeOK /\ (Reboots \/ NoCall) =>
        device' \in Device /\ orders' \in {0, 1} /\ fulfilled' \in BOOLEAN
<1>1. TypeOK /\ NoCall => device' \in Device /\ orders' \in {0, 1} /\ fulfilled' \in BOOLEAN
  BY DEF TypeOK, NoCall, NoReboot
<1>2. TypeOK /\ Reboots => device' \in Device /\ orders' \in {0, 1}
  BY BootedIsDevice DEF TypeOK, Reboots
<1>3. Reboots => fulfilled' \in BOOLEAN
  BY DEF Reboots
<1>4. QED
  BY <1>1, <1>2, <1>3

\* The steps by which the McuDeployment worker starts keep types.
LEMMA StartType == ASSUME TypeOK, NEW d \in Deployment, Starts(d) PROVE TypeOK'
<1>0. /\ wish[d].port \in Nat
      /\ wish[d].map \notin {NoMap, BadMap} => wish[d].map \in Data
  BY WishTypes
<1>1. CASE PostAppPort(d)
  <2>1. faults' \in 0 .. MaxFaults
    BY <1>1, FaultType DEF PostAppPort
  <2>2. device' \in Device
    BY <1>1, <1>0 DEF PostAppPort, TypeOK, Device
  <2>3. dwork' \in DeploymentWork
    BY <1>1, <1>0, NoDataIsData DEF PostAppPort, TypeOK, DeploymentWork
  <2>4. QED
    BY <1>1, <2>1, <2>2, <2>3 DEF PostAppPort, TypeOK, objects, NoReboot
<1>2. CASE FailConfig(d)
  BY <1>2, IdleIsWork DEF FailConfig, TypeOK, NoFault, NoCall, NoReboot
<1>3. CASE CompareConfig(d)
  <2> DEFINE data == Filtered(wish[d].map)
             work == [step |-> "push", dep |-> d, port |-> seen.port, data |-> data]
  <2>1. faults' \in 0 .. MaxFaults
    BY <1>3, FaultType DEF CompareConfig
  <2>2. data \in Data /\ seen.port \in Nat
    BY <1>3, <1>0, FilteredIsData DEF CompareConfig, TypeOK, NodeObject
  <2>3. work \in DeploymentWork
    BY <2>2 DEF DeploymentWork
  <2>4. [work EXCEPT !.step = AfterConfig(d), !.data = NoData] \in DeploymentWork
    BY <2>3, NoDataIsData DEF AfterConfig, DeploymentWork
  <2>5. dwork' \in DeploymentWork
    BY <1>3, <2>3, <2>4, IdleIsWork DEF CompareConfig
  <2>6. QED
    BY <1>3, <2>1, <2>5 DEF CompareConfig, TypeOK, objects, NoCall, NoReboot
<1>4. QED
  BY <1>1, <1>2, <1>3 DEF Starts

\* So do the steps by which it goes on.
LEMMA GoesOnType == ASSUME TypeOK, GoesOn PROVE TypeOK'
<1>0. faults' \in 0 .. MaxFaults
  BY FaultType DEF GoesOn, RecordPort, PostConfig, PostReboot, PersistNodeInfo
<1>1. CASE RecordPort
  BY <1>1, <1>0 DEF RecordPort, TypeOK, DeploymentWork, NodeObject, NoCall, NoReboot
<1>2. CASE PostConfig
  <2>1. device' \in Device
    BY <1>2, ConfiguredIsDevice DEF PostConfig, TypeOK, DeploymentWork
  <2>2. [dwork EXCEPT !.step = AfterConfig(dwork.dep), !.data = NoData] \in DeploymentWork
    BY NoDataIsData DEF AfterConfig, DeploymentWork, TypeOK
  <2>3. dwork' \in DeploymentWork
    BY <1>2, <2>2, IdleIsWork DEF PostConfig
  <2>4. QED
    BY <1>2, <1>0, <2>1, <2>3 DEF PostConfig, TypeOK, objects, NoReboot
<1>3. CASE PostReboot
  <2>1. device' \in Device /\ orders' \in {0, 1} /\ fulfilled' \in BOOLEAN
    BY <1>3, RebootType DEF PostReboot
  <2>2. QED
    BY <1>3, <1>0, <2>1, IdleIsWork DEF PostReboot, TypeOK, objects
<1>4. CASE PersistNodeInfo
  <2>1. node' \in NodeObject
    BY <1>4 DEF PersistNodeInfo, TypeOK, NodeObject, Device
  <2>2. QED
    BY <1>4, <1>0, <2>1, IdleIsWork DEF PersistNodeInfo, TypeOK, NoCall, NoReboot
<1>5. QED
  BY <1>1, <1>2, <1>3, <1>4 DEF GoesOn

\* So do the steps of the McuNode worker.
LEMMA NodeType == ASSUME TypeOK, NodeActs PROVE TypeOK'
<1>0. faults' \in 0 .. MaxFaults
  BY FaultType DEF NodeActs, ReconcileNode, RejectSecret, PostTLSCert, RebootForCert,
                   RecordCert, RebootAsRequested, RecordRequest
<1>1. CASE ReconcileNode
  BY <1>1, <1>0 DEF ReconcileNode, TypeOK, NodeWork, objects, NoCall, NoReboot
<1>2. CASE PostTLSCert
  <2>1. nwork' \in NodeWork
    <3>1. nwork \in NodeWork /\ secret.cert \in Nat
      BY DEF TypeOK, Secret
    <3>2. \/ nwork' = [nwork EXCEPT !.step = "request"]
          \/ nwork' = [nwork EXCEPT !.step = "certReboot", !.cert = secret.cert]
      BY <1>2 DEF PostTLSCert, NodeGoes
    <3>3. QED
      BY <3>1, <3>2 DEF NodeWork
  <2>2. device' \in Device
    BY <1>2 DEF PostTLSCert, TypeOK, Secret, Device
  <2>3. QED
    BY <1>2, <1>0, <2>1, <2>2 DEF PostTLSCert, TypeOK, objects, NoReboot
<1>3. CASE RebootForCert
  <2>1. device' \in Device /\ orders' \in {0, 1} /\ fulfilled' \in BOOLEAN
    BY <1>3, RebootType DEF RebootForCert
  <2>2. nwork' \in NodeWork
    BY <1>3 DEF RebootForCert, NodeGoes, TypeOK, NodeWork
  <2>3. QED
    BY <1>3, <1>0, <2>1, <2>2 DEF RebootForCert, TypeOK, objects
<1>4. CASE RecordCert
  <2>1. nwork.cert \in Nat /\ nwork.obj \in NodeObject
    BY DEF TypeOK, NodeWork
  <2>2. node' \in NodeObject
    BY <1>4, <2>1 DEF RecordCert, TypeOK, NodeObject
  <2>3. nwork' \in NodeWork
    <3>1. [nwork EXCEPT !.step = "request", !.obj = node', !.cert = 0] \in NodeWork
      BY <2>2 DEF TypeOK, NodeWork
    <3>2. [nwork EXCEPT !.step = "idle"] \in NodeWork
      BY DEF TypeOK, NodeWork
    <3>3. QED
      BY <1>4, <3>1, <3>2 DEF RecordCert, NodeGoes
  <2>4. QED
    BY <1>4, <1>0, <2>2, <2>3 DEF RecordCert, TypeOK, NoCall, NoReboot
<1>5. CASE RebootAsRequested
  <2>1. device' \in Device /\ orders' \in {0, 1} /\ fulfilled' \in BOOLEAN
    BY <1>5, RebootType DEF RebootAsRequested
  <2>2. nwork' \in NodeWork
    BY <1>5 DEF RebootAsRequested, NodeGoes, TypeOK, NodeWork
  <2>3. QED
    BY <1>5, <1>0, <2>1, <2>2 DEF RebootAsRequested, TypeOK, objects
<1>6. CASE RecordRequest
  <2>1. node' \in NodeObject
    BY <1>6 DEF RecordRequest, TypeOK, NodeWork, NodeObject
  <2>2. nwork' \in NodeWork
    BY <1>6 DEF RecordRequest, NodeGoes, TypeOK, NodeWork
  <2>3. QED
    BY <1>6, <1>0, <2>1, <2>2 DEF RecordRequest, TypeOK, NoCall, NoReboot
<1>7. CASE RejectSecret
  BY <1>7, <1>0 DEF RejectSecret, NodeGoes, TypeOK, NodeWork, objects, NoCall, NoReboot
<1>8. QED
  BY <1>1, <1>2, <1>3, <1>4, <1>5, <1>6, <1>7 DEF NodeActs

\* So do the operator and the environment.
LEMMA EnvironmentType ==
    ASSUME TypeOK,
           Operator \/ (\E d \in Deployment : UpdateEnds(d)) \/ SyncNode \/ PowerCycle \/ Crash
    PROVE  TypeOK'
<1> USE BoundsAssumption
<1>0. faults' \in 0 .. MaxFaults
  BY FaultType DEF Operator, RequestReboot, RenewCert, SpoilSecret, ChangeWish, UpdateEnds,
                   SyncNode, PowerCycle, Crash
<1>1. CASE RequestReboot
  <2>1. node' \in NodeObject
    BY <1>1 DEF RequestReboot, TypeOK, NodeObject
  <2>2. fulfilled' \in BOOLEAN
    BY <1>1 DEF RequestReboot
  <2>3. changes' \in 0 .. MaxChanges
    BY <1>1 DEF RequestReboot, Change, TypeOK
  <2>4. QED
    BY <1>1, <1>0, <2>1, <2>2, <2>3 DEF RequestReboot, TypeOK
<1>2. CASE RenewCert \/ SpoilSecret
  <2>1. secret' \in Secret
    <3>1. secret \in Secret /\ secret.cert \in Nat
      BY DEF TypeOK, Secret
    <3>2. CASE RenewCert
      BY <3>1, <3>2 DEF RenewCert, Secret
    <3>3. CASE SpoilSecret
      BY <3>1, <3>3 DEF SpoilSecret, Secret
    <3>4. QED
      BY <1>2, <3>2, <3>3
  <2>2. QED
    BY <1>2, <1>0, <2>1 DEF RenewCert, SpoilSecret, Change, TypeOK, NoCall, NoReboot
<1>3. CASE ChangeWish
  BY <1>3, <1>0 DEF ChangeWish, Change, TypeOK, NoCall, NoReboot
<1>4. CASE \E d \in Deployment : UpdateEnds(d)
  <2>1. device' \in Device
    BY <1>4, BootedIsDevice DEF UpdateEnds, TypeOK, NoCall
  <2>2. QED
    BY <1>4, <1>0, <2>1 DEF UpdateEnds, TypeOK, NoCall, NoReboot
<1>5. CASE SyncNode
  BY <1>5, <1>0 DEF SyncNode, TypeOK, NoCall, NoReboot
<1>6. CASE PowerCycle
  BY <1>6, <1>0, BootedIsDevice DEF PowerCycle, TypeOK, objects
<1>7. CASE Crash
  BY <1>7, <1>0, IdleIsWork DEF Crash, NodeGoes, TypeOK, NodeWork, NoCall, NoReboot
<1>8. QED
  BY <1>1, <1>2, <1>3, <1>4, <1>5, <1>6, <1>7 DEF Operator

\* Types hold at first.
LEMMA TypeInit == Init => TypeOK
BY IdleIsWork, BoundsAssumption
   DEF Init, TypeOK, Secret, NodeObject, Device, Nvs, NodeWork

\* Every step keeps types.
LEMMA TypeStep == TypeOK /\ [Next]_vars => TypeOK'
<1> SUFFICES ASSUME TypeOK, [Next]_vars PROVE TypeOK'
  OBVIOUS
<1>1. CASE Next
  BY <1>1, StartType, GoesOnType, NodeType, EnvironmentType DEF Next
<1>2. CASE UNCHANGED vars
  BY <1>2 DEF vars, TypeOK
<1>3. QED
  BY <1>1, <1>2

\* Every variable keeps its type.
THEOREM TypeCorrect == Spec => []TypeOK
BY TypeInit, TypeStep, PTL DEF Spec

(***************************************************************************)
(* Reboot requests.  RequestHonoured is not inductive: the worker records  *)
(* the request it has read.  The optimistic lock makes what it knows of    *)
(* past requests true for as long as it works, and the request in its      *)
(* hands is the stored one or an older one.                                *)
(***************************************************************************)
DoneIsKnown == nwork.step # "idle" => nwork.obj.done = node.done

RequestInHand ==
    /\ node.done <= node.request
    /\ nwork.step # "idle" => nwork.obj.request <= node.request
    /\ nwork.step = "recordRequest" /\ nwork.obj.request = node.request => fulfilled

RequestInv == TypeOK /\ RequestHonoured /\ DoneIsKnown /\ RequestInHand

\* No request has been made at first.
LEMMA RequestInit == Init => RequestInv
<1> SUFFICES ASSUME Init PROVE RequestInv
  OBVIOUS
<1>1. TypeOK
  BY TypeInit
<1>2. RequestHonoured /\ DoneIsKnown /\ RequestInHand
  BY DEF Init, RequestHonoured, DoneIsKnown, RequestInHand
<1>3. QED
  BY <1>1, <1>2 DEF RequestInv

\* Steps that touch neither the requests nor the work of the McuNode worker.
LEMMA RequestKept ==
    ASSUME RequestInv, TypeOK',
           node'.request = node.request, node'.done = node.done, UNCHANGED nwork,
           fulfilled' = fulfilled \/ fulfilled' = TRUE
    PROVE  RequestInv'
BY DEF RequestInv, RequestHonoured, DoneIsKnown, RequestInHand

\* The McuNode worker.
LEMMA RequestNodeStep == ASSUME RequestInv, TypeOK', NodeActs PROVE RequestInv'
<1>0. /\ node \in NodeObject /\ nwork \in NodeWork /\ nwork.obj \in NodeObject
      /\ RequestHonoured /\ DoneIsKnown /\ RequestInHand
  BY DEF RequestInv, TypeOK, NodeWork
<1>1. CASE ReconcileNode
  BY <1>1, <1>0 DEF ReconcileNode, NoCall, NoReboot, objects, RequestInv, RequestHonoured,
                    DoneIsKnown, RequestInHand, NodeObject
<1>2. CASE PostTLSCert
  BY <1>2, <1>0 DEF PostTLSCert, NodeGoes, NoReboot, objects, RequestInv, RequestHonoured,
                    DoneIsKnown, RequestInHand, NodeWork
<1>3. CASE RebootForCert
  BY <1>3, <1>0 DEF RebootForCert, NodeGoes, Reboots, NoCall, NoReboot, objects, RequestInv,
                    RequestHonoured, DoneIsKnown, RequestInHand, NodeWork
<1>4. CASE RecordCert
  <2>1. node'.request = node.request /\ node'.done = node.done /\ UNCHANGED fulfilled
    BY <1>4, <1>0 DEF RecordCert, NodeObject, NoCall, NoReboot
  <2>2. \/ nwork'.step = "request" /\ nwork'.obj = node'
        \/ nwork'.step = "idle"
    BY <1>4, <1>0 DEF RecordCert, NodeGoes, NodeWork
  <2>3. QED
    BY <2>1, <2>2, <1>0 DEF RequestInv, RequestHonoured, DoneIsKnown, RequestInHand, NodeObject
<1>5. CASE RebootAsRequested
  BY <1>5, <1>0 DEF RebootAsRequested, NodeGoes, Reboots, NoCall, NoReboot, objects, RequestInv,
                    RequestHonoured, DoneIsKnown, RequestInHand, NodeWork
<1>6. CASE RecordRequest
  <2>1. /\ nwork'.step = "idle" /\ node'.request = node.request /\ UNCHANGED fulfilled
        /\ node'.done \in {node.done, nwork.obj.request}
    BY <1>6, <1>0 DEF RecordRequest, NodeGoes, NoCall, NoReboot, NodeWork, NodeObject
  <2>2. nwork.step = "recordRequest"
    BY <1>6 DEF RecordRequest
  <2>3. QED
    BY <2>1, <2>2, <1>0 DEF RequestInv, RequestHonoured, DoneIsKnown, RequestInHand, NodeObject
<1>7. CASE RejectSecret
  BY <1>7, <1>0 DEF RejectSecret, NodeGoes, NoCall, NoReboot, objects, RequestInv,
                    RequestHonoured, DoneIsKnown, RequestInHand, NodeWork
<1>8. QED
  BY <1>1, <1>2, <1>3, <1>4, <1>5, <1>6, <1>7 DEF NodeActs

\* Every step.
LEMMA RequestStep == RequestInv /\ [Next]_vars => RequestInv'
<1> SUFFICES ASSUME RequestInv, [Next]_vars PROVE RequestInv'
  OBVIOUS
<1>0. TypeOK' /\ TypeOK /\ node \in NodeObject /\ dwork \in DeploymentWork
  BY TypeStep DEF RequestInv, TypeOK
<1>1. CASE NodeActs
  BY <1>0, <1>1, RequestNodeStep
<1>2. CASE \E d \in Deployment : Starts(d) \/ UpdateEnds(d)
  BY <1>0, <1>2, RequestKept DEF Starts, PostAppPort, FailConfig, CompareConfig, UpdateEnds,
                                 objects, NoCall, NoReboot
<1>3. CASE GoesOn
  <2>1. node'.request = node.request /\ node'.done = node.done
    BY <1>0, <1>3 DEF GoesOn, RecordPort, PostConfig, PostReboot, PersistNodeInfo, objects,
                      NodeObject
  <2>2. UNCHANGED nwork
    BY <1>3 DEF GoesOn, RecordPort, PostConfig, PostReboot, PersistNodeInfo
  <2>3. fulfilled' = fulfilled \/ fulfilled' = TRUE
    BY <1>3 DEF GoesOn, RecordPort, PostConfig, PostReboot, PersistNodeInfo, Reboots, NoCall,
                NoReboot
  <2>4. QED
    BY <1>0, <2>1, <2>2, <2>3, RequestKept
<1>4. CASE RequestReboot
  <2>1. /\ node'.request = node.request + 1 /\ node'.done = node.done /\ UNCHANGED nwork
        /\ nwork.obj \in NodeObject
    BY <1>0, <1>4 DEF RequestReboot, NodeObject, TypeOK, NodeWork
  <2>2. QED
    BY <1>0, <2>1 DEF RequestInv, RequestHonoured, DoneIsKnown, RequestInHand, NodeObject
<1>5. CASE RenewCert \/ SpoilSecret \/ ChangeWish \/ SyncNode \/ PowerCycle
  BY <1>0, <1>5, RequestKept DEF RenewCert, SpoilSecret, ChangeWish, SyncNode, PowerCycle,
                                 objects, NoCall, NoReboot
<1>6. CASE Crash
  <2>1. nwork'.step = "idle" /\ UNCHANGED <<node, fulfilled>>
    BY <1>0, <1>6 DEF Crash, NodeGoes, NoCall, NoReboot, TypeOK, NodeWork
  <2>2. QED
    BY <1>0, <2>1 DEF RequestInv, RequestHonoured, DoneIsKnown, RequestInHand
<1>7. CASE UNCHANGED vars
  BY <1>0, <1>7, RequestKept DEF vars
<1>8. QED
  BY <1>1, <1>2, <1>3, <1>4, <1>5, <1>6, <1>7 DEF Next, Operator

\* A reboot request that counts as carried out was followed by a boot.
THEOREM RequestsHonoured == Spec => []RequestHonoured
<1>1. RequestInv => RequestHonoured
  BY DEF RequestInv
<1>2. QED
  BY <1>1, RequestInit, RequestStep, PTL DEF Spec

\* A step that reboots for a request leaves the McuNode worker's step "request".
LEMMA RebootNotRecorded ==
    ASSUME RequestInv, [Next]_vars, nwork.step = "request", nwork'.step # "request",
           orders' # orders
    PROVE  node.done # nwork.obj.request
<1>1. nwork.obj.done = node.done
  BY DEF RequestInv, DoneIsKnown
<1>2. CASE RebootAsRequested
  BY <1>1, <1>2 DEF RebootAsRequested, NoCall, NoReboot
<1>3. CASE UNCHANGED nwork \/ UNCHANGED orders
  BY <1>3
<1>4. CASE NodeActs
  BY <1>2, <1>4 DEF NodeActs, ReconcileNode, RejectSecret, PostTLSCert, RebootForCert,
                    RecordCert, RecordRequest, NoCall, NoReboot
<1>5. CASE \E d \in Deployment : Starts(d) \/ UpdateEnds(d)
  BY <1>3, <1>5 DEF Starts, PostAppPort, FailConfig, CompareConfig, UpdateEnds
<1>6. CASE GoesOn
  BY <1>3, <1>6 DEF GoesOn, RecordPort, PostConfig, PostReboot, PersistNodeInfo
<1>7. CASE Operator \/ SyncNode \/ PowerCycle \/ Crash \/ UNCHANGED vars
  BY <1>3, <1>7 DEF Operator, RequestReboot, RenewCert, SpoilSecret, ChangeWish, SyncNode,
                    PowerCycle, Crash, NoCall, NoReboot, vars
<1>8. QED
  BY <1>4, <1>5, <1>6, <1>7 DEF Next

\* The device is never rebooted for a request that is already recorded.
THEOREM NeverRepeated == Spec => NoRepeatedReboot
<1>1. RequestInv /\ [Next]_vars =>
        [nwork.step = "request" /\ nwork'.step # "request" /\ orders' # orders
            => node.done # nwork.obj.request]_vars
  BY RebootNotRecorded
<1>2. QED
  BY <1>1, RequestInit, RequestStep, PTL DEF Spec, NoRepeatedReboot

(***************************************************************************)
(* Requests and certificates.  A Secret without its keys keeps every       *)
(* reconcile from the reboot requests: only the operator can end that.     *)
(***************************************************************************)
\* The McuNode worker goes to and fro between the start of a reconcile and the error.
LEMMA HeldByNode == ASSUME Held, TypeOK, NodeActs PROVE Held' /\ node'.done = node.done
<1>1. CASE ReconcileNode
  BY <1>1 DEF ReconcileNode, Held, objects
<1>2. CASE RejectSecret
  BY <1>2 DEF RejectSecret, NodeGoes, Held, objects, TypeOK, NodeWork
<1>3. CASE PostTLSCert \/ RebootForCert \/ RecordCert \/ RebootAsRequested \/ RecordRequest
  BY <1>3 DEF PostTLSCert, RebootForCert, RecordCert, RebootAsRequested, RecordRequest, Held
<1>4. QED
  BY <1>1, <1>2, <1>3 DEF NodeActs

\* The McuDeployment worker writes another field of the status.
LEMMA HeldByDeployment ==
    ASSUME Held, TypeOK, GoesOn \/ \E d \in Deployment : Starts(d) \/ UpdateEnds(d)
    PROVE  Held' /\ node'.done = node.done
<1>1. CASE GoesOn
  BY <1>1 DEF GoesOn, RecordPort, PostConfig, PostReboot, PersistNodeInfo, Held, objects, TypeOK,
              NodeObject
<1>2. CASE \E d \in Deployment : Starts(d) \/ UpdateEnds(d)
  BY <1>2 DEF Starts, PostAppPort, FailConfig, CompareConfig, UpdateEnds, Held, objects
<1>3. QED
  BY <1>1, <1>2

\* Of the others only RenewCert, which repairs the Secret, changes anything about it.
LEMMA HeldStep ==
    ASSUME Held, TypeOK, [Next]_vars
    PROVE  secret'.complete \/ (Held' /\ node'.done = node.done)
<1>1. CASE NodeActs
  BY <1>1, HeldByNode
<1>2. CASE GoesOn \/ \E d \in Deployment : Starts(d) \/ UpdateEnds(d)
  BY <1>2, HeldByDeployment
<1>3. CASE RequestReboot
  BY <1>3 DEF RequestReboot, Held, TypeOK, NodeObject
<1>4. CASE RenewCert
  BY <1>4 DEF RenewCert
<1>5. CASE SpoilSecret \/ ChangeWish \/ SyncNode \/ PowerCycle
  BY <1>5 DEF SpoilSecret, ChangeWish, SyncNode, PowerCycle, Held, objects
<1>6. CASE Crash
  BY <1>6 DEF Crash, NodeGoes, Held, TypeOK, NodeWork
<1>7. CASE UNCHANGED vars
  BY <1>7 DEF vars, Held
<1>8. QED
  BY <1>1, <1>2, <1>3, <1>4, <1>5, <1>6, <1>7 DEF Next, Operator

\* A request that meets an incomplete Secret waits for as long as the Secret stays so.
THEOREM IncompleteSecretHoldsRequests == Spec => RequestHeld
<1>1. TypeOK /\ [Next]_vars =>
        [Held => secret'.complete \/ (Held' /\ node'.done = node.done)]_vars
  BY HeldStep
<1>2. QED
  BY <1>1, TypeInit, TypeStep, PTL DEF Spec, RequestHeld

(***************************************************************************)
(* Certificates.  They grow as long as the operator never goes back, so    *)
(* that nothing older than the Secret can count as applied.  The worker    *)
(* that has pushed the current one knows that the device has it, and, once *)
(* the reboot was answered, that the device runs it.                       *)
(***************************************************************************)
NoneNewer ==
    /\ node.digest <= secret.cert /\ device.cert <= secret.cert
    /\ nwork.step \in {"certReboot", "recordCert"} => nwork.cert <= secret.cert

CertInHand ==
    /\ nwork.step \in {"certReboot", "recordCert"} /\ nwork.cert = secret.cert =>
          device.cert = secret.cert
    /\ nwork.step = "recordCert" /\ nwork.cert = secret.cert =>
          device.certActive = secret.cert

RecordedIsStored ==
    secret.cert # 0 /\ node.digest = secret.cert => device.cert = secret.cert

CertInv == TypeOK /\ CertRecorded /\ NoneNewer /\ CertInHand /\ RecordedIsStored

\* It holds before anything was pushed.
LEMMA CertInit == Init => CertInv
<1> SUFFICES ASSUME Init PROVE CertInv
  OBVIOUS
<1>1. TypeOK
  BY TypeInit
<1>2. CertRecorded /\ NoneNewer /\ CertInHand /\ RecordedIsStored
  BY DEF Init, CertRecorded, NoneNewer, CertInHand, RecordedIsStored
<1>3. QED
  BY <1>1, <1>2 DEF CertInv

\* Steps that push and record no certificate; some of them boot the device.
LEMMA CertKept ==
    ASSUME CertInv, TypeOK', secret'.cert = secret.cert, node'.digest = node.digest,
           device'.cert = device.cert, device'.certActive \in {device.certActive, device.cert},
           \/ UNCHANGED <<nwork.step, nwork.cert>>
           \/ nwork'.step \notin {"certReboot", "recordCert"}
    PROVE  CertInv'
BY DEF CertInv, CertRecorded, NoneNewer, CertInHand, RecordedIsStored

\* A boot, POST /config and POST /app/port leave the stored certificate alone.
LEMMA CertOfDevice ==
    ASSUME device \in Device
    PROVE  /\ Booted(device).cert = device.cert /\ Booted(device).certActive = device.cert
           /\ \A data : /\ Configured(device, data).cert = device.cert
                        /\ Configured(device, data).certActive = device.certActive
           /\ \A p : /\ [device EXCEPT !.port = p].cert = device.cert
                     /\ [device EXCEPT !.port = p].certActive = device.certActive
BY DEF Booted, Configured, Device

\* The McuNode worker.
LEMMA CertNodeStep == ASSUME CertInv, TypeOK', NodeActs PROVE CertInv'
<1>0. /\ TypeOK /\ node \in NodeObject /\ nwork \in NodeWork /\ device \in Device
      /\ secret.cert \in Nat
  BY DEF CertInv, TypeOK, Secret
<1>1. CASE ReconcileNode
  BY <1>0, <1>1, CertKept DEF ReconcileNode, NoCall, NoReboot, objects
<1>2. CASE PostTLSCert
  <2>1. UNCHANGED <<secret, node>>
    BY <1>2 DEF PostTLSCert, objects
  <2>2. CASE /\ device' = [device EXCEPT !.cert = secret.cert]
             /\ secret.cert \notin {0, nwork.obj.digest}
    <3>1. device'.cert = secret.cert /\ device'.certActive = device.certActive
      BY <1>0, <2>2 DEF Device
    <3>2. \/ nwork'.step = "certReboot" /\ nwork'.cert = secret.cert
          \/ nwork'.step = "request"
      BY <1>0, <1>2, <2>2 DEF PostTLSCert, NodeGoes, NodeWork
    <3>3. QED
      BY <1>0, <2>1, <3>1, <3>2
         DEF CertInv, CertRecorded, NoneNewer, CertInHand, RecordedIsStored
  <2>3. CASE UNCHANGED device /\ nwork'.step = "request"
    BY <1>0, <2>1, <2>3, CertKept
  <2>4. QED
    BY <1>0, <1>2, <2>2, <2>3 DEF PostTLSCert, NodeGoes, NodeWork
<1>3. CASE RebootForCert
  <2>1. UNCHANGED <<secret, node>> /\ device'.cert = device.cert
    BY <1>0, <1>3, CertOfDevice DEF RebootForCert, objects, Reboots, NoCall
  <2>2. CASE Reboots /\ nwork' = [nwork EXCEPT !.step = "recordCert"]
    <3>1. /\ device'.certActive = device.cert
          /\ nwork'.step = "recordCert" /\ nwork'.cert = nwork.cert
          /\ nwork.step = "certReboot"
      BY <1>0, <1>3, <2>2, CertOfDevice DEF Reboots, NodeWork, RebootForCert
    <3>2. QED
      BY <1>0, <2>1, <3>1 DEF CertInv, CertRecorded, NoneNewer, CertInHand, RecordedIsStored
  <2>3. CASE (Reboots \/ NoCall) /\ nwork' = [nwork EXCEPT !.step = "request"]
    <3>1. /\ device'.certActive \in {device.certActive, device.cert}
          /\ nwork'.step \notin {"certReboot", "recordCert"}
      BY <1>0, <2>3, CertOfDevice DEF Reboots, NoCall, NodeWork
    <3>2. QED
      BY <2>1, <3>1, CertKept
  <2>4. QED
    BY <1>3, <2>2, <2>3 DEF RebootForCert, NodeGoes
<1>4. CASE RecordCert
  <2>1. /\ nwork.step = "recordCert" /\ UNCHANGED <<secret, device>>
        /\ node'.digest \in {node.digest, nwork.cert}
        /\ nwork'.step \notin {"certReboot", "recordCert"}
    BY <1>0, <1>4 DEF RecordCert, NodeGoes, NoCall, NodeObject, NodeWork
  <2>2. QED
    BY <1>0, <2>1 DEF CertInv, CertRecorded, NoneNewer, CertInHand, RecordedIsStored, NodeObject,
                      NodeWork
<1>5. CASE RebootAsRequested
  <2>1. /\ UNCHANGED <<secret, node>> /\ device'.cert = device.cert
        /\ device'.certActive \in {device.certActive, device.cert}
        /\ nwork'.step \notin {"certReboot", "recordCert"}
    BY <1>0, <1>5, CertOfDevice DEF RebootAsRequested, objects, Reboots, NoCall, NodeGoes,
                                    NodeWork
  <2>2. QED
    BY <2>1, CertKept
<1>6. CASE RecordRequest
  <2>1. /\ UNCHANGED <<secret, device>> /\ node'.digest = node.digest
        /\ nwork'.step \notin {"certReboot", "recordCert"}
    BY <1>0, <1>6 DEF RecordRequest, NoCall, NodeGoes, NodeWork, NodeObject
  <2>2. QED
    BY <2>1, CertKept
<1>7. CASE RejectSecret
  <2>1. UNCHANGED <<secret, node, device>> /\ nwork'.step = "idle"
    BY <1>0, <1>7 DEF RejectSecret, NodeGoes, NoCall, objects, NodeWork
  <2>2. QED
    BY <1>0, <2>1, CertKept
<1>8. QED
  BY <1>1, <1>2, <1>3, <1>4, <1>5, <1>6, <1>7 DEF NodeActs

\* Every step, if the operator does not go back.
LEMMA CertStep == ~Reverts /\ CertInv /\ [Next]_vars => CertInv'
<1> SUFFICES ASSUME ~Reverts, CertInv, [Next]_vars PROVE CertInv'
  OBVIOUS
<1>0. /\ TypeOK' /\ TypeOK /\ node \in NodeObject /\ nwork \in NodeWork /\ device \in Device
      /\ secret.cert \in Nat
  BY TypeStep DEF CertInv, TypeOK, Secret
<1>1. CASE NodeActs
  BY <1>0, <1>1, CertNodeStep
<1>2. CASE \E d \in Deployment : Starts(d) \/ UpdateEnds(d)
  <2>1. /\ UNCHANGED <<secret, nwork, node>> /\ device'.cert = device.cert
        /\ device'.certActive \in {device.certActive, device.cert}
    BY <1>0, <1>2, CertOfDevice DEF Starts, PostAppPort, FailConfig, CompareConfig, UpdateEnds,
                                    objects, NoCall
  <2>2. QED
    BY <1>0, <2>1, CertKept
<1>3. CASE GoesOn
  <2>1. UNCHANGED <<secret, nwork>>
    BY <1>3 DEF GoesOn, RecordPort, PostConfig, PostReboot, PersistNodeInfo, objects
  <2>2. node'.digest = node.digest
    BY <1>0, <1>3 DEF GoesOn, RecordPort, PostConfig, PostReboot, PersistNodeInfo, objects,
                      NodeObject
  <2>3. device'.cert = device.cert /\ device'.certActive \in {device.certActive, device.cert}
    BY <1>0, <1>3, CertOfDevice DEF GoesOn, RecordPort, PostConfig, PostReboot, PersistNodeInfo,
                                    Reboots, NoCall
  <2>4. QED
    BY <1>0, <2>1, <2>2, <2>3, CertKept
<1>4. CASE RenewCert
  <2>1. secret'.cert \in {secret.cert, secret.cert + 1} /\ UNCHANGED <<node, device, nwork>>
    BY <1>0, <1>4 DEF RenewCert, NoCall
  <2>2. CASE secret'.cert = secret.cert
    BY <1>0, <2>1, <2>2, CertKept
  <2>3. CASE secret'.cert = secret.cert + 1
    BY <1>0, <2>1, <2>3 DEF CertInv, CertRecorded, NoneNewer, CertInHand, RecordedIsStored, NodeObject,
                      NodeWork, Device
  <2>4. QED
    BY <2>1, <2>2, <2>3
<1>5. CASE RequestReboot \/ SpoilSecret \/ ChangeWish \/ SyncNode \/ PowerCycle
  <2>1. /\ secret'.cert = secret.cert /\ UNCHANGED nwork /\ node'.digest = node.digest
        /\ device'.cert = device.cert
        /\ device'.certActive \in {device.certActive, device.cert}
    BY <1>0, <1>5, CertOfDevice DEF RequestReboot, SpoilSecret, TypeOK, Secret, ChangeWish, SyncNode, PowerCycle, objects,
                                    NoCall, NodeObject
  <2>2. QED
    BY <1>0, <2>1, CertKept
<1>6. CASE Crash
  <2>1. UNCHANGED <<secret, node, device>> /\ nwork'.step = "idle"
    BY <1>0, <1>6 DEF Crash, NodeGoes, NoCall, NodeWork
  <2>2. QED
    BY <1>0, <2>1, CertKept
<1>7. CASE UNCHANGED vars
  BY <1>0, <1>7, CertKept DEF vars
<1>8. QED
  BY <1>1, <1>2, <1>3, <1>4, <1>5, <1>6, <1>7 DEF Next, Operator

\* A certificate that counts as applied is the one the device runs, if the
\* operator does not put an old one back.
THEOREM CertNeverForgotten == ASSUME ~Reverts PROVE Spec => []CertRecorded
<1>1. CertInv => CertRecorded
  BY DEF CertInv
<1>2. CertInv /\ [Next]_vars => CertInv'
  BY CertStep
<1>3. QED
  BY <1>1, <1>2, CertInit, PTL DEF Spec

(***************************************************************************)
(* Ports.  As long as the deployments agree on one and it is never put     *)
(* back, only a port that was wanted, or the 1 the device came with, can   *)
(* be on the device or in the record, and the one that is about to be      *)
(* recorded is the one the device serves.                                  *)
(***************************************************************************)
Agreed == \A w \in Wish : \A d, e \in Deployment : w[d].port = w[e].port

WasWanted(port) == port <= 1 \/ \A d \in Deployment : port <= wish[d].port

PortInHand ==
    /\ device.port # 0
    /\ dwork.step = "recordPort" => dwork.port = device.port

PortInv == TypeOK /\ PortRecorded /\ WasWanted(node.port) /\ WasWanted(device.port) /\ PortInHand

\* It holds before anything was pushed.
LEMMA PortInit == Init => PortInv
<1> SUFFICES ASSUME Init PROVE PortInv
  OBVIOUS
<1>1. TypeOK
  BY TypeInit
<1>2. PortRecorded /\ WasWanted(node.port) /\ WasWanted(device.port) /\ PortInHand
  BY DEF Init, PortRecorded, WasWanted, PortInHand, IdleDeployment
<1>3. QED
  BY <1>1, <1>2 DEF PortInv

\* Steps that push and record no port.
LEMMA PortKept ==
    ASSUME PortInv, TypeOK', UNCHANGED wish, node'.port = node.port, device'.port = device.port,
           UNCHANGED dwork \/ dwork'.step # "recordPort"
    PROVE  PortInv'
BY DEF PortInv, PortRecorded, WasWanted, PortInHand

\* Steps that record what the device serves.
LEMMA PortIsRecorded ==
    ASSUME PortInv, TypeOK', UNCHANGED wish, node'.port \in {node.port, device.port},
           device'.port = device.port, dwork'.step # "recordPort"
    PROVE  PortInv'
BY DEF PortInv, PortRecorded, WasWanted, PortInHand

\* A boot and POST /config leave the port alone, and so does POST /tls/cert.
LEMMA PortOfDevice ==
    ASSUME device \in Device
    PROVE  /\ Booted(device).port = device.port
           /\ \A data : Configured(device, data).port = device.port
           /\ \A c : [device EXCEPT !.cert = c].port = device.port
           /\ \A p : [device EXCEPT !.port = p].port = p
BY DEF Booted, Configured, Device

\* POST /app/port: the deployments agree, so the record of another port matches
\* the wish of none.
LEMMA PortIsPushed ==
    ASSUME Agreed, PortInv, TypeOK', NEW d \in Deployment, PostAppPort(d)
    PROVE  PortInv'
<1>0. /\ TypeOK /\ device \in Device /\ wish \in Wish
      /\ wish[d].port \in Nat
  BY WishTypes DEF PortInv, TypeOK
<1>1. \A e \in Deployment : wish[e].port = wish[d].port
  BY <1>0 DEF Agreed
<1>2. UNCHANGED <<wish, node>> /\ wish[d].port # 0
  BY DEF PostAppPort, PortDiverges, objects
<1>3. CASE UNCHANGED <<device, dwork>>
  BY <1>2, <1>3, PortKept
<1>4. CASE device' = [device EXCEPT !.port = wish[d].port]
  <2>1. device'.port = wish[d].port
    BY <1>0, <1>4, PortOfDevice
  <2>2. dwork'.step = "recordPort" => dwork'.port = wish[d].port
    BY DEF PostAppPort
  <2>3. QED
    BY <1>0, <1>1, <1>2, <2>1, <2>2 DEF PortInv, PortRecorded, WasWanted, PortInHand
<1>5. QED
  BY <1>3, <1>4 DEF PostAppPort

\* The operator wants a higher port, or the same: no old record matches it.
LEMMA PortIsWanted ==
    ASSUME ~Reverts, PortInv, TypeOK', ChangeWish PROVE PortInv'
<1>1. /\ UNCHANGED <<node, device, dwork>>
      /\ \A d \in Deployment : wish'[d].port >= wish[d].port
  BY DEF ChangeWish, NoCall
<1>2. /\ node.port \in Nat /\ device.port \in Nat
      /\ \A d \in Deployment : wish[d].port \in Nat /\ wish'[d].port \in Nat
  <2>1. \A d \in Deployment : wish[d].port \in Nat
    BY WishTypes DEF PortInv
  <2>2. wish' \in Wish
    BY DEF TypeOK
  <2>3. \A d \in Deployment : wish'[d].port \in Nat
    BY <2>2, WishAssumption
  <2>4. QED
    BY <2>1, <2>3 DEF PortInv, TypeOK, NodeObject, Device
<1>3. WasWanted(node.port)' /\ WasWanted(device.port)'
  BY <1>1, <1>2 DEF PortInv, WasWanted
<1>4. PortRecorded'
  <2> SUFFICES ASSUME NEW d \in Deployment, wish'[d].port # 0, node.port = wish'[d].port
               PROVE  device.port = wish'[d].port
    BY <1>1 DEF PortRecorded
  <2>1. CASE wish[d].port = wish'[d].port
    BY <2>1 DEF PortInv, PortRecorded
  <2>2. CASE wish[d].port < wish'[d].port
    <3>1. node.port = 1 /\ wish[d].port = 0
      BY <1>2, <2>2 DEF PortInv, WasWanted
    <3>2. device.port = 1
      BY <1>2, <3>1 DEF PortInv, WasWanted, PortInHand
    <3>3. QED
      BY <3>1, <3>2
  <2>3. QED
    BY <1>1, <1>2, <2>1, <2>2
<1>5. QED
  BY <1>1, <1>3, <1>4 DEF PortInv, PortInHand

\* Every step.
LEMMA PortStep == ~Reverts /\ Agreed /\ PortInv /\ [Next]_vars => PortInv'
<1> SUFFICES ASSUME ~Reverts, Agreed, PortInv, [Next]_vars PROVE PortInv'
  OBVIOUS
<1>0. /\ TypeOK' /\ TypeOK /\ node \in NodeObject /\ device \in Device /\ dwork \in DeploymentWork
  BY TypeStep DEF PortInv, TypeOK
<1>1. CASE NodeActs
  <2>1. UNCHANGED <<wish, dwork>>
    BY <1>1 DEF NodeActs, ReconcileNode, RejectSecret, PostTLSCert, RebootForCert, RecordCert,
                RebootAsRequested, RecordRequest, objects
  <2>2. node'.port = node.port
    BY <1>0, <1>1 DEF NodeActs, ReconcileNode, RejectSecret, PostTLSCert, RebootForCert,
                      RecordCert, RebootAsRequested, RecordRequest, objects, NodeObject
  <2>3. device'.port = device.port
    BY <1>0, <1>1, PortOfDevice DEF NodeActs, ReconcileNode, RejectSecret, PostTLSCert,
                      RebootForCert, RecordCert, RebootAsRequested, RecordRequest, Reboots, NoCall
  <2>4. QED
    BY <1>0, <2>1, <2>2, <2>3, PortKept
<1>2. ASSUME NEW d \in Deployment, Starts(d) \/ UpdateEnds(d) PROVE PortInv'
  <2>1. CASE PostAppPort(d)
    BY <1>0, <2>1, PortIsPushed
  <2>2. CASE FailConfig(d) \/ CompareConfig(d) \/ UpdateEnds(d)
    <3>1. UNCHANGED <<wish, node>> /\ device'.port = device.port
      BY <1>0, <2>2, PortOfDevice DEF FailConfig, CompareConfig, UpdateEnds, objects, NoCall
    <3>2. UNCHANGED dwork \/ dwork'.step # "recordPort"
      <4>1. AfterConfig(d) # "recordPort" /\ IdleDeployment.step # "recordPort"
        BY DEF AfterConfig, IdleDeployment
      <4>2. CASE FailConfig(d) \/ UpdateEnds(d)
        BY <4>1, <4>2 DEF FailConfig, UpdateEnds
      <4>3. CASE CompareConfig(d)
        <5> DEFINE data == Filtered(wish[d].map)
                   work == [step |-> "push", dep |-> d, port |-> seen.port, data |-> data]
        <5>1. work.step # "recordPort"
          OBVIOUS
        <5>2. [work EXCEPT !.step = AfterConfig(d), !.data = NoData].step = AfterConfig(d)
          OBVIOUS
        <5>3. \/ dwork' \in {work, IdleDeployment}
              \/ dwork' = [work EXCEPT !.step = AfterConfig(d), !.data = NoData]
          BY <4>3 DEF CompareConfig
        <5> HIDE DEF work, data
        <5>4. QED
          BY <4>1, <5>1, <5>2, <5>3
      <4>4. QED
        BY <2>2, <4>2, <4>3
    <3>3. QED
      BY <1>0, <3>1, <3>2, PortKept
  <2>3. QED
    BY <1>2, <2>1, <2>2 DEF Starts
<1>3. CASE GoesOn
  <2>1. UNCHANGED wish /\ device'.port = device.port
    BY <1>0, <1>3, PortOfDevice DEF GoesOn, RecordPort, PostConfig, PostReboot, PersistNodeInfo,
                                    objects, Reboots, NoCall
  <2>2. dwork'.step # "recordPort"
    <3>1. AfterConfig(dwork.dep) # "recordPort" /\ IdleDeployment.step # "recordPort"
      BY DEF AfterConfig, IdleDeployment
    <3>2. \A s : /\ [dwork EXCEPT !.step = s].step = s
                 /\ [dwork EXCEPT !.step = s, !.data = NoData].step = s
      BY <1>0 DEF DeploymentWork
    <3>3. QED
      BY <1>3, <3>1, <3>2 DEF GoesOn, RecordPort, PostConfig, PostReboot, PersistNodeInfo
  <2>3. node'.port \in {node.port, device.port}
    BY <1>0, <1>3 DEF GoesOn, RecordPort, PostConfig, PostReboot, PersistNodeInfo, objects,
                      NodeObject, PortInv, PortInHand
  <2>4. QED
    BY <1>0, <2>1, <2>2, <2>3, PortIsRecorded
<1>4. CASE ChangeWish
  BY <1>0, <1>4, PortIsWanted
<1>5. CASE RequestReboot \/ RenewCert \/ SpoilSecret \/ SyncNode \/ PowerCycle \/ Crash
  <2>1. /\ UNCHANGED wish /\ node'.port = node.port /\ device'.port = device.port
        /\ UNCHANGED dwork \/ dwork'.step # "recordPort"
    BY <1>0, <1>5, PortOfDevice DEF RequestReboot, RenewCert, SpoilSecret, SyncNode,
                                    PowerCycle, Crash, objects, NoCall, NodeObject, IdleDeployment
  <2>2. QED
    BY <1>0, <2>1, PortKept
<1>6. CASE UNCHANGED vars
  BY <1>0, <1>6, PortKept DEF vars
<1>7. QED
  BY <1>1, <1>2, <1>3, <1>4, <1>5, <1>6 DEF Next, Operator

\* A port that counts as applied is the one the device serves, if the
\* deployments agree on it and the operator does not put an old one back.
THEOREM PortNeverForgotten == ASSUME ~Reverts, Agreed PROVE Spec => []PortRecorded
<1>1. PortInv => PortRecorded
  BY DEF PortInv
<1>2. PortInv /\ [Next]_vars => PortInv'
  BY PortStep
<1>3. QED
  BY <1>1, <1>2, PortInit, PTL DEF Spec

(***************************************************************************)
(* Rest.  That the device ends up as it is wanted is liveness, left to     *)
(* TLC.  Its other half is proved: where the tests of the two workers find *)
(* nothing to do, there is nothing left to do.  A test that is satisfied   *)
(* too early would make both of them stop short of the goal for ever.      *)
(***************************************************************************)
\* reconcileDeployed, reconcileAppPort and reconcileConfigOnly find nothing to do.
DeploymentAtRest(d) ==
    phase[d] = "Deployed" =>
        /\ ~PortDiverges(d)
        /\ wish[d].map \notin {NoMap, BadMap}
        /\ ~NeedsPush(Filtered(wish[d].map)) /\ ~NeedsReboot

\* reconcileTLSCert and reconcileRebootRequest find nothing to do.
NodeAtRest ==
    secret.complete /\ secret.cert \in {0, seen.digest} /\ seen.request \in {0, seen.done}

\* The configuration of every Deployed deployment runs and the last reboot that was
\* asked for has happened, when nobody finds anything to do about either.
RestRunsConfig ==
    seen = node =>
        /\ \A d \in Deployment :
              phase[d] = "Deployed" /\ DeploymentAtRest(d) => RunsConfig(d)
        /\ NodeAtRest /\ node.request # 0 => fulfilled

\* Besides, the device runs the certificate of the Secret and serves the port of
\* every Deployed deployment.
RestIsEffective ==
    seen = node =>
        /\ NodeAtRest /\ secret.cert # 0 => device.certActive = secret.cert
        /\ \A d \in Deployment :
              phase[d] = "Deployed" /\ DeploymentAtRest(d) /\ wish[d].port # 0 =>
                  device.port = wish[d].port

\* The generations tell that what is in store does not run yet: nothing is recorded
\* between a push and its reboot, so the device is the only one to know.
Noticed == device.active # device.nvs => device.pending

\* A push counts a generation and a boot makes the store effective.
LEMMA NoticedByCalls ==
    ASSUME Noticed, TypeOK, NEW data \in Data,
           device' \in {device, Booted(device), Configured(device, data)}
    PROVE  Noticed'
<1>1. device \in Device
  BY DEF TypeOK
<1>2. CASE device' = device
  BY <1>2 DEF Noticed
<1>3. CASE device' = Booted(device)
  BY <1>1, <1>3 DEF Noticed, Booted, Device
<1>4. CASE device' = Configured(device, data)
  BY <1>1, <1>4 DEF Noticed, Configured, Device
<1>5. QED
  BY <1>2, <1>3, <1>4

\* Other calls change neither the store nor what runs.
LEMMA NoticedKept ==
    ASSUME Noticed, device'.active = device.active, device'.nvs = device.nvs,
           device'.pending = device.pending
    PROVE  Noticed'
BY DEF Noticed

\* So it is with every step.
LEMMA NoticedStep == TypeOK /\ Noticed /\ [Next]_vars => Noticed'
<1> SUFFICES ASSUME TypeOK, Noticed, [Next]_vars PROVE Noticed'
  OBVIOUS
<1>1. device \in Device /\ NoData \in Data /\ dwork.data \in Data
  BY NoDataIsData DEF TypeOK, DeploymentWork
<1>2. ASSUME device' \in {device, Booted(device), Configured(device, dwork.data)}
      PROVE  Noticed'
  BY <1>1, <1>2, NoticedByCalls
<1>3. ASSUME NEW n \in Nat,
             device' \in {device, [device EXCEPT !.port = n], [device EXCEPT !.cert = n]}
      PROVE  Noticed'
  <2>1. /\ device'.active = device.active /\ device'.nvs = device.nvs
        /\ device'.pending = device.pending
    BY <1>1, <1>3 DEF Device
  <2>2. QED
    BY <2>1, NoticedKept
<1>4. CASE \E d \in Deployment : Starts(d)
  <2>1. PICK d \in Deployment : Starts(d)
    BY <1>4
  <2>2. wish[d].port \in Nat
    BY WishTypes
  <2>3. device' \in {device, [device EXCEPT !.port = wish[d].port]}
    BY <2>1 DEF Starts, PostAppPort, FailConfig, CompareConfig, NoCall
  <2>4. QED
    BY <1>3, <2>2, <2>3
<1>5. CASE GoesOn
  BY <1>2, <1>5 DEF GoesOn, RecordPort, PostConfig, PostReboot, PersistNodeInfo, Reboots, NoCall
<1>6. CASE NodeActs
  <2>1. secret.cert \in Nat
    BY DEF TypeOK, Secret
  <2>2. device' \in {device, Booted(device), [device EXCEPT !.cert = secret.cert]}
    BY <1>6 DEF NodeActs, ReconcileNode, RejectSecret, PostTLSCert, RebootForCert, RecordCert,
                RebootAsRequested, RecordRequest, Reboots, NoCall
  <2>3. QED
    BY <1>2, <1>3, <2>1, <2>2
<1>7. CASE Operator \/ SyncNode \/ Crash
  BY <1>2, <1>7 DEF Operator, RequestReboot, RenewCert, SpoilSecret, ChangeWish, SyncNode, Crash,
                    NoCall
<1>8. CASE PowerCycle \/ \E d \in Deployment : UpdateEnds(d)
  BY <1>2, <1>8 DEF PowerCycle, UpdateEnds, NoCall
<1>9. CASE UNCHANGED vars
  BY <1>2, <1>9 DEF vars
<1>10. QED
  BY <1>4, <1>5, <1>6, <1>7, <1>8, <1>9 DEF Next

\* A device that came without a configuration runs all of it.
LEMMA NoticedInit == Init => Noticed
BY DEF Init, Noticed

\* What is in store, and not pending, runs.
LEMMA StoredRuns ==
    ASSUME TypeOK, Noticed, NEW d \in Deployment, phase[d] = "Deployed", DeploymentAtRest(d)
    PROVE  RunsConfig(d)
<1>1. wish[d].map \notin {NoMap, BadMap} /\ device.active = device.nvs
  BY DEF DeploymentAtRest, NeedsReboot, Noticed
<1>2. \A k \in DOMAIN Filtered(wish[d].map) : Filtered(wish[d].map)[k] = device.nvs[k]
  BY DEF DeploymentAtRest, NeedsPush
<1>3. QED
  BY <1>1, <1>2 DEF RunsConfig

\* For any deployments, maps, changes and faults: when no worker finds anything to do,
\* every Deployed deployment runs its configuration and no request is left over.
THEOREM ConfigRunsAtRest == Spec => []RestRunsConfig
<1>1. TypeOK /\ Noticed /\ RequestInv => RestRunsConfig
  <2> SUFFICES ASSUME TypeOK, Noticed, RequestInv, seen = node PROVE RestRunsConfig
    BY DEF RestRunsConfig
  <2>1. NodeAtRest /\ node.request # 0 => fulfilled
    BY DEF NodeAtRest, RequestInv, RequestHonoured
  <2>2. QED
    BY <2>1, StoredRuns DEF RestRunsConfig
<1>2. QED
  BY <1>1, TypeInit, TypeStep, NoticedInit, NoticedStep, RequestInit, RequestStep, PTL DEF Spec

\* If certificates and ports are never put back and the deployments agree on the port:
\* when no worker finds anything to do, certificate and port are in effect as well.
THEOREM NothingLeftAtRest == ASSUME ~Reverts, Agreed PROVE Spec => []RestIsEffective
<1>1. CertInv /\ PortInv => RestIsEffective
  <2> SUFFICES ASSUME CertInv, PortInv, seen = node PROVE RestIsEffective
    BY DEF RestIsEffective
  <2>1. NodeAtRest /\ secret.cert # 0 => device.certActive = secret.cert
    BY DEF NodeAtRest, CertInv, CertRecorded
  <2>2. ASSUME NEW d \in Deployment, phase[d] = "Deployed", DeploymentAtRest(d), wish[d].port # 0
        PROVE  device.port = wish[d].port
    BY <2>2 DEF DeploymentAtRest, PortDiverges, PortInv, PortRecorded
  <2>3. QED
    BY <2>1, <2>2 DEF RestIsEffective
<1>2. CertInv /\ [Next]_vars => CertInv'
  BY CertStep
<1>3. PortInv /\ [Next]_vars => PortInv'
  BY PortStep
<1>4. QED
  BY <1>1, <1>2, <1>3, CertInit, PortInit, PTL DEF Spec
=============================================================================
