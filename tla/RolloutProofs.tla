--------------------------- MODULE RolloutProofs ---------------------------
(***************************************************************************)
(* The controller of McuDeployment implements Rollout, for any sets of     *)
(* deployments, nodes and images, when its cache is current and it is      *)
(* alone: a Deployed object is a fact about the device, and each step of   *)
(* the controller, of the devices or of the operator is a step of Rollout. *)
(***************************************************************************)
EXTENDS McuDeploymentProofs

(***************************************************************************)
(* The invariant                                                           *)
(***************************************************************************)
EarlyPhase    == {"", "Pulling", "Preparing"}
PreparedPhase == {"Writing", "Activating", "Confirming", "Deployed"}

\* The image of d has run on the device of n, or a heartbeat said so.
Met(n, d) == dev[n].fw = d \/ dev[n].prev = d \/ node[n].id = d

\* No image but that of d can be booted on the node of d.
SlotOwn(d) ==
    /\ dep[d].bound \in Node
    /\ LET slot == dev[dep[d].bound].staged IN
       slot.state = "activating" => slot.id = d

Runs(d) ==
    /\ dep[d].bound \in Node
    /\ dev[dep[d].bound].fw = d
    /\ dev[dep[d].bound].validated

\* The phases follow one line, and end anywhere in Failed.
Follows(from, to) ==
    \/ from = ""           /\ to = "Pulling"
    \/ from = "Pulling"    /\ to = "Preparing"
    \/ from = "Preparing"  /\ to = "Writing"
    \/ from = "Writing"    /\ to = "Activating"
    \/ from = "Activating" /\ to = "Confirming"
    \/ from = "Confirming" /\ to = "Deployed"
    \/ from = "Deployed"   /\ to = "Deployed"
    \/ from \notin {"Failed", "Gone"} /\ to = "Failed"

\* What a reconcile that is about to make d what it wants may rely on.
Advances(d, want) ==
    /\ Follows(dep[d].phase, want.phase)
    /\ IF want.phase = "Pulling" THEN want.bound \in Node
                                 ELSE want.bound = dep[d].bound
    /\ want.phase = "Writing" => SlotOwn(d)
    /\ want.phase = "Deployed" => Runs(d)

\* An image that is staged was prepared for, and has not run yet; one that was
\* activated, or has run, belongs to an object that came to Activating.
TracesOf(n, d) ==
    /\ dev[n].staged.id = d => dep[d].phase \notin EarlyPhase /\ ~Met(n, d)
    /\ Met(n, d) \/ IsActivating(dev[n], d)
          => dep[d].phase \notin EarlyPhase \cup {"Writing"}

\* An object that was prepared for keeps its slot to itself, and what the last
\* heartbeat said of its image is still true.
Settled(d) ==
    dep[d].phase \in PreparedPhase =>
        /\ SlotOwn(d)
        /\ node[dep[d].bound].id = d /\ node[dep[d].bound].validated => Runs(d)

\* DeployedRuns is not inductive: Deployed is written from a heartbeat that
\* came earlier, and the device could have booted another image since.
World ==
    /\ DeployedRuns
    /\ \A d \in Deployment : dep[d].phase = "" => dep[d].bound = NoNode
    /\ \A d \in Deployment, n \in Node : TracesOf(n, d)
    /\ \A d \in Deployment : Settled(d)

DeployedInv ==
    /\ World
    /\ \A c \in Controller : 
          rec[c].pc # "idle" /\ Alive(rec[c].dep) => Advances(rec[c].dep, rec[c].want)

(***************************************************************************)
(* The devices                                                             *)
(***************************************************************************)
\* What a device in state x may become by itself: y.
Lives(x, y) ==
    \/ /\ y.fw = x.fw /\ y.prev = x.prev
       /\ y.validated = x.validated /\ y.staged = x.staged
    \/ /\ y.fw = x.fw /\ y.prev = NoDeployment
       /\ y.validated /\ y.staged = x.staged
    \/ /\ x.staged.state = "activating"
       /\ y.fw = x.staged.id /\ y.prev = x.fw
       /\ ~y.validated /\ y.staged = EmptySlot
    \/ /\ ~x.validated
       /\ y.fw = x.prev /\ y.prev = NoDeployment
       /\ y.validated /\ y.staged = x.staged

\* A step of the device of n, whatever else the step does.
DeviceMoves(n) == \E y \in Device : dev' = [dev EXCEPT ![n] = y] /\ Lives(dev[n], y)

\* Every step of a device is one of these.
LEMMA DeviceLives ==
    ASSUME TypeOK, NEW n \in Node, DeviceActs(n)
    PROVE  DeviceMoves(n) /\ UNCHANGED <<dep, node, rec>>
<1> DEFINE x == dev[n]
<1>1. x \in Device
  BY DEF TypeOK
<1>2. ASSUME NEW y \in Device, Lives(x, y), DeviceStep(n, y)
      PROVE  DeviceMoves(n) /\ UNCHANGED <<dep, node, rec>>
  BY <1>2 DEF DeviceMoves, DeviceStep
<1>3. Lives(x, Rebooted(x)) /\ Lives(x, Started(x)) /\ Lives(x, Validated(x))
  BY <1>1 DEF Lives, Rebooted, Started, Validated, Device
<1>4. Lives(x, [x EXCEPT !.state = "degraded"])
  BY <1>1 DEF Lives, Device
<1>5. Lives(x, Booted(x))
  BY <1>1 DEF Lives, Booted, Device
<1> HIDE DEF x
<1> QED BY <1>1, <1>2, <1>3, <1>4, <1>5, DeviceType DEF DeviceActs, DeviceReboots,
           DeviceBoots, SelfCheckPasses, MarksValid, Degrades, Recovers, x

\* A device that runs the image of an object prepared for it goes on doing so,
\* and its slot stays its own.
LEMMA RunsOn ==
    ASSUME TypeOK, World, NEW n \in Node, DeviceMoves(n), UNCHANGED <<dep, node>>,
           NEW d \in Deployment
    PROVE  /\ SlotOwn(d) => SlotOwn(d)'
           /\ Runs(d) /\ dep[d].phase \in PreparedPhase => Runs(d)'
<1>1. PICK y \in Device : dev' = [dev EXCEPT ![n] = y] /\ Lives(dev[n], y)
  BY DEF DeviceMoves
<1>2. \A m \in Node : dev'[m] = IF m = n THEN y ELSE dev[m]
  BY <1>1 DEF TypeOK
<1>3. SlotOwn(d) => SlotOwn(d)'
  BY <1>1, <1>2 DEF SlotOwn, Lives, EmptySlot
<1>4. ASSUME Runs(d), dep[d].phase \in PreparedPhase, dep[d].bound = n
      PROVE  Runs(d)'
  <2>1. dev[n].staged.state = "activating" => dev[n].staged.id = d
    BY <1>4 DEF World, Settled, SlotOwn
  <2>2. dev[n].staged.id # d
    BY <1>4 DEF World, TracesOf, Met, Runs
  <2> QED BY <1>1, <1>2, <1>4, <2>1, <2>2 DEF Runs, Lives
<1>5. ASSUME Runs(d), dep[d].bound # n
      PROVE  Runs(d)'
  BY <1>2, <1>5 DEF Runs
<1> QED BY <1>3, <1>4, <1>5

\* What the devices do by themselves keeps the world as it was.
LEMMA DeviceWorld ==
    ASSUME TypeOK, World, NEW n \in Node, DeviceMoves(n), UNCHANGED <<dep, node>>
    PROVE  World'
<1>1. PICK y \in Device : dev' = [dev EXCEPT ![n] = y] /\ Lives(dev[n], y)
  BY DEF DeviceMoves
<1>2. \A m \in Node : dev'[m] = IF m = n THEN y ELSE dev[m]
  BY <1>1 DEF TypeOK
<1>3. ASSUME NEW d \in Deployment, NEW m \in Node
      PROVE  TracesOf(m, d)'
  <2>1. TracesOf(m, d)
    BY DEF World
  <2>2. CASE m # n
    BY <1>2, <2>1, <2>2 DEF TracesOf, Met, IsActivating
  <2>3. CASE m = n
    <3>1. dev'[m] = y /\ UNCHANGED <<dep, node>>
      BY <1>2, <2>3
    <3>2. d # NoDeployment
      BY AgentAssumption
    <3> QED BY <1>1, <2>1, <2>3, <3>1, <3>2 DEF TracesOf, Met, IsActivating, Lives, EmptySlot
  <2> QED BY <2>2, <2>3
<1>4. ASSUME NEW d \in Deployment
      PROVE  Settled(d)'
  BY RunsOn DEF World, Settled
<1>5. DeployedRuns'
  <2>1. ASSUME NEW d \in Deployment, dep[d].phase = "Deployed"
        PROVE  Runs(d)'
    BY <2>1, RunsOn DEF World, DeployedRuns, Runs, PreparedPhase
  <2> QED BY <2>1 DEF DeployedRuns, Runs
<1> QED BY <1>3, <1>4, <1>5 DEF World

\* ... and what a reconcile may rely on.
LEMMA DeviceAdvances ==
    ASSUME TypeOK, World, NEW n \in Node, DeviceMoves(n), UNCHANGED <<dep, node>>,
           NEW d \in Deployment, NEW want, Advances(d, want)
    PROVE  Advances(d, want)'
<1>1. want.phase = "Deployed" => dep[d].phase \in PreparedPhase
  BY DEF Advances, Follows, PreparedPhase
<1>2. want.phase = "Writing" => SlotOwn(d)'
  BY RunsOn DEF Advances
<1>3. want.phase = "Deployed" => Runs(d)'
  BY <1>1, RunsOn DEF Advances
<1> QED BY <1>2, <1>3 DEF Advances

(***************************************************************************)
(* The nodes                                                               *)
(***************************************************************************)
\* A node tells what its device is, or what it told before, or nothing.
LEMMA NodeWrites ==
    ASSUME TypeOK, NEW n \in Node, NodeStep(n) \/ DeleteNode(n) \/ CreateNode(n)
    PROVE  /\ UNCHANGED <<dep, dev, rec>>
           /\ \A m \in Node : m # n => node'[m] = node[m]
           /\ \/ node'[n].id = node[n].id /\ node'[n].validated = node[n].validated
              \/ node'[n].id = dev[n].fw /\ node'[n].validated = dev[n].validated
              \/ node'[n].id = NoDeployment
<1>1. node[n] \in McuNode
  BY DEF TypeOK
<1>2. CASE Heartbeat(n)
  BY <1>2 DEF Heartbeat, TypeOK
<1>3. CASE HeartbeatExpires(n) \/ ReconcileNode(n)
  BY <1>1, <1>3 DEF HeartbeatExpires, ReconcileNode, TypeOK, McuNode
<1>4. CASE DeleteNode(n) \/ CreateNode(n)
  <2>1. DeletedNode.id = NoDeployment /\ NewNode.id = NoDeployment
    BY DEF DeletedNode, NewNode
  <2> QED BY <1>4, <2>1 DEF DeleteNode, CreateNode, TypeOK
<1> QED BY <1>2, <1>3, <1>4 DEF NodeStep

\* A heartbeat keeps the world as it was.
LEMMA NodeWorld ==
    ASSUME TypeOK, World, NEW n \in Node, NodeStep(n) \/ DeleteNode(n) \/ CreateNode(n)
    PROVE  World'
<1>1. NoDeployment \notin Deployment
  BY AgentAssumption
<1>2. ASSUME NEW d \in Deployment, NEW m \in Node
      PROVE  TracesOf(m, d)'
  <2>1. TracesOf(m, d)
    BY DEF World
  <2> QED BY <1>1, <2>1, NodeWrites DEF TracesOf, Met, IsActivating
<1>3. ASSUME NEW d \in Deployment
      PROVE  Settled(d)'
  <2>1. /\ UNCHANGED <<dep, dev>>
        /\ SlotOwn(d)' = SlotOwn(d) /\ Runs(d)' = Runs(d)
    BY NodeWrites DEF SlotOwn, Runs
  <2>2. SUFFICES ASSUME dep[d].phase \in PreparedPhase PROVE Settled(d)'
    BY <2>1 DEF Settled
  <2>3. /\ SlotOwn(d) /\ dep[d].bound \in Node
        /\ node[dep[d].bound].id = d /\ node[dep[d].bound].validated => Runs(d)
    BY <2>2 DEF World, Settled, SlotOwn
  <2>4. \/ /\ node'[dep[d].bound].id = node[dep[d].bound].id
           /\ node'[dep[d].bound].validated = node[dep[d].bound].validated
        \/ /\ node'[dep[d].bound].id = dev[dep[d].bound].fw
           /\ node'[dep[d].bound].validated = dev[dep[d].bound].validated
        \/ node'[dep[d].bound].id = NoDeployment
    BY <2>3, NodeWrites
  <2>5. node'[dep[d].bound].id = d /\ node'[dep[d].bound].validated => Runs(d)
    BY <1>1, <2>3, <2>4 DEF Runs
  <2> QED BY <2>1, <2>3, <2>5 DEF Settled
<1> QED BY <1>2, <1>3, NodeWrites DEF World, DeployedRuns

(***************************************************************************)
(* The steps of a reconcile that read                                      *)
(***************************************************************************)
\* What the calls of a reconcile of d may make of its device in state x: y.
Calls(d, x, y) ==
    /\ y.fw = x.fw /\ y.prev = x.prev /\ y.validated = x.validated
    /\ \/ /\ dep[d].phase \in {"Preparing", "Writing"}
          /\ y.staged = EmptySlot
       \/ /\ dep[d].phase = "Writing"
          /\ y.staged.state = "written" /\ y.staged.id = d
       \/ /\ dep[d].phase = "Activating"
          /\ x.staged.id = d
          /\ y.staged.state = "activating" /\ y.staged.id = d

\* A reconcile that reads calls its own device, as its phase has it.
LEMMA ReconcileCalls ==
    ASSUME TypeOK, ~CacheLag, NEW c \in Controller, NEW d \in Deployment, Reconcile(c, d)
    PROVE  /\ UNCHANGED <<dep, node>>
           /\ \/ UNCHANGED dev
              \/ /\ dep[d].bound \in Node
                 /\ \E y \in Device : /\ dev' = [dev EXCEPT ![dep[d].bound] = y]
                                      /\ Calls(d, dev[dep[d].bound], y)
<1> DEFINE n == dep[d].bound
           x == dev[n]
<1>1. Seen(c, d) = dep[d] /\ dep[d] \in Dep
  BY DEF Seen, TypeOK
<1>2. n \in Node => x \in Device
  BY DEF TypeOK
<1>3. CASE PreparingCallsPrepare(c, d)
  <2>1. n \in Node /\ dep[d].phase = "Preparing"
    BY <1>1, <1>3 DEF PreparingCallsPrepare, Answers, HasClient, Takes
  <2>2. Prepared(x) \in Device /\ Calls(d, x, Prepared(x))
    BY <1>2, <2>1, DeviceType DEF Calls, Prepared, Device
  <2> QED BY <1>1, <1>3, <2>1, <2>2 DEF PreparingCallsPrepare
<1>4. CASE ReconcileWriting(c, d)
  <2>1. n \in Node /\ dep[d].phase = "Writing" /\ dep[d].digest \in OptImage
    BY <1>1, <1>4 DEF ReconcileWriting, Answers, HasClient, Takes, Dep
  <2>2. Prepared(x) \in Device /\ Calls(d, x, Prepared(x))
    BY <1>2, <2>1, DeviceType DEF Calls, Prepared, Device
  <2>3. Written(x, d, dep[d].digest) \in Device
    BY <1>2, <2>1, DeviceType DEF OptDeployment
  <2>4. Calls(d, x, Written(x, d, dep[d].digest))
    BY <1>2, <2>1 DEF Calls, Written, Device
  <2> HIDE DEF n, x
  <2> QED BY <1>1, <1>4, <2>1, <2>2, <2>3, <2>4 DEF ReconcileWriting, n, x
<1>5. CASE ActivatingCallsActivate(c, d)
  <2>1. n \in Node /\ dep[d].phase = "Activating" /\ CanActivate(x, d)
    BY <1>1, <1>5 DEF ActivatingCallsActivate, Answers, HasClient, Takes
  <2>2. Activated(x) \in Device /\ Calls(d, x, Activated(x))
    BY <1>2, <2>1, DeviceType DEF Calls, Activated, CanActivate, Device, Staged
  <2> QED BY <1>1, <1>5, <2>1, <2>2 DEF ActivatingCallsActivate
<1>6. CASE UNCHANGED dev
  BY <1>6 DEF Reconcile, ReconcileBinding, ReconcilePulling, PermanentError,
     PreparingResumes, PreparingCallsPrepare, ReconcileWriting, ActivatingSkips,
     ActivatingCallsActivate, ReconcileConfirming, ReconcileDeployed, ReconcileDrops
<1> HIDE DEF n, x
<1> QED BY <1>3, <1>4, <1>5, <1>6 DEF Reconcile, ReconcileBinding, ReconcilePulling,
     PermanentError, PreparingResumes, ActivatingSkips, ReconcileConfirming,
     ReconcileDeployed, ReconcileDrops, n, x

\* The calls of a reconcile keep the world as it was: nobody else has its node.
LEMMA CallWorld ==
    ASSUME TypeOK, World, NodeExclusive, NEW d \in Deployment, dep[d].bound \in Node,
           NEW y \in Device, dev' = [dev EXCEPT ![dep[d].bound] = y],
           Calls(d, dev[dep[d].bound], y), UNCHANGED <<dep, node>>
    PROVE  World'
<1> DEFINE n == dep[d].bound
<1>1. \A m \in Node : dev'[m] = IF m = n THEN y ELSE dev[m]
  BY DEF TypeOK
<1>2. ASSUME NEW e \in Deployment, NEW m \in Node
      PROVE  TracesOf(m, e)'
  <2>1. TracesOf(m, e) /\ TracesOf(m, d)
    BY DEF World
  <2>2. CASE m # n
    BY <1>1, <2>1, <2>2 DEF TracesOf, Met, IsActivating
  <2>3. CASE m = n
    <3>1. dev'[m] = y /\ UNCHANGED <<dep, node>> /\ e # NoDeployment
      BY <1>1, <2>3, AgentAssumption
    <3>2. /\ Met(m, e)' = Met(m, e) /\ dep'[e] = dep[e]
          /\ IsActivating(dev'[m], e) = IsActivating(y, e)
      BY <2>3, <3>1 DEF Met, Calls
    <3>3. CASE y.staged = EmptySlot
      BY <2>1, <3>1, <3>2, <3>3 DEF TracesOf, IsActivating, EmptySlot
    <3>4. CASE dep[d].phase = "Writing" /\ y.staged.state = "written" /\ y.staged.id = d
      BY <2>1, <3>1, <3>2, <3>4 DEF TracesOf, IsActivating, EarlyPhase
    <3>5. CASE dep[d].phase = "Activating" /\ dev[m].staged.id = d /\ y.staged.id = d
      BY <2>1, <3>1, <3>2, <3>5 DEF TracesOf, IsActivating, EarlyPhase
    <3> QED BY <2>3, <3>3, <3>4, <3>5 DEF Calls
  <2> QED BY <2>2, <2>3
<1>3. ASSUME NEW e \in Deployment, Runs(e)
      PROVE  Runs(e)'
  BY <1>1, <1>3 DEF Runs, Calls
<1>4. ASSUME NEW e \in Deployment
      PROVE  Settled(e)'
  <2>1. SUFFICES ASSUME dep[e].phase \in PreparedPhase PROVE SlotOwn(e)'
    BY <1>3 DEF World, Settled
  <2>2. SlotOwn(e)
    BY <2>1 DEF World, Settled
  <2>3. CASE dep[e].bound = n /\ e # d
    BY <2>1, <2>3 DEF NodeExclusive, Calls, PreparedPhase
  <2>4. CASE e = d
    BY <1>1, <2>2, <2>4 DEF SlotOwn, Calls, EmptySlot
  <2>5. CASE dep[e].bound # n
    BY <1>1, <2>2, <2>5 DEF SlotOwn
  <2> QED BY <2>3, <2>4, <2>5
<1>5. DeployedRuns'
  BY <1>3 DEF World, DeployedRuns, Runs
<1> QED BY <1>2, <1>4, <1>5 DEF World

\* A reconcile that reads takes its object one phase further, or fails it.
LEMMA ReconcileAdvances ==
    ASSUME TypeOK, World, ~CacheLag,
           NEW c \in Controller, NEW d \in Deployment, Reconcile(c, d)
    PROVE  UNCHANGED rec \/ \E want \in Dep : WillWrite(c, d, want) /\ Advances(d, want)'
<1> DEFINE o == dep[d]
<1>1. Seen(c, d) = o /\ o \in Dep /\ o.bound \in OptNode /\ dep' = dep
  <2>1. o \in Dep
    BY DEF TypeOK
  <2> QED BY <2>1, ReconcileShape DEF Seen, Dep
<1>0. ASSUME NEW w \in Dep, WillWrite(c, d, w), Follows(o.phase, w.phase),
             IF w.phase = "Pulling" THEN w.bound \in Node ELSE w.bound = o.bound,
             w.phase = "Writing" => SlotOwn(d)', w.phase = "Deployed" => Runs(d)'
      PROVE  \E want \in Dep : WillWrite(c, d, want) /\ Advances(d, want)'
  <2>1. Advances(d, w)'
    BY <1>0, <1>1 DEF Advances
  <2> QED BY <1>0, <2>1
<1> HIDE DEF o
<1>2. ASSUME NEW r \in Reason, WillFail(c, d, r), o.phase \notin {"Failed", "Gone"}
      PROVE  \E want \in Dep : WillWrite(c, d, want) /\ Advances(d, want)'
  <2> DEFINE want == FailedWith(o, r)
  <2>1. want \in Dep /\ want.phase = "Failed" /\ want.bound = o.bound
    BY <1>1, WantFields
  <2>2. WillWrite(c, d, want)
    BY <1>1, <1>2 DEF WillFail
  <2> HIDE DEF want
  <2> QED BY <1>0, <1>2, <2>1, <2>2 DEF Follows
<1>3. ASSUME NEW ph \in Phase, NEW n \in OptNode, WillSetPhase(c, d, ph, n),
             Follows(o.phase, ph),
             IF ph = "Pulling" THEN n \in Node ELSE n = o.bound,
             ph = "Writing" => SlotOwn(d)', ph = "Deployed" => Runs(d)'
      PROVE  \E want \in Dep : WillWrite(c, d, want) /\ Advances(d, want)'
  <2> DEFINE want == InPhase(o, ph, n)
  <2>1. want \in Dep /\ want.phase = ph /\ want.bound = n
    BY <1>1, WantFields
  <2>2. WillWrite(c, d, want)
    BY <1>1, <1>3 DEF WillSetPhase
  <2> HIDE DEF want
  <2> QED BY <1>0, <1>3, <2>1, <2>2
<1>4. CASE ReconcileBinding(c, d)
  <2>1. o.phase = ""
    BY <1>1, <1>4 DEF ReconcileBinding, Takes
  <2>2. CASE \E n \in Candidates(d) : WillSetPhase(c, d, "Pulling", n)
    <3>1. Candidates(d) \subseteq Node
      BY MatchesAssumption DEF Candidates
    <3>2. "Pulling" \in Phase /\ Follows(o.phase, "Pulling")
      BY <2>1 DEF Phase, Follows
    <3> QED BY <1>3, <2>2, <3>1, <3>2 DEF OptNode
  <2>3. CASE \E r \in Reason : WillFail(c, d, r)
    BY <1>2, <2>1, <2>3
  <2> QED BY <1>4, <2>2, <2>3 DEF ReconcileBinding, Reason
<1>5. CASE ReconcilePulling(c, d)
  <2> DEFINE p == [o EXCEPT !.phase = "Preparing", !.digest = image[d]]
             want == WithConditions(p, "Preparing")
  <2>1. o.phase = "Pulling" /\ WillWrite(c, d, want)
    BY <1>1, <1>5 DEF ReconcilePulling, Takes
  <2>2. image[d] \in OptImage
    BY DEF TypeOK, OptImage
  <2>3. p \in Dep
    BY <1>1, <2>2 DEF Dep, Phase
  <2>4. want \in Dep
    BY <2>3, WithConditionsType DEF Phase
  <2>5. want.phase = "Preparing" /\ want.bound = o.bound
    BY <1>1 DEF WithConditions, Dep
  <2> HIDE DEF want
  <2> QED BY <1>0, <2>1, <2>4, <2>5 DEF Follows
<1>6. CASE PermanentError(c, d)
  <2>1. o.phase \notin {"Failed", "Gone"}
    BY <1>1, <1>6 DEF PermanentError, Takes
  <2>2. \E r \in Reason : WillFail(c, d, r)
    BY <1>6 DEF PermanentError, Reason
  <2> QED BY <1>2, <2>1, <2>2
<1>7. CASE PreparingResumes(c, d)
\* Nothing of d is on the device yet.
  <2>1. o.phase = "Preparing" /\ o.bound \in Node
    BY <1>1, <1>7 DEF PreparingResumes, Takes, Answers, HasClient
  <2>2. dev[o.bound].staged.id = d
    BY <1>1, <1>7 DEF PreparingResumes, IsActivating, IsWritten
  <2> QED BY <2>1, <2>2 DEF World, TracesOf, EarlyPhase, o
<1>8. CASE PreparingCallsPrepare(c, d)
  <2>1. o.phase = "Preparing" /\ o.bound \in Node
    BY <1>1, <1>8 DEF PreparingCallsPrepare, Takes, Answers, HasClient
  <2>2. CASE \E r \in Reason : WillFail(c, d, r)
    BY <1>2, <2>1, <2>2
  <2>3. CASE /\ dev' = [dev EXCEPT ![o.bound] = Prepared(@)]
             /\ WillSetPhase(c, d, "Writing", o.bound)
    <3>1. dev'[o.bound].staged = EmptySlot
      BY <2>1, <2>3 DEF Prepared, TypeOK, Device
    <3>2. SlotOwn(d)'
      BY <1>1, <2>1, <3>1 DEF SlotOwn, EmptySlot, o
    <3>3. "Writing" \in Phase /\ Follows(o.phase, "Writing")
      BY <2>1 DEF Phase, Follows
    <3> QED BY <1>1, <1>3, <2>3, <3>2, <3>3
  <2> QED BY <1>1, <1>8, <2>2, <2>3 DEF PreparingCallsPrepare, Reason
<1>9. CASE ReconcileWriting(c, d)
  <2>1. o.phase = "Writing"
    BY <1>1, <1>9 DEF ReconcileWriting, Takes
  <2>2. "Activating" \in Phase /\ Follows(o.phase, "Activating")
    BY <2>1 DEF Phase, Follows
  <2>3. WillSetPhase(c, d, "Activating", o.bound) \/ UNCHANGED rec
    BY <1>1, <1>9 DEF ReconcileWriting
  <2> QED BY <1>1, <1>3, <2>2, <2>3
<1>10. CASE ActivatingSkips(c, d) \/ ActivatingCallsActivate(c, d)
  <2>1. o.phase = "Activating"
    BY <1>1, <1>10 DEF ActivatingSkips, ActivatingCallsActivate, Takes
  <2>2. "Confirming" \in Phase /\ Follows(o.phase, "Confirming")
    BY <2>1 DEF Phase, Follows
  <2>3. WillSetPhase(c, d, "Confirming", o.bound) \/ UNCHANGED rec
    BY <1>1, <1>10 DEF ActivatingSkips, ActivatingCallsActivate
  <2> QED BY <1>1, <1>3, <2>2, <2>3
<1>11. CASE ReconcileConfirming(c, d)
  <2>1. o.phase = "Confirming" /\ o.bound \in Node /\ dev' = dev
    BY <1>1, <1>11 DEF ReconcileConfirming, Takes, HasClient
  <2>2. CASE ConfirmedBy(d, o.bound) /\ WillSetPhase(c, d, "Deployed", o.bound)
    <3>1. Runs(d)
      BY <2>1, <2>2 DEF World, Settled, PreparedPhase, ConfirmedBy, o
    <3>2. Runs(d)'
      BY <1>1, <2>1, <3>1 DEF Runs
    <3>3. "Deployed" \in Phase /\ Follows(o.phase, "Deployed")
      BY <2>1 DEF Phase, Follows
    <3> QED BY <1>1, <1>3, <2>2, <3>2, <3>3
  <2>3. CASE \E r \in Reason : WillFail(c, d, r)
    BY <1>2, <2>1, <2>3
  <2> QED BY <1>1, <1>11, <2>2, <2>3 DEF ReconcileConfirming, Reason
<1>12. CASE ReconcileDeployed(c, d)
  <2>1. PICK a \in {"True", "False"} : WillWrite(c, d, [o EXCEPT !.available = a])
    BY <1>1, <1>12 DEF ReconcileDeployed
  <2> DEFINE want == [o EXCEPT !.available = a]
  <2>2. o.phase = "Deployed" /\ dev' = dev
    BY <1>1, <1>12 DEF ReconcileDeployed, Takes
  <2>3. want \in Dep /\ want.phase = "Deployed" /\ want.bound = o.bound
    BY <1>1, <2>2 DEF Dep, CondStatus
  <2> HIDE DEF want
  <2>4. Runs(d)'
    BY <1>1, <2>2 DEF World, DeployedRuns, Runs, o
  <2>5. WillWrite(c, d, want)
    BY <2>1 DEF want
  <2> QED BY <1>0, <2>2, <2>3, <2>4, <2>5 DEF Follows
<1>13. CASE ReconcileDrops(c, d)
  BY <1>13 DEF ReconcileDrops
<1> QED BY <1>4, <1>5, <1>6, <1>7, <1>8, <1>9, <1>10, <1>11, <1>12, <1>13 DEF Reconcile

(***************************************************************************)
(* The steps that change objects                                           *)
(***************************************************************************)
\* The status patch makes the object what its reconcile wants, and what the
\* reconcile relied on is still true when it lands.
LEMMA CommitAdvances ==
    ASSUME TypeOK, ExclusiveInv, DeployedInv, NEW c \in Controller, Commit(c)
    PROVE  LET d == rec[c].dep
               m == MergeStatus(dep[d], rec[c].base, rec[c].want)
           IN  /\ d \in Deployment /\ Alive(d) /\ m \in Dep
               /\ dep' = [dep EXCEPT ![d] = m] /\ UNCHANGED <<dev, node>>
               /\ m.phase = rec[c].want.phase /\ Advances(d, m)
<1> DEFINE d == rec[c].dep
           m == MergeStatus(dep[d], rec[c].base, rec[c].want)
<1>1. rec[c] \in Working /\ Alive(d) /\ Owns(rec[c]) /\ Advances(d, rec[c].want)
  BY WorkingType DEF Commit, ExclusiveInv, DeployedInv, Alive
<1>2. /\ d \in Deployment /\ dep[d] \in Dep /\ rec[c].want \in Dep
      /\ rec[c].base = dep[d]
  BY <1>1 DEF Working, TypeOK, Owns
<1>3. m \in Dep
  BY <1>2, MergeType
<1>4. m.phase = rec[c].want.phase /\ m.bound = rec[c].want.bound
  BY <1>2 DEF MergeStatus, Patched, Dep
<1>5. Advances(d, m)
  <2> HIDE DEF m
  <2> QED BY <1>1, <1>4 DEF Advances
<1> QED BY <1>1, <1>2, <1>3, <1>4, <1>5 DEF Commit

\* A patch that takes an object where it may go keeps the world as it was.
LEMMA PatchWorld ==
    ASSUME TypeOK, World, NEW d \in Deployment, NEW m \in Dep, Advances(d, m),
           dep' = [dep EXCEPT ![d] = m], UNCHANGED <<dev, node>>
    PROVE  World'
<1>1. \A e \in Deployment : dep'[e] = IF e = d THEN m ELSE dep[e]
  BY DEF TypeOK
<1>2. /\ dep[d].phase \notin EarlyPhase => m.phase \notin EarlyPhase
      /\ dep[d].phase \notin EarlyPhase \cup {"Writing"}
            => m.phase \notin EarlyPhase \cup {"Writing"}
      /\ m.phase # ""
  BY DEF Advances, Follows, EarlyPhase
<1>3. ASSUME NEW e \in Deployment, NEW n \in Node
      PROVE  TracesOf(n, e)'
  <2>1. TracesOf(n, e)
    BY DEF World
  <2> QED BY <1>1, <1>2, <2>1 DEF TracesOf, Met, IsActivating
<1>4. ASSUME NEW e \in Deployment, e # d
      PROVE  Settled(e)' /\ (Runs(e) => Runs(e)')
  <2>1. dep'[e] = dep[e]
    BY <1>1, <1>4
  <2>2. SlotOwn(e)' = SlotOwn(e) /\ Runs(e)' = Runs(e)
    BY <2>1 DEF SlotOwn, Runs
  <2>3. Settled(e)
    BY DEF World
  <2> QED BY <2>1, <2>2, <2>3 DEF Settled
<1>5. m.bound = dep[d].bound => SlotOwn(d)' = SlotOwn(d) /\ Runs(d)' = Runs(d)
  BY <1>1 DEF SlotOwn, Runs
<1>6. Settled(d)'
  <2>1. SUFFICES ASSUME m.phase \in PreparedPhase PROVE Settled(d)'
    BY <1>1 DEF Settled
  <2>2. m.bound = dep[d].bound
    BY <2>1 DEF Advances, PreparedPhase
  <2>3. CASE m.phase = "Writing"
    <3>1. dep[d].phase = "Preparing" /\ SlotOwn(d)
      BY <2>3 DEF Advances, Follows
    <3>2. node[dep[d].bound].id # d
      BY <3>1 DEF World, TracesOf, Met, EarlyPhase, SlotOwn
    <3> QED BY <1>1, <1>5, <2>2, <3>1, <3>2 DEF Settled
  <2>4. CASE m.phase # "Writing"
    <3>1. dep[d].phase \in PreparedPhase
      BY <2>1, <2>4 DEF Advances, Follows, PreparedPhase
    <3>2. Settled(d)
      BY DEF World
    <3> QED BY <1>1, <1>5, <2>2, <3>1, <3>2 DEF Settled
  <2> QED BY <2>3, <2>4
<1>7. DeployedRuns'
  <2>1. ASSUME NEW e \in Deployment, dep'[e].phase = "Deployed"
        PROVE  Runs(e)'
    <3>1. CASE e = d
      BY <1>1, <1>5, <2>1, <3>1 DEF Advances
    <3>2. CASE e # d
      <4>1. Runs(e)
        <5>1. dep[e].phase = "Deployed"
          BY <1>1, <2>1, <3>2
        <5> QED BY <5>1 DEF World, DeployedRuns, Runs
      <4> QED BY <1>4, <3>2, <4>1
    <3> QED BY <3>1, <3>2
  <2> QED BY <2>1 DEF DeployedRuns, Runs
<1> QED BY <1>1, <1>2, <1>3, <1>4, <1>6, <1>7 DEF World

\* The annotation and a deletion keep the world as it was.
LEMMA AnnotateWorld ==
    ASSUME TypeOK, World, NEW c \in Controller, Annotate(c)
    PROVE  World' /\ \A e \in Deployment : dep'[e].phase = dep[e].phase
                                        /\ dep'[e].bound = dep[e].bound
<1>1. \A e \in Deployment : dep'[e].phase = dep[e].phase /\ dep'[e].bound = dep[e].bound
  BY AnnotateShape DEF TypeOK
<1>2. UNCHANGED <<dev, node>>
  BY DEF Annotate
<1>3. \A e \in Deployment : SlotOwn(e)' = SlotOwn(e) /\ Runs(e)' = Runs(e)
  BY <1>1, <1>2 DEF SlotOwn, Runs
<1>4. \A e \in Deployment : Settled(e)'
  BY <1>1, <1>2, <1>3 DEF World, Settled
<1>5. \A e \in Deployment, n \in Node : TracesOf(n, e)'
  BY <1>1, <1>2 DEF World, TracesOf, Met, IsActivating
<1>6. DeployedRuns'
  BY <1>1, <1>2 DEF World, DeployedRuns
<1> QED BY <1>1, <1>4, <1>5, <1>6 DEF World

LEMMA DeletionWorld ==
    ASSUME TypeOK, World, NEW d \in Deployment, DeleteDeployment(d)
    PROVE  World'
<1>1. DeletedDep.phase = "Gone" /\ DeletedDep.bound = NoNode
  BY DEF DeletedDep, NewDep
<1>2. /\ \A e \in Deployment : dep'[e] = IF e = d THEN DeletedDep ELSE dep[e]
      /\ UNCHANGED <<dev, node>>
  BY DEF DeleteDeployment, TypeOK
<1>3. \A e \in Deployment \ {d} : SlotOwn(e)' = SlotOwn(e) /\ Runs(e)' = Runs(e)
  BY <1>2 DEF SlotOwn, Runs
<1>4. ASSUME NEW e \in Deployment PROVE Settled(e)'
  BY <1>1, <1>2, <1>3 DEF World, Settled, PreparedPhase
<1>5. ASSUME NEW e \in Deployment, NEW n \in Node PROVE TracesOf(n, e)'
  BY <1>1, <1>2 DEF World, TracesOf, Met, IsActivating, EarlyPhase
<1>6. DeployedRuns'
  BY <1>1, <1>2 DEF World, DeployedRuns
<1> QED BY <1>1, <1>2, <1>4, <1>5, <1>6 DEF World

(***************************************************************************)
(* Deployed is a fact                                                      *)
(***************************************************************************)
\* The steps by what they can change of the objects, the reconcile in progress,
\* the devices and the nodes.
LEMMA StepKinds ==
    ASSUME [Next]_vars
    PROVE  \/ UNCHANGED <<dep, rec, dev, node>>
           \/ \E d \in Deployment : DeleteDeployment(d)
           \/ \E n \in Node : DeviceActs(n)
           \/ \E n \in Node : NodeStep(n) \/ DeleteNode(n) \/ CreateNode(n)
           \/ \E c \in Controller : \/ \E d \in Deployment : Reconcile(c, d)
                                   \/ Annotate(c) \/ Commit(c) \/ ReconcileConfigOnly(c)
                                   \/ PatchFails(c) \/ Crash(c)
<1>1. CASE \E c \in Controller : ControllerActs(c)
  BY <1>1 DEF ControllerActs, SyncCache
<1>2. CASE \E d \in Deployment : ConfirmTimeoutElapses(d)
  BY <1>2 DEF ConfirmTimeoutElapses
<1>3. CASE Operator
  BY <1>3 DEF Operator, PatchImage
<1>4. CASE UNCHANGED vars
  BY <1>4 DEF vars
<1> QED BY <1>1, <1>2, <1>3, <1>4 DEF Next

\* A step that leaves the reconciles alone leaves them what they rely on.
LEMMA KeptAdvances ==
    ASSUME TypeOK, DeployedInv, UNCHANGED rec, World',
           \A d \in Deployment, want \in Dep :
              Alive(d)' => Alive(d) /\ (Advances(d, want) => Advances(d, want)')
    PROVE  DeployedInv'
<1>1. ASSUME NEW c \in Controller, rec[c].pc # "idle", Alive(rec[c].dep)'
      PROVE  Advances(rec[c].dep, rec[c].want)'
  <2>1. rec[c].dep \in Deployment /\ rec[c].want \in Dep /\ rec' = rec
    BY <1>1, WorkingType DEF Working
  <2>2. PICK d \in Deployment, want \in Dep : d = rec[c].dep /\ want = rec[c].want
    BY <2>1
  <2>3. Alive(d)'
    BY <1>1, <2>1, <2>2 DEF Alive
  <2>4. Advances(d, want)
    BY <1>1, <2>1, <2>2, <2>3 DEF DeployedInv
  <2>5. Advances(d, want)'
    BY <2>3, <2>4
  <2> QED BY <2>1, <2>2, <2>5 DEF Advances, SlotOwn, Runs
<1> QED BY <1>1 DEF DeployedInv

\* Every step keeps Deployed a fact, with a current cache and one controller.
LEMMA DeployedStep ==
    ASSUME ~CacheLag, \A c, k \in Controller : c = k,
           TypeOK, ExclusiveInv, DeployedInv, [Next]_vars
    PROVE  DeployedInv'
<1>0. World /\ NodeExclusive
  BY DEF DeployedInv, ExclusiveInv
<1>1. CASE UNCHANGED <<dep, rec, dev, node>>
  BY <1>0, <1>1, KeptAdvances DEF World, DeployedRuns, TracesOf, Met, IsActivating, Settled,
     SlotOwn, Runs, Advances, Alive
<1>2. ASSUME NEW d \in Deployment, DeleteDeployment(d)
      PROVE  DeployedInv'
  <2>1. DeletedDep.phase = "Gone"
    BY DEF DeletedDep
  <2>2. /\ \A e \in Deployment : dep'[e] = IF e = d THEN DeletedDep ELSE dep[e]
        /\ UNCHANGED <<rec, dev, node>>
    BY <1>2 DEF DeleteDeployment, TypeOK
  <2>3. ASSUME NEW e \in Deployment, NEW want \in Dep, Alive(e)'
        PROVE  Alive(e) /\ (Advances(e, want) => Advances(e, want)')
    <3>1. dep'[e] = dep[e]
      BY <2>1, <2>2, <2>3 DEF Alive
    <3> QED BY <2>2, <2>3, <3>1 DEF Alive, Advances, SlotOwn, Runs
  <2> QED BY <1>0, <1>2, <2>2, <2>3, DeletionWorld, KeptAdvances
<1>3. ASSUME NEW n \in Node, DeviceActs(n)
      PROVE  DeployedInv'
  <2>1. DeviceMoves(n) /\ UNCHANGED <<dep, node, rec>>
    BY <1>3, DeviceLives
  <2>2. \A e \in Deployment, want \in Dep :
           Alive(e)' => Alive(e) /\ (Advances(e, want) => Advances(e, want)')
    BY <1>0, <2>1, DeviceAdvances DEF Alive
  <2> QED BY <1>0, <2>1, <2>2, DeviceWorld, KeptAdvances
<1>4. ASSUME NEW n \in Node, NodeStep(n) \/ DeleteNode(n) \/ CreateNode(n)
      PROVE  DeployedInv'
  <2>1. UNCHANGED <<dep, dev, rec>>
    BY <1>4, NodeWrites
  <2>2. \A e \in Deployment, want \in Dep :
           Alive(e)' => Alive(e) /\ (Advances(e, want) => Advances(e, want)')
    BY <2>1 DEF Alive, Advances, SlotOwn, Runs
  <2> QED BY <1>0, <1>4, <2>1, <2>2, NodeWorld, KeptAdvances
\* The worker: nobody else has a reconcile in progress.
<1>5. ASSUME NEW c \in Controller, World',
             (rec[c].pc # "idle" /\ Alive(rec[c].dep) => Advances(rec[c].dep, rec[c].want))'
      PROVE  DeployedInv'
  BY <1>5 DEF DeployedInv
<1>6. ASSUME NEW c \in Controller, NEW d \in Deployment, Reconcile(c, d)
      PROVE  DeployedInv'
  <2>1. UNCHANGED <<dep, node>> /\ World'
    <3>1. CASE UNCHANGED dev
      <4>1. UNCHANGED <<dep, node>>
        BY <1>6, ReconcileCalls
      <4> QED BY <1>0, <3>1, <4>1 DEF World, DeployedRuns, TracesOf, Met, IsActivating,
              Settled, SlotOwn, Runs
    <3>2. CASE ~UNCHANGED dev
      BY <1>0, <1>6, <3>2, ReconcileCalls, CallWorld
    <3> QED BY <3>1, <3>2
  <2>2. CASE \E want \in Dep : WillWrite(c, d, want) /\ Advances(d, want)'
    <3>1. PICK want \in Dep : WillWrite(c, d, want) /\ Advances(d, want)'
      BY <2>2
    <3>2. rec'[c].dep = d /\ rec'[c].want = want
      BY <3>1 DEF WillWrite, TypeOK
    <3>3. Advances(rec[c].dep, rec[c].want)'
      BY <3>1, <3>2 DEF Advances, SlotOwn, Runs
    <3> QED BY <1>5, <2>1, <3>3
\* It goes on retrying: the worker was idle, and is.
  <2>3. CASE UNCHANGED rec
    <3>1. rec[c].pc = "idle"
      BY <1>6 DEF Reconcile, ReconcileBinding, ReconcilePulling, PermanentError,
         PreparingResumes, PreparingCallsPrepare, ReconcileWriting, ActivatingSkips,
         ActivatingCallsActivate, ReconcileConfirming, ReconcileDeployed, ReconcileDrops, Takes
    <3> QED BY <1>5, <2>1, <2>3, <3>1
  <2> QED BY <1>0, <1>6, <2>2, <2>3, ReconcileAdvances
<1>7. ASSUME NEW c \in Controller, Annotate(c)
      PROVE  DeployedInv'
  <2> DEFINE d == rec[c].dep
             a == [dep[d] EXCEPT !.armed = TRUE]
             want == InPhase(a, "Confirming", rec[c].want.bound)
  <2>1. rec[c] \in Working /\ Owns(rec[c]) /\ Advances(d, rec[c].want)
    BY <1>7, WorkingType DEF Annotate, ExclusiveInv, DeployedInv, Alive
  <2>2. d \in Deployment /\ a \in Dep /\ rec[c].want.bound \in OptNode
    BY <1>7, <2>1, AnnotateShape DEF Working, Dep
  <2>3. rec[c].want.phase = "Confirming"
    BY <1>7, <2>1 DEF Annotate, Owns
  <2>4. want.phase = "Confirming" /\ want.bound = rec[c].want.bound
    <3>1. "Confirming" \in Phase
      BY DEF Phase
    <3> HIDE DEF a
    <3> QED BY <2>2, <3>1, WantFields
  <2>5. rec'[c].dep = d /\ rec'[c].want = want
    BY <1>7, <2>1 DEF Annotate, TypeOK, Working
  <2> HIDE DEF want, a
  <2>6. dep'[d].phase = dep[d].phase /\ dep'[d].bound = dep[d].bound
    BY <1>0, <1>7, <2>2, AnnotateWorld
  <2> HIDE DEF d
  <2>7. Advances(rec[c].dep, rec[c].want)'
    BY <2>1, <2>3, <2>4, <2>5, <2>6 DEF Advances
  <2> QED BY <1>0, <1>5, <1>7, <2>7, AnnotateWorld
<1>8. ASSUME NEW c \in Controller, Commit(c)
      PROVE  DeployedInv'
  <2> DEFINE d == rec[c].dep
             m == MergeStatus(dep[d], rec[c].base, rec[c].want)
  <2>1. /\ d \in Deployment /\ m \in Dep /\ Advances(d, m)
        /\ dep' = [dep EXCEPT ![d] = m] /\ UNCHANGED <<dev, node>>
        /\ m.phase = rec[c].want.phase
    BY <1>8, CommitAdvances
  <2>2. World'
    <3> HIDE DEF m, d
    <3> QED BY <1>0, <2>1, PatchWorld
  <2>3. CASE rec'[c] = Idle
    BY <1>5, <2>2, <2>3 DEF Idle
  <2>4. CASE /\ rec'[c] = [rec[c] EXCEPT !.pc = "config", !.base = m, !.want = m]
             /\ Watches(rec[c])
    <3>1. rec[c] \in Working
      BY <1>8, WorkingType DEF Commit
    <3>2. rec'[c].dep = d /\ rec'[c].want = m /\ dep'[d] = m
      BY <2>1, <2>4, <3>1 DEF Working, TypeOK
    <3>3. m.phase = "Deployed"
      BY <2>1, <2>4 DEF Watches
    <3> HIDE DEF m, d
    <3>4. PICK e \in Deployment : e = d
      BY <2>1
    <3>5. dep'[e].phase = "Deployed" /\ Follows("Deployed", "Deployed")
      BY <3>2, <3>3, <3>4 DEF Follows
    <3>6. Runs(e)'
      BY <2>2, <3>5 DEF World, DeployedRuns, Runs
    <3>7. Advances(rec[c].dep, rec[c].want)'
      BY <3>2, <3>3, <3>4, <3>5, <3>6 DEF Advances, Runs
    <3> QED BY <1>5, <2>2, <3>7
  <2> QED BY <1>8, <2>3, <2>4 DEF Commit, TypeOK
<1>9. ASSUME NEW c \in Controller, ReconcileConfigOnly(c)
      PROVE  DeployedInv'
  <2> DEFINE d == rec[c].dep
             n == rec[c].base.bound
             want == FailedWith(rec[c].base, "ConfigInvalid")
  <2>1. UNCHANGED <<dep, node>>
    BY <1>9 DEF ReconcileConfigOnly
  <2>2. World'
    <3>1. CASE UNCHANGED dev
      BY <1>0, <2>1, <3>1 DEF World, DeployedRuns, TracesOf, Met, IsActivating, Settled,
         SlotOwn, Runs
    <3>2. CASE ~UNCHANGED dev
      <4>1. n \in Node /\ dev' = [dev EXCEPT ![n] = Rebooted(dev[n])]
        BY <1>9, <3>2 DEF ReconcileConfigOnly, Answers, HasClient
      <4>2. Rebooted(dev[n]) \in Device /\ Lives(dev[n], Rebooted(dev[n]))
        <5>1. dev[n] \in Device
          BY <4>1 DEF TypeOK
        <5>2. Lives(dev[n], Rebooted(dev[n]))
          BY <5>1 DEF Lives, Rebooted, Device
        <5> QED BY <5>1, <5>2, DeviceType
      <4>3. DeviceMoves(n)
        BY <4>1, <4>2 DEF DeviceMoves
      <4> QED BY <1>0, <2>1, <4>1, <4>3, DeviceWorld
    <3> QED BY <3>1, <3>2
  <2>3. CASE rec'[c] = Idle
    BY <1>5, <2>2, <2>3 DEF Idle
  <2>4. CASE rec'[c] = [rec[c] EXCEPT !.pc = "commit", !.want = want]
    <3>1. rec[c] \in Working /\ Owns(rec[c])
      BY <1>9, WorkingType DEF ReconcileConfigOnly, ExclusiveInv
    <3>2. want.phase = "Failed" /\ want.bound = rec[c].base.bound
      BY <3>1, WantFields DEF Working, Reason
    <3>3. rec'[c].dep = d /\ rec'[c].want = want
      BY <2>4, <3>1 DEF Working
    <3> HIDE DEF want
    <3>4. ASSUME Alive(d)
          PROVE  Advances(rec[c].dep, rec[c].want)'
      <4>1. Advances(d, rec[c].want) /\ rec[c].base = dep[d]
        BY <1>9, <3>1, <3>4 DEF ReconcileConfigOnly, DeployedInv, Owns
      <4>2. dep[d].phase \notin {"Failed", "Gone"}
        BY <4>1 DEF Advances, Follows
      <4> HIDE DEF d
      <4> QED BY <2>1, <3>2, <3>3, <4>1, <4>2 DEF Advances, Follows
    <3>5. Alive(rec[c].dep)' => Alive(d)
      BY <2>1, <3>3 DEF Alive
    <3> QED BY <1>5, <2>2, <3>4, <3>5
  <2> QED BY <1>9, <2>3, <2>4 DEF ReconcileConfigOnly, TypeOK
<1>10. ASSUME NEW c \in Controller, PatchFails(c) \/ Crash(c)
       PROVE  DeployedInv'
  <2>1. UNCHANGED <<dep, dev, node>>
    BY <1>10 DEF PatchFails, Crash
  <2>2. World'
    BY <1>0, <2>1 DEF World, DeployedRuns, TracesOf, Met, IsActivating, Settled, SlotOwn, Runs
  <2>3. rec'[c].pc = "idle"
    BY <1>10 DEF PatchFails, Crash, Idle, TypeOK
  <2> QED BY <1>5, <2>2, <2>3
<1> QED BY <1>1, <1>2, <1>3, <1>4, <1>6, <1>7, <1>8, <1>9, <1>10, StepKinds

\* Nothing is deployed, staged or known at the start.
LEMMA DeployedInit == Init => ExclusiveInv /\ DeployedInv
<1> SUFFICES ASSUME Init PROVE ExclusiveInv /\ DeployedInv
  OBVIOUS
<1>1. \A d \in Deployment : dep[d].bound = NoNode /\ dep[d].phase = ""
  BY DEF Init, NewDep
<1>2. \A c \in Controller : rec[c].pc = "idle"
  BY DEF Init, Idle
<1>3. \A n \in Node : /\ dev[n].fw = NoDeployment /\ dev[n].prev = NoDeployment
                      /\ dev[n].staged.id = NoDeployment
                      /\ node[n].id = NoDeployment
  BY DEF Init, Factory, EmptySlot, NewNode
<1>4. NoDeployment \notin Deployment
  BY AgentAssumption
<1>5. ExclusiveInv
  BY <1>1, <1>2, NoNodeAssumption DEF ExclusiveInv, NodeExclusive, Alive
<1>6. \A d \in Deployment, n \in Node : TracesOf(n, d)
  BY <1>3, <1>4 DEF TracesOf, Met, IsActivating
<1>7. DeployedRuns /\ \A d \in Deployment : Settled(d)
  BY <1>1 DEF DeployedRuns, Settled, PreparedPhase
<1> QED BY <1>1, <1>2, <1>5, <1>6, <1>7 DEF DeployedInv, World

\* Deployed is a fact about the device, and stays one until the deployment fails
\* or is deleted, for any number of deployments and nodes, over lost answers,
\* failed patches, crashes and reboots.
THEOREM DeployedIsAFact ==
    ASSUME ~CacheLag, \A c, k \in Controller : c = k
    PROVE  Spec => []DeployedRuns
<1>1. TypeOK /\ ExclusiveInv /\ [Next]_vars => ExclusiveInv'
  BY ExclusiveStep
<1>2. TypeOK /\ ExclusiveInv /\ DeployedInv /\ [Next]_vars => DeployedInv'
  BY DeployedStep
<1>3. DeployedInv => DeployedRuns
  BY DEF DeployedInv, World
<1> QED BY <1>1, <1>2, <1>3, TypeCorrect, DeployedInit, PTL DEF Spec

(***************************************************************************)
(* The controller implements Rollout                                       *)
(***************************************************************************)
\* The values of the variables of Rollout.
Stages == [d \in Deployment |-> StageOf(dep[d].phase)]
Places == [d \in Deployment |-> dep[d].bound]
Images == [n \in Node |-> IF dev[n].validated THEN dev[n].fw ELSE NoDeployment]

\* The stage of each phase.
LEMMA StageValues ==
    /\ StageOf("") = "pending" /\ StageOf("Pulling") = "claimed"
    /\ StageOf("Preparing") = "claimed" /\ StageOf("Writing") = "claimed"
    /\ StageOf("Activating") = "claimed" /\ StageOf("Confirming") = "confirming"
    /\ StageOf("Deployed") = "deployed" /\ StageOf("Failed") = "failed"
    /\ StageOf("Gone") = "gone"
BY DEF StageOf

\* A phase is as its stage says.
LEMMA StageType ==
    ASSUME NEW ph \in Phase
    PROVE  /\ StageOf(ph) \in R!Stage
           /\ StageOf(ph) = "deployed" => ph = "Deployed"
           /\ ph \notin {"Failed", "Gone"} => StageOf(ph) \notin {"failed", "gone"}
           /\ ph # "Gone" => StageOf(ph) # "gone"
BY StageValues DEF Phase, R!Stage

\* A step that leaves phases and nodes as they are, and the validated images, is
\* none of Rollout's.
LEMMA StutterStep ==
    ASSUME \A d \in Deployment : /\ StageOf(dep'[d].phase) = StageOf(dep[d].phase)
                                 /\ dep'[d].bound = dep[d].bound,
           Images' = Images
    PROVE  UNCHANGED R!rolloutVars
<1>1. Stages' = Stages /\ Places' = Places
  BY DEF Stages, Places
<1> QED BY <1>1 DEF R!rolloutVars, Stages, Places, Images

\* What a device does by itself is Run, or nothing that Rollout sees: a device
\* that runs the image of a Deployed object goes on running it.
LEMMA DeviceRefines ==
    ASSUME TypeOK, World, NEW n \in Node, DeviceMoves(n), UNCHANGED <<dep, node>>
    PROVE  [R!RolloutNext]_R!rolloutVars
<1>1. PICK y \in Device : dev' = [dev EXCEPT ![n] = y]
  BY DEF DeviceMoves
<1>2. \A m \in Node : dev'[m] = IF m = n THEN y ELSE dev[m]
  BY <1>1 DEF TypeOK
<1> DEFINE i == IF y.validated THEN y.fw ELSE NoDeployment
<1>3. Images' = [Images EXCEPT ![n] = i]
  BY <1>2 DEF Images
<1>4. i \in Deployment \cup {NoDeployment}
  BY DEF Device, OptDeployment
<1>5. Stages' = Stages /\ Places' = Places
  BY DEF Stages, Places
<1>6. CASE \E d \in Deployment : dep[d].bound = n /\ dep[d].phase = "Deployed"
  <2>1. PICK d \in Deployment : dep[d].bound = n /\ dep[d].phase = "Deployed"
    BY <1>6
  <2>2. Runs(d)
    BY <2>1 DEF World, DeployedRuns, Runs
  <2>3. Runs(d)'
    BY <2>1, <2>2, RunsOn DEF PreparedPhase
  <2>4. dev[n].validated /\ dev[n].fw = d /\ dev'[n].validated /\ dev'[n].fw = d
    BY <2>1, <2>2, <2>3 DEF Runs
  <2>5. Images[n] = d /\ i = d
    BY <1>2, <2>4 DEF Images
  <2>6. Images' = Images
    BY <1>3, <2>5 DEF Images
  <2> QED BY <1>5, <2>6 DEF R!rolloutVars, Stages, Places, Images
<1>7. CASE ~\E d \in Deployment : dep[d].bound = n /\ dep[d].phase = "Deployed"
  <2>1. \A e \in Deployment : Places[e] = n => Stages[e] # "deployed"
    BY <1>7, StageType DEF Places, Stages, TypeOK, Dep
  <2>2. R!Run(n, i)
    BY <1>3, <1>5, <2>1 DEF R!Run, Stages, Places, Images
  <2> QED BY <1>4, <2>2 DEF R!RolloutNext
<1> QED BY <1>6, <1>7

\* A status patch is the step of Rollout that its phases name; a patch to
\* Pulling is a claim, and nobody holds the node.
LEMMA PatchRefines ==
    ASSUME TypeOK, World, NEW d \in Deployment, NEW m \in Dep,
           Alive(d), Advances(d, m), UNCHANGED <<dev, node>>,
           dep' = [dep EXCEPT ![d] = m],
           m.phase = "Pulling" =>
              /\ Sole(d, m.bound)
              /\ \A e \in Deployment : ~Alive(e) => dep[e].bound = NoNode
    PROVE  [R!RolloutNext]_R!rolloutVars
<1>1. /\ Stages' = [Stages EXCEPT ![d] = StageOf(m.phase)]
      /\ Places' = [Places EXCEPT ![d] = m.bound]
      /\ Images' = Images
  BY DEF Stages, Places, Images, TypeOK
<1>2. /\ dep[d].phase \in Phase /\ m.phase \in Phase
      /\ Stages[d] = StageOf(dep[d].phase) /\ Places[d] = dep[d].bound
  BY DEF TypeOK, Dep, Stages, Places
<1>3. m.phase # "Pulling" => Places' = Places
  BY <1>1, <1>2 DEF Advances, Places
<1>4. CASE m.phase = "Pulling"
  <2> DEFINE n == m.bound
  <2>1. dep[d].phase = "" /\ n \in Node
    BY <1>4 DEF Advances, Follows
  <2>2. ASSUME NEW e \in Deployment
        PROVE  ~R!Holds(e, n)
    <3>1. CASE e = d
      BY <2>1, <3>1, NoNodeAssumption DEF R!Holds, World
    <3>2. CASE e # d /\ dep[e].bound = n
      <4>1. dep[e].phase = "Failed" \/ dep[e].phase = "Gone"
        BY <1>4, <3>2 DEF Sole
      <4> QED BY <4>1, StageValues DEF R!Holds
    <3>3. CASE dep[e].bound # n
      BY <3>3 DEF R!Holds
    <3> QED BY <3>1, <3>2, <3>3
  <2>3. Stages[d] = "pending" /\ Stages' = [Stages EXCEPT ![d] = "claimed"]
    BY <1>1, <1>2, <1>4, <2>1, StageValues
  <2>4. R!Claim(d, n)
    BY <1>1, <2>2, <2>3 DEF R!Claim, R!Moves, Stages, Places, Images
  <2> QED BY <2>1, <2>4 DEF R!RolloutNext
<1>5. CASE \/ dep[d].phase = "Pulling" /\ m.phase = "Preparing"
           \/ dep[d].phase = "Preparing" /\ m.phase = "Writing"
           \/ dep[d].phase = "Writing" /\ m.phase = "Activating"
           \/ dep[d].phase = "Deployed" /\ m.phase = "Deployed"
  <2>1. StageOf(m.phase) = StageOf(dep[d].phase)
    BY <1>5, StageValues
  <2>2. Stages' = Stages /\ Places' = Places
    BY <1>1, <1>2, <1>3, <1>5, <2>1 DEF Stages
  <2> QED BY <1>1, <2>2 DEF R!rolloutVars, Stages, Places, Images
<1>6. CASE dep[d].phase = "Activating" /\ m.phase = "Confirming"
  <2>1. Stages[d] = "claimed" /\ Stages' = [Stages EXCEPT ![d] = "confirming"]
    BY <1>1, <1>2, <1>6, StageValues
  <2>2. R!Await(d)
    BY <1>1, <1>3, <1>6, <2>1 DEF R!Await, R!Moves, Stages, Places, Images
  <2> QED BY <2>2 DEF R!RolloutNext
<1>7. CASE dep[d].phase = "Confirming" /\ m.phase = "Deployed"
  <2>1. Stages[d] = "confirming" /\ Stages' = [Stages EXCEPT ![d] = "deployed"]
    BY <1>1, <1>2, <1>7, StageValues
  <2>2. Places[d] \in Node /\ Images[Places[d]] = d
    BY <1>2, <1>7 DEF Advances, Runs, Images
  <2>3. R!Deploy(d)
    BY <1>1, <1>3, <1>7, <2>1, <2>2 DEF R!Deploy, R!Moves, Stages, Places, Images
  <2> QED BY <2>3 DEF R!RolloutNext
<1>8. CASE dep[d].phase \notin {"Failed", "Gone"} /\ m.phase = "Failed"
  <2>1. /\ Stages[d] \in R!Stage \ {"failed", "gone"}
        /\ Stages' = [Stages EXCEPT ![d] = "failed"]
    BY <1>1, <1>2, <1>8, StageValues, StageType
  <2>2. R!Fail(d)
    BY <1>1, <1>3, <1>8, <2>1 DEF R!Fail, R!Moves, Stages, Places, Images
  <2> QED BY <2>2 DEF R!RolloutNext
<1> QED BY <1>4, <1>5, <1>6, <1>7, <1>8 DEF Advances, Follows

\* Every step is a step of Rollout, or one it does not see.
LEMMA RolloutStep ==
    ASSUME ~CacheLag, TypeOK, ExclusiveInv, DeployedInv, [Next]_vars
    PROVE  [R!RolloutNext]_R!rolloutVars
<1>0. World /\ NodeExclusive
  BY DEF DeployedInv, ExclusiveInv
<1>1. CASE UNCHANGED <<dep, dev>>
  BY <1>1, StutterStep DEF Images
<1>2. ASSUME NEW d \in Deployment, DeleteDeployment(d)
      PROVE  [R!RolloutNext]_R!rolloutVars
  <2>1. DeletedDep.phase = "Gone" /\ DeletedDep.bound = NoNode
    BY DEF DeletedDep, NewDep
  <2>2. dep[d].phase \in Phase \ {"Gone"} /\ dep' = [dep EXCEPT ![d] = DeletedDep]
    BY <1>2 DEF DeleteDeployment, TypeOK, Dep
  <2>3. /\ Stages' = [Stages EXCEPT ![d] = "gone"]
        /\ Places' = [Places EXCEPT ![d] = NoNode]
        /\ Images' = Images
    BY <1>2, <2>1, <2>2, StageValues DEF DeleteDeployment, Stages, Places, Images, TypeOK
  <2>4. Stages[d] \in R!Stage \ {"gone"}
    BY <2>2, StageType DEF Stages
  <2>5. R!Delete(d)
    BY <2>3, <2>4 DEF R!Delete, R!Moves, Stages, Places, Images
  <2> QED BY <2>5 DEF R!RolloutNext
<1>3. ASSUME NEW n \in Node, DeviceActs(n)
      PROVE  [R!RolloutNext]_R!rolloutVars
  BY <1>0, <1>3, DeviceLives, DeviceRefines
<1>4. ASSUME NEW n \in Node, NodeStep(n) \/ DeleteNode(n) \/ CreateNode(n)
      PROVE  [R!RolloutNext]_R!rolloutVars
  BY <1>1, <1>4, NodeWrites
\* The calls of a reconcile change the inactive slot only.
<1>5. ASSUME NEW c \in Controller, NEW d \in Deployment, Reconcile(c, d)
      PROVE  [R!RolloutNext]_R!rolloutVars
  <2>1. UNCHANGED dep
    BY <1>5, ReconcileShape
  <2>2. Images' = Images
    <3>1. ASSUME dep[d].bound \in Node,
                 NEW y \in Device, dev' = [dev EXCEPT ![dep[d].bound] = y],
                 Calls(d, dev[dep[d].bound], y)
          PROVE  Images' = Images
      <4>1. \A n \in Node : /\ dev'[n].validated = dev[n].validated
                            /\ dev'[n].fw = dev[n].fw
        BY <3>1 DEF Calls, TypeOK
      <4> QED BY <4>1 DEF Images
    <3>2. CASE UNCHANGED dev
      BY <3>2 DEF Images
    <3> QED BY <1>5, <3>1, <3>2, ReconcileCalls
  <2> QED BY <2>1, <2>2, StutterStep
<1>6. ASSUME NEW c \in Controller, Annotate(c)
      PROVE  [R!RolloutNext]_R!rolloutVars
  <2>1. Images' = Images
    BY <1>6 DEF Annotate, Images
  <2> QED BY <1>0, <1>6, <2>1, AnnotateWorld, StutterStep
<1>7. ASSUME NEW c \in Controller, Commit(c)
      PROVE  [R!RolloutNext]_R!rolloutVars
  <2> DEFINE d == rec[c].dep
             m == MergeStatus(dep[d], rec[c].base, rec[c].want)
  <2>1. /\ d \in Deployment /\ Alive(d) /\ m \in Dep
        /\ dep' = [dep EXCEPT ![d] = m] /\ UNCHANGED <<dev, node>>
        /\ m.phase = rec[c].want.phase /\ Advances(d, m)
    BY <1>7, CommitAdvances
  <2>2. Owns(rec[c]) /\ \A e \in Deployment : ~Alive(e) => dep[e].bound = NoNode
    BY <1>7 DEF Commit, ExclusiveInv
  <2>3. m.phase = "Pulling" => Sole(d, m.bound)
    <3>1. rec[c].base = dep[d] /\ dep[d] \in Dep
      BY <2>1, <2>2 DEF Owns, TypeOK
    <3>2. m.bound = rec[c].want.bound
      BY <3>1 DEF MergeStatus, Patched, Dep
    <3> HIDE DEF m
    <3> QED BY <2>1, <2>2, <3>2 DEF Owns, Advances
  <2> HIDE DEF m, d
  <2> QED BY <1>0, <2>1, <2>2, <2>3, PatchRefines
<1>8. ASSUME NEW c \in Controller, ReconcileConfigOnly(c)
      PROVE  [R!RolloutNext]_R!rolloutVars
  <2>1. UNCHANGED dep
    BY <1>8 DEF ReconcileConfigOnly
  <2>2. CASE ~UNCHANGED dev
    <3> DEFINE n == rec[c].base.bound
    <3>1. n \in Node /\ dev' = [dev EXCEPT ![n] = Rebooted(dev[n])]
      BY <1>8, <2>2 DEF ReconcileConfigOnly, Answers, HasClient
    <3>2. \A k \in Node : dev'[k].validated = dev[k].validated /\ dev'[k].fw = dev[k].fw
      BY <3>1 DEF Rebooted, TypeOK, Device
    <3>3. Images' = Images
      BY <3>2 DEF Images
    <3> QED BY <2>1, <3>3, StutterStep
  <2> QED BY <1>1, <2>1, <2>2
<1>9. ASSUME NEW c \in Controller, PatchFails(c) \/ Crash(c)
      PROVE  [R!RolloutNext]_R!rolloutVars
  BY <1>1, <1>9 DEF PatchFails, Crash
<1> QED BY <1>1, <1>2, <1>3, <1>4, <1>5, <1>6, <1>7, <1>8, <1>9, StepKinds

\* The controller implements Rollout: with a current cache and one controller,
\* whatever the calls, the patches, the devices and the operator do, each step is
\* a claim of a free node, a wait, a deployment of what runs, a failure, a
\* deletion, a change of image on a device that owes it to nobody, or nothing.
THEOREM ControllerImplementsRollout ==
    ASSUME ~CacheLag, \A c, k \in Controller : c = k
    PROVE  Spec => ImplementsRollout
<1>1. Init => R!RolloutInit
  <2> SUFFICES ASSUME Init PROVE R!RolloutInit
    OBVIOUS
  <2>1. \A d \in Deployment : dep[d].phase = "" /\ dep[d].bound = NoNode
    BY DEF Init, NewDep
  <2>2. \A n \in Node : dev[n].fw = NoDeployment
    BY DEF Init, Factory
  <2> QED BY <2>1, <2>2, StageValues DEF R!RolloutInit
<1>2. TypeOK /\ ExclusiveInv /\ [Next]_vars => ExclusiveInv'
  BY ExclusiveStep
<1>3. TypeOK /\ ExclusiveInv /\ DeployedInv /\ [Next]_vars => DeployedInv'
  BY DeployedStep
<1>4. TypeOK /\ ExclusiveInv /\ DeployedInv /\ [Next]_vars
         => [R!RolloutNext]_R!rolloutVars
  BY RolloutStep
<1> QED BY <1>1, <1>2, <1>3, <1>4, TypeCorrect, DeployedInit, PTL
        DEF Spec, ImplementsRollout, R!RolloutSpec
=============================================================================
