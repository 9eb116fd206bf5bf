-------------------------- MODULE ActivationProofs --------------------------
(***************************************************************************)
(* What a device is told to boot, when one controller works on copies that *)
(* may be behind: theorems about McuDeployment for any sets of             *)
(* deployments, nodes and images.  Two controllers at once do not have     *)
(* these properties: a late patch of one takes an object back.             *)
(* Last, that no event is lost, for one controller on such copies and for  *)
(* any number of controllers on copies that are current.                   *)
(***************************************************************************)
EXTENDS McuDeploymentProofs

USE DEF OptDeployment, OptImage, OptNode

(***************************************************************************)
(* How far a copy is behind                                                *)
(***************************************************************************)
\* The phases whose object has its node and its digest for good.
Late == {"Writing", "Activating", "Confirming", "Deployed"}

\* The phase of an object that no reconcile has patched.
Fresh == ""

\* Phase q comes right after phase p when nothing fails.
Precedes(p, q) ==
    \/ p = Fresh        /\ q = "Pulling"
    \/ p = "Pulling"    /\ q = "Preparing"
    \/ p = "Preparing"  /\ q = "Writing"
    \/ p = "Writing"    /\ q = "Activating"
    \/ p = "Activating" /\ q = "Confirming"
    \/ p = "Confirming" /\ q = "Deployed"

\* The phase of an object that was read in phase p, after the patch.
PatchedTo(p) == {q \in Phase : q = p \/ q = "Failed" \/ Precedes(p, q)}

\* The phases the stored object may be in when a copy shows p: a copy that shows
\* Failed may be followed by the patch of a reconcile that read before it.
Ahead(p) == IF p \in {"Failed", "Gone"} THEN Phase ELSE PatchedTo(p)

\* The phase a reconcile in progress started from; Annotate reads again.
Origin(r) == IF r.want.phase = "Confirming" THEN "Activating" ELSE r.base.phase

\* What the copy o of the object s may be used for.
Agrees(o, s) ==
    /\ o.phase \in Late \cup {"Preparing"} => o.bound = s.bound
    /\ o.phase \in Late => o.digest = s.digest

Behind(o, s) == s.phase \in Ahead(o.phase) /\ Agrees(o, s)

\* A reconcile r of the object s, while the cache shows o.
Pending(r, o, s) ==
    /\ s.phase \in Ahead(Origin(r))
    /\ o.phase \in Ahead(Origin(r))
    /\ r.want.phase \in PatchedTo(Origin(r))
    /\ r.want.bound # r.base.bound => Origin(r) = Fresh
    /\ r.want.digest # r.base.digest => Origin(r) = "Pulling"
    /\ Agrees(r.base, s)
    /\ r.pc = "annotate" => r.want.phase = "Confirming" /\ r.base.phase = "Activating"
    /\ r.pc = "config" => r.want = r.base /\ r.base.phase \in {"Deployed", "Failed"}

\* The slot of n holds the image of d: d has passed Preparing, wherever one looks.
Holds(n, d) == dev[n].staged.id = d

Passed(c, d) ==
    /\ dep[d].phase \in Late \cup {"Failed"}
    /\ Seen(c, d).phase \in Late \cup {"Failed"}
    /\ InHand(c, d) => Origin(rec[c]) \in Late \cup {"Failed"}

SlotMatches(n, d) == dep[d].bound = n /\ dep[d].digest = dev[n].staged.digest

\* ActivatedAsResolved speaks of a call that is made from a copy.  The copy is at
\* most one patch behind, and so is what a reconcile in progress has read; the
\* node and the digest change in the first phases only, when no image of the
\* deployment is on a device yet.
ActivationInv ==
    \A c \in Controller, d \in Deployment : Alive(d) =>
        /\ Behind(Seen(c, d), dep[d])
        /\ InHand(c, d) => Pending(rec[c], Seen(c, d), dep[d])
        /\ \A n \in Node : Holds(n, d) => Passed(c, d) /\ SlotMatches(n, d)

\* A copy is never two phases behind the object it was taken from.
OnePatchBehind ==
    \A c \in Controller, d \in Deployment :
        Alive(d) => dep[d].phase \in Ahead(Seen(c, d).phase)

\* The slots hold what the objects say: SlotMatches, of every object that is left.
SlotsResolved ==
    \A n \in Node, d \in Deployment :
        dev[n].staged.id = d /\ dep[d].phase # "Gone" => SlotMatches(n, d)

\* Phases follow one another; only out of Failed a patch may lead anywhere.
OneStepForward ==
    [][\A d \in Deployment :
         \/ dep'[d].phase \in {dep[d].phase, "Failed", "Gone"}
         \/ Precedes(dep[d].phase, dep'[d].phase)
         \/ dep[d].phase = "Failed"]_vars

\* Passed, of the copies only, whether or not the object is left.
CopiesPassed ==
    \A c \in Controller, d \in Deployment, n \in Node :
        Holds(n, d) => Seen(c, d).phase \in Late \cup {"Failed", "Gone"}

\* phasePreparing never finds the image of its deployment on the device.
NothingToResume == [][\A c \in Controller, d \in Deployment : ~PreparingResumes(c, d)]_vars

(***************************************************************************)
(* Lemmas about copies and patches                                         *)
(***************************************************************************)
\* The fields of a merge patch that matter here.
LEMMA MergeFields ==
    ASSUME NEW s \in Dep, NEW base \in Dep, NEW want \in Dep
    PROVE  LET m == MergeStatus(s, base, want) IN
           /\ m \in Dep
           /\ m.phase = IF want.phase # base.phase THEN want.phase ELSE s.phase
           /\ m.bound = IF want.bound # base.bound THEN want.bound ELSE s.bound
           /\ m.digest = IF want.digest # base.digest THEN want.digest ELSE s.digest
<1>1. MergeStatus(s, base, want) \in Dep
  BY MergeType
<1> QED BY <1>1 DEF MergeStatus, Patched, Dep

\* Fresh is a phase of its own.
LEMMA FreshIsFresh ==
    /\ Fresh \in Phase
    /\ Fresh # "Pulling" /\ Fresh # "Preparing" /\ Fresh # "Writing" /\ Fresh # "Activating"
    /\ Fresh # "Confirming" /\ Fresh # "Deployed" /\ Fresh # "Failed" /\ Fresh # "Gone"
BY DEF Fresh, Phase

\* One phase comes after another.
LEMMA OnePrecedes ==
    ASSUME NEW p, NEW q, NEW w, Precedes(p, q), Precedes(p, w)
    PROVE  q = w
BY FreshIsFresh DEF Precedes

\* A patch is not behind what another read of the same copy, or of one after it,
\* may lead to.
LEMMA PatchedAhead ==
    ASSUME NEW p \in Phase, NEW q \in Ahead(p), NEW w \in PatchedTo(p), w # p
    PROVE  w \in Ahead(q) /\ w # "Gone"
<1>1. q \in Phase /\ w \in Phase /\ (w = "Failed" \/ Precedes(p, w))
  BY DEF Ahead, PatchedTo
<1>2. w # "Gone"
  BY <1>1 DEF Precedes
<1>3. CASE w = "Failed" \/ q = w \/ q \in {"Failed", "Gone"}
  BY <1>1, <1>2, <1>3 DEF Ahead, PatchedTo
<1>4. CASE q = p
  BY <1>1, <1>2, <1>4 DEF Ahead
<1>5. CASE Precedes(p, w) /\ q # p /\ q \notin {"Failed", "Gone"}
  <2>1. p \notin {"Failed", "Gone"}
    BY <1>5, FreshIsFresh DEF Precedes
  <2>2. Precedes(p, q)
    BY <1>5, <2>1 DEF Ahead, PatchedTo
  <2> QED BY <1>3, <1>5, <2>2, OnePrecedes
<1> QED BY <1>1, <1>3, <1>4, <1>5

\* Every phase is ahead of itself.
LEMMA AheadOfItself ==
    ASSUME NEW p \in Phase \ {"Gone"}
    PROVE  /\ p \in Ahead(p) /\ "Failed" \in Ahead(p) /\ "Failed" \in PatchedTo(p)
           /\ p # "Gone" /\ p # "Failed" => p \in PatchedTo(p)
BY DEF Phase, Ahead, PatchedTo, Precedes

\* A status patch lands on an object its copies are at most one patch behind of,
\* and leaves it so.
LEMMA PatchKeepsBehind ==
    ASSUME NEW o \in Dep, NEW s \in Dep, NEW r \in Working, s.phase # "Gone",
           Behind(o, s), Pending(r, o, s)
    PROVE  LET m == MergeStatus(s, r.base, r.want) IN
           /\ m \in Dep /\ m.phase # "Gone"
           /\ Behind(o, m)
           /\ Origin(r) \in Late \cup {"Failed"} =>
                /\ m.bound = s.bound /\ m.digest = s.digest
                /\ s.phase \in Late \cup {"Failed"} => m.phase \in Late \cup {"Failed"}
<1> DEFINE m == MergeStatus(s, r.base, r.want)
<1>1. r.base \in Dep /\ r.want \in Dep
  BY DEF Working
<1>2. /\ m \in Dep
      /\ m.phase = IF r.want.phase # r.base.phase THEN r.want.phase ELSE s.phase
      /\ m.bound = IF r.want.bound # r.base.bound THEN r.want.bound ELSE s.bound
      /\ m.digest = IF r.want.digest # r.base.digest THEN r.want.digest ELSE s.digest
  BY <1>1, MergeFields
<1> HIDE DEF m
<1>3. Origin(r) \in Phase /\ o.phase \in Phase /\ s.phase \in Phase
  BY <1>1 DEF Origin, Dep, Phase
<1>4. /\ m.phase \in Ahead(o.phase) /\ m.phase # "Gone"
      /\ Origin(r) \in Late \cup {"Failed"} /\ s.phase \in Late \cup {"Failed"}
           => m.phase \in Late \cup {"Failed"}
  <2>1. CASE r.want.phase # r.base.phase
    <3>1. r.want.phase # Origin(r)
      BY <2>1 DEF Origin
    <3>2. m.phase \in Ahead(o.phase) /\ m.phase # "Gone"
      BY <1>2, <1>3, <2>1, <3>1, PatchedAhead DEF Pending
    <3>3. Origin(r) \in Late \cup {"Failed"} => m.phase \in Late \cup {"Failed"}
      BY <1>2, <2>1, FreshIsFresh DEF Pending, PatchedTo, Precedes, Late
    <3> QED BY <3>2, <3>3
  <2>2. CASE r.want.phase = r.base.phase
    BY <1>2, <2>2 DEF Behind
  <2> QED BY <2>1, <2>2
<1>5. Agrees(o, m)
  <2>1. CASE r.want.bound # r.base.bound
    <3>1. o.phase \notin Late \cup {"Preparing"}
      BY <2>1, FreshIsFresh DEF Pending, Ahead, PatchedTo, Precedes, Late
    <3> QED BY <3>1 DEF Agrees
  <2>2. CASE r.want.bound = r.base.bound /\ r.want.digest # r.base.digest
    <3>1. o.phase \notin Late
      BY <2>2, FreshIsFresh DEF Pending, Ahead, PatchedTo, Precedes, Late
    <3> QED BY <1>2, <2>2, <3>1 DEF Agrees, Behind
  <2>3. CASE r.want.bound = r.base.bound /\ r.want.digest = r.base.digest
    BY <1>2, <2>3 DEF Agrees, Behind
  <2> QED BY <2>1, <2>2, <2>3
<1>6. Origin(r) \in Late \cup {"Failed"} => m.bound = s.bound /\ m.digest = s.digest
  BY <1>2, FreshIsFresh DEF Pending, Late
<1> QED BY <1>2, <1>4, <1>5, <1>6 DEF Behind, m

(***************************************************************************)
(* Reading                                                                 *)
(***************************************************************************)
\* What a reconcile that reads o wants: a phase one step ahead, the node and the
\* digest as they are but in the phases that decide them.
Moves(o, want) ==
    /\ want.phase \in PatchedTo(o.phase)
    /\ want.phase = "Confirming" => o.phase = "Activating"
    /\ want.bound # o.bound => o.phase = Fresh
    /\ want.digest # o.digest => o.phase = "Pulling"

\* A reconcile that reads a copy moves on from it; PreparingResumes is out of
\* reach while no slot holds the image.
LEMMA ReconcileMoves ==
    ASSUME TypeOK, NEW c \in Controller, NEW d \in Deployment, Reconcile(c, d),
           Seen(c, d).phase = "Preparing" => \A n \in Node : ~Holds(n, d)
    PROVE  \/ UNCHANGED rec
           \/ \E want \in Dep : WillWrite(c, d, want) /\ Moves(Seen(c, d), want)
<1> DEFINE o == Seen(c, d)
<1>1. o \in Dep
  BY SeenType
<1> HIDE DEF o
<1>2. o.phase \in Phase /\ o.bound \in OptNode
  BY <1>1 DEF Dep
<1>3. ASSUME NEW r \in Reason, WillFail(c, d, r)
      PROVE  \E want \in Dep : WillWrite(c, d, want) /\ Moves(o, want)
  <2> DEFINE want == FailedWith(o, r)
  <2>1. /\ want \in Dep /\ want.phase = "Failed"
        /\ want.bound = o.bound /\ want.digest = o.digest
    BY <1>1, WantFields
  <2>2. WillWrite(c, d, want)
    BY <1>3 DEF WillFail, o
  <2> HIDE DEF want
  <2>3. "Failed" \in PatchedTo(o.phase)
    BY DEF PatchedTo, Phase
  <2> QED BY <2>1, <2>2, <2>3 DEF Moves
<1>4. ASSUME NEW ph \in Phase, NEW n \in OptNode, WillSetPhase(c, d, ph, n),
             Precedes(o.phase, ph) \/ ph = o.phase,
             ph = "Confirming" => o.phase = "Activating",
             n # o.bound => o.phase = Fresh
      PROVE  \E want \in Dep : WillWrite(c, d, want) /\ Moves(o, want)
  <2> DEFINE want == InPhase(o, ph, n)
  <2>1. /\ want \in Dep /\ want.phase = ph
        /\ want.bound = n /\ want.digest = o.digest
    BY <1>1, WantFields
  <2>2. WillWrite(c, d, want)
    BY <1>4 DEF WillSetPhase, o
  <2> HIDE DEF want
  <2>3. ph \in PatchedTo(o.phase)
    BY <1>4 DEF PatchedTo
  <2> QED BY <1>4, <2>1, <2>2, <2>3 DEF Moves
<1>5. CASE ReconcileBinding(c, d)
  <2>1. o.phase = Fresh
    BY <1>5 DEF ReconcileBinding, Takes, Fresh, o
  <2>2. \/ \E r \in Reason : WillFail(c, d, r)
        \/ \E n \in Candidates(d) : WillSetPhase(c, d, "Pulling", n)
    BY <1>5 DEF ReconcileBinding, Reason
  <2>3. Candidates(d) \subseteq OptNode /\ "Pulling" \in Phase
    BY MatchesAssumption DEF Candidates, Phase
  <2>4. Precedes(Fresh, "Pulling") /\ "Pulling" # "Confirming"
    BY DEF Precedes
  <2> QED BY <1>3, <1>4, <2>1, <2>2, <2>3, <2>4 DEF o
<1>6. CASE ReconcilePulling(c, d)
  <2> DEFINE p == [o EXCEPT !.phase = "Preparing", !.digest = image[d]]
             want == WithConditions(p, "Preparing")
  <2>1. image[d] \in Image /\ o.phase = "Pulling"
    BY <1>6 DEF ReconcilePulling, Takes, TypeOK, o
  <2>2. p \in Dep /\ "Preparing" \in Phase
    BY <1>1, <2>1 DEF Dep, Phase
  <2>3. want.phase = "Preparing" /\ want.bound = o.bound
    BY <1>1 DEF WithConditions, Dep
  <2>4. want \in Dep
    BY <2>2, WithConditionsType
  <2>5. WillWrite(c, d, want)
    BY <1>6 DEF ReconcilePulling, o
  <2> HIDE DEF want
  <2>6. Moves(o, want)
    BY <2>1, <2>2, <2>3 DEF Moves, PatchedTo, Precedes
  <2> QED BY <2>4, <2>5, <2>6 DEF o
<1>7. CASE PermanentError(c, d)
  BY <1>3, <1>7 DEF PermanentError, Reason, o
<1>8. CASE PreparingResumes(c, d)
  <2>1. o.phase = "Preparing" /\ o.bound \in Node
    BY <1>8 DEF PreparingResumes, Takes, Answers, HasClient, o
  <2>2. dev[o.bound].staged.id = d
    BY <1>8 DEF PreparingResumes, IsActivating, IsWritten, o
  <2> QED BY <2>1, <2>2 DEF Holds, o
<1>9. CASE PreparingCallsPrepare(c, d)
  <2>1. o.phase = "Preparing"
    BY <1>9 DEF PreparingCallsPrepare, Takes, o
  <2>2. \/ UNCHANGED rec
        \/ WillFail(c, d, "PrepareRefused") \/ WillSetPhase(c, d, "Writing", o.bound)
    BY <1>9 DEF PreparingCallsPrepare, o
  <2>3. "PrepareRefused" \in Reason /\ "Writing" \in Phase
    BY DEF Reason, Phase
  <2> QED BY <1>2, <1>3, <1>4, <2>1, <2>2, <2>3 DEF Precedes, o
<1>10. CASE ReconcileWriting(c, d)
  <2>1. o.phase = "Writing"
    BY <1>10 DEF ReconcileWriting, Takes, o
  <2>2. UNCHANGED rec \/ WillSetPhase(c, d, "Activating", o.bound)
    BY <1>10 DEF ReconcileWriting, o
  <2>3. "Activating" \in Phase
    BY DEF Phase
  <2> QED BY <1>2, <1>4, <2>1, <2>2, <2>3 DEF Precedes, o
<1>11. CASE ActivatingSkips(c, d) \/ ActivatingCallsActivate(c, d)
  <2>1. o.phase = "Activating"
    BY <1>11 DEF ActivatingSkips, ActivatingCallsActivate, Takes, o
  <2>2. UNCHANGED rec \/ WillSetPhase(c, d, "Confirming", o.bound)
    BY <1>11 DEF ActivatingSkips, ActivatingCallsActivate, o
  <2>3. "Confirming" \in Phase
    BY DEF Phase
  <2> QED BY <1>2, <1>4, <2>1, <2>2, <2>3 DEF Precedes, o
<1>12. CASE ReconcileConfirming(c, d)
  <2>1. o.phase = "Confirming"
    BY <1>12 DEF ReconcileConfirming, Takes, o
  <2>2. \/ \E r \in Reason : WillFail(c, d, r)
        \/ WillSetPhase(c, d, "Deployed", o.bound)
    BY <1>12 DEF ReconcileConfirming, Reason, o
  <2>3. "Deployed" \in Phase
    BY DEF Phase
  <2> QED BY <1>2, <1>3, <1>4, <2>1, <2>2, <2>3 DEF Precedes, o
<1>13. CASE ReconcileDeployed(c, d)
  <2>1. PICK a \in {"True", "False"} : WillWrite(c, d, [o EXCEPT !.available = a])
    BY <1>13 DEF ReconcileDeployed, o
  <2> DEFINE want == [o EXCEPT !.available = a]
  <2>2. /\ want.phase = o.phase /\ want.bound = o.bound /\ want.digest = o.digest
        /\ want \in Dep /\ o.phase = "Deployed"
    BY <1>1, <1>13 DEF Dep, CondStatus, ReconcileDeployed, Takes, o
  <2> HIDE DEF want
  <2>3. Moves(o, want)
    BY <1>2, <2>2 DEF Moves, PatchedTo
  <2> QED BY <2>1, <2>2, <2>3 DEF want, o
<1>14. CASE ReconcileDrops(c, d)
  BY <1>14 DEF ReconcileDrops
<1> QED BY <1>5, <1>6, <1>7, <1>8, <1>9, <1>10, <1>11, <1>12, <1>13, <1>14 DEF Reconcile, o

(***************************************************************************)
(* Who changes what                                                        *)
(***************************************************************************)
\* What a controller reads stays as it is or becomes the object as it is.
LEMMA SeenWriters ==
    ASSUME TypeOK, [Next]_vars, NEW c \in Controller, NEW d \in Deployment
    PROVE  Seen(c, d)' = Seen(c, d) \/ Seen(c, d)' = dep'[d]
<1>1. CASE CacheLag
  BY <1>1, CacheWriters DEF Seen
<1>2. CASE ~CacheLag
  BY <1>2 DEF Seen
<1> QED BY <1>1, <1>2

\* The inactive slot keeps its image, is emptied, is written by the reconcile that
\* reads Writing, or is activated by the one that reads Activating.
SlotWritten(n, c, d) ==
    /\ rec[c].pc = "idle" /\ Seen(c, d).phase = "Writing" /\ Seen(c, d).bound = n
    /\ Seen(c, d)' = Seen(c, d) /\ dep' = dep
    /\ dev'[n].staged = [state |-> "written", id |-> d, digest |-> Seen(c, d).digest]

SlotActivated(n, c, d) ==
    /\ Seen(c, d).phase = "Activating" /\ Seen(c, d).bound = n
    /\ dev[n].staged.id = d
    /\ dev'[n].staged = [dev[n].staged EXCEPT !.state = "activating"]

\* What the calls of a reconcile leave in the slot of a node.
LEMMA CallSlot ==
    ASSUME TypeOK, NEW c \in Controller, NEW d \in Deployment, Reconcile(c, d),
           NEW n \in Node
    PROVE  \/ dev'[n].staged = dev[n].staged
           \/ dev'[n].staged = EmptySlot
           \/ SlotWritten(n, c, d)
           \/ SlotActivated(n, c, d)
<1> DEFINE m == Seen(c, d).bound
<1>1. UNCHANGED <<dep, cache>> /\ dev[n] \in Device
  BY ReconcileShape DEF TypeOK
<1>2. Seen(c, d)' = Seen(c, d)
  BY <1>1 DEF Seen
<1>3. Prepared(dev[n]).staged = EmptySlot
  BY <1>1 DEF Prepared, Device
<1>4. ASSUME dev' = [dev EXCEPT ![m] = Prepared(@)]
      PROVE  dev'[n].staged = dev[n].staged \/ dev'[n].staged = EmptySlot
  BY <1>3, <1>4 DEF TypeOK
<1>5. CASE PreparingCallsPrepare(c, d)
  BY <1>4, <1>5 DEF PreparingCallsPrepare
<1>6. CASE ReconcileWriting(c, d)
  <2>1. CASE dev' = [dev EXCEPT ![m] = Prepared(@)]
    BY <1>4, <2>1
  <2>2. CASE dev' = [dev EXCEPT ![m] = Written(@, d, Seen(c, d).digest)] /\ m = n
    <3>1. dev'[n] = Written(dev[n], d, Seen(c, d).digest)
      BY <2>2 DEF TypeOK
    <3>2. dev'[n].staged = [state |-> "written", id |-> d, digest |-> Seen(c, d).digest]
      BY <1>1, <3>1 DEF Written, Device
    <3> QED BY <1>1, <1>2, <1>6, <2>2, <3>2 DEF SlotWritten, ReconcileWriting, Takes
  <2>3. CASE dev' = [dev EXCEPT ![m] = Written(@, d, Seen(c, d).digest)] /\ m # n
    BY <2>3 DEF TypeOK
  <2> QED BY <1>6, <2>1, <2>2, <2>3 DEF ReconcileWriting
<1>7. CASE ActivatingCallsActivate(c, d)
  <2>1. CASE m = n
    <3>1. dev'[n] = Activated(dev[n]) /\ CanActivate(dev[n], d)
      BY <1>7, <2>1 DEF ActivatingCallsActivate, TypeOK
    <3>2. dev'[n].staged = [dev[n].staged EXCEPT !.state = "activating"]
      BY <1>1, <3>1 DEF Activated, Device
    <3> QED BY <1>7, <2>1, <3>1, <3>2 DEF SlotActivated, ActivatingCallsActivate,
            Takes, CanActivate
  <2>2. CASE m # n
    BY <1>7, <2>2 DEF ActivatingCallsActivate, TypeOK
  <2> QED BY <2>1, <2>2
<1>8. CASE UNCHANGED dev
  BY <1>8
<1> QED BY <1>5, <1>6, <1>7, <1>8 DEF Reconcile, ReconcileBinding, ReconcilePulling,
        PermanentError, PreparingResumes, ActivatingSkips, ReconcileConfirming,
        ReconcileDeployed, ReconcileDrops

\* What any step leaves in the slot of a node.
LEMMA SlotWriters ==
    ASSUME TypeOK, [Next]_vars, NEW n \in Node
    PROVE  \/ dev'[n].staged = dev[n].staged
           \/ dev'[n].staged = EmptySlot
           \/ \E c \in Controller, d \in Deployment :
                 SlotWritten(n, c, d) \/ SlotActivated(n, c, d)
<1>0. \A m \in Node : dev[m] \in Device
  BY DEF TypeOK
<1>1. CASE UNCHANGED dev
  BY <1>1
<1>2. CASE \E c \in Controller, d \in Deployment : Reconcile(c, d)
  BY <1>2, CallSlot
<1>3. CASE \E c \in Controller : ReconcileConfigOnly(c)
  <2>1. PICK m : dev' = dev \/ dev' = [dev EXCEPT ![m] = Rebooted(@)]
    BY <1>3 DEF ReconcileConfigOnly
  <2>2. dev'[n] = dev[n] \/ dev'[n] = Rebooted(dev[n])
    BY <2>1 DEF TypeOK
  <2> QED BY <1>0, <2>2 DEF Rebooted, Device
<1>4. CASE \E m \in Node : DeviceActs(m)
  <2>1. PICK m \in Node : DeviceActs(m)
    BY <1>4
  <2>2. PICK a : dev' = [dev EXCEPT ![m] = a] /\ a.staged \in {dev[m].staged, EmptySlot}
    <3>1. /\ Rebooted(dev[m]).staged = dev[m].staged
          /\ Started(dev[m]).staged = dev[m].staged
          /\ Validated(dev[m]).staged = dev[m].staged
          /\ [dev[m] EXCEPT !.state = "degraded"].staged = dev[m].staged
      BY <1>0 DEF Rebooted, Started, Validated, Device
    <3>2. Booted(dev[m]).staged \in {dev[m].staged, EmptySlot}
      BY <1>0 DEF Booted, Device
    <3> QED BY <2>1, <3>1, <3>2 DEF DeviceActs, DeviceReboots, DeviceBoots, SelfCheckPasses,
            MarksValid, Degrades, Recovers, DeviceStep
  <2> QED BY <2>2 DEF TypeOK
<1>5. \/ UNCHANGED dev
      \/ \E c \in Controller : \/ \E d \in Deployment : Reconcile(c, d)
                              \/ ReconcileConfigOnly(c)
      \/ \E m \in Node : DeviceActs(m)
  <2>1. CASE \E c \in Controller : ControllerActs(c)
    BY <2>1 DEF ControllerActs, SyncCache, Annotate, Commit, PatchFails, Crash
  <2>2. CASE \E d \in Deployment : ConfirmTimeoutElapses(d)
    BY <2>2 DEF ConfirmTimeoutElapses
  <2>3. CASE \E m \in Node : NodeStep(m)
    BY <2>3 DEF NodeStep, Heartbeat, HeartbeatExpires, ReconcileNode
  <2>4. CASE Operator
    BY <2>4 DEF Operator, DeleteDeployment, PatchImage, DeleteNode, CreateNode
  <2>5. CASE UNCHANGED vars
    BY <2>5 DEF vars
  <2> QED BY <2>1, <2>2, <2>3, <2>4, <2>5 DEF Next
<1> QED BY <1>1, <1>2, <1>3, <1>4, <1>5

(***************************************************************************)
(* The invariant, object by object                                         *)
(***************************************************************************)
\* An object that is left was there.
LEMMA AliveBefore ==
    ASSUME TypeOK, [Next]_vars, NEW d \in Deployment, Alive(d)'
    PROVE  Alive(d)
<1>1. CASE UNCHANGED dep
  BY <1>1 DEF Alive
<1>2. ASSUME NEW c \in Controller, Annotate(c) PROVE Alive(d)
  BY <1>2, AnnotateShape DEF Alive, TypeOK
<1>3. ASSUME NEW c \in Controller, Commit(c) PROVE Alive(d)
  BY <1>3 DEF Commit, Alive, TypeOK
<1>4. ASSUME NEW e \in Deployment, DeleteDeployment(e) PROVE Alive(d)
  BY <1>4 DEF DeleteDeployment, Alive, TypeOK
<1> QED BY <1>1, <1>2, <1>3, <1>4, ObjectWriters

\* The patch of the one controller lands on an object at most one phase ahead.
LEMMA CommitKeepsBehind ==
    ASSUME TypeOK, ActivationInv, NEW c \in Controller, Commit(c)
    PROVE  LET d == rec[c].dep
               m == MergeStatus(dep[d], rec[c].base, rec[c].want)
           IN  /\ d \in Deployment /\ rec[c] \in Working /\ Alive(d)
               /\ dep'[d] = m /\ \A e \in Deployment \ {d} : dep'[e] = dep[e]
               /\ Pending(rec[c], Seen(c, d), dep[d])
               /\ m \in Dep /\ Behind(Seen(c, d), m)
               /\ Origin(rec[c]) \in Late \cup {"Failed"} =>
                    /\ m.bound = dep[d].bound /\ m.digest = dep[d].digest
                    /\ dep[d].phase \in Late \cup {"Failed"} => m.phase \in Late \cup {"Failed"}
<1>1. rec[c] \in Working /\ Alive(rec[c].dep)
  BY WorkingType DEF Commit, Alive
<1>2. PICK d \in Deployment : d = rec[c].dep
  BY <1>1 DEF Working
<1>3. Behind(Seen(c, d), dep[d]) /\ Pending(rec[c], Seen(c, d), dep[d])
  BY <1>1, <1>2 DEF ActivationInv, InHand, Commit
<1>4. Seen(c, d) \in Dep /\ dep[d] \in Dep /\ dep[d].phase # "Gone"
  BY <1>1, <1>2, SeenType DEF TypeOK, Alive
<1> DEFINE m == MergeStatus(dep[d], rec[c].base, rec[c].want)
<1>5. /\ m \in Dep /\ Behind(Seen(c, d), m)
      /\ Origin(rec[c]) \in Late \cup {"Failed"} =>
           /\ m.bound = dep[d].bound /\ m.digest = dep[d].digest
           /\ dep[d].phase \in Late \cup {"Failed"} => m.phase \in Late \cup {"Failed"}
  BY <1>1, <1>3, <1>4, PatchKeepsBehind
<1>6. dep' = [dep EXCEPT ![d] = m]
  BY <1>2 DEF Commit
<1>7. dep'[d] = m /\ \A e \in Deployment \ {d} : dep'[e] = dep[e]
  BY <1>6 DEF TypeOK
<1> QED BY <1>1, <1>2, <1>3, <1>5, <1>7

\* What becomes of an object that is left, under one controller.
LEMMA ObjectMoves ==
    ASSUME \A c, k \in Controller : c = k, TypeOK, ActivationInv, [Next]_vars,
           NEW c \in Controller, NEW d \in Deployment, Alive(d)'
    PROVE  /\ Behind(Seen(c, d), dep'[d])
           /\ \A n \in Node : Holds(n, d) =>
                /\ dep'[d].phase \in Late \cup {"Failed"}
                /\ dep'[d].bound = dep[d].bound /\ dep'[d].digest = dep[d].digest
<1> DEFINE Kept == /\ dep'[d].phase = dep[d].phase
                   /\ dep'[d].bound = dep[d].bound /\ dep'[d].digest = dep[d].digest
<1>1. /\ Behind(Seen(c, d), dep[d])
      /\ \A n \in Node : Holds(n, d) => Passed(c, d)
  BY AliveBefore DEF ActivationInv
<1>2. CASE Kept
  BY <1>1, <1>2 DEF Behind, Agrees, Passed
<1>3. ASSUME NEW k \in Controller, Commit(k), rec[k].dep = d
      PROVE  /\ Behind(Seen(c, d), dep'[d])
             /\ \A n \in Node : Holds(n, d) =>
                  /\ dep'[d].phase \in Late \cup {"Failed"}
                  /\ dep'[d].bound = dep[d].bound /\ dep'[d].digest = dep[d].digest
  <2>1. k = c /\ InHand(c, d)
    BY <1>3 DEF Commit, InHand
  <2>2. (\E n \in Node : Holds(n, d)) => Origin(rec[c]) \in Late \cup {"Failed"}
                                     /\ dep[d].phase \in Late \cup {"Failed"}
    BY <1>1, <2>1 DEF Passed
  <2> QED BY <1>3, <2>1, <2>2, CommitKeepsBehind
<1>4. ASSUME NEW k \in Controller, Commit(k), rec[k].dep # d PROVE Kept
  BY <1>4, CommitKeepsBehind
<1>5. ASSUME NEW k \in Controller, Annotate(k) PROVE Kept
  BY <1>5, AnnotateShape DEF TypeOK
<1>6. ASSUME NEW e \in Deployment, DeleteDeployment(e) PROVE Kept
  BY <1>6 DEF DeleteDeployment, DeletedDep, NewDep, Alive, TypeOK
<1>7. CASE UNCHANGED dep
  BY <1>7, <1>2
<1> QED BY <1>2, <1>3, <1>4, <1>5, <1>6, <1>7, ObjectWriters

\* A phase may be ahead of itself, of a deletion and of a failure.
LEMMA AheadAgain ==
    ASSUME NEW p \in Phase
    PROVE  p \in Ahead(p)
BY DEF Ahead, PatchedTo

\* Only the controller that has an object in hand patches it, when there is one.
LEMMA KeptInHand ==
    ASSUME \A c, k \in Controller : c = k, TypeOK, [Next]_vars,
           NEW c \in Controller, NEW d \in Deployment, rec'[c] = rec[c], Alive(d)'
    PROVE  dep'[d] = dep[d]
<1>1. ASSUME NEW k \in Controller, Annotate(k) \/ Commit(k) PROVE FALSE
  <2>1. k = c /\ rec[c] \in Working
    BY <1>1, WorkingType DEF Annotate, Commit
  <2>2. CASE Annotate(c)
    <3>1. rec[c].pc = "annotate" /\ rec'[c].pc = "commit"
      BY <2>1, <2>2 DEF Annotate, TypeOK, Working
    <3> QED BY <3>1
  <2>3. CASE Commit(c)
    <3>1. rec[c].pc = "commit" /\ (rec'[c].pc = "config" \/ rec'[c].pc = "idle")
      BY <2>1, <2>3 DEF Commit, TypeOK, Working, Idle
    <3> QED BY <3>1
  <2> QED BY <1>1, <2>1, <2>2, <2>3
<1>2. ASSUME NEW e \in Deployment, DeleteDeployment(e) PROVE dep'[d] = dep[d]
  BY <1>2 DEF DeleteDeployment, DeletedDep, NewDep, Alive, TypeOK
<1> QED BY <1>1, <1>2, ObjectWriters

\* The reconcile in progress, after any step: it follows from the copy it read or
\* from the patch it made, or it is in a phase that has its node and its digest.
LEMMA HandMoves ==
    ASSUME \A c, k \in Controller : c = k, TypeOK, ActivationInv, [Next]_vars,
           NEW c \in Controller, NEW d \in Deployment, Alive(d)', InHand(c, d)'
    PROVE  /\ Pending(rec'[c], Seen(c, d)', dep'[d])
           /\ \/ InHand(c, d) /\ rec'[c] = rec[c]
              \/ rec[c].pc = "idle" /\ Origin(rec'[c]) = Seen(c, d).phase
              \/ Origin(rec'[c]) \in Late \cup {"Failed"}
<1> DEFINE o == Seen(c, d)
           s == dep[d]
<1>0. rec'[c].pc # "idle" /\ rec'[c].dep = d
  BY DEF InHand
<1>1. /\ o \in Dep /\ s \in Dep /\ Alive(d) /\ Behind(o, s)
      /\ \A n \in Node : Holds(n, d) => Passed(c, d)
      /\ InHand(c, d) => Pending(rec[c], o, s)
  BY SeenType, AliveBefore DEF ActivationInv, TypeOK
<1>2. Seen(c, d)' = o \/ Seen(c, d)' = dep'[d]
  BY SeenWriters
<1>3. TypeOK'
  BY TypeStep
<1>4. dep'[d] \in Dep /\ dep'[d].phase \in Phase
  BY <1>3 DEF TypeOK, Dep
<1> HIDE DEF o, s
<1>5. CASE rec'[c] = rec[c]
  <2>1. InHand(c, d)
    BY <1>0, <1>5 DEF InHand
  <2>2. dep'[d] = s
    BY <1>5, KeptInHand DEF s
  <2>3. Pending(rec[c], o, s)
    BY <1>1, <2>1
  <2> QED BY <1>2, <1>5, <2>1, <2>2, <2>3 DEF Pending
<1>6. ASSUME NEW e \in Deployment, Reconcile(c, e), rec'[c] # rec[c]
      PROVE  /\ Pending(rec'[c], Seen(c, d)', dep'[d])
             /\ rec[c].pc = "idle" /\ Origin(rec'[c]) = o.phase
  <2>1. ~ UNCHANGED rec
    BY <1>6
  <2>2. rec[c].pc = "idle" /\ UNCHANGED <<dep, cache>>
    BY <1>6, ReconcileShape DEF Reconcile, ReconcileBinding, ReconcilePulling, PermanentError,
       PreparingResumes, PreparingCallsPrepare, ReconcileWriting, ActivatingSkips,
       ActivatingCallsActivate, ReconcileConfirming, ReconcileDeployed, ReconcileDrops, Takes
  <2>3. PICK x : WillWrite(c, e, x)
    BY <1>6, <2>1, ReconcileShape
  <2>4. e = d
    BY <1>0, <2>3 DEF WillWrite, TypeOK
  <2>5. o.phase = "Preparing" => \A n \in Node : ~Holds(n, d)
    BY <1>1 DEF Passed, Late, o
  <2>6. PICK want \in Dep : WillWrite(c, d, want) /\ Moves(o, want)
    BY <1>6, <2>1, <2>4, <2>5, ReconcileMoves DEF o
  <2> DEFINE r == [pc   |-> IF want.phase = "Confirming" /\ ~o.armed
                            THEN "annotate" ELSE "commit",
                   dep  |-> d, base |-> o, want |-> want]
  <2>7. rec'[c] = r
    BY <2>6 DEF WillWrite, TypeOK, o
  <2>8. /\ r.base = o /\ r.want = want /\ r.pc # "config"
        /\ r.pc = "annotate" => want.phase = "Confirming"
    OBVIOUS
  <2> HIDE DEF r
  <2>9. Origin(r) = o.phase
    BY <2>6, <2>8 DEF Origin, Moves
  <2>10. o.phase \in Ahead(o.phase)
    BY <1>1, AheadAgain DEF Dep
  <2>11. Pending(r, o, s)
    BY <1>1, <2>6, <2>8, <2>9, <2>10 DEF Pending, Moves, Behind
  <2>12. Seen(c, d)' = o /\ dep'[d] = s
    BY <2>2 DEF Seen, o, s
  <2> QED BY <2>2, <2>7, <2>9, <2>11, <2>12
<1>7. CASE Annotate(c)
  <2> DEFINE a == [s EXCEPT !.armed = TRUE]
             want == InPhase(a, "Confirming", rec[c].want.bound)
  <2>1. rec[c] \in Working /\ rec[c].pc = "annotate"
    BY <1>7, WorkingType DEF Annotate
  <2>2. d = rec[c].dep
    BY <1>0, <1>7, <2>1 DEF Annotate, TypeOK, Working
  <2>3. /\ a \in Dep /\ dep'[d] = a
        /\ a.phase = s.phase /\ a.bound = s.bound /\ a.digest = s.digest
    BY <1>7, <2>2, AnnotateShape DEF TypeOK, s
  <2>4. rec'[c].pc = "commit" /\ rec'[c].base = a /\ rec'[c].want = want
    BY <1>7, <2>1, <2>2 DEF Annotate, TypeOK, Working, s
  <2>5. Pending(rec[c], o, s) /\ Origin(rec[c]) = "Activating"
    BY <1>1, <2>1, <2>2 DEF InHand, Pending, Origin
  <2>6. rec[c].want.bound = s.bound
    BY <2>1, <2>5, FreshIsFresh DEF Pending, Agrees, Late
  <2>7. want.phase = "Confirming" /\ want.bound = s.bound /\ want.digest = s.digest
    <3>1. "Confirming" \in Phase /\ rec[c].want.bound \in OptNode
      BY <2>1 DEF Phase, Working, Dep
    <3> HIDE DEF a
    <3> QED BY <2>3, <2>6, <3>1, WantFields
  <2> HIDE DEF a, want
  <2>8. Origin(rec'[c]) = "Activating"
    BY <2>4, <2>7 DEF Origin
  <2>9. "Confirming" \in PatchedTo("Activating")
    BY DEF PatchedTo, Precedes, Phase
  <2>10. Seen(c, d)'.phase \in Ahead("Activating") /\ dep'[d].phase \in Ahead("Activating")
    BY <1>2, <2>3, <2>5 DEF Pending
  <2>11. Agrees(a, a)
    BY DEF Agrees
  <2>12. Pending(rec'[c], Seen(c, d)', dep'[d])
    BY <2>3, <2>4, <2>7, <2>8, <2>9, <2>10, <2>11 DEF Pending
  <2> QED BY <2>8, <2>12 DEF Late
<1>8. CASE Commit(c)
  <2> DEFINE m == MergeStatus(dep[rec[c].dep], rec[c].base, rec[c].want)
             r == [rec[c] EXCEPT !.pc = "config", !.base = m, !.want = m]
  <2>1. rec'[c] = r /\ Watches(rec[c])
    BY <1>0, <1>8 DEF Commit, TypeOK, Idle
  <2>2. rec[c] \in Working
    BY <1>8, WorkingType DEF Commit
  <2>3. r.pc = "config" /\ r.dep = rec[c].dep /\ r.base = m /\ r.want = m
    BY <2>2 DEF Working
  <2>4. rec[c].dep = d
    BY <1>0, <2>1, <2>3
  <2>5. dep'[d] = m /\ Pending(rec[c], o, s) /\ m \in Dep
    BY <1>8, <2>4, CommitKeepsBehind DEF o, s
  <2>6. m.phase = s.phase
    BY <2>1, <2>2, <2>4, <1>1, MergeFields DEF Watches, Working, s
  <2> HIDE DEF m, r
  <2>7. Origin(rec[c]) = "Deployed"
    BY <2>1 DEF Watches, Origin
  <2>8. o.phase \in {"Deployed", "Failed"} /\ m.phase \in {"Deployed", "Failed"}
    BY <2>5, <2>6, <2>7, FreshIsFresh DEF Pending, Ahead, PatchedTo, Precedes
  <2>9. Origin(r) = m.phase
    BY <2>3, <2>8 DEF Origin
  <2>10. o.phase \in Ahead(m.phase) /\ m.phase \in Ahead(m.phase) /\ m.phase \in PatchedTo(m.phase)
    BY <2>8, FreshIsFresh DEF Ahead, PatchedTo, Phase
  <2>11. Seen(c, d)'.phase \in Ahead(m.phase)
    BY <1>2, <2>5, <2>10
  <2>12. Agrees(m, m)
    BY DEF Agrees
  <2>13. Pending(r, Seen(c, d)', m)
    BY <2>3, <2>8, <2>9, <2>10, <2>11, <2>12 DEF Pending
  <2> QED BY <2>1, <2>5, <2>8, <2>9, <2>13 DEF Late
<1>9. CASE ReconcileConfigOnly(c)
  <2> DEFINE want == FailedWith(rec[c].base, "ConfigInvalid")
             r == [rec[c] EXCEPT !.pc = "commit", !.want = want]
  <2>1. rec[c] \in Working /\ rec[c].pc = "config"
    BY <1>9, WorkingType DEF ReconcileConfigOnly
  <2>2. rec'[c] = r
    <3>1. rec'[c] = Idle \/ rec'[c] = r
      BY <1>9 DEF ReconcileConfigOnly, TypeOK
    <3>2. Idle.pc = "idle"
      BY DEF Idle
    <3> QED BY <1>0, <3>1, <3>2
  <2>3. /\ want.phase = "Failed" /\ want.bound = rec[c].base.bound
        /\ want.digest = rec[c].base.digest
    BY <2>1, WantFields DEF Working, Reason
  <2>4. r.pc = "commit" /\ r.dep = rec[c].dep /\ r.base = rec[c].base /\ r.want = want
    BY <2>1 DEF Working
  <2>5. UNCHANGED dep
    BY <1>9 DEF ReconcileConfigOnly
  <2> HIDE DEF want, r
  <2>6. InHand(c, d) /\ Pending(rec[c], o, s)
    BY <1>0, <1>1, <2>1, <2>2, <2>4 DEF InHand
  <2>7. /\ Origin(r) = rec[c].base.phase /\ Origin(rec[c]) = rec[c].base.phase
        /\ rec[c].base.phase \in {"Deployed", "Failed"}
    BY <2>1, <2>3, <2>4, <2>6 DEF Origin, Pending
  <2>8. "Failed" \in PatchedTo(rec[c].base.phase)
    BY DEF PatchedTo, Phase
  <2>9. Pending(r, o, s)
    BY <2>3, <2>4, <2>6, <2>7, <2>8 DEF Pending
  <2>10. Seen(c, d)'.phase \in Ahead(Origin(r))
    BY <1>2, <2>5, <2>9 DEF Pending, s
  <2>11. Pending(r, Seen(c, d)', s)
    BY <2>9, <2>10 DEF Pending
  <2> QED BY <2>2, <2>5, <2>7, <2>11 DEF Late, s
<1>10. CASE PatchFails(c) \/ Crash(c)
  BY <1>0, <1>10 DEF PatchFails, Crash, Idle, TypeOK
<1> QED BY <1>5, <1>6, <1>7, <1>8, <1>9, <1>10, RecSteps DEF o

\* The slots: a slot that comes to hold the image of a deployment was written by a
\* reconcile that read Writing, hence the node and the digest of the object.
LEMMA SlotMoves ==
    ASSUME \A c, k \in Controller : c = k, TypeOK, ActivationInv, [Next]_vars,
           NEW c \in Controller, NEW d \in Deployment, Alive(d)',
           NEW n \in Node, Holds(n, d)'
    PROVE  /\ dep'[d].phase \in Late \cup {"Failed"}
           /\ dep'[d].bound = n /\ dep'[d].digest = dev'[n].staged.digest
           /\ \/ Holds(n, d)
              \/ rec[c].pc = "idle" /\ Seen(c, d).phase = "Writing"
<1>1. dev'[n].staged.id = d
  BY DEF Holds
<1>2. dev[n].staged \in Staged
  BY DEF TypeOK, Device
<1>3. /\ Behind(Seen(c, d), dep[d])
      /\ Holds(n, d) => SlotMatches(n, d)
  BY AliveBefore DEF ActivationInv
<1>4. ASSUME Holds(n, d), dev'[n].staged.digest = dev[n].staged.digest
      PROVE  /\ dep'[d].phase \in Late \cup {"Failed"}
             /\ dep'[d].bound = n /\ dep'[d].digest = dev'[n].staged.digest
  <2>1. /\ dep'[d].phase \in Late \cup {"Failed"}
        /\ dep'[d].bound = dep[d].bound /\ dep'[d].digest = dep[d].digest
    BY <1>4, ObjectMoves
  <2> QED BY <1>3, <1>4, <2>1 DEF SlotMatches
<1>5. CASE dev'[n].staged = dev[n].staged
  <2>1. Holds(n, d)
    BY <1>1, <1>5 DEF Holds
  <2> QED BY <1>4, <1>5, <2>1
<1>6. CASE dev'[n].staged = EmptySlot
  BY <1>1, <1>6, AgentAssumption DEF EmptySlot
<1>7. ASSUME NEW k \in Controller, NEW e \in Deployment, SlotWritten(n, k, e)
      PROVE  /\ dep'[d].phase \in Late \cup {"Failed"}
             /\ dep'[d].bound = n /\ dep'[d].digest = dev'[n].staged.digest
             /\ rec[c].pc = "idle" /\ Seen(c, d).phase = "Writing"
  <2>1. k = c /\ e = d
    BY <1>1, <1>7 DEF SlotWritten
  <2>2. /\ rec[c].pc = "idle" /\ Seen(c, d).phase = "Writing" /\ Seen(c, d).bound = n
        /\ dep' = dep /\ dev'[n].staged.digest = Seen(c, d).digest
    BY <1>7, <2>1 DEF SlotWritten
  <2>3. dep[d].phase \in Late \cup {"Failed"}
    BY <1>3, <2>2, FreshIsFresh DEF Behind, Ahead, PatchedTo, Precedes, Late
  <2>4. dep[d].bound = Seen(c, d).bound /\ dep[d].digest = Seen(c, d).digest
    BY <1>3, <2>2 DEF Behind, Agrees, Late
  <2> QED BY <2>2, <2>3, <2>4
<1>8. ASSUME NEW k \in Controller, NEW e \in Deployment, SlotActivated(n, k, e)
      PROVE  /\ dep'[d].phase \in Late \cup {"Failed"}
             /\ dep'[d].bound = n /\ dep'[d].digest = dev'[n].staged.digest
             /\ Holds(n, d)
  <2>1. dev'[n].staged.id = dev[n].staged.id /\ dev'[n].staged.digest = dev[n].staged.digest
    BY <1>2, <1>8 DEF SlotActivated, Staged
  <2>2. Holds(n, d)
    BY <1>1, <2>1 DEF Holds
  <2> QED BY <1>4, <2>1, <2>2
<1> QED BY <1>4, <1>5, <1>6, <1>7, <1>8, SlotWriters

\* Every step of a system with one controller keeps the invariant.
LEMMA ActivationStep ==
    ASSUME \A c, k \in Controller : c = k, TypeOK, ActivationInv, [Next]_vars
    PROVE  ActivationInv'
<1> SUFFICES ASSUME NEW c \in Controller, NEW d \in Deployment, Alive(d)'
             PROVE  /\ Behind(Seen(c, d)', dep'[d])
                    /\ InHand(c, d)' => Pending(rec'[c], Seen(c, d)', dep'[d])
                    /\ \A n \in Node : Holds(n, d)' => Passed(c, d)' /\ SlotMatches(n, d)'
  BY DEF ActivationInv
<1>1. Seen(c, d)' = Seen(c, d) \/ Seen(c, d)' = dep'[d]
  BY SeenWriters
<1>2. Behind(Seen(c, d)', dep'[d])
  <2>1. dep'[d].phase \in Phase
    BY TypeStep DEF TypeOK, Dep
  <2>2. Behind(dep'[d], dep'[d])
    BY <2>1, AheadAgain DEF Behind, Agrees
  <2> QED BY <1>1, <2>2, ObjectMoves
<1>3. InHand(c, d)' => Pending(rec'[c], Seen(c, d)', dep'[d])
  BY HandMoves
<1>4. ASSUME NEW n \in Node, Holds(n, d)'
      PROVE  Passed(c, d)' /\ SlotMatches(n, d)'
  <2>1. /\ dep'[d].phase \in Late \cup {"Failed"}
        /\ dep'[d].bound = n /\ dep'[d].digest = dev'[n].staged.digest
        /\ \/ Holds(n, d)
           \/ rec[c].pc = "idle" /\ Seen(c, d).phase = "Writing"
    BY <1>4, SlotMoves
  <2>2. /\ Seen(c, d).phase \in Late \cup {"Failed"}
        /\ InHand(c, d) => Origin(rec[c]) \in Late \cup {"Failed"}
    BY <2>1, AliveBefore DEF ActivationInv, Passed, InHand, Late
  <2>3. Seen(c, d)'.phase \in Late \cup {"Failed"}
    BY <1>1, <2>1, <2>2
  <2>4. InHand(c, d)' => Origin(rec'[c]) \in Late \cup {"Failed"}
    <3> SUFFICES ASSUME InHand(c, d)' PROVE Origin(rec'[c]) \in Late \cup {"Failed"}
      OBVIOUS
    <3>1. \/ InHand(c, d) /\ rec'[c] = rec[c]
          \/ rec[c].pc = "idle" /\ Origin(rec'[c]) = Seen(c, d).phase
          \/ Origin(rec'[c]) \in Late \cup {"Failed"}
      BY HandMoves
    <3> QED BY <2>2, <3>1
  <2> QED BY <2>1, <2>3, <2>4 DEF Passed, SlotMatches, Origin
<1> QED BY <1>2, <1>3, <1>4

\* Nothing is read, patched or written in an initial state.
LEMMA ActivationInit == Init => ActivationInv
<1> SUFFICES ASSUME Init, NEW c \in Controller, NEW d \in Deployment
             PROVE  /\ Behind(Seen(c, d), dep[d])
                    /\ ~InHand(c, d)
                    /\ \A n \in Node : ~Holds(n, d)
  BY DEF ActivationInv
<1>1. dep[d] = NewDep /\ Seen(c, d) = dep[d]
  BY DEF Init, Seen
<1>2. NewDep.phase \in Phase
  BY DEF NewDep, Phase
<1>3. Behind(Seen(c, d), dep[d])
  BY <1>1, <1>2, AheadAgain DEF Behind, Agrees
<1>4. ~InHand(c, d)
  BY DEF Init, Idle, InHand
<1>5. \A n \in Node : ~Holds(n, d)
  BY AgentAssumption DEF Init, Factory, EmptySlot, Holds
<1> QED BY <1>3, <1>4, <1>5

\* The one controller keeps ActivationInv from its first read on.
LEMMA ActivationAlways ==
    ASSUME \A c, k \in Controller : c = k
    PROVE  Spec => [](TypeOK /\ ActivationInv)
<1>1. TypeOK /\ ActivationInv /\ [Next]_vars => ActivationInv'
  BY ActivationStep
<1> QED BY <1>1, ActivationInit, TypeCorrect, PTL DEF Spec

(***************************************************************************)
(* Theorems                                                                *)
(***************************************************************************)
\* phaseActivating tells a device to boot its inactive slot only for a deployment
\* that resolved the digest in it and is bound to that device, however far the
\* cache it reads is behind, whatever crashes, is lost, is patched by the operator
\* or is deleted: one controller.
THEOREM ActivatesWhatItResolved ==
    ASSUME \A c, k \in Controller : c = k
    PROVE  Spec => ActivatedAsResolved
<1> DEFINE Told(n) ==
             /\ dev[n].staged.id \in Deployment
             /\ dep[dev[n].staged.id].phase \in {"Activating", "Confirming", "Failed", "Gone"}
             /\ \/ dep[dev[n].staged.id].phase = "Gone"
                \/ /\ dep[dev[n].staged.id].bound = n
                   /\ dep[dev[n].staged.id].digest = dev[n].staged.digest
<1>1. ASSUME TypeOK, ActivationInv, [Next]_vars, NEW n \in Node,
             dev[n].staged.state = "written", dev'[n].staged.state = "activating"
      PROVE  Told(n)
  <2>1. ASSUME NEW c \in Controller, NEW d \in Deployment, SlotActivated(n, c, d)
        PROVE  Told(n)
    <3>1. Seen(c, d).phase = "Activating" /\ Holds(n, d) /\ dev[n].staged.id = d
      BY <2>1 DEF SlotActivated, Holds
    <3>2. CASE Alive(d)
      <4>1. Behind(Seen(c, d), dep[d]) /\ SlotMatches(n, d)
        BY <1>1, <3>1, <3>2 DEF ActivationInv
      <4>2. dep[d].phase \in {"Activating", "Confirming", "Failed"}
        BY <3>1, <4>1, FreshIsFresh DEF Behind, Ahead, PatchedTo, Precedes
      <4> QED BY <3>1, <4>1, <4>2 DEF SlotMatches
    <3>3. CASE ~Alive(d)
      BY <3>1, <3>3 DEF Alive
    <3> QED BY <3>2, <3>3
  <2>2. ~(dev'[n].staged = dev[n].staged) /\ ~(dev'[n].staged = EmptySlot)
    BY <1>1 DEF EmptySlot
  <2>3. ASSUME NEW c \in Controller, NEW d \in Deployment PROVE ~SlotWritten(n, c, d)
    BY <1>1 DEF SlotWritten
  <2> QED BY <1>1, <2>1, <2>2, <2>3, SlotWriters
<1>2. TypeOK /\ ActivationInv /\ [Next]_vars =>
        [\A n \in Node :
           /\ dev[n].staged.state = "written"
           /\ dev'[n].staged.state = "activating"
           => LET d == dev[n].staged.id IN
              /\ d \in Deployment
              /\ dep[d].phase \in {"Activating", "Confirming", "Failed", "Gone"}
              /\ \/ dep[d].phase = "Gone"
                 \/ dep[d].bound = n /\ dep[d].digest = dev[n].staged.digest]_vars
  BY <1>1
<1> QED BY <1>2, ActivationAlways, PTL DEF Spec, ActivatedAsResolved

\* Between two reads of a deployment at most one of the patches made from it lands:
\* what the controller has in its cache is never two phases behind the object.
THEOREM NeverTwoPatchesBehind ==
    ASSUME \A c, k \in Controller : c = k
    PROVE  Spec => []OnePatchBehind
<1>1. ActivationInv => OnePatchBehind
  BY DEF ActivationInv, OnePatchBehind, Behind
<1> QED BY <1>1, ActivationAlways, PTL

\* The image in the inactive slot of a device is the one that its deployment, if it
\* is left, resolved for that device: the blob that phaseWriting sends is not stale,
\* although the cache it is read from may be.
THEOREM SlotHoldsWhatWasResolved ==
    ASSUME \A c, k \in Controller : c = k, Controller # {}
    PROVE  Spec => []SlotsResolved
<1>1. ActivationInv => SlotsResolved
  BY DEF ActivationInv, SlotsResolved, Holds, Alive
<1> QED BY <1>1, ActivationAlways, PTL

\* The reconciler never takes a deployment back or past a phase, from copies however
\* old: a patch computed from a copy that is one phase behind repeats the phase, or
\* fails the deployment.  What it may do from such a copy is to undo a failure.
THEOREM PhasesInOrder ==
    ASSUME \A c, k \in Controller : c = k
    PROVE  Spec => OneStepForward
<1> DEFINE Forward(d) ==
             \/ dep'[d].phase \in {dep[d].phase, "Failed", "Gone"}
             \/ Precedes(dep[d].phase, dep'[d].phase)
             \/ dep[d].phase = "Failed"
<1>1. ASSUME TypeOK, ActivationInv, [Next]_vars, NEW d \in Deployment PROVE Forward(d)
  <2>1. ASSUME NEW c \in Controller, Commit(c), rec[c].dep = d PROVE Forward(d)
    <3>1. /\ dep'[d] = MergeStatus(dep[d], rec[c].base, rec[c].want)
          /\ rec[c] \in Working /\ dep[d] \in Dep
          /\ Pending(rec[c], Seen(c, d), dep[d])
      BY <1>1, <2>1, CommitKeepsBehind DEF TypeOK
    <3>2. dep'[d].phase \in {rec[c].want.phase, dep[d].phase}
      BY <3>1, MergeFields DEF Working
    <3>3. /\ dep[d].phase \in Ahead(Origin(rec[c]))
          /\ rec[c].want.phase \in PatchedTo(Origin(rec[c]))
      BY <3>1 DEF Pending
    <3>4. CASE Origin(rec[c]) \in {"Failed", "Gone"}
      <4>1. rec[c].want.phase \in {"Failed", "Gone"}
        BY <3>3, <3>4, FreshIsFresh DEF PatchedTo, Precedes
      <4> QED BY <3>2, <4>1
    <3>5. CASE Origin(rec[c]) \notin {"Failed", "Gone"}
      <4>1. \/ rec[c].want.phase \in {Origin(rec[c]), "Failed"}
            \/ Precedes(Origin(rec[c]), rec[c].want.phase)
        BY <3>3 DEF PatchedTo
      <4>2. \/ dep[d].phase \in {Origin(rec[c]), "Failed"}
            \/ Precedes(Origin(rec[c]), dep[d].phase)
        BY <3>3, <3>5 DEF Ahead, PatchedTo
      <4>3. CASE rec[c].want.phase = Origin(rec[c])
        <5>1. dep'[d].phase = dep[d].phase \/ rec[c].want.phase # rec[c].base.phase
          BY <3>1, MergeFields DEF Working
        <5>2. rec[c].want.phase = "Confirming" => Origin(rec[c]) = "Activating"
          BY DEF Origin
        <5>3. rec[c].want.phase = rec[c].base.phase
          BY <4>3, <5>2 DEF Origin
        <5> QED BY <5>1, <5>3
      <4>4. CASE Precedes(Origin(rec[c]), rec[c].want.phase)
        <5>1. CASE Precedes(Origin(rec[c]), dep[d].phase)
          BY <3>2, <4>4, <5>1, OnePrecedes
        <5> QED BY <3>2, <4>2, <4>4, <5>1
      <4> QED BY <3>2, <4>1, <4>3, <4>4
    <3> QED BY <3>4, <3>5
  <2>2. ASSUME NEW c \in Controller, Commit(c), rec[c].dep # d PROVE Forward(d)
    BY <1>1, <2>2, CommitKeepsBehind
  <2>3. ASSUME NEW c \in Controller, Annotate(c) PROVE Forward(d)
    BY <1>1, <2>3, AnnotateShape DEF TypeOK
  <2>4. ASSUME NEW e \in Deployment, DeleteDeployment(e) PROVE Forward(d)
    BY <1>1, <2>4 DEF DeleteDeployment, DeletedDep, NewDep, TypeOK
  <2> QED BY <1>1, <2>1, <2>2, <2>3, <2>4, ObjectWriters
<1>2. TypeOK /\ ActivationInv /\ [Next]_vars =>
        [\A d \in Deployment :
           \/ dep'[d].phase \in {dep[d].phase, "Failed", "Gone"}
           \/ Precedes(dep[d].phase, dep'[d].phase)
           \/ dep[d].phase = "Failed"]_vars
  BY <1>1
<1> QED BY <1>2, ActivationAlways, PTL DEF Spec, OneStepForward

\* What comes to a slot was read in Writing; a deployment that is deleted may be
\* written by a controller whose copy of it is behind.
LEMMA SlotOrigin ==
    ASSUME \A c, k \in Controller : c = k, TypeOK, [Next]_vars,
           NEW c \in Controller, NEW d \in Deployment, NEW n \in Node, Holds(n, d)'
    PROVE  Holds(n, d) \/ Seen(c, d).phase = "Writing"
<1>1. dev'[n].staged.id = d
  BY DEF Holds
<1>2. dev[n].staged \in Staged
  BY DEF TypeOK, Device
<1>3. CASE dev'[n].staged = dev[n].staged
  BY <1>1, <1>3 DEF Holds
<1>4. CASE dev'[n].staged = EmptySlot
  BY <1>1, <1>4, AgentAssumption DEF EmptySlot
<1>5. ASSUME NEW k \in Controller, NEW e \in Deployment, SlotWritten(n, k, e)
      PROVE  Seen(c, d).phase = "Writing"
  <2>1. k = c /\ e = d
    BY <1>1, <1>5 DEF SlotWritten
  <2> QED BY <1>5, <2>1 DEF SlotWritten
<1>6. ASSUME NEW k \in Controller, NEW e \in Deployment, SlotActivated(n, k, e)
      PROVE  Holds(n, d)
  <2>1. dev'[n].staged.id = dev[n].staged.id
    BY <1>2, <1>6 DEF SlotActivated, Staged
  <2> QED BY <1>1, <2>1 DEF Holds
<1> QED BY <1>3, <1>4, <1>5, <1>6, SlotWriters

\* Every step of a system with one controller keeps CopiesPassed.
LEMMA CopiesPassedStep ==
    ASSUME \A c, k \in Controller : c = k,
           TypeOK, ActivationInv, ActivationInv', CopiesPassed, [Next]_vars
    PROVE  CopiesPassed'
<1> SUFFICES ASSUME NEW c \in Controller, NEW d \in Deployment, NEW n \in Node, Holds(n, d)'
             PROVE  Seen(c, d)'.phase \in Late \cup {"Failed", "Gone"}
  BY DEF CopiesPassed
<1>1. CASE Alive(d)'
  BY <1>1 DEF ActivationInv, Passed
<1>2. CASE ~Alive(d)'
  <2>1. CASE Seen(c, d)' = dep'[d]
    BY <1>2, <2>1 DEF Alive
  <2>2. CASE Seen(c, d)' = Seen(c, d)
    BY <2>2, SlotOrigin DEF CopiesPassed, Late
  <2> QED BY <2>1, <2>2, SeenWriters
<1> QED BY <1>1, <1>2

\* The two tests of phasePreparing on what GET /info shows, for a device that is
\* past its write or past its activation, are for another controller: with one, a
\* deployment whose image is on a device has passed Preparing in every copy of it.
THEOREM OneControllerNeverResumes ==
    ASSUME \A c, k \in Controller : c = k
    PROVE  Spec => NothingToResume
<1>1. ASSUME CopiesPassed, NEW c \in Controller, NEW d \in Deployment, PreparingResumes(c, d)
      PROVE  FALSE
  <2>1. Seen(c, d).phase = "Preparing" /\ Seen(c, d).bound \in Node
    BY <1>1 DEF PreparingResumes, Takes, Answers, HasClient
  <2>2. Holds(Seen(c, d).bound, d)
    BY <1>1 DEF PreparingResumes, IsActivating, IsWritten, Holds
  <2> QED BY <1>1, <2>1, <2>2 DEF CopiesPassed, Late
<1>2. CopiesPassed => [\A c \in Controller, d \in Deployment : ~PreparingResumes(c, d)]_vars
  BY <1>1
<1>3. Init => CopiesPassed
  BY AgentAssumption DEF Init, Factory, EmptySlot, Holds, CopiesPassed
<1>4. /\ TypeOK /\ ActivationInv /\ TypeOK' /\ ActivationInv' /\ CopiesPassed /\ [Next]_vars
      => CopiesPassed'
  BY CopiesPassedStep
<1> QED BY <1>2, <1>3, <1>4, ActivationAlways, PTL DEF Spec, NothingToResume

(***************************************************************************)
(* No event is lost                                                        *)
(***************************************************************************)
\* The worker of controller c is still to be told of d as it is.
Outstanding(c, d) == d \in queue[c] \/ (CacheLag /\ cache[c][d] # dep[d])

Ended == {"Deployed", "Failed", "Gone"}

\* What is left to do for d is in the hands of c: the reconcile in progress works
\* on the object as it is, and it is not one that ends without a requeue.
Attended(c, d) ==
    /\ InHand(c, d) /\ Alive(d) => rec[c].base = dep[d]
    /\ dep[d].phase \notin Ended => InHand(c, d) /\ rec[c].pc # "config"
    /\ Silent(d) =>
         /\ InHand(c, d) /\ rec[c].pc = "commit" => rec[c].want.available = "False"
         /\ dep[d].available # "False" => InHand(c, d) /\ rec[c].pc = "commit"

\* A heartbeat never says offline, and the McuNode reconciler says it of no node
\* whose heartbeat is recent.
OfflineIsSilent == \A n \in Node : node[n].state = "offline" => ~node[n].fresh

\* What a copy that is behind may be: while d is in hand, not the version that the
\* patch to come makes; such a version would come with no event.
CopyInHand ==
    \A c \in Controller, d \in Deployment : InHand(c, d) /\ Alive(d) =>
        /\ rec[c].pc = "commit" /\ Watches(rec[c]) /\ d \notin queue[c]
           => rec[c].base = Seen(c, d)
        /\ \/ rec[c].pc = "config"
           \/ rec[c].pc = "commit" /\ rec[c].base.phase = "Failed"
           => rec[c].base = dep[d]

\* NothingForgotten is not inductive: what is in hand has to be worked on as it is
\* now, or its reconcile ends with nothing to be done.
AttendedInv ==
    \A c \in Controller, d \in Deployment : ~Outstanding(c, d) => Attended(c, d)

\* What a reconcile that reads does: nothing but a call, the decision on a write,
\* or nothing with an object that has failed or is gone.
LEMMA ReconcileReads ==
    ASSUME TypeOK, OfflineIsSilent, NEW c \in Controller, NEW d \in Deployment, Reconcile(c, d)
    PROVE  /\ rec[c].pc = "idle" /\ d \in queue[c]
           /\ UNCHANGED <<dep, cache, node>>
           /\ \/ UNCHANGED <<rec, queue>>
              \/ /\ UNCHANGED rec /\ Forget(c, d)
                 /\ Seen(c, d).phase \in {"Failed", "Gone"}
              \/ \E want \in Dep :
                   /\ WillWrite(c, d, want)
                   /\ Seen(c, d).phase \notin {"Failed", "Gone"}
                   /\ Seen(c, d).phase = "Deployed" => want.phase # "Confirming"
                   /\ /\ Seen(c, d).phase = "Deployed"
                      /\ node[Seen(c, d).bound].state = "offline"
                      => want.available = "False"
<1> DEFINE o == Seen(c, d)
           Decides(want) ==
             /\ WillWrite(c, d, want)
             /\ o.phase \notin {"Failed", "Gone"}
             /\ o.phase = "Deployed" => want.phase # "Confirming"
             /\ o.phase = "Deployed" /\ node[o.bound].state = "offline"
                  => want.available = "False"
<1>1. o \in Dep /\ o.phase \in Phase /\ o.bound \in OptNode
  BY SeenType DEF Dep
<1>2. rec[c].pc = "idle" /\ d \in queue[c]
  BY DEF Reconcile, ReconcileBinding, ReconcilePulling, PermanentError,
         PreparingResumes, PreparingCallsPrepare, ReconcileWriting, ActivatingSkips,
         ActivatingCallsActivate, ReconcileConfirming, ReconcileDeployed, ReconcileDrops, Takes
<1>3. UNCHANGED <<dep, cache, node>>
  BY DEF Reconcile, ReconcileBinding, ReconcilePulling, PermanentError,
         PreparingResumes, PreparingCallsPrepare, ReconcileWriting, ActivatingSkips,
         ActivatingCallsActivate, ReconcileConfirming, ReconcileDeployed, ReconcileDrops
<1> HIDE DEF o
<1>4. ASSUME NEW r \in Reason, WillFail(c, d, r), o.phase \notin {"Deployed", "Failed", "Gone"}
      PROVE  \E want \in Dep : Decides(want)
  BY <1>1, <1>4, WantFields DEF WillFail, o
<1>5. ASSUME NEW ph \in Phase, NEW n \in OptNode, WillSetPhase(c, d, ph, n),
             o.phase \notin {"Deployed", "Failed", "Gone"}
      PROVE  \E want \in Dep : Decides(want)
  BY <1>1, <1>5, WantFields DEF WillSetPhase, o
<1>6. CASE ReconcileBinding(c, d)
  <2>1. o.phase = Fresh
    BY <1>6 DEF ReconcileBinding, Takes, Fresh, o
  <2>2. \/ \E r \in Reason : WillFail(c, d, r)
        \/ \E n \in Candidates(d) : WillSetPhase(c, d, "Pulling", n)
    BY <1>6 DEF ReconcileBinding, Reason
  <2>3. Candidates(d) \subseteq OptNode /\ "Pulling" \in Phase
    BY MatchesAssumption DEF Candidates, Phase
  <2>4. o.phase \notin {"Deployed", "Failed", "Gone"}
    BY <2>1, FreshIsFresh
  <2>5. \E want \in Dep : Decides(want)
    BY <1>4, <1>5, <2>2, <2>3, <2>4
  <2> QED BY <1>2, <1>3, <2>5 DEF o
<1>7. CASE ReconcilePulling(c, d)
  <2> DEFINE p == [o EXCEPT !.phase = "Preparing", !.digest = image[d]]
             want == WithConditions(p, "Preparing")
  <2>1. image[d] \in Image /\ o.phase = "Pulling"
    BY <1>7 DEF ReconcilePulling, Takes, TypeOK, o
  <2>2. p \in Dep /\ "Preparing" \in Phase
    BY <1>1, <2>1 DEF Dep, Phase
  <2>3. want \in Dep
    BY <2>2, WithConditionsType
  <2>4. WillWrite(c, d, want)
    BY <1>7 DEF ReconcilePulling, o
  <2> HIDE DEF want
  <2> QED BY <1>2, <1>3, <2>1, <2>3, <2>4 DEF o
<1>8. CASE \/ PermanentError(c, d) \/ PreparingResumes(c, d) \/ PreparingCallsPrepare(c, d)
           \/ ReconcileWriting(c, d) \/ ActivatingSkips(c, d) \/ ActivatingCallsActivate(c, d)
           \/ ReconcileConfirming(c, d)
  <2>1. o.phase \in {"Preparing", "Writing", "Activating", "Confirming"}
    BY <1>8 DEF PermanentError, PreparingResumes, PreparingCallsPrepare, ReconcileWriting,
           ActivatingSkips, ActivatingCallsActivate, ReconcileConfirming, Takes, o
  <2>2. \/ UNCHANGED <<rec, queue>>
        \/ \E r \in Reason : WillFail(c, d, r)
        \/ \E ph \in Phase : WillSetPhase(c, d, ph, o.bound)
    BY <1>8 DEF PermanentError, PreparingResumes, PreparingCallsPrepare, ReconcileWriting,
           ActivatingSkips, ActivatingCallsActivate, ReconcileConfirming, Reason, Phase, o
  <2>3. UNCHANGED <<rec, queue>> \/ \E want \in Dep : Decides(want)
    BY <1>1, <1>4, <1>5, <2>1, <2>2
  <2> QED BY <1>2, <1>3, <2>3 DEF o
<1>9. CASE ReconcileDeployed(c, d)
  <2> DEFINE n == o.bound
             alive == node[n].fresh /\ ~ReportsFailure(n)
             want == [o EXCEPT !.available = IF alive THEN "True" ELSE "False"]
  <2>1. o.phase = "Deployed" /\ n \in Node /\ WillWrite(c, d, want)
    BY <1>9 DEF ReconcileDeployed, Takes, o
  <2>2. /\ want \in Dep /\ want.phase = o.phase
        /\ want.available = IF alive THEN "True" ELSE "False"
    BY <1>1 DEF Dep, CondStatus
  <2>3. node[n].state = "offline" => ~alive
    BY <2>1 DEF OfflineIsSilent
  <2> HIDE DEF want
  <2> QED BY <1>2, <1>3, <2>1, <2>2, <2>3 DEF o
<1>10. CASE ReconcileDrops(c, d)
  BY <1>2, <1>3, <1>10 DEF ReconcileDrops, Takes
<1> QED BY <1>6, <1>7, <1>8, <1>9, <1>10 DEF Reconcile

\* What attends to a deployment lasts while neither of them changes.
LEMMA AttendedStays ==
    ASSUME NEW c \in Controller, NEW d \in Deployment, Attended(c, d),
           dep'[d] = dep[d],
           rec'[c] = rec[c] \/ (~InHand(c, d) /\ ~InHand(c, d)'),
           Silent(d)' => Silent(d)
    PROVE  Attended(c, d)'
BY DEF Attended, InHand, Alive

\* The node of a deployment that is Deployed is found offline: the event wakes the
\* deployment wherever the copy shows it as it is.
LEMMA NodeWakes ==
    ASSUME TypeOK, NEW n \in Node, NodeEvent(n), UNCHANGED dep,
           \A m \in Node \ {n} : node'[m] = node[m],
           NEW c \in Controller, NEW d \in Deployment, ~Outstanding(c, d)', UNCHANGED cache
    PROVE  /\ ~Outstanding(c, d)
           /\ Silent(d)' => Silent(d)
<1>1. queue'[c] = queue[c] \cup WokenBy(c, n)
  BY DEF NodeEvent
<1>2. d \notin queue[c] /\ d \notin WokenBy(c, n) /\ Seen(c, d) = dep[d]
  BY <1>1 DEF Outstanding, Seen
<1>3. dep[d].bound # n \/ dep[d].phase # "Deployed"
  BY <1>2 DEF WokenBy
<1> QED BY <1>2, <1>3 DEF Outstanding, Silent

\* A reconcile that reads takes its object out of the queue with all that is to be
\* done for it.
LEMMA AttendedRead ==
    ASSUME TypeOK, OfflineIsSilent, AttendedInv,
           NEW k \in Controller, NEW e \in Deployment, Reconcile(k, e),
           NEW c \in Controller, NEW d \in Deployment, ~Outstanding(c, d)'
    PROVE  Attended(c, d)'
<1>1. /\ rec[k].pc = "idle" /\ e \in queue[k] /\ UNCHANGED <<dep, cache, node>>
      /\ \/ UNCHANGED <<rec, queue>>
         \/ /\ UNCHANGED rec /\ Forget(k, e)
            /\ Seen(k, e).phase \in {"Failed", "Gone"}
         \/ \E want \in Dep :
              /\ WillWrite(k, e, want)
              /\ Seen(k, e).phase \notin {"Failed", "Gone"}
              /\ Seen(k, e).phase = "Deployed" => want.phase # "Confirming"
              /\ Seen(k, e).phase = "Deployed" /\ node[Seen(k, e).bound].state = "offline"
                 => want.available = "False"
  BY ReconcileReads
<1>2. Silent(d)' => Silent(d)
  BY <1>1 DEF Silent
<1>3. CASE ~(c = k /\ d = e)
  <2>1. d \notin queue[c]
    BY <1>1, <1>3 DEF Outstanding, Forget, WillWrite, TypeOK
  <2>2. Attended(c, d)
    BY <1>1, <2>1 DEF AttendedInv, Outstanding
  <2>3. rec'[c] = rec[c] \/ (~InHand(c, d) /\ ~InHand(c, d)')
    BY <1>1, <1>3 DEF WillWrite, TypeOK, InHand
  <2> QED BY <1>1, <1>2, <2>2, <2>3, AttendedStays
<1>4. CASE c = k /\ d = e
  <2>1. Seen(c, d) = dep[d] /\ d \notin queue'[c]
    BY <1>1 DEF Outstanding, Seen
  <2>2. CASE UNCHANGED <<rec, queue>>
    BY <1>1, <1>4, <2>1, <2>2
  <2>3. CASE UNCHANGED rec /\ Seen(k, e).phase \in {"Failed", "Gone"}
    BY <1>1, <1>4, <2>1, <2>3 DEF Attended, InHand, Silent, Ended
  <2>4. ASSUME NEW want \in Dep, WillWrite(c, d, want),
               dep[d].phase \notin {"Failed", "Gone"},
               dep[d].phase = "Deployed" => want.phase # "Confirming",
               dep[d].phase = "Deployed" /\ node[dep[d].bound].state = "offline"
                 => want.available = "False"
        PROVE  Attended(c, d)'
    <3>1. /\ rec'[c].pc = IF want.phase = "Confirming" /\ ~Seen(c, d).armed
                          THEN "annotate" ELSE "commit"
          /\ rec'[c].dep = d /\ rec'[c].base = dep[d] /\ rec'[c].want = want
      BY <2>1, <2>4 DEF WillWrite, TypeOK
    <3>2. Silent(d)' => dep[d].phase = "Deployed" /\ node[dep[d].bound].state = "offline"
      BY <1>2 DEF Silent
    <3> QED BY <1>1, <2>4, <3>1, <3>2 DEF Attended, InHand
  <2> QED BY <1>1, <1>4, <2>1, <2>2, <2>3, <2>4
<1> QED BY <1>3, <1>4

\* Available after a merge patch: as wanted, if the patch says anything of it.
LEMMA MergeAvailable ==
    ASSUME NEW s \in Dep, NEW base \in Dep, NEW want \in Dep
    PROVE  LET m == MergeStatus(s, base, want) IN
           \/ m.available = s.available /\ want.available = base.available
           \/ m.available = want.available
BY DEF MergeStatus, Dep

\* A reconcile whose patch changed nothing ends with nothing to be done.
LEMMA CommitEnds ==
    ASSUME TypeOK, NEW c \in Controller, Commit(c), NEW d \in Deployment, rec[c].dep = d,
           Attended(c, d), dep'[d] = dep[d], d \notin queue'[c]
    PROVE  Attended(c, d)'
<1> DEFINE r == rec[c]
           m == MergeStatus(dep[d], r.base, r.want)
<1>1. r \in Working /\ r.pc = "commit" /\ dep[d] \in Dep /\ dep[d].phase # "Gone"
  BY WorkingType DEF Commit, TypeOK
<1>2. r.base \in Dep /\ r.want \in Dep
  BY <1>1 DEF Working
<1>3. m = dep[d] /\ UNCHANGED node
  BY DEF Commit, TypeOK
<1>4. r.base = dep[d] /\ (Silent(d) => r.want.available = "False")
  BY <1>1 DEF Attended, InHand, Alive
<1>5. ~Requeues(r)
  BY DEF Commit
<1>6. rec'[c] = IF Watches(r) /\ d \in ConfigRef
                THEN [r EXCEPT !.pc = "config", !.base = m, !.want = m]
                ELSE Idle
  BY DEF Commit, TypeOK
<1>7. Silent(d)' => Silent(d) /\ dep[d].available = "False"
  <2>1. Silent(d)' => Silent(d)
    BY <1>3 DEF Silent
  <2>2. Silent(d) => m.available = "False"
    BY <1>1, <1>2, <1>3, <1>4, MergeAvailable
  <2> QED BY <1>3, <2>1, <2>2
<1>8. m.phase = IF r.want.phase # r.base.phase THEN r.want.phase ELSE dep[d].phase
  BY <1>1, <1>2, MergeFields
<1> HIDE DEF m, r
<1>9. CASE Watches(r)
  <2>1. dep'[d].phase = "Deployed"
    BY <1>4, <1>9 DEF Watches
  <2>2. InHand(c, d)' => rec'[c].pc = "config" /\ rec'[c].base = m
    BY <1>1, <1>6 DEF InHand, Idle, Working
  <2> QED BY <1>3, <1>7, <2>1, <2>2 DEF Attended, Ended
<1>10. CASE ~Watches(r)
  <2>1. dep'[d].phase = "Failed"
    BY <1>3, <1>4, <1>5, <1>8, <1>10 DEF Requeues
  <2>2. ~InHand(c, d)'
    BY <1>6, <1>10 DEF InHand, Idle
  <2> QED BY <2>1, <2>2 DEF Attended, Ended, Silent
<1> QED BY <1>9, <1>10

\* A patch that brings the object back to what a copy shows of it, with no event to
\* come, fails the deployment.
LEMMA CommitRepeats ==
    ASSUME TypeOK, CacheLag, CopyInHand, NEW c \in Controller, Commit(c),
           NEW d \in Deployment, rec[c].dep = d,
           ~Outstanding(c, d)', dep'[d] # dep[d]
    PROVE  Attended(c, d)'
<1> DEFINE r == rec[c]
           m == MergeStatus(dep[d], r.base, r.want)
<1>1. r \in Working /\ r.pc = "commit" /\ dep[d] \in Dep /\ dep[d].phase # "Gone"
  BY WorkingType DEF Commit, TypeOK
<1>2. r.base \in Dep /\ r.want \in Dep
  BY <1>1 DEF Working
<1>3. /\ dep'[d] = m /\ cache[c][d] = m
      /\ d \notin queue[c] /\ ~Requeues(r)
  BY DEF Commit, TypeOK, Outstanding
<1>4. rec'[c] = IF Watches(r) /\ d \in ConfigRef
                THEN [r EXCEPT !.pc = "config", !.base = m, !.want = m]
                ELSE Idle
  BY DEF Commit, TypeOK
<1>5. /\ Watches(r) => r.base = m
      /\ r.base.phase = "Failed" => r.base = dep[d]
  BY <1>1, <1>3 DEF CopyInHand, InHand, Alive, Seen
<1>6. m.phase = IF r.want.phase # r.base.phase THEN r.want.phase ELSE dep[d].phase
  BY <1>1, <1>2, MergeFields
<1>7. ~Watches(r)
  <2> SUFFICES ASSUME Watches(r) PROVE FALSE
    OBVIOUS
  <2>1. PICK want \in Dep : want = r.want
    BY <1>2
  <2>2. m = r.base
    BY <1>5
  <2>3. m = dep[d]
    BY <1>1, <1>2, <2>2 DEF MergeStatus, Patched, Dep
  <2> QED BY <1>3, <2>3
<1> HIDE DEF m, r
<1>8. m.phase = "Failed"
  BY <1>3, <1>5, <1>6, <1>7 DEF Requeues
<1>9. ~InHand(c, d)'
  BY <1>4, <1>7 DEF InHand, Idle
<1> QED BY <1>3, <1>8, <1>9 DEF Attended, Ended, Silent

\* A copy changes with an event, and only a worker that is free takes an object out
\* of its queue.
LEMMA Unheard ==
    ASSUME TypeOK, [Next]_vars, NEW c \in Controller, NEW d \in Deployment, d \notin queue'[c]
    PROVE  cache'[c][d] = cache[c][d] /\ (d \notin queue[c] \/ rec[c].pc = "idle")
<1>1. ASSUME NEW k \in Controller, NEW e \in Deployment, Reconcile(k, e)
      PROVE  UNCHANGED cache /\ (d \notin queue[c] \/ rec[c].pc = "idle")
  <2>1. UNCHANGED cache
    BY <1>1, ReconcileShape
  <2>2. rec[k].pc = "idle" /\ (queue' = queue \/ Forget(k, e))
    BY <1>1 DEF Reconcile, ReconcileBinding, ReconcilePulling, PermanentError,
       PreparingResumes, PreparingCallsPrepare, ReconcileWriting, ActivatingSkips,
       ActivatingCallsActivate, ReconcileConfirming, ReconcileDeployed, ReconcileDrops,
       Takes, WillSetPhase, WillFail, WillWrite
  <2> QED BY <2>1, <2>2 DEF Forget, TypeOK
<1>2. ASSUME NEW k \in Controller, NEW e \in Deployment, SyncCache(k, e)
      PROVE  cache'[c][d] = cache[c][d] /\ d \notin queue[c]
  BY <1>2 DEF SyncCache, Requeue, TypeOK
<1>3. ASSUME NEW k \in Controller,
             Annotate(k) \/ Commit(k) \/ ReconcileConfigOnly(k) \/ PatchFails(k)
      PROVE  UNCHANGED cache /\ d \notin queue[c]
  <2>1. CASE Annotate(k)
    BY <2>1 DEF Annotate, DepEvent
  <2>2. CASE Commit(k)
    BY <2>2 DEF Commit
  <2>3. CASE ReconcileConfigOnly(k) \/ PatchFails(k)
    <3>1. UNCHANGED cache
      BY <2>3 DEF ReconcileConfigOnly, PatchFails
    <3>2. UNCHANGED queue \/ \E e : Requeue(k, e)
      BY <2>3 DEF ReconcileConfigOnly, PatchFails
    <3> QED BY <3>1, <3>2 DEF Requeue, TypeOK
  <2> QED BY <1>3, <2>1, <2>2, <2>3
<1>4. ASSUME NEW k \in Controller, Crash(k)
      PROVE  cache'[c][d] = cache[c][d] /\ d \notin queue[c]
  BY <1>4 DEF Crash, TypeOK
<1>5. CASE \E e \in Deployment : ConfirmTimeoutElapses(e)
  BY <1>5 DEF ConfirmTimeoutElapses
<1>6. CASE \E n \in Node : NodeStep(n)
  BY <1>6 DEF NodeStep, Heartbeat, HeartbeatExpires, ReconcileNode, NodeEvent
<1>7. CASE \E n \in Node : DeviceActs(n)
  BY <1>7 DEF DeviceActs, DeviceReboots, DeviceBoots, SelfCheckPasses, MarksValid,
              Degrades, Recovers, DeviceStep
<1>8. CASE Operator
  BY <1>8 DEF Operator, DeleteDeployment, PatchImage, DeleteNode, CreateNode, NodeEvent, DepEvent
<1>9. CASE UNCHANGED vars
  BY <1>9 DEF vars
<1> QED BY <1>1, <1>2, <1>3, <1>4, <1>5, <1>6, <1>7, <1>8, <1>9 DEF Next, ControllerActs

\* No step makes a node offline while its heartbeat is recent.
LEMMA OfflineStep == TypeOK /\ OfflineIsSilent /\ [Next]_vars => OfflineIsSilent'
<1> SUFFICES ASSUME TypeOK, OfflineIsSilent, [Next]_vars PROVE OfflineIsSilent'
  OBVIOUS
<1>1. CASE UNCHANGED node
  BY <1>1 DEF OfflineIsSilent
<1>2. ASSUME NEW n \in Node, NEW x, node' = [node EXCEPT ![n] = x],
             x.state = "offline" => ~x.fresh
      PROVE  OfflineIsSilent'
  BY <1>2 DEF OfflineIsSilent, TypeOK
<1>3. ASSUME NEW n \in Node, NodeStep(n) PROVE OfflineIsSilent'
  <2>1. dev[n].state # "offline" /\ node[n] \in McuNode
    BY DEF TypeOK, Device, DeviceState
  <2>2. CASE Heartbeat(n)
    BY <1>2, <2>1, <2>2 DEF Heartbeat
  <2>3. CASE HeartbeatExpires(n)
    <3> DEFINE x == [node[n] EXCEPT !.fresh = FALSE]
    <3>1. ~x.fresh
      BY <2>1 DEF McuNode
    <3>2. node' = [node EXCEPT ![n] = x]
      BY <2>3 DEF HeartbeatExpires
    <3> QED BY <1>2, <3>1, <3>2
  <2>4. CASE ReconcileNode(n)
    <3> DEFINE x == [node[n] EXCEPT !.state = "offline"]
    <3>1. ~x.fresh
      BY <2>1, <2>4 DEF ReconcileNode, McuNode
    <3>2. node' = [node EXCEPT ![n] = x]
      BY <2>4 DEF ReconcileNode
    <3> QED BY <1>2, <3>1, <3>2
  <2> QED BY <1>3, <2>2, <2>3, <2>4 DEF NodeStep
<1>4. CASE \E k \in Controller : ControllerActs(k)
  <2>1. ASSUME NEW k \in Controller, NEW e \in Deployment, Reconcile(k, e) PROVE UNCHANGED node
    BY <2>1, ReconcileReads
  <2> QED BY <1>1, <1>4, <2>1 DEF ControllerActs, SyncCache, Annotate, Commit,
            ReconcileConfigOnly, PatchFails, Crash
<1>5. CASE \E e \in Deployment : ConfirmTimeoutElapses(e)
  BY <1>1, <1>5 DEF ConfirmTimeoutElapses
<1>6. CASE \E n \in Node : DeviceActs(n)
  BY <1>1, <1>6 DEF DeviceActs, DeviceReboots, DeviceBoots, SelfCheckPasses, MarksValid,
              Degrades, Recovers, DeviceStep
<1>7. CASE Operator
  <2>1. /\ NewNode.state # "offline" /\ DeletedNode.state # "offline"
    BY DEF NewNode, DeletedNode
  <2> QED BY <1>1, <1>2, <1>7, <2>1 DEF Operator, DeleteDeployment, PatchImage, DeleteNode,
            CreateNode
<1>8. CASE UNCHANGED vars
  BY <1>1, <1>8 DEF vars
<1> QED BY <1>3, <1>4, <1>5, <1>6, <1>7, <1>8 DEF Next

\* Every step of one controller keeps CopyInHand.
LEMMA CopyInHandStep ==
    ASSUME CacheLag, \A c, k \in Controller : c = k, TypeOK, OfflineIsSilent, CopyInHand,
           [Next]_vars
    PROVE  CopyInHand'
<1> SUFFICES ASSUME NEW c \in Controller, NEW d \in Deployment, InHand(c, d)', Alive(d)'
             PROVE  /\ /\ rec'[c].pc = "commit" /\ Watches(rec'[c]) /\ d \notin queue'[c]
                       => rec'[c].base = Seen(c, d)'
                    /\ /\ \/ rec'[c].pc = "config"
                          \/ rec'[c].pc = "commit" /\ rec'[c].base.phase = "Failed"
                       => rec'[c].base = dep'[d]
  BY DEF CopyInHand, Watches
<1>0. Alive(d) /\ rec'[c].pc # "idle" /\ rec'[c].dep = d
  BY AliveBefore DEF InHand
<1>1. CASE rec'[c] = rec[c]
  <2>1. InHand(c, d) /\ dep'[d] = dep[d]
    BY <1>0, <1>1, KeptInHand DEF InHand
  <2>2. d \notin queue'[c] => Seen(c, d)' = Seen(c, d) /\ d \notin queue[c]
    BY <1>0, <1>1, Unheard DEF Seen
  <2> QED BY <1>0, <1>1, <2>1, <2>2 DEF CopyInHand, Watches, InHand, Alive
<1>2. ASSUME NEW e \in Deployment, Reconcile(c, e), rec'[c] # rec[c]
      PROVE  /\ rec'[c].pc # "config" /\ rec'[c].base = Seen(c, d)'
             /\ rec'[c].base.phase # "Failed"
  <2>1. UNCHANGED <<dep, cache>>
    BY <1>2, ReconcileReads
  <2>2. PICK want : WillWrite(c, e, want) /\ Seen(c, e).phase \notin {"Failed", "Gone"}
    BY <1>2, ReconcileReads
  <2>3. /\ rec'[c].pc = IF want.phase = "Confirming" /\ ~Seen(c, e).armed
                        THEN "annotate" ELSE "commit"
        /\ rec'[c].dep = e /\ rec'[c].base = Seen(c, e)
    BY <2>2 DEF WillWrite, TypeOK
  <2> QED BY <1>0, <2>1, <2>2, <2>3 DEF Seen
<1>3. CASE Annotate(c)
  <2> DEFINE a == [dep[rec[c].dep] EXCEPT !.armed = TRUE]
             want == InPhase(a, "Confirming", rec[c].want.bound)
  <2>1. rec[c] \in Working
    BY <1>3, WorkingType DEF Annotate
  <2>2. /\ rec'[c].pc = "commit" /\ rec'[c].dep = rec[c].dep
        /\ rec'[c].base = a /\ rec'[c].want = want
    BY <1>3, <2>1 DEF Annotate, TypeOK, Working
  <2>3. dep'[d] = a /\ a \in Dep
    BY <1>0, <1>3, <2>2, AnnotateShape DEF TypeOK
  <2>4. want.phase = "Confirming"
    <3>1. "Confirming" \in Phase /\ rec[c].want.bound \in OptNode
      BY <2>1 DEF Phase, Working, Dep
    <3> HIDE DEF a
    <3> QED BY <2>3, <3>1, WantFields
  <2> QED BY <2>2, <2>3, <2>4 DEF Watches
<1>4. CASE Commit(c)
  <2> DEFINE m == MergeStatus(dep[rec[c].dep], rec[c].base, rec[c].want)
             r == [rec[c] EXCEPT !.pc = "config", !.base = m, !.want = m]
  <2>1. rec'[c] = r
    BY <1>0, <1>4 DEF Commit, TypeOK, Idle
  <2>2. rec[c] \in Working
    BY <1>4, WorkingType DEF Commit
  <2>3. r.pc = "config" /\ r.dep = rec[c].dep /\ r.base = m
    BY <2>2 DEF Working
  <2>4. dep'[d] = m
    BY <1>0, <1>4, <2>1, <2>3 DEF Commit, TypeOK
  <2> QED BY <2>1, <2>3, <2>4
<1>5. CASE ReconcileConfigOnly(c)
  <2> DEFINE want == FailedWith(rec[c].base, "ConfigInvalid")
             r == [rec[c] EXCEPT !.pc = "commit", !.want = want]
  <2>1. rec[c] \in Working /\ rec[c].pc = "config"
    BY <1>5, WorkingType DEF ReconcileConfigOnly
  <2>2. rec'[c] = r /\ UNCHANGED dep
    <3>1. rec'[c] = Idle \/ rec'[c] = r
      BY <1>5 DEF ReconcileConfigOnly, TypeOK
    <3>2. Idle.pc = "idle"
      BY DEF Idle
    <3>3. UNCHANGED dep
      BY <1>5 DEF ReconcileConfigOnly
    <3> QED BY <1>0, <3>1, <3>2, <3>3
  <2>3. want.phase = "Failed"
    BY <2>1, WantFields DEF Working, Reason
  <2>4. r.pc = "commit" /\ r.dep = rec[c].dep /\ r.base = rec[c].base /\ r.want = want
    BY <2>1 DEF Working
  <2> HIDE DEF want, r
  <2>5. rec[c].base = dep[d]
    <3>1. rec[c].dep = d
      BY <1>0, <2>2, <2>4
    <3> QED BY <1>0, <2>1, <3>1 DEF CopyInHand, InHand, Alive
  <2> QED BY <2>2, <2>3, <2>4, <2>5 DEF Watches
<1>6. CASE PatchFails(c) \/ Crash(c)
  BY <1>0, <1>6 DEF PatchFails, Crash, Idle, TypeOK
<1> QED BY <1>1, <1>2, <1>3, <1>4, <1>5, <1>6, RecSteps

\* What is known of the patches of others: an event says of each that it was made, or
\* there is no other controller.
Heard ==
    \/ ~CacheLag
    \/ (\A c, k \in Controller : c = k) /\ ActivationInv /\ CopyInHand

\* The steps of a controller keep AttendedInv.
LEMMA AttendedControllerStep ==
    ASSUME Heard, TypeOK, OfflineIsSilent, AttendedInv,
           NEW k \in Controller, ControllerActs(k),
           NEW c \in Controller, NEW d \in Deployment, ~Outstanding(c, d)'
    PROVE  Attended(c, d)'
<1>0. d \notin queue'[c] /\ (CacheLag => cache'[c][d] = dep'[d])
  BY DEF Outstanding
<1>1. CASE \E e \in Deployment : Reconcile(k, e)
  BY <1>1, AttendedRead
<1>2. ASSUME NEW e \in Deployment, SyncCache(k, e)
      PROVE  Attended(c, d)'
  <2>1. ~(c = k /\ d = e)
    BY <1>0, <1>2 DEF SyncCache, Requeue, TypeOK
  <2>2. d \notin queue[c] /\ cache'[c][d] = cache[c][d] /\ UNCHANGED <<dep, rec, node>>
    BY <1>0, <1>2, <2>1 DEF SyncCache, Requeue, TypeOK
  <2>3. Attended(c, d)
    BY <1>0, <2>2 DEF AttendedInv, Outstanding
  <2> QED BY <2>2, <2>3, AttendedStays DEF Silent
<1>3. CASE Annotate(k)
  <2> DEFINE e == rec[k].dep
             a == [dep[e] EXCEPT !.armed = TRUE]
             want == InPhase(a, "Confirming", rec[k].want.bound)
  <2>1. rec[k] \in Working /\ rec[k].pc = "annotate"
    BY <1>3, WorkingType DEF Annotate
  <2>2. /\ e \in Deployment /\ a.phase = dep[e].phase /\ dep' = [dep EXCEPT ![e] = a]
        /\ dep[e].phase # "Gone"
    BY <1>3, AnnotateShape DEF Annotate
  <2>3. /\ UNCHANGED <<cache, node>> /\ d \notin queue[c]
        /\ CacheLag \/ d # e
        /\ \A x \in Controller \ {k} : rec'[x] = rec[x]
    BY <1>0, <1>3 DEF Annotate, DepEvent, OwnEvent, TypeOK
  <2>4. rec'[k].pc = "commit" /\ rec'[k].dep = e /\ rec'[k].base = a
    BY <1>3, <2>1 DEF Annotate, TypeOK, Working
  <2> HIDE DEF a
  <2>5. CASE d # e
    <3>1. dep'[d] = dep[d]
      BY <2>2, <2>5 DEF TypeOK
    <3>2. Attended(c, d)
      BY <1>0, <2>3, <3>1 DEF AttendedInv, Outstanding
    <3>3. rec'[c] = rec[c] \/ (~InHand(c, d) /\ ~InHand(c, d)')
      BY <2>3, <2>4, <2>5 DEF InHand
    <3> QED BY <2>3, <3>1, <3>2, <3>3, AttendedStays DEF Silent
  <2>6. CASE d = e
    <3>1. c = k /\ ActivationInv
      BY <2>3, <2>6 DEF Heard
    <3>2. Pending(rec[c], Seen(c, d), dep[d])
      BY <2>1, <2>2, <2>6, <3>1 DEF ActivationInv, InHand, Alive
    <3>3. Origin(rec[c]) = "Activating"
      BY <2>1, <3>1, <3>2 DEF Pending, Origin
    <3>4. dep[d].phase # "Deployed"
      BY <3>2, <3>3, FreshIsFresh DEF Pending, Ahead, PatchedTo, Precedes
    <3>5. dep'[d] = a /\ dep'[d].phase # "Deployed"
      BY <2>2, <2>6, <3>4 DEF TypeOK
    <3> QED BY <2>4, <2>6, <3>1, <3>5 DEF Attended, InHand, Silent
  <2> QED BY <2>5, <2>6
<1>4. CASE Commit(k)
  <2> DEFINE e == rec[k].dep
             m == MergeStatus(dep[e], rec[k].base, rec[k].want)
  <2>1. /\ rec[k] \in Working /\ rec[k].pc = "commit" /\ e \in Deployment
        /\ dep' = [dep EXCEPT ![e] = m]
    BY <1>4, WorkingType DEF Commit, Working
  <2>2. /\ UNCHANGED <<cache, node>> /\ d \notin queue[c]
        /\ m # dep[e] => CacheLag \/ d # e
        /\ \A x \in Controller \ {k} : rec'[x] = rec[x]
    BY <1>0, <1>4 DEF Commit, OwnEvent, TypeOK
  <2>3. rec'[k].pc = "idle" \/ rec'[k].dep = e
    BY <1>4, <2>1 DEF Commit, TypeOK, Idle, Working
  <2> HIDE DEF m
  <2>4. CASE d # e
    <3>1. dep'[d] = dep[d]
      BY <2>1, <2>4 DEF TypeOK
    <3>2. Attended(c, d)
      BY <1>0, <2>2, <3>1 DEF AttendedInv, Outstanding
    <3>3. rec'[c] = rec[c] \/ (~InHand(c, d) /\ ~InHand(c, d)')
      BY <2>2, <2>3, <2>4 DEF InHand
    <3> QED BY <2>2, <3>1, <3>2, <3>3, AttendedStays DEF Silent
  <2>5. CASE d = e /\ m = dep[e]
    <3>1. dep'[d] = dep[d]
      BY <2>1, <2>5 DEF TypeOK
    <3>2. Attended(c, d)
      BY <1>0, <2>2, <3>1 DEF AttendedInv, Outstanding
    <3>3. CASE c = k
      BY <1>0, <1>4, <2>5, <3>1, <3>2, <3>3, CommitEnds
    <3>4. CASE c # k
      BY <2>2, <3>1, <3>2, <3>4, AttendedStays DEF Silent
    <3> QED BY <3>3, <3>4
  <2>6. CASE d = e /\ m # dep[e]
    <3>1. CacheLag /\ c = k /\ CopyInHand
      BY <2>2, <2>6 DEF Heard
    <3>2. dep'[d] # dep[d]
      BY <2>1, <2>6 DEF TypeOK
    <3> QED BY <1>4, <2>6, <3>1, <3>2, CommitRepeats
  <2> QED BY <2>4, <2>5, <2>6
<1>5. CASE ReconcileConfigOnly(k)
  <2> DEFINE e == rec[k].dep
             want == FailedWith(rec[k].base, "ConfigInvalid")
             r == [rec[k] EXCEPT !.pc = "commit", !.want = want]
  <2>1. rec[k] \in Working /\ rec[k].pc = "config"
    BY <1>5, WorkingType DEF ReconcileConfigOnly
  <2>2. /\ UNCHANGED <<cache, dep, node>>
        /\ UNCHANGED queue \/ Requeue(k, e)
        /\ \A x \in Controller \ {k} : rec'[x] = rec[x]
    BY <1>5 DEF ReconcileConfigOnly, TypeOK
  <2>3. rec'[k] = Idle \/ rec'[k] = r
    BY <1>5 DEF ReconcileConfigOnly, TypeOK
  <2>4. want.available = "False"
    BY <2>1 DEF FailedWith, Working, Dep
  <2>5. /\ r.pc = "commit" /\ r.dep = e /\ r.base = rec[k].base /\ r.want = want
    BY <2>1 DEF Working
  <2> HIDE DEF want, r
  <2>6. Attended(c, d)
    BY <1>0, <2>2 DEF AttendedInv, Outstanding, Requeue, TypeOK
  <2>7. Silent(d)' => Silent(d)
    BY <2>2 DEF Silent
  <2>8. CASE c # k \/ d # e
    <3>1. rec'[c] = rec[c] \/ (~InHand(c, d) /\ ~InHand(c, d)')
      BY <2>2, <2>3, <2>5, <2>8 DEF InHand, Idle
    <3> QED BY <2>2, <2>6, <2>7, <3>1, AttendedStays
  <2>9. CASE c = k /\ d = e
    <3>1. /\ Alive(d) => rec[c].base = dep[d]
          /\ dep[d].phase \in Ended
          /\ Silent(d) => dep[d].available = "False"
      BY <2>1, <2>6, <2>9 DEF Attended, InHand
    <3>2. InHand(c, d)' => /\ rec'[c].pc = "commit" /\ rec'[c].base = rec[c].base
                           /\ rec'[c].want.available = "False"
      BY <2>3, <2>4, <2>5, <2>9 DEF InHand, Idle
    <3> QED BY <2>2, <2>7, <3>1, <3>2 DEF Attended, Alive
  <2> QED BY <2>8, <2>9
<1>6. CASE PatchFails(k)
  <2> DEFINE e == rec[k].dep
  <2>1. rec'[k] = Idle /\ UNCHANGED <<cache, dep, node>> /\ Requeue(k, e)
        /\ \A x \in Controller \ {k} : rec'[x] = rec[x]
    BY <1>6 DEF PatchFails, TypeOK
  <2>2. rec[k].pc # "idle" /\ e \in Deployment
    BY <1>6, WorkingType DEF PatchFails, Working
  <2>3. c # k \/ d # e
    BY <1>0, <2>1, <2>2 DEF Requeue, TypeOK
  <2>4. Attended(c, d)
    BY <1>0, <2>1 DEF AttendedInv, Outstanding, Requeue, TypeOK
  <2>5. rec'[c] = rec[c] \/ (~InHand(c, d) /\ ~InHand(c, d)')
    BY <2>1, <2>3 DEF InHand, Idle
  <2> QED BY <2>1, <2>4, <2>5, AttendedStays DEF Silent
<1>7. CASE Crash(k)
  <2>1. c # k
    BY <1>0, <1>7 DEF Crash, TypeOK
  <2>2. /\ UNCHANGED <<dep, node>> /\ rec'[c] = rec[c] /\ queue'[c] = queue[c]
        /\ CacheLag => cache'[c] = cache[c]
    BY <1>7, <2>1 DEF Crash, TypeOK
  <2>3. Attended(c, d)
    BY <1>0, <2>2 DEF AttendedInv, Outstanding
  <2> QED BY <2>2, <2>3, AttendedStays DEF Silent
<1> QED BY <1>1, <1>2, <1>3, <1>4, <1>5, <1>6, <1>7 DEF ControllerActs

\* Every step keeps AttendedInv.
LEMMA AttendedStep ==
    ASSUME Heard, TypeOK, OfflineIsSilent, AttendedInv, [Next]_vars
    PROVE  AttendedInv'
<1> SUFFICES ASSUME NEW c \in Controller, NEW d \in Deployment, ~Outstanding(c, d)'
             PROVE  Attended(c, d)'
  BY DEF AttendedInv
<1>0. d \notin queue'[c] /\ (CacheLag => cache'[c][d] = dep'[d])
  BY DEF Outstanding
<1>1. CASE \E k \in Controller : ControllerActs(k)
  BY <1>1, AttendedControllerStep
\* The steps that leave the object, its node's state and its reconcile alone.
<1>2. ASSUME UNCHANGED <<cache, rec>>, dep'[d] = dep[d], d \notin queue[c],
             Silent(d)' => Silent(d)
      PROVE  Attended(c, d)'
  <2>1. Attended(c, d)
    BY <1>0, <1>2 DEF AttendedInv, Outstanding
  <2> QED BY <1>2, <2>1, AttendedStays
<1>3. CASE \E e \in Deployment : ConfirmTimeoutElapses(e)
  BY <1>0, <1>2, <1>3 DEF ConfirmTimeoutElapses, Silent
<1>4. ASSUME NEW n \in Node, Heartbeat(n) \/ ReconcileNode(n) \/ DeleteNode(n) \/ CreateNode(n)
      PROVE  Attended(c, d)'
  <2>1. /\ NodeEvent(n) /\ UNCHANGED <<dep, cache, rec>>
        /\ \A m \in Node \ {n} : node'[m] = node[m]
    BY <1>4 DEF Heartbeat, ReconcileNode, DeleteNode, CreateNode, TypeOK
  <2>2. ~Outstanding(c, d) /\ (Silent(d)' => Silent(d))
    BY <2>1, NodeWakes
  <2> QED BY <1>2, <2>1, <2>2 DEF Outstanding
<1>5. ASSUME NEW n \in Node, HeartbeatExpires(n) PROVE Attended(c, d)'
  <2>1. Silent(d)' => Silent(d)
    <3>1. node' = [node EXCEPT ![n].fresh = FALSE] /\ UNCHANGED dep
      BY <1>5 DEF HeartbeatExpires
    <3>2. \A m \in Node : node'[m].exists = node[m].exists /\ node'[m].state = node[m].state
      BY <3>1 DEF TypeOK, McuNode
    <3> QED BY <3>1, <3>2 DEF Silent
  <2> QED BY <1>0, <1>2, <1>5, <2>1 DEF HeartbeatExpires
<1>6. CASE \E n \in Node : DeviceActs(n)
  BY <1>0, <1>2, <1>6 DEF DeviceActs, DeviceReboots, DeviceBoots, SelfCheckPasses, MarksValid,
              Degrades, Recovers, DeviceStep, Silent
<1>7. ASSUME NEW e \in Deployment, DeleteDeployment(e) PROVE Attended(c, d)'
  <2>1. /\ dep' = [dep EXCEPT ![e] = DeletedDep] /\ DeletedDep.phase = "Gone"
        /\ UNCHANGED <<cache, node, rec>>
    BY <1>7 DEF DeleteDeployment, DeletedDep, NewDep
  <2>2. CASE d = e
    <3>1. dep'[d].phase = "Gone"
      BY <2>1, <2>2 DEF TypeOK
    <3> QED BY <3>1 DEF Attended, Alive, Ended, Silent
  <2>3. CASE d # e
    <3>1. dep'[d] = dep[d] /\ d \notin queue[c]
      BY <1>0, <1>7, <2>1, <2>3 DEF DeleteDeployment, DepEvent, TypeOK
    <3> QED BY <1>2, <2>1, <3>1 DEF Silent
  <2> QED BY <2>2, <2>3
<1>8. ASSUME NEW e \in Deployment, NEW i \in Image, PatchImage(e, i) PROVE Attended(c, d)'
  <2>1. d \notin queue[c] /\ UNCHANGED <<dep, cache, node, rec>>
    BY <1>0, <1>8 DEF PatchImage
  <2> QED BY <1>2, <2>1 DEF Silent
<1>9. CASE UNCHANGED vars
  BY <1>0, <1>2, <1>9 DEF vars, Silent
<1> QED BY <1>1, <1>3, <1>4, <1>5, <1>6, <1>7, <1>8, <1>9 DEF Next, NodeStep, Operator

\* Every deployment is in the queue of a controller that starts, and in no hands.
LEMMA AttendedInit == Init => OfflineIsSilent /\ CopyInHand /\ AttendedInv
<1> SUFFICES ASSUME Init PROVE OfflineIsSilent /\ CopyInHand /\ AttendedInv
  OBVIOUS
<1>1. OfflineIsSilent
  BY DEF Init, NewNode, OfflineIsSilent
<1>2. CopyInHand
  BY DEF Init, Idle, CopyInHand, InHand
<1>3. AttendedInv
  BY DEF Init, AttendedInv, Outstanding
<1> QED BY <1>1, <1>2, <1>3

\* The controllers keep AttendedInv: any number of them on copies that are current,
\* or one of them on copies that may be behind.
LEMMA AttendedAlways ==
    ASSUME ~CacheLag \/ \A c, k \in Controller : c = k
    PROVE  Spec => []AttendedInv
<1>1. CASE ~CacheLag
  <2>1. TypeOK /\ OfflineIsSilent /\ AttendedInv /\ [Next]_vars => AttendedInv'
    BY <1>1, AttendedStep DEF Heard
  <2> QED BY <2>1, AttendedInit, OfflineStep, TypeCorrect, PTL DEF Spec
<1>2. CASE CacheLag /\ \A c, k \in Controller : c = k
  <2>1. TypeOK /\ OfflineIsSilent /\ CopyInHand /\ [Next]_vars => CopyInHand'
    BY <1>2, CopyInHandStep
  <2>2. /\ TypeOK /\ ActivationInv /\ OfflineIsSilent /\ CopyInHand /\ AttendedInv
        /\ [Next]_vars
        => AttendedInv'
    BY <1>2, AttendedStep DEF Heard
  <2>3. Spec => [](TypeOK /\ ActivationInv)
    BY <1>2, ActivationAlways
  <2> QED BY <2>1, <2>2, <2>3, AttendedInit, OfflineStep, TypeCorrect, PTL DEF Spec
<1> QED BY <1>1, <1>2, CacheLagAssumption

\* No event is lost between an informer, a queue and a reconcile that reads before
\* it writes: whatever is patched, deleted, crashes or falls silent in between, a
\* deployment with something left to do for it will be reconciled again.
THEOREM NoLostWakeup ==
    ASSUME ~CacheLag \/ \A c, k \in Controller : c = k
    PROVE  Spec => []NothingForgotten
<1>1. AttendedInv => NothingForgotten
  BY DEF AttendedInv, Attended, Outstanding, NothingForgotten, Ended
<1> QED BY <1>1, AttendedAlways, PTL
=============================================================================
