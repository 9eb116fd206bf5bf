-------------------------- MODULE NodeStatusProofs --------------------------
(***************************************************************************)
(* For any number of handlers, heartbeats and reports, whatever the age of *)
(* the caches and wherever the controller crashes: the status of a node is *)
(* never a mixture of its two writers.                                     *)
(***************************************************************************)
EXTENDS NodeStatus, TLAPS

(***************************************************************************)
(* The inductive invariant                                                 *)
(***************************************************************************)
\* A resourceVersion that is still the one on the API server says that the copy
\* is the object.
CopiesAreCurrent == \A r \in Reader : copy[r].current => copy[r].obj = node

\* A handler that has a heartbeat to store has one.
InHand == \A h \in Handler : pc[h] \in {"get", "patch"} => report[h].beat # 0

\* A node that never spoke is not offline.
OfflineOnceSpoke == node.state = "offline" => node.beat # 0

\* A status that one of the two writers may mean.
Sound(o) ==
    /\ o.ready => o.state = "running" /\ o.validated
    /\ DeclaredSilent(o) => o.state = "offline"
    /\ o.state = "offline" =>
           /\ ~o.ready /\ o.beat # 0
           /\ DeclaredSilent(o) \/ o.cond \in {"DeviceNotReady", "ClockUnsynced"}

\* What the reconciler decided is still what its copy calls for, although time
\* has passed since.
WantIsSound ==
    pc["reconciler"] = "patch" /\ copy["reconciler"].current =>
        /\ want.beat = node.beat
        /\ Sound(want)
        /\ DeclaredSilent(want) /\ ~DeclaredSilent(node) => Expired(node)

Inv == TypeOK /\ CopiesAreCurrent /\ InHand /\ OfflineOnceSpoke /\ WantIsSound
           /\ ReadyAgrees /\ OfflineExplained

(***************************************************************************)
(* Values                                                                  *)
(***************************************************************************)
\* The writers and readers are different.
LEMMA Actors ==
    /\ "reconciler" \in Writer /\ "reconciler" \in Reader /\ "informer" \in Reader
    /\ Handler \subseteq Writer /\ Writer \subseteq Reader
    /\ \A h \in Handler : h # "reconciler" /\ h # "informer"
BY HandlerAssumption DEF Writer, Reader

\* The status of a node that was just created.
LEMMA NewTyped == NewStatus \in Status /\ 0 \in Beat
BY MaxBeatsAssumption DEF NewStatus, Status, Beat, Cond

\* A merge patch against the object as it is makes it what was meant.
LEMMA MergedCurrent ==
    ASSUME NEW base \in Status, NEW new \in Status
    PROVE  Merged(base, base, new) = new
<1>1. DOMAIN base = DOMAIN new
  BY DEF Status
<1>2. Merged(base, base, new) = [f \in DOMAIN new |-> new[f]]
  BY <1>1 DEF Merged
<1>3. new = [f \in DOMAIN new |-> new[f]]
  BY DEF Status
<1>4. QED
  BY <1>2, <1>3

\* What a heartbeat leads to.
LEMMA ReportedSound ==
    ASSUME NEW r \in HeartbeatInHand, r.beat # 0
    PROVE  Reported(r) \in Status /\ Sound(Reported(r)) /\ ~DeclaredSilent(Reported(r))
<1>1. /\ r.beat \in Beat /\ r.state \in ReportedState
      /\ r.validated \in BOOLEAN /\ r.unsynced \in BOOLEAN
  <2>0. NoReport.beat = 0
    BY DEF NoReport
  <2>1. r # NoReport
    BY <2>0
  <2>2. r \in [beat : Beat, state : ReportedState, validated : BOOLEAN, unsynced : BOOLEAN]
    BY <2>1 DEF HeartbeatInHand
  <2>3. QED
    BY <2>2
<1>2. QED
  BY <1>1 DEF Reported, Status, Sound, Cond, ReportedState, DeclaredSilent

\* What the reconciler decides.
LEMMA DecidedSound ==
    ASSUME NEW o \in Status, Sound(o)
    PROVE  /\ Decided(o) \in Status /\ Sound(Decided(o))
           /\ Decided(o).beat = o.beat
           /\ DeclaredSilent(Decided(o)) /\ ~DeclaredSilent(o) => Expired(o)
<1>1. /\ o.beat \in Beat /\ o.state \in ReportedState \cup {""}
      /\ o.validated \in BOOLEAN /\ o.ready \in BOOLEAN /\ o.cond \in Cond
  BY DEF Status
<1>2. CASE o.beat = 0
  <2>1. Decided(o) \in Status
    BY <1>2 DEF Decided, Status, Cond
  <2>2. QED
    BY <1>1, <1>2, <2>1 DEF Decided, Status, Sound, Cond, DeclaredSilent
<1>3. CASE o.beat # 0 /\ Expired(o)
  BY <1>1, <1>3 DEF Decided, Status, Sound, Cond, DeclaredSilent, ReportedState
<1>4. CASE o.beat # 0 /\ ~Expired(o)
  BY <1>1, <1>4 DEF Decided, Status, Sound, Cond, DeclaredSilent
<1>5. QED
  BY <1>2, <1>3, <1>4

\* Decided has the type of a status, whatever it is decided on.
LEMMA DecidedTyped == ASSUME NEW o \in Status PROVE Decided(o) \in Status
BY DEF Decided, Status, Cond, ReportedState

(***************************************************************************)
(* Patches                                                                 *)
(***************************************************************************)
\* A patch that the optimistic lock lets through.
LEMMA PatchesCurrent ==
    ASSUME TypeOK, CopiesAreCurrent, NEW w \in Reader, NEW new \in Status, Patches(w, new)
    PROVE  /\ node' = new /\ copy[w].obj = node /\ copy[w].current
           /\ copy' \in [Reader -> Copy] /\ CopiesAreCurrent'
           /\ \A r \in Reader \ {w} :
                  copy'[r].current => copy[r].current /\ node' = node
<1>1. copy[w].current /\ copy[w].obj = node
  BY DEF Patches, CopiesAreCurrent
<1>2. Merged(node, copy[w].obj, new) = new
  BY <1>1, MergedCurrent DEF TypeOK
<1>3. Stores(w, new)
  BY <1>2 DEF Patches
<1>4. node' = new
  BY <1>3 DEF Stores
<1>5. ASSUME NEW r \in Reader
      PROVE  /\ copy'[r] \in Copy
             /\ r = w => copy'[r].obj = new
             /\ r # w => /\ copy'[r].obj = copy[r].obj
                         /\ copy'[r].current => copy[r].current /\ new = node
  <2>1. copy[r] \in Copy
    BY DEF TypeOK
  <2>2. CASE r = w
    BY <1>3, <2>2 DEF Stores, Copy
  <2>3. CASE r # w
    <3>1. copy'[r] = [copy[r] EXCEPT !.current = copy[r].current /\ new = node]
      BY <1>3, <2>3 DEF Stores
    <3> DEFINE still == copy[r].current /\ new = node
    <3>2. still \in BOOLEAN
      BY <2>1 DEF Copy
    <3>3. copy'[r] = [copy[r] EXCEPT !.current = still]
      BY <3>1
    <3>4. still => copy[r].current /\ new = node
      OBVIOUS
    <3> HIDE DEF still
    <3>5. copy'[r] \in Copy /\ copy'[r].obj = copy[r].obj /\ copy'[r].current = still
      BY <2>1, <3>2, <3>3 DEF Copy
    <3>6. QED
      BY <2>3, <3>4, <3>5
  <2>4. QED
    BY <2>2, <2>3
<1>6. copy' \in [Reader -> Copy]
  BY <1>3, <1>5 DEF Stores
<1>7. CopiesAreCurrent'
  BY <1>4, <1>5 DEF CopiesAreCurrent
<1>8. QED
  BY <1>1, <1>4, <1>5, <1>6, <1>7

\* A sound status is all that the safety properties ask of a node.
LEMMA SoundNode == Sound(node) <=> ReadyAgrees /\ OfflineExplained /\ OfflineOnceSpoke
BY DEF Sound, ReadyAgrees, OfflineExplained, OfflineOnceSpoke, DeclaredSilent

(***************************************************************************)
(* Steps                                                                   *)
(***************************************************************************)
\* Nothing is in progress and no heartbeat has come.
LEMMA InitInv == Init => Inv
<1> SUFFICES ASSUME Init PROVE Inv
  OBVIOUS
<1>1. /\ NewStatus \in Status /\ NoReport \in HeartbeatInHand /\ NoSlice \in Slice
      /\ 0 \in Beat /\ 0 \in 0 .. 0
  BY NewTyped DEF HeartbeatInHand, NoSlice, Slice
<1>2. copy \in [Reader -> Copy]
  BY <1>1 DEF Init, Copy
<1>3. TypeOK
  BY <1>1, <1>2 DEF Init, TypeOK
<1>4. CopiesAreCurrent /\ InHand /\ WantIsSound
  BY Actors DEF Init, CopiesAreCurrent, InHand, WantIsSound
<1>5. ReadyAgrees /\ OfflineExplained /\ OfflineOnceSpoke
  BY DEF Init, NewStatus, ReadyAgrees, OfflineExplained, OfflineOnceSpoke, DeclaredSilent
<1>6. QED
  BY <1>3, <1>4, <1>5 DEF Inv

\* What is published is a slice.
LEMMA PublishedTyped ==
    ASSUME NEW stored \in Slice, NEW seen \in Slice, NEW ready \in BOOLEAN
    PROVE  Published(stored, seen, ready) \in Slice
<1>1. [exists |-> TRUE, ready |-> ready] \in Slice
  BY DEF Slice
<1>2. [stored EXCEPT !.ready = ready] \in Slice
  BY DEF Slice
<1>3. QED
  BY <1>1, <1>2 DEF Published

\* Steps that leave the node, its copies and what the reconciler wants alone.
LEMMA NodeUntouched ==
    ASSUME Inv, TypeOK', InHand', UNCHANGED <<node, copy, want>>, horizon' >= horizon,
           pc'["reconciler"] \in {pc["reconciler"], "idle", "slice"}
    PROVE  Inv'
<1>1. Expired(node) => Expired(node)'
  <2>1. node.beat \in Nat /\ node' = node
    <3>1. node \in Status
      BY DEF Inv, TypeOK
    <3>2. node.beat \in Beat
      BY <3>1 DEF Status
    <3>3. QED
      BY <3>2, MaxBeatsAssumption DEF Beat
  <2>2. horizon \in Nat /\ horizon' \in Nat
    BY MaxBeatsAssumption DEF Inv, TypeOK, Beat
  <2>3. QED
    BY <2>1, <2>2 DEF Expired
<1>2. WantIsSound'
  BY <1>1 DEF Inv, WantIsSound, Sound, DeclaredSilent
<1>3. QED
  BY <1>2 DEF Inv, CopiesAreCurrent, OfflineOnceSpoke, ReadyAgrees, OfflineExplained,
              DeclaredSilent

\* The handlers.
LEMMA HandlerStep == ASSUME Inv, NEW h \in Handler, HandlerActs(h) PROVE Inv'
<1>1. /\ h \in Writer /\ h \in Reader /\ h # "reconciler"
      /\ pc \in [Writer -> {"idle", "get", "patch", "slice"}]
      /\ report \in [Handler -> HeartbeatInHand] /\ copy \in [Reader -> Copy]
  BY Actors DEF Inv, TypeOK
<1>2. NoReport \in HeartbeatInHand /\ NoReport.beat = 0
  BY DEF HeartbeatInHand, NoReport
<1>3. CASE \E r \in Report : HeartbeatArrives(h, r)
  <2>1. PICK r \in Report : HeartbeatArrives(h, r)
    BY <1>3
  <2> DEFINE beat == [beat |-> beats + 1, state |-> r.state, validated |-> r.validated,
                      unsynced |-> r.unsynced]
  <2>2. beats \in Nat /\ beats < MaxBeats /\ beats' = beats + 1 /\ UNCHANGED horizon
        /\ horizon \in 0 .. beats /\ r.state \in ReportedState
    BY <2>1, MaxBeatsAssumption DEF HeartbeatArrives, Accepts, Inv, TypeOK, Beat
  <2>3. beat \in HeartbeatInHand /\ beat.beat # 0
    BY <2>2, ReportAssumption, MaxBeatsAssumption DEF HeartbeatInHand, Beat
  <2>4. report' = [report EXCEPT ![h] = beat] /\ pc' = [pc EXCEPT ![h] = "get"]
    BY <2>1 DEF HeartbeatArrives, Goes
  <2> HIDE DEF beat
  <2>5. beats' \in Beat /\ horizon' \in 0 .. beats' /\ horizon' >= horizon
    BY <2>2, MaxBeatsAssumption DEF Beat
  <2>6. TypeOK'
    BY <1>1, <2>1, <2>3, <2>4, <2>5 DEF HeartbeatArrives, Inv, TypeOK
  <2>7. InHand'
    BY <1>1, <2>3, <2>4 DEF Inv, InHand
  <2>8. QED
    BY <1>1, <2>1, <2>4, <2>5, <2>6, <2>7, NodeUntouched DEF HeartbeatArrives
<1>4. CASE HandlerGets(h)
  <2>1. /\ copy' = [copy EXCEPT ![h] = copy["informer"]] /\ pc' = [pc EXCEPT ![h] = "patch"]
        /\ pc[h] = "get" /\ UNCHANGED <<node, report, want, beats, horizon, slice, sliceSeen>>
    BY <1>4 DEF HandlerGets, Reads, Goes
  <2>2. copy'["reconciler"] = copy["reconciler"] /\ pc'["reconciler"] = pc["reconciler"]
    BY <1>1, <2>1
  <2>3. TypeOK'
    BY <1>1, <2>1, Actors DEF Inv, TypeOK
  <2>4. CopiesAreCurrent'
    BY <1>1, <2>1, Actors DEF Inv, CopiesAreCurrent
  <2>5. InHand'
    BY <1>1, <2>1 DEF Inv, InHand
  <2>6. WantIsSound'
    BY <2>1, <2>2 DEF Inv, WantIsSound, Sound, DeclaredSilent, Expired
  <2>7. QED
    BY <2>1, <2>3, <2>4, <2>5, <2>6 DEF Inv, OfflineOnceSpoke, ReadyAgrees, OfflineExplained,
       DeclaredSilent
<1>5. CASE HandlerPatches(h)
  <2> DEFINE new == Reported(report[h])
  <2>1. /\ Patches(h, new) /\ pc[h] = "patch" /\ pc' = [pc EXCEPT ![h] = "idle"]
        /\ report' = [report EXCEPT ![h] = NoReport]
        /\ UNCHANGED <<want, beats, horizon, slice, sliceSeen>>
    BY <1>5 DEF HandlerPatches, HandlerDone, Goes
  <2>2. report[h] \in HeartbeatInHand /\ report[h].beat # 0
    BY <1>1, <2>1 DEF Inv, InHand
  <2>3. new \in Status /\ Sound(new)
    BY <2>2, ReportedSound
  <2> HIDE DEF new
  <2>4. /\ node' = new /\ copy' \in [Reader -> Copy] /\ CopiesAreCurrent'
        /\ copy'["reconciler"].current => copy["reconciler"].current /\ node' = node
    BY <1>1, <2>1, <2>3, PatchesCurrent, Actors DEF Inv
  <2>5. TypeOK'
    BY <1>1, <1>2, <2>1, <2>3, <2>4 DEF Inv, TypeOK
  <2>6. InHand'
    BY <1>1, <2>1 DEF Inv, InHand
  <2>7. WantIsSound'
    BY <1>1, <2>1, <2>4, Actors DEF Inv, WantIsSound, Sound, DeclaredSilent, Expired
  <2>8. ReadyAgrees' /\ OfflineExplained' /\ OfflineOnceSpoke'
    BY <2>3, <2>4 DEF Sound, ReadyAgrees, OfflineExplained, OfflineOnceSpoke, DeclaredSilent
  <2>9. QED
    BY <2>4, <2>5, <2>6, <2>7, <2>8 DEF Inv
<1>6. CASE HandlerConflicts(h)
  <2>1. /\ UNCHANGED <<node, copy, want, beats, horizon, slice, sliceSeen>>
        /\ pc[h] = "patch"
        /\ \/ pc' = [pc EXCEPT ![h] = "get"] /\ report' = report
           \/ pc' = [pc EXCEPT ![h] = "idle"] /\ report' = [report EXCEPT ![h] = NoReport]
    BY <1>6 DEF HandlerConflicts, HandlerDone, Goes
  <2>2. TypeOK' /\ InHand' /\ pc'["reconciler"] = pc["reconciler"]
    BY <1>1, <1>2, <2>1, Actors DEF Inv, TypeOK, InHand
  <2>3. horizon' >= horizon
    BY <2>1 DEF Inv, TypeOK, Beat
  <2>4. QED
    BY <2>1, <2>2, <2>3, NodeUntouched
<1>7. QED
  BY <1>3, <1>4, <1>5, <1>6 DEF HandlerActs

\* The reconciler.
LEMMA ReconcilerStep == ASSUME Inv, ReconcilerActs PROVE Inv'
<1>1. /\ pc \in [Writer -> {"idle", "get", "patch", "slice"}]
      /\ copy \in [Reader -> Copy] /\ want \in Status
      /\ \A h \in Handler : h # "reconciler" /\ h \in Writer
  BY Actors DEF Inv, TypeOK
<1>2. ASSUME NEW step, pc' = [pc EXCEPT !["reconciler"] = step], report' = report
      PROVE  InHand'
  BY <1>1, <1>2 DEF Inv, InHand
<1>3. CASE ReconcilerReads
  <2> DEFINE o == copy["informer"].obj
  <2>1. /\ copy' = [copy EXCEPT !["reconciler"] = copy["informer"]] /\ want' = Decided(o)
        /\ pc' = [pc EXCEPT !["reconciler"] = "patch"]
        /\ UNCHANGED <<node, report, beats, horizon, slice, sliceSeen>>
    BY <1>3 DEF ReconcilerReads, Reads, Goes
  <2>2. o \in Status /\ Decided(o) \in Status
    BY <1>1, DecidedTyped, Actors DEF Copy
  <2>3. TypeOK'
    BY <1>1, <2>1, <2>2, Actors DEF Inv, TypeOK
  <2>4. CopiesAreCurrent'
    BY <1>1, <2>1, Actors DEF Inv, CopiesAreCurrent
  <2>5. copy'["reconciler"].current => o = node /\ Sound(o)
    BY <1>1, <2>1, Actors, SoundNode DEF Inv, CopiesAreCurrent
  <2>6. ASSUME copy'["reconciler"].current
        PROVE  /\ want' = Decided(node) /\ node \in Status /\ Sound(node)
               /\ Sound(Decided(node)) /\ Decided(node).beat = node.beat
               /\ DeclaredSilent(Decided(node)) /\ ~DeclaredSilent(node) => Expired(node)
    <3>1. o = node /\ Sound(node)
      BY <2>5, <2>6
    <3>2. QED
      BY <2>1, <2>2, <3>1, DecidedSound
  <2>7. WantIsSound'
    BY <2>1, <2>6 DEF WantIsSound, Sound, Expired, DeclaredSilent
  <2>8. QED
    BY <1>2, <2>1, <2>3, <2>4, <2>7 DEF Inv, OfflineOnceSpoke, ReadyAgrees, OfflineExplained,
       DeclaredSilent
<1>4. CASE ReconcilerPatches
  <2>1. /\ pc["reconciler"] = "patch" /\ Patches("reconciler", want)
        /\ UNCHANGED <<report, want, beats, horizon, slice, sliceSeen>>
    BY <1>4 DEF ReconcilerPatches
  <2>2. PICK step \in {"idle", "slice"} : pc' = [pc EXCEPT !["reconciler"] = step]
    BY <1>4 DEF ReconcilerPatches, Goes
  <2>3. /\ node' = want /\ copy["reconciler"].current
        /\ copy' \in [Reader -> Copy] /\ CopiesAreCurrent'
    BY <1>1, <2>1, PatchesCurrent, Actors DEF Inv
  <2>4. TypeOK'
    BY <1>1, <2>1, <2>2, <2>3 DEF Inv, TypeOK
  <2>5. pc'["reconciler"] # "patch"
    BY <1>1, <2>2, Actors
  <2>6. ReadyAgrees' /\ OfflineExplained' /\ OfflineOnceSpoke'
    BY <2>1, <2>3 DEF Inv, WantIsSound, Sound, ReadyAgrees, OfflineExplained, OfflineOnceSpoke,
                      DeclaredSilent
  <2>7. QED
    BY <1>2, <2>1, <2>2, <2>3, <2>4, <2>5, <2>6 DEF Inv, WantIsSound
<1>5. CASE ReconcilerConflicts \/ ReconcilerPublishes
  <2>1. /\ pc' = [pc EXCEPT !["reconciler"] = "idle"]
        /\ UNCHANGED <<node, copy, report, want, beats, horizon, sliceSeen>>
    BY <1>5 DEF ReconcilerConflicts, ReconcilerPublishes, Goes
  <2>2. slice' \in Slice
    <3>1. copy["reconciler"].obj.ready \in BOOLEAN
      BY <1>1, Actors DEF Copy, Status
    <3>2. slice \in Slice /\ sliceSeen \in Slice
      BY DEF Inv, TypeOK
    <3>3. Published(slice, sliceSeen, copy["reconciler"].obj.ready) \in Slice
      BY <3>1, <3>2, PublishedTyped
    <3>4. QED
      BY <1>5, <3>2, <3>3 DEF ReconcilerConflicts, ReconcilerPublishes
  <2>3. TypeOK' /\ InHand' /\ pc'["reconciler"] = "idle"
    BY <1>1, <1>2, <2>1, <2>2, Actors DEF Inv, TypeOK
  <2>4. horizon' >= horizon
    BY <2>1 DEF Inv, TypeOK, Beat
  <2>5. QED
    BY <2>1, <2>3, <2>4, NodeUntouched
<1>6. QED
  BY <1>3, <1>4, <1>5 DEF ReconcilerActs

\* Informers, time and crashes.
LEMMA OtherStep ==
    ASSUME Inv, SyncNode \/ SyncSlice \/ TimePasses \/ Crash PROVE Inv'
<1>1. CASE SyncNode
  <2> DEFINE fresh == [obj |-> node, current |-> TRUE]
  <2>1. /\ copy' = [copy EXCEPT !["informer"] = fresh]
        /\ UNCHANGED <<node, pc, report, want, beats, horizon, slice, sliceSeen>>
    BY <1>1 DEF SyncNode
  <2>2. fresh \in Copy /\ copy \in [Reader -> Copy]
    BY DEF Copy, Inv, TypeOK
  <2>3. TypeOK' /\ CopiesAreCurrent'
    BY <2>1, <2>2, Actors DEF Inv, TypeOK, CopiesAreCurrent
  <2>4. copy'["reconciler"] = copy["reconciler"]
    BY <2>1, <2>2, Actors
  <2>5. WantIsSound' /\ InHand'
    BY <2>1, <2>4 DEF Inv, WantIsSound, Sound, DeclaredSilent, InHand, Expired
  <2>6. QED
    BY <2>1, <2>3, <2>5 DEF Inv, OfflineOnceSpoke, ReadyAgrees, OfflineExplained,
       DeclaredSilent
<1>2. CASE SyncSlice
  BY <1>2, NodeUntouched DEF SyncSlice, Inv, TypeOK, InHand, Beat
<1>3. CASE TimePasses
  <2>1. horizon' \in 0 .. beats /\ horizon' >= horizon
    BY <1>3 DEF TimePasses, Inv, TypeOK, Beat
  <2>2. QED
    BY <1>3, <2>1, NodeUntouched DEF TimePasses, Inv, TypeOK, InHand
<1>4. CASE Crash
  <2>1. /\ pc' = [w \in Writer |-> "idle"] /\ report' = [h \in Handler |-> NoReport]
        /\ copy' = [r \in Reader |-> [obj |-> node, current |-> TRUE]]
        /\ UNCHANGED <<node, want, beats, horizon, slice>> /\ sliceSeen' = slice
    BY <1>4 DEF Crash
  <2>2. copy' \in [Reader -> Copy] /\ NoReport \in HeartbeatInHand
    BY <2>1 DEF Copy, HeartbeatInHand, Inv, TypeOK
  <2>3. TypeOK'
    BY <2>1, <2>2 DEF Inv, TypeOK
  <2>4. CopiesAreCurrent' /\ InHand' /\ WantIsSound'
    BY <2>1, Actors DEF CopiesAreCurrent, InHand, WantIsSound
  <2>5. QED
    BY <2>1, <2>3, <2>4 DEF Inv, OfflineOnceSpoke, ReadyAgrees, OfflineExplained,
       DeclaredSilent
<1>5. QED
  BY <1>1, <1>2, <1>3, <1>4

\* Every step keeps the invariant.
LEMMA InvStep == Inv /\ [Next]_vars => Inv'
<1>1. Inv /\ UNCHANGED vars => Inv'
  BY DEF vars, Inv, TypeOK, CopiesAreCurrent, InHand, OfflineOnceSpoke, WantIsSound, ReadyAgrees,
         OfflineExplained, Expired, Sound, DeclaredSilent
<1>2. QED
  BY <1>1, HandlerStep, ReconcilerStep, OtherStep DEF Next

\* The inductive invariant, in every behaviour.
LEMMA Invariant == Spec => []Inv
BY InitInv, InvStep, PTL DEF Spec

(***************************************************************************)
(* Theorems                                                                *)
(***************************************************************************)
\* Every variable keeps its type.
THEOREM TypeCorrect == Spec => []TypeOK
<1>1. Inv => TypeOK
  BY DEF Inv
<1>2. QED
  BY <1>1, Invariant, PTL

\* A node that is Ready runs a validated image, by the word of one heartbeat.
THEOREM ReadyAlwaysAgrees == Spec => []ReadyAgrees
<1>1. Inv => ReadyAgrees
  BY DEF Inv
<1>2. QED
  BY <1>1, Invariant, PTL

\* An offline node says why, and is not Ready, whoever called it offline.
THEOREM OfflineAlwaysExplained == Spec => []OfflineExplained
<1>1. Inv => OfflineExplained
  BY DEF Inv
<1>2. QED
  BY <1>1, Invariant, PTL

\* What has a node declared silent is that the heartbeat it holds is too old: one
\* that was stored since the decision makes the patch conflict.
THEOREM HeartbeatNeverErased == Spec => OfflineOnlyIfSilent
<1>1. ASSUME Inv, [Next]_vars, ~DeclaredSilent(node), DeclaredSilent(node)'
      PROVE  Expired(node)
  <2>1. ASSUME NEW h \in Handler, HandlerPatches(h) PROVE FALSE
    <3>1. h \in Reader /\ Patches(h, Reported(report[h])) /\ pc[h] = "patch"
      BY <2>1, Actors DEF HandlerPatches
    <3>2. report[h] \in HeartbeatInHand /\ report[h].beat # 0
      BY <1>1, <3>1 DEF Inv, TypeOK, InHand
    <3>3. Reported(report[h]) \in Status /\ ~DeclaredSilent(Reported(report[h]))
      BY <3>2, ReportedSound
    <3>4. node' = Reported(report[h])
      BY <1>1, <3>1, <3>3, PatchesCurrent DEF Inv
    <3>5. QED
      BY <1>1, <3>3, <3>4 DEF DeclaredSilent
  <2>2. CASE ReconcilerPatches
    <3>1. /\ pc["reconciler"] = "patch" /\ Patches("reconciler", want)
          /\ want \in Status
      BY <1>1, <2>2 DEF ReconcilerPatches, Inv, TypeOK
    <3>2. node' = want /\ copy["reconciler"].current
      BY <1>1, <3>1, PatchesCurrent, Actors DEF Inv
    <3>3. QED
      BY <1>1, <3>1, <3>2 DEF Inv, WantIsSound, DeclaredSilent
  <2>3. QED
    BY <1>1, <2>1, <2>2
       DEF Next, vars, HandlerActs, HeartbeatArrives, HandlerGets, HandlerConflicts,
           ReconcilerActs, ReconcilerReads, ReconcilerConflicts, ReconcilerPublishes,
           SyncNode, SyncSlice, TimePasses, Crash, DeclaredSilent
<1>2. Inv /\ [Next]_vars =>
          [~DeclaredSilent(node) /\ DeclaredSilent(node)' => Expired(node)]_vars
  BY <1>1
<1>3. QED
  BY <1>2, Invariant, PTL DEF Spec, OfflineOnlyIfSilent

(***************************************************************************)
(* The refinement.  What Inv does not say: a node that was declared silent *)
(* still is, the reconciler wants one of three things of the status as it  *)
(* is, and a heartbeat is in the hands of one handler.                     *)
(***************************************************************************)
SilenceLasts == DeclaredSilent(node) => Expired(node)

\* The status w is what the reconciler may make of the status o.
Decides(o, w) ==
    /\ w.beat = o.beat /\ w.validated = o.validated
    /\ \/ o.beat = 0 /\ w.state = o.state /\ ~DeclaredSilent(w)
       \/ o.beat # 0 /\ Expired(o) /\ w.state = "offline" /\ DeclaredSilent(w)
       \/ /\ o.beat # 0 /\ w.state = o.state
          /\ ~DeclaredSilent(o) /\ ~DeclaredSilent(w)
          /\ w.ready <=> Fit(o)

WantIsDecision ==
    pc["reconciler"] = "patch" /\ copy["reconciler"].current => Decides(node, want)

BeatsInHand ==
    \A h \in Handler :
        /\ report[h].beat <= beats
        /\ pc[h] = "idle" => report[h] = NoReport
        /\ report[h] # NoReport => report[h].beat # 0
        /\ \A k \in Handler : report[h].beat = report[k].beat /\ report[h].beat # 0 => h = k

RegisterInv == SilenceLasts /\ WantIsDecision /\ BeatsInHand

\* No heartbeat is none of those that have a number.
LEMMA NoReportHasNoBeat == NoReport.beat = 0
BY DEF NoReport

\* A heartbeat has a number.
LEMMA BeatsAreNumbers == Beat \subseteq Nat
BY MaxBeatsAssumption DEF Beat

\* The reconciler decides one of the three.
LEMMA DecidesNow ==
    ASSUME NEW o \in Status, DeclaredSilent(o) => Expired(o)
    PROVE  Decides(o, Decided(o))
<1> DEFINE alive == ~Expired(o) /\ o.state = "running" /\ o.validated
<1>1. CASE o.beat = 0
  BY <1>1 DEF Decides, Decided, Status, DeclaredSilent
<1>2. CASE o.beat # 0 /\ Expired(o)
  BY <1>2 DEF Decides, Decided, Status, DeclaredSilent
<1>3. CASE o.beat # 0 /\ ~Expired(o)
  <2>1. Decided(o) = [o EXCEPT !.ready = alive]
    BY <1>3 DEF Decided
  <2>2. /\ Decided(o).beat = o.beat /\ Decided(o).state = o.state
        /\ Decided(o).validated = o.validated /\ Decided(o).cond = o.cond
    BY <2>1 DEF Status
  <2>3. Decided(o).ready = alive
    BY <2>1 DEF Status
  <2>4. alive <=> Fit(o)
    BY <1>3 DEF Fit
  <2> HIDE DEF alive
  <2>5. Decided(o).ready <=> Fit(o)
    BY <2>3, <2>4
  <2> QED BY <1>3, <2>2, <2>5 DEF Decides, DeclaredSilent
<1> QED BY <1>1, <1>2, <1>3

\* Time does not undo a decision.
LEMMA DecidesLater ==
    ASSUME Inv, horizon' \in Nat, horizon' >= horizon, NEW w, Decides(node, w), UNCHANGED node
    PROVE  Decides(node, w)'
<1>1. Expired(node) => Expired(node)'
  <2>1. node.beat \in Nat
    <3>1. node \in Status
      BY DEF Inv, TypeOK
    <3>2. node.beat \in Beat
      BY <3>1 DEF Status
    <3> QED BY <3>2, BeatsAreNumbers
  <2>2. horizon \in Nat
    BY MaxBeatsAssumption DEF Inv, TypeOK, Beat
  <2> QED BY <2>1, <2>2 DEF Expired
<1> QED BY <1>1 DEF Decides, Fit, DeclaredSilent

\* A heartbeat that is stored says something new.
LEMMA ReportedFields ==
    ASSUME NEW r \in HeartbeatInHand, r.beat # 0
    PROVE  /\ Reported(r) \in Status /\ Reported(r).beat = r.beat
           /\ ~DeclaredSilent(Reported(r))
           /\ Fit(Reported(r)) <=> Fit(r)
           /\ Reported(r).ready <=> Fit(r) /\ ~r.unsynced
<1>1. Reported(r) \in Status /\ ~DeclaredSilent(Reported(r))
  BY ReportedSound
<1>2. /\ Reported(r).beat = r.beat /\ Reported(r).state = r.state
      /\ Reported(r).validated = r.validated
      /\ Reported(r).ready = (r.state = "running" /\ r.validated /\ ~r.unsynced)
  BY DEF Reported
<1>3. Fit(Reported(r)) <=> Fit(r)
  BY <1>2 DEF Fit
<1>4. Reported(r).ready <=> Fit(r) /\ ~r.unsynced
  BY <1>2 DEF Fit
<1> QED BY <1>1, <1>2, <1>3, <1>4

\* Who changes the status: a heartbeat, or a decision about it as it is.
LEMMA StatusWriters ==
    ASSUME Inv, RegisterInv, [Next]_vars
    PROVE  \/ UNCHANGED node
           \/ \E h \in Handler : HandlerPatches(h) /\ node' = Reported(report[h])
           \/ ReconcilerPatches /\ node' = want /\ Decides(node, want)
<1>1. ASSUME NEW h \in Handler, HandlerPatches(h) PROVE node' = Reported(report[h])
  <2>1. h \in Reader /\ Patches(h, Reported(report[h])) /\ pc[h] = "patch"
    BY <1>1, Actors DEF HandlerPatches
  <2>2. report[h] \in HeartbeatInHand /\ report[h].beat # 0
    BY <2>1 DEF Inv, TypeOK, InHand
  <2>3. Reported(report[h]) \in Status
    BY <2>2, ReportedSound
  <2> QED BY <2>1, <2>3, PatchesCurrent DEF Inv
<1>2. CASE ReconcilerPatches
  <2>1. /\ pc["reconciler"] = "patch" /\ Patches("reconciler", want) /\ want \in Status
    BY <1>2 DEF ReconcilerPatches, Inv, TypeOK
  <2>2. node' = want /\ copy["reconciler"].current
    BY <2>1, PatchesCurrent, Actors DEF Inv
  <2> QED BY <1>2, <2>1, <2>2 DEF RegisterInv, WantIsDecision
<1> QED BY <1>1, <1>2
       DEF Next, vars, HandlerActs, HeartbeatArrives, HandlerGets, HandlerConflicts,
           ReconcilerActs, ReconcilerReads, ReconcilerConflicts, ReconcilerPublishes,
           SyncNode, SyncSlice, TimePasses, Crash

\* What any step does with the heartbeats in hand: nothing, one more, one less, or
\* all of them lost.
LEMMA ReportWriters ==
    ASSUME Inv, BeatsInHand, [Next]_vars
    PROVE  \/ /\ UNCHANGED <<report, beats>>
              /\ \A h \in Handler : pc'[h] = "idle" => pc[h] = "idle"
           \/ \E h \in Handler, r \in Report :
                /\ HeartbeatArrives(h, r) /\ report[h] = NoReport
                /\ \A k \in Handler : pc'[k] = "idle" => pc[k] = "idle"
           \/ \E h \in Handler :
                /\ report' = [report EXCEPT ![h] = NoReport] /\ UNCHANGED beats
                /\ \A k \in Handler \ {h} : pc'[k] = pc[k]
           \/ report' = [h \in Handler |-> NoReport] /\ UNCHANGED beats
<1>0. pc \in [Writer -> {"idle", "get", "patch", "slice"}]
  BY DEF Inv, TypeOK
<1>1. ASSUME NEW h \in Handler, HandlerPatches(h) \/ HandlerConflicts(h)
      PROVE  \/ /\ UNCHANGED <<report, beats>>
                /\ \A k \in Handler : pc'[k] = "idle" => pc[k] = "idle"
             \/ /\ report' = [report EXCEPT ![h] = NoReport] /\ UNCHANGED beats
                /\ \A k \in Handler \ {h} : pc'[k] = pc[k]
  <2>1. \/ pc' = [pc EXCEPT ![h] = "get"] /\ UNCHANGED <<report, beats>>
        \/ /\ pc' = [pc EXCEPT ![h] = "idle"]
           /\ report' = [report EXCEPT ![h] = NoReport] /\ UNCHANGED beats
    BY <1>1 DEF HandlerPatches, HandlerConflicts, HandlerDone, Goes
  <2> QED BY <1>0, <2>1, Actors
<1>2. ASSUME NEW h \in Handler, NEW r \in Report, HeartbeatArrives(h, r)
      PROVE  report[h] = NoReport /\ \A k \in Handler : pc'[k] = "idle" => pc[k] = "idle"
  BY <1>0, <1>2, Actors DEF HeartbeatArrives, BeatsInHand, Goes
<1>3. ASSUME NEW h \in Handler, HandlerGets(h)
      PROVE  UNCHANGED <<report, beats>> /\ \A k \in Handler : pc'[k] = "idle" => pc[k] = "idle"
  BY <1>0, <1>3, Actors DEF HandlerGets, Goes
<1>4. CASE ReconcilerActs
  <2>1. UNCHANGED <<report, beats>> /\ \E step : pc' = [pc EXCEPT !["reconciler"] = step]
    BY <1>4 DEF ReconcilerActs, ReconcilerReads, ReconcilerPatches, ReconcilerConflicts,
                ReconcilerPublishes, Goes
  <2> QED BY <1>0, <2>1, Actors
<1>5. CASE SyncNode \/ SyncSlice \/ TimePasses \/ UNCHANGED vars
  BY <1>5 DEF SyncNode, SyncSlice, TimePasses, vars
<1>6. CASE Crash
  BY <1>6 DEF Crash
<1> QED BY <1>1, <1>2, <1>3, <1>4, <1>5, <1>6 DEF Next, HandlerActs

\* What the reconciler is about to patch is what it was, unless it just read.
LEMMA WantWriters ==
    ASSUME Inv, [Next]_vars, pc'["reconciler"] = "patch", copy'["reconciler"].current
    PROVE  \/ ReconcilerReads
           \/ /\ pc["reconciler"] = "patch" /\ copy["reconciler"].current
              /\ UNCHANGED <<node, want>>
<1>0. /\ pc \in [Writer -> {"idle", "get", "patch", "slice"}]
      /\ copy \in [Reader -> Copy] /\ TypeOK /\ CopiesAreCurrent
  BY DEF Inv, TypeOK
<1>1. ASSUME NEW h \in Handler, HandlerActs(h)
      PROVE  /\ pc["reconciler"] = "patch" /\ copy["reconciler"].current
             /\ UNCHANGED <<node, want>>
  <2>1. pc'["reconciler"] = pc["reconciler"] /\ UNCHANGED want
    BY <1>0, <1>1, Actors DEF HandlerActs, HeartbeatArrives, HandlerGets, HandlerPatches,
       HandlerConflicts, HandlerDone, Goes
  <2>2. CASE HandlerPatches(h)
    <3>1. h \in Reader /\ Patches(h, Reported(report[h])) /\ pc[h] = "patch"
      BY <2>2, Actors DEF HandlerPatches
    <3>2. report[h] \in HeartbeatInHand /\ report[h].beat # 0
      BY <3>1 DEF Inv, TypeOK, InHand
    <3>3. Reported(report[h]) \in Status
      BY <3>2, ReportedSound
    <3> QED BY <1>0, <2>1, <3>1, <3>3, PatchesCurrent, Actors
  <2>3. CASE HandlerGets(h)
    <3>1. copy'["reconciler"] = copy["reconciler"] /\ UNCHANGED node
      BY <1>0, <2>3, Actors DEF HandlerGets, Reads
    <3> QED BY <2>1, <3>1
  <2> QED BY <1>1, <2>1, <2>2, <2>3 DEF HandlerActs, HeartbeatArrives, HandlerConflicts
<1>2. CASE ReconcilerActs /\ ~ReconcilerReads
  BY <1>0, <1>2, Actors DEF ReconcilerActs, ReconcilerPatches, ReconcilerConflicts,
     ReconcilerPublishes, Goes
<1>3. CASE SyncNode
  BY <1>0, <1>3, Actors DEF SyncNode
<1>4. CASE SyncSlice \/ TimePasses \/ UNCHANGED vars
  BY <1>4 DEF SyncSlice, TimePasses, vars
<1>5. CASE Crash
  BY <1>5, Actors DEF Crash
<1> QED BY <1>1, <1>2, <1>3, <1>4, <1>5 DEF Next

\* The horizon only moves on.
LEMMA HorizonMoves ==
    ASSUME Inv, [Next]_vars
    PROVE  horizon \in Nat /\ horizon' \in Nat /\ horizon' >= horizon
<1>1. horizon \in Nat
  BY MaxBeatsAssumption DEF Inv, TypeOK, Beat
<1>2. horizon' = horizon \/ horizon' = horizon + 1
  BY DEF Next, vars, HandlerActs, HeartbeatArrives, HandlerGets, HandlerPatches,
     HandlerConflicts, ReconcilerActs, ReconcilerReads, ReconcilerPatches,
     ReconcilerConflicts, ReconcilerPublishes, SyncNode, SyncSlice, TimePasses, Crash
<1> QED BY <1>1, <1>2

\* Every step keeps what the refinement adds to the invariant.
LEMMA RegisterStep == Inv /\ RegisterInv /\ [Next]_vars => RegisterInv'
<1> SUFFICES ASSUME Inv, RegisterInv, [Next]_vars PROVE RegisterInv'
  OBVIOUS
<1>0. node \in Status /\ horizon \in Nat /\ horizon' \in Nat /\ horizon' >= horizon
  BY HorizonMoves DEF Inv, TypeOK
<1>1. SilenceLasts'
  <2>1. Expired(node) /\ node'.beat = node.beat => Expired(node)'
    <3>1. node.beat \in Nat
      <4>1. node.beat \in Beat
        BY <1>0 DEF Status
      <4> QED BY <4>1, BeatsAreNumbers
    <3> QED BY <1>0, <3>1 DEF Expired
  <2>2. CASE UNCHANGED node
    BY <2>1, <2>2 DEF RegisterInv, SilenceLasts, DeclaredSilent
  <2>3. ASSUME NEW h \in Handler, HandlerPatches(h), node' = Reported(report[h])
        PROVE  ~DeclaredSilent(node)'
    <3>1. report[h] \in HeartbeatInHand /\ report[h].beat # 0
      BY <2>3 DEF HandlerPatches, Inv, TypeOK, InHand
    <3> QED BY <2>3, <3>1, ReportedSound DEF DeclaredSilent
  <2>4. CASE node' = want /\ Decides(node, want)
    <3>1. node'.beat = node.beat /\ (DeclaredSilent(node)' => Expired(node))
      BY <2>4 DEF Decides, DeclaredSilent
    <3> QED BY <2>1, <3>1 DEF SilenceLasts
  <2> QED BY <2>2, <2>3, <2>4, StatusWriters DEF SilenceLasts
<1>2. WantIsDecision'
  <2> SUFFICES ASSUME pc'["reconciler"] = "patch", copy'["reconciler"].current
               PROVE  Decides(node, want)'
    BY DEF WantIsDecision
  <2>1. CASE ReconcilerReads
    <3>1. /\ copy'["reconciler"] = copy["informer"] /\ UNCHANGED <<node, horizon>>
          /\ want' = Decided(copy["informer"].obj)
      BY <2>1, Actors DEF ReconcilerReads, Reads, Inv, TypeOK
    <3>2. copy["informer"].obj = node
      BY <3>1, Actors DEF Inv, CopiesAreCurrent
    <3>3. Decides(node, Decided(node))
      BY <1>0, DecidesNow DEF RegisterInv, SilenceLasts
    <3> QED BY <3>1, <3>2, <3>3 DEF Decides, Expired, DeclaredSilent
  <2>2. CASE /\ pc["reconciler"] = "patch" /\ copy["reconciler"].current
             /\ UNCHANGED <<node, want>>
    <3>1. Decides(node, want)
      BY <2>2 DEF RegisterInv, WantIsDecision
    <3>2. ASSUME NEW w, w = want PROVE Decides(node, w)'
      BY <1>0, <2>2, <3>1, <3>2, DecidesLater
    <3> QED BY <2>2, <3>2 DEF Decides, DeclaredSilent
  <2> QED BY <2>1, <2>2, WantWriters
<1>3. BeatsInHand'
  <2>0. /\ beats \in Nat /\ NoReport.beat = 0 /\ report \in [Handler -> HeartbeatInHand]
        /\ \A h \in Handler : report[h].beat \in Nat
    <3>1. report \in [Handler -> HeartbeatInHand] /\ beats \in Nat
      BY MaxBeatsAssumption DEF Inv, TypeOK, Beat
    <3>2. ASSUME NEW r \in HeartbeatInHand PROVE r.beat \in Beat
      <4>1. CASE r = NoReport
        BY <4>1, NewTyped DEF NoReport
      <4>2. CASE r # NoReport
        BY <4>2 DEF HeartbeatInHand
      <4> QED BY <4>1, <4>2
    <3> QED BY <3>1, <3>2, BeatsAreNumbers DEF NoReport
  <2>1. CASE UNCHANGED <<report, beats>> /\ \A h \in Handler : pc'[h] = "idle" => pc[h] = "idle"
    BY <2>1 DEF RegisterInv, BeatsInHand
  <2>2. ASSUME NEW h \in Handler, NEW r \in Report,
               HeartbeatArrives(h, r) /\ report[h] = NoReport,
               \A k \in Handler : pc'[k] = "idle" => pc[k] = "idle"
        PROVE  BeatsInHand'
    <3> DEFINE new == [beat |-> beats + 1, state |-> r.state, validated |-> r.validated,
                       unsynced |-> r.unsynced]
    <3>1. report' = [report EXCEPT ![h] = new] /\ beats' = beats + 1 /\ pc'[h] = "get"
      BY <2>2, Actors DEF HeartbeatArrives, Goes, Inv, TypeOK
    <3>2. new.beat = beats + 1
      OBVIOUS
    <3> HIDE DEF new
    <3>3. /\ report'[h] = new /\ \A k \in Handler \ {h} : report'[k] = report[k]
      BY <2>0, <3>1
    <3>4. \A k \in Handler : report[k].beat <= beats
      BY DEF RegisterInv, BeatsInHand
    <3>5. \A k \in Handler : report'[k].beat <= beats'
      BY <2>0, <3>1, <3>2, <3>3, <3>4
    <3>6. \A k \in Handler \ {h} : report'[k].beat # report'[h].beat
      BY <2>0, <3>2, <3>3, <3>4
    <3>7. new.beat # 0
      BY <2>0, <3>2
    <3> QED BY <2>0, <2>2, <3>1, <3>3, <3>5, <3>6, <3>7 DEF RegisterInv, BeatsInHand
  <2>3. ASSUME NEW h \in Handler, report' = [report EXCEPT ![h] = NoReport],
               UNCHANGED beats, \A k \in Handler \ {h} : pc'[k] = pc[k]
        PROVE  BeatsInHand'
    <3>1. report'[h] = NoReport /\ \A k \in Handler \ {h} : report'[k] = report[k]
      BY <2>0, <2>3
    <3> QED BY <2>0, <2>3, <3>1 DEF RegisterInv, BeatsInHand
  <2>4. CASE report' = [h \in Handler |-> NoReport] /\ UNCHANGED beats
    BY <2>0, <2>4 DEF BeatsInHand
  <2> QED BY <2>1, <2>2, <2>3, <2>4, ReportWriters DEF RegisterInv
<1> QED BY <1>1, <1>2, <1>3 DEF RegisterInv

\* The heartbeats in flight after a step that changes what one handler holds.
LEMMA InFlightLess ==
    ASSUME Inv, RegisterInv, NEW h \in Handler, report[h] # NoReport,
           report' = [report EXCEPT ![h] = NoReport]
    PROVE  AsHeartbeat(report[h]) \in InFlight /\ InFlight' = InFlight \ {AsHeartbeat(report[h])}
<1>1. report'[h] = NoReport /\ \A k \in Handler \ {h} : report'[k] = report[k]
  BY DEF Inv, TypeOK
<1>2. ASSUME NEW k \in Handler, report[k] # NoReport, AsHeartbeat(report[k]) = AsHeartbeat(report[h])
      PROVE  k = h
  <2>1. report[k].beat = report[h].beat /\ report[h].beat # 0
    BY <1>2 DEF AsHeartbeat, RegisterInv, BeatsInHand
  <2> QED BY <2>1 DEF RegisterInv, BeatsInHand
<1>3. \A x : x \in InFlight <=> \E k \in Handler : report[k] # NoReport /\ x = AsHeartbeat(report[k])
  BY DEF InFlight
<1>4. \A x : x \in InFlight' <=> \E k \in Handler : report'[k] # NoReport /\ x = AsHeartbeat(report'[k])
  BY DEF InFlight, AsHeartbeat, Fit
<1>5. \A x : x \in InFlight' <=> \E k \in Handler \ {h} : report[k] # NoReport /\ x = AsHeartbeat(report[k])
  BY <1>1, <1>4
<1>6. AsHeartbeat(report[h]) \in InFlight
  BY <1>3
<1> QED BY <1>2, <1>3, <1>5, <1>6

\* The heartbeats in flight after one more arrived.
LEMMA InFlightMore ==
    ASSUME Inv, NEW h \in Handler, report[h] = NoReport,
           NEW new, new.beat # 0, report' = [report EXCEPT ![h] = new]
    PROVE  InFlight' = InFlight \cup {AsHeartbeat(new)}
<1>1. report'[h] = new /\ \A k \in Handler \ {h} : report'[k] = report[k]
  BY DEF Inv, TypeOK
<1>2. new # NoReport
  BY NoReportHasNoBeat
<1>3. \A x : x \in InFlight <=> \E k \in Handler : report[k] # NoReport /\ x = AsHeartbeat(report[k])
  BY DEF InFlight
<1>4. \A x : x \in InFlight' <=> \E k \in Handler : report'[k] # NoReport /\ x = AsHeartbeat(report'[k])
  BY DEF InFlight, AsHeartbeat, Fit
<1> QED BY <1>1, <1>2, <1>3, <1>4

\* Time passes in a step of its own.
LEMMA TimeWriters ==
    ASSUME [Next]_vars
    PROVE  UNCHANGED horizon \/ (TimePasses /\ UNCHANGED <<report, beats>>)
BY DEF Next, vars, HandlerActs, HeartbeatArrives, HandlerGets, HandlerPatches,
     HandlerConflicts, ReconcilerActs, ReconcilerReads, ReconcilerPatches,
     ReconcilerConflicts, ReconcilerPublishes, SyncNode, SyncSlice, TimePasses, Crash

\* What the register shows when the reconciler has patched its decision.
LEMMA DecisionMaps ==
    ASSUME Inv, NEW w \in Status, Decides(node, w),
           w.ready => w.state = "running" /\ w.validated
    PROVE  /\ w.beat = node.beat
           /\ \/ ModeOf(w) = ModeOf(node) /\ (Fit(w) <=> Fit(node))
              \/ /\ ModeOf(node) = "live" /\ Fit(node)
                 /\ ModeOf(w) = "ready" /\ Fit(w)
              \/ /\ ModeOf(node) \in {"live", "ready"} /\ node.beat <= horizon
                 /\ ModeOf(w) = "silent" /\ ~Fit(w)
<1>0. w.beat = node.beat /\ w.validated = node.validated
  BY DEF Decides
<1>1. CASE node.beat = 0 /\ w.state = node.state
  BY <1>0, <1>1 DEF ModeOf, Fit
<1>2. CASE node.beat # 0 /\ Expired(node) /\ w.state = "offline" /\ DeclaredSilent(w)
  <2>1. ModeOf(w) = "silent" /\ ~Fit(w)
    BY <1>0, <1>2 DEF ModeOf, Fit
  <2>2. CASE DeclaredSilent(node)
    BY <1>0, <1>2, <2>1, <2>2 DEF ModeOf, Fit, Inv, OfflineExplained
  <2>3. CASE ~DeclaredSilent(node)
    BY <1>0, <1>2, <2>1, <2>3 DEF ModeOf, Expired
  <2> QED BY <2>2, <2>3
<1>3. CASE /\ node.beat # 0 /\ w.state = node.state
           /\ ~DeclaredSilent(node) /\ ~DeclaredSilent(w)
           /\ w.ready <=> Fit(node)
  <2>1. Fit(w) <=> Fit(node)
    BY <1>0, <1>3 DEF Fit
  <2>2. node.ready => Fit(node)
    BY DEF Inv, ReadyAgrees, Fit
  <2> QED BY <1>0, <1>3, <2>1, <2>2 DEF ModeOf
<1> QED BY <1>1, <1>2, <1>3 DEF Decides

\* Every step of the writers is a step of the register, or none.
LEMMA RegisterMaps ==
    ASSUME Inv, Inv', RegisterInv, [Next]_vars
    PROVE  [R!RegisterNext]_R!registerVars
<1>0. /\ node \in Status /\ node' \in Status /\ report \in [Handler -> HeartbeatInHand]
      /\ Fit(node) \in BOOLEAN /\ Fit(node)' \in BOOLEAN
  BY DEF Inv, TypeOK, Fit
<1>1. CASE \E h \in Handler : HandlerPatches(h) /\ node' = Reported(report[h])
  <2>1. PICK h \in Handler : HandlerPatches(h) /\ node' = Reported(report[h])
    BY <1>1
  <2> DEFINE p == AsHeartbeat(report[h])
  <2>2. report[h] \in HeartbeatInHand /\ report[h].beat # 0 /\ report[h] # NoReport
    BY <2>1, NoReportHasNoBeat DEF HandlerPatches, Inv, TypeOK, InHand
  <2>3. p \in InFlight /\ InFlight' = InFlight \ {p}
    BY <2>1, <2>2, InFlightLess DEF HandlerPatches, HandlerDone
  <2>4. p.number = report[h].beat /\ p.fit = Fit(report[h]) /\ p.synced = ~report[h].unsynced
    BY DEF AsHeartbeat
  <2> HIDE DEF p
  <2>5. /\ node'.beat = p.number /\ (Fit(node)' <=> p.fit)
        /\ ModeOf(node)' = IF p.fit /\ p.synced THEN "ready" ELSE "live"
    BY <2>1, <2>2, <2>4, ReportedFields DEF ModeOf, Fit, DeclaredSilent
  <2>6. Fit(node)' = p.fit
    BY <2>4, <2>5 DEF Fit
  <2>7. UNCHANGED <<beats, horizon>>
    BY <2>1 DEF HandlerPatches
  <2>8. R!Hear(p)
    BY <2>3, <2>5, <2>6, <2>7 DEF R!Hear
  <2> QED BY <2>3, <2>8 DEF R!RegisterNext
<1>2. CASE ReconcilerPatches /\ node' = want /\ Decides(node, want)
  <2>1. UNCHANGED <<report, beats, horizon, InFlight>>
    BY <1>2 DEF ReconcilerPatches, InFlight, AsHeartbeat, Fit
  <2>2. node'.ready => node'.state = "running" /\ node'.validated
    BY DEF Inv, ReadyAgrees
  <2>3. /\ node'.beat = node.beat
        /\ \/ ModeOf(node)' = ModeOf(node) /\ (Fit(node)' <=> Fit(node))
           \/ /\ ModeOf(node) = "live" /\ Fit(node)
              /\ ModeOf(node)' = "ready" /\ Fit(node)'
           \/ /\ ModeOf(node) \in {"live", "ready"} /\ node.beat <= horizon
              /\ ModeOf(node)' = "silent" /\ ~Fit(node)'
    <3>1. want \in Status
      BY DEF Inv, TypeOK
    <3>2. /\ ModeOf(node)' = ModeOf(want) /\ Fit(node)' = Fit(want) /\ node'.beat = want.beat
          /\ (want.ready => want.state = "running" /\ want.validated)
      BY <1>2, <2>2 DEF ModeOf, Fit, DeclaredSilent
    <3> QED BY <1>2, <3>1, <3>2, DecisionMaps
  <2>4. CASE ModeOf(node)' = ModeOf(node) /\ (Fit(node)' <=> Fit(node))
    <3>1. Fit(node)' = Fit(node)
      BY <1>0, <2>4
    <3> QED BY <2>1, <2>3, <2>4, <3>1 DEF R!registerVars
  <2>5. CASE /\ ModeOf(node) = "live" /\ Fit(node)
             /\ ModeOf(node)' = "ready" /\ Fit(node)'
    <3>1. Fit(node)' = Fit(node)
      BY <1>0, <2>5
    <3>2. R!Promote
      BY <2>1, <2>3, <2>5, <3>1 DEF R!Promote
    <3> QED BY <3>2 DEF R!RegisterNext
  <2>6. CASE /\ ModeOf(node) \in {"live", "ready"} /\ node.beat <= horizon
             /\ ModeOf(node)' = "silent" /\ ~Fit(node)'
    <3>1. Fit(node)' = FALSE
      BY <1>0, <2>6
    <3>2. R!Lapse
      BY <2>1, <2>3, <2>6, <3>1 DEF R!Lapse
    <3> QED BY <3>2 DEF R!RegisterNext
  <2> QED BY <2>3, <2>4, <2>5, <2>6
<1>3. CASE UNCHANGED node
  <2>1. UNCHANGED <<ModeOf(node), node.beat, Fit(node)>>
    BY <1>3 DEF ModeOf, Fit, DeclaredSilent
  <2>2. CASE UNCHANGED <<report, beats>>
    <3>1. UNCHANGED InFlight
      BY <2>2 DEF InFlight, AsHeartbeat, Fit
    <3>2. CASE TimePasses
      <4>1. R!Tick
        BY <2>1, <2>2, <3>1, <3>2 DEF TimePasses, R!Tick
      <4> QED BY <4>1 DEF R!RegisterNext
    <3>3. CASE UNCHANGED horizon
      BY <2>1, <2>2, <3>1, <3>3 DEF R!registerVars
    <3> QED BY <3>2, <3>3, TimeWriters
  <2>3. ASSUME NEW h \in Handler, NEW r \in Report,
               HeartbeatArrives(h, r), report[h] = NoReport
        PROVE  R!RegisterNext
    <3> DEFINE new == [beat |-> beats + 1, state |-> r.state, validated |-> r.validated,
                       unsynced |-> r.unsynced]
               ok == r.state = "running" /\ r.validated
               synced == ~r.unsynced
    <3>1. AsHeartbeat(new) = R!Heartbeat(beats + 1, ok, synced)
      BY DEF AsHeartbeat, Fit, R!Heartbeat
    <3>2. report' = [report EXCEPT ![h] = new] /\ beats' = beats + 1 /\ UNCHANGED horizon
      BY <2>3 DEF HeartbeatArrives
    <3>3. new.beat # 0
      <4>1. beats \in Nat
        BY BeatsAreNumbers DEF Inv, TypeOK
      <4> QED BY <4>1
    <3>4. ok \in BOOLEAN /\ synced \in BOOLEAN
      OBVIOUS
    <3> HIDE DEF new, ok, synced
    <3>5. InFlight' = InFlight \cup {AsHeartbeat(new)}
      BY <2>3, <3>2, <3>3, InFlightMore
    <3>6. R!Arrive(ok, synced)
      BY <2>1, <3>1, <3>2, <3>5 DEF R!Arrive
    <3> QED BY <3>4, <3>6 DEF R!RegisterNext
  <2>4. ASSUME UNCHANGED <<beats, horizon>>, InFlight' \subseteq InFlight
        PROVE  R!RegisterNext
    <3> DEFINE lost == InFlight \ InFlight'
    <3>1. InFlight' = InFlight \ lost /\ lost \in SUBSET InFlight
      BY <2>4
    <3> HIDE DEF lost
    <3>2. R!GiveUp(lost)
      BY <2>1, <2>4, <3>1 DEF R!GiveUp
    <3> QED BY <3>1, <3>2 DEF R!RegisterNext
  <2>5. ASSUME NEW h \in Handler, report' = [report EXCEPT ![h] = NoReport]
        PROVE  InFlight' \subseteq InFlight
    <3>1. CASE report[h] = NoReport
      <4>1. report' = report
        BY <1>0, <2>5, <3>1
      <4> QED BY <4>1 DEF InFlight, AsHeartbeat, Fit
    <3>2. CASE report[h] # NoReport
      BY <2>5, <3>2, InFlightLess
    <3> QED BY <3>1, <3>2
  <2>6. ASSUME report' = [h \in Handler |-> NoReport] PROVE InFlight' \subseteq InFlight
    BY <2>6 DEF InFlight, AsHeartbeat, Fit
  <2>7. UNCHANGED <<report, beats>> \/ UNCHANGED horizon
    BY TimeWriters DEF TimePasses
  <2> QED BY <2>2, <2>3, <2>4, <2>5, <2>6, <2>7, ReportWriters DEF RegisterInv
<1> QED BY <1>1, <1>2, <1>3, StatusWriters

\* No word of a device is lost to a stale decision or stored twice, and no decision
\* is taken about a status that is not there any more.
THEOREM WritersImplementRegister == Spec => ImplementsRegister
<1>1. Init => RegisterInv /\ R!RegisterInit
  <2> SUFFICES ASSUME Init PROVE RegisterInv /\ R!RegisterInit
    OBVIOUS
  <2>1. /\ node = NewStatus /\ beats = 0 /\ horizon = 0 /\ pc["reconciler"] = "idle"
        /\ \A h \in Handler : report[h] = NoReport
    BY Actors DEF Init
  <2>2. RegisterInv
    <3>1. ~DeclaredSilent(NewStatus)
      BY DEF NewStatus, DeclaredSilent
    <3>2. SilenceLasts
      BY <2>1, <3>1 DEF SilenceLasts
    <3>3. WantIsDecision
      BY <2>1 DEF WantIsDecision
    <3>4. BeatsInHand
      <4>1. \A h \in Handler : report[h] = NoReport /\ report[h].beat = 0
        BY <2>1, NoReportHasNoBeat
      <4>2. 0 <= beats
        BY <2>1
      <4> QED BY <4>1, <4>2 DEF BeatsInHand
    <3> QED BY <3>2, <3>3, <3>4 DEF RegisterInv
  <2>3. InFlight = {}
    BY <2>1 DEF InFlight
  <2>4. ModeOf(node) = "unheard" /\ Fit(node) = FALSE /\ node.beat = 0
    BY <2>1 DEF NewStatus, ModeOf, Fit
  <2> QED BY <2>1, <2>2, <2>3, <2>4 DEF R!RegisterInit
<1>2. Inv /\ Inv' /\ RegisterInv /\ [Next]_vars => [R!RegisterNext]_R!registerVars
  BY RegisterMaps
<1> QED BY <1>1, <1>2, Invariant, RegisterStep, PTL DEF Spec, ImplementsRegister, R!RegisterSpec
=============================================================================
