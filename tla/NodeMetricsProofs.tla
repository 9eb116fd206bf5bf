------------------------- MODULE NodeMetricsProofs -------------------------
(***************************************************************************)
(* For any number of handlers, heartbeats, workloads and chips, and any    *)
(* crashes: types are kept, the series of a node have one label set, its   *)
(* workload is the one of the status, and a node that went through its     *)
(* finalizer leaves no series.                                             *)
(***************************************************************************)
EXTENDS NodeMetrics, SequenceTheorems, TLAPS

(***************************************************************************)
(* The inductive invariant                                                 *)
(***************************************************************************)
\* What a handler works on is there.
InHand ==
    \A h \in Handler :
        /\ pc[h] \in {"get", "patch", "labels", "gauges"} => report[h] \in Report
        /\ pc[h] \in {"labels", "gauges"} => labels[h] \in Labels
        /\ pc[h] = "gauges" => todo[h] # <<>>

\* What the resourceVersion is worth: who holds it read the object as it is.
Locked ==
    /\ current => cached = node
    /\ holders # {} => node.life # "gone"
    /\ "reconciler" \in holders /\ pc["reconciler"] = "adopt" => node.life = "live"

\* As long as nothing raced, whoever sets gauges sets those of prevLabels.
Tracked ==
    ~raced =>
        /\ prev = NoLabels => series = {}
        /\ prev # NoLabels => series \subseteq Of(prev)
        /\ \A h \in Handler : pc[h] = "gauges" => labels[h] = prev

\* The workload of the status is that of the last patch, whose handler is still
\* on its way to prevLabels or was there.
Followed ==
    ~raced =>
        /\ \A h \in Handler :
              pc[h] = "labels" /\ (\A k \in Handler \ {h} : pc[k] # "labels")
                  => labels[h].workload = node.workload
        /\ prev # NoLabels /\ node.life # "gone" /\ (\A h \in Handler : pc[h] # "labels")
              => prev.workload = node.workload

\* Nothing comes after RemoveNode as long as its resourceVersion stays.
Removed ==
    ~raced =>
        /\ "reconciler" \in holders /\ pc["reconciler"] = "release"
              => prev = NoLabels /\ \A h \in Handler : ~Updates(h)
        /\ node.life = "gone" /\ node.finalizer
              => prev = NoLabels /\ \A h \in Handler : ~Updates(h)

Typed == TypeOK /\ InHand
Inv == Typed /\ Locked /\ Tracked /\ Followed /\ Removed

\* No handler, no series, no version but the first.
LEMMA InitInv == Init => Inv
<1> SUFFICES ASSUME Init PROVE Inv
  OBVIOUS
<1>1. NewNode \in McuNode /\ Writer = Handler \cup {"reconciler"}
  BY DEF NewNode, McuNode, Writer
<1>2. <<>> \in Seq(Gauge)
  OBVIOUS
<1>3. TypeOK
  <2>1. /\ pc \in [Writer -> {"idle", "get", "patch", "labels", "gauges", "adopt", "release"}]
        /\ report \in [Handler -> Report \cup {NoReport}]
        /\ labels \in [Handler -> Labels \cup {NoLabels}]
        /\ todo \in [Handler -> Seq(Gauge)]
    BY <1>2 DEF Init
  <2>2. current \in BOOLEAN /\ raced \in BOOLEAN /\ series \subseteq Gauge \X Labels
    BY DEF Init
  <2>3. QED
    BY <1>1, <2>1, <2>2, MaxBeatsAssumption DEF Init, TypeOK
<1>4. Typed
  BY <1>1, <1>3 DEF Init, Typed, InHand
<1>5. Locked /\ Tracked /\ Followed /\ Removed
  BY <1>1 DEF Init, Locked, Tracked, Followed, Removed, Updates, NewNode
<1>6. QED
  BY <1>4, <1>5 DEF Inv

(***************************************************************************)
(* Types                                                                   *)
(***************************************************************************)
\* Every update sets at least one gauge.
LEMMA WrittenGauges ==
    ASSUME NEW r PROVE Written(r) \in Seq(Gauge) /\ Written(r) # <<>>
<1>1. Gauge = {"heap_free_bytes", "temperature_celsius"}
  BY DEF Gauge, Gauges
<1>2. /\ <<"heap_free_bytes">> \in Seq(Gauge) /\ <<"heap_free_bytes">> # <<>>
      /\ Gauges \in Seq(Gauge) /\ Gauges # <<>>
  BY <1>1 DEF Gauges
<1>3. Gauges[1] = "heap_free_bytes"
  BY DEF Gauges
<1>4. QED
  BY <1>2, <1>3 DEF Written

\* The gauges that are left after the first.
LEMMA RestOfGauges ==
    ASSUME NEW s \in Seq(Gauge), s # <<>>
    PROVE  /\ Head(s) \in Gauge /\ Tail(s) \in Seq(Gauge)
           /\ Len(s) # 1 => Tail(s) # <<>>
<1>1. /\ Head(s) \in Gauge /\ Tail(s) \in Seq(Gauge)
      /\ Len(Tail(s)) = Len(s) - 1 /\ Len(s) \in Nat
  BY HeadTailProperties
<1>2. ASSUME Tail(s) = <<>> PROVE Len(s) = 1
  <2>1. Len(Tail(s)) = 0
    BY <1>2, EmptySeq
  <2>2. QED
    BY <1>1, <2>1
<1>3. QED
  BY <1>1, <1>2

\* A handler that has ended has nothing in hand.
LEMMA DoneTyped ==
    ASSUME Typed, NEW h \in Handler, HandlerDone(h)
    PROVE  /\ pc' \in [Writer -> {"idle", "get", "patch", "labels", "gauges", "adopt", "release"}]
           /\ report' \in [Handler -> Report \cup {NoReport}]
           /\ labels' \in [Handler -> Labels \cup {NoLabels}]
           /\ pc'[h] = "idle"
           /\ \A k \in Handler \ {h} :
                  pc'[k] = pc[k] /\ report'[k] = report[k] /\ labels'[k] = labels[k]
BY DEF Typed, TypeOK, HandlerDone, Goes, Writer

\* The handlers keep the types.
LEMMA HandlerTyped == ASSUME Typed, NEW h \in Handler, HandlerActs(h) PROVE Typed'
<1> USE DEF Typed
<1>1. h \in Writer /\ Handler \subseteq Writer
  BY DEF Writer
<1>2. CASE \E r \in Report : HeartbeatArrives(h, r)
  BY <1>1, <1>2, MaxBeatsAssumption DEF HeartbeatArrives, Goes, access, gauges, TypeOK, InHand
<1>3. CASE HandlerGets(h)
  <2>1. CASE cached.life # "gone" /\ Reads(h) /\ Goes(h, "patch") /\ UNCHANGED <<report, labels>>
    BY <1>1, <1>3, <2>1 DEF HandlerGets, Reads, Goes, gauges, TypeOK, InHand
  <2>2. CASE HandlerDone(h) /\ UNCHANGED access
    BY <1>3, <2>2, DoneTyped DEF HandlerGets, access, gauges, TypeOK, InHand
  <2>3. QED
    BY <1>3, <2>1, <2>2 DEF HandlerGets
<1>4. CASE HandlerPatches(h)
  <2>1. report[h] \in Report /\ node \in McuNode
    BY <1>4 DEF HandlerPatches, InHand, TypeOK
  <2>2. LabelsOf(report[h]) \in Labels /\ node' \in McuNode
    BY <1>4, <2>1 DEF HandlerPatches, Stores, LabelsOf, Report, Labels, McuNode
  <2>3. QED
    BY <1>1, <1>4, <2>1, <2>2 DEF HandlerPatches, Stores, Goes, gauges, TypeOK, InHand
<1>5. CASE HandlerConflicts(h)
  <2>1. CASE Goes(h, "get") /\ UNCHANGED <<report, labels>>
    BY <1>1, <1>5, <2>1 DEF HandlerConflicts, Goes, access, gauges, TypeOK, InHand
  <2>2. CASE HandlerDone(h)
    BY <1>5, <2>2, DoneTyped DEF HandlerConflicts, access, gauges, TypeOK, InHand
  <2>3. QED
    BY <1>5, <2>1, <2>2 DEF HandlerConflicts
<1>6. CASE HandlerUpdatesLabels(h)
  <2>1. /\ labels[h] \in Labels /\ report[h] \in Report
        /\ Written(report[h]) \in Seq(Gauge) /\ Written(report[h]) # <<>>
    BY <1>6, WrittenGauges DEF HandlerUpdatesLabels, InHand
  <2>2. series' \subseteq Gauge \X Labels /\ raced' \in BOOLEAN
    BY <1>6 DEF HandlerUpdatesLabels, TypeOK
  <2>3. QED
    BY <1>1, <1>6, <2>1, <2>2 DEF HandlerUpdatesLabels, Goes, access, TypeOK, InHand
<1>7. CASE HandlerSetsGauge(h)
  <2>1. /\ labels[h] \in Labels /\ todo[h] \in Seq(Gauge) /\ todo[h] # <<>>
    BY <1>7 DEF HandlerSetsGauge, InHand, TypeOK
  <2>2. /\ Head(todo[h]) \in Gauge /\ Tail(todo[h]) \in Seq(Gauge)
        /\ Len(todo[h]) # 1 => Tail(todo[h]) # <<>>
    BY <2>1, RestOfGauges
  <2>3. series' \subseteq Gauge \X Labels /\ todo' \in [Handler -> Seq(Gauge)]
    BY <1>7, <2>1, <2>2 DEF HandlerSetsGauge, TypeOK
  <2>4. CASE Len(todo[h]) = 1
    BY <1>7, <2>3, <2>4, DoneTyped DEF HandlerSetsGauge, access, TypeOK, InHand
  <2>5. CASE Len(todo[h]) # 1
    BY <1>7, <2>2, <2>3, <2>5 DEF HandlerSetsGauge, access, TypeOK, InHand
  <2>6. QED
    BY <2>4, <2>5
<1>8. QED
  BY <1>2, <1>3, <1>4, <1>5, <1>6, <1>7 DEF HandlerActs

\* The reconciler, the operator, the informer and a crash keep the types.
LEMMA OthersTyped ==
    ASSUME Typed,
           ReconcilerActs \/ (\E c \in Chip : PersistChip(c)) \/ DeleteNode \/ SyncNode \/ Crash
    PROVE  Typed'
<1> USE DEF Typed
<1>1. "reconciler" \in Writer /\ Handler \subseteq Writer
  BY DEF Writer
<1>2. CASE ReconcilerAdopts
  BY <1>1, <1>2, HandlerAssumption
     DEF ReconcilerAdopts, Reads, Goes, requests, gauges, TypeOK, InHand
<1>3. CASE ReconcilerRemovesNode
  <2>1. series' \subseteq Gauge \X Labels /\ raced' \in BOOLEAN
    BY <1>3 DEF ReconcilerRemovesNode, RemoveNode, TypeOK
  <2>2. QED
    BY <1>1, <1>3, <2>1, HandlerAssumption
       DEF ReconcilerRemovesNode, RemoveNode, Reads, Goes, requests, TypeOK, InHand
<1>4. CASE ReconcilerUpdates
  <2>1. node' \in McuNode
    BY <1>4 DEF ReconcilerUpdates, Stores, Updated, McuNode, TypeOK
  <2>2. QED
    BY <1>1, <1>4, <2>1, HandlerAssumption
       DEF ReconcilerUpdates, Stores, Goes, requests, gauges, TypeOK, InHand
<1>5. CASE ReconcilerConflicts
  BY <1>1, <1>5, HandlerAssumption
     DEF ReconcilerConflicts, Goes, access, requests, gauges, TypeOK, InHand
<1>6. CASE (\E c \in Chip : PersistChip(c)) \/ DeleteNode
  <2>1. node' \in McuNode
    BY <1>6 DEF PersistChip, DeleteNode, Stores, McuNode, TypeOK
  <2>2. QED
    BY <1>6, <2>1 DEF PersistChip, DeleteNode, Stores, requests, gauges, TypeOK, InHand
<1>7. CASE SyncNode
  BY <1>7 DEF SyncNode, requests, gauges, TypeOK, InHand
<1>8. CASE Crash
  <2>1. <<>> \in Seq(Gauge)
    OBVIOUS
  <2>2. QED
    BY <1>1, <1>8, <2>1 DEF Crash, TypeOK, InHand
<1>9. QED
  BY <1>2, <1>3, <1>4, <1>5, <1>6, <1>7, <1>8 DEF ReconcilerActs

\* Every step keeps the types.
LEMMA TypedStep == Typed /\ [Next]_vars => Typed'
<1>1. Typed /\ UNCHANGED vars => Typed'
  BY DEF vars, access, requests, gauges, Typed, TypeOK, InHand
<1>2. QED
  BY <1>1, HandlerTyped, OthersTyped DEF Next

(***************************************************************************)
(* Versions                                                                *)
(***************************************************************************)
\* A write that moves the version.
LEMMA StoresLocked == ASSUME NEW new, Stores(new) PROVE Locked'
BY DEF Stores, Locked

\* A read that changes no other writer's place.
LEMMA ReadsLocked ==
    ASSUME Locked, NEW w \in Writer, Reads(w), cached.life # "gone",
           pc'["reconciler"] = "adopt" =>
               IF w = "reconciler" THEN cached.life = "live" ELSE pc'["reconciler"] = pc["reconciler"]
    PROVE  Locked'
BY DEF Reads, Locked

\* Every step keeps what a version is worth.
LEMMA LockedStep == Typed /\ Locked /\ [Next]_vars => Locked'
<1> SUFFICES ASSUME Typed, Locked, [Next]_vars PROVE Locked'
  OBVIOUS
<1>1. /\ "reconciler" \in Writer /\ Handler \subseteq Writer
      /\ pc \in [Writer -> {"idle", "get", "patch", "labels", "gauges", "adopt", "release"}]
      /\ \A h \in Handler : h # "reconciler"
  BY HandlerAssumption DEF Typed, TypeOK, Writer
<1>2. ASSUME UNCHANGED access, pc'["reconciler"] \in {pc["reconciler"], "idle"}
      PROVE  Locked'
  BY <1>2 DEF access, Locked
<1>3. CASE UNCHANGED vars
  BY <1>2, <1>3 DEF vars
<1>4. ASSUME NEW h \in Handler, HandlerActs(h) PROVE Locked'
  <2>1. pc'["reconciler"] = pc["reconciler"]
    BY <1>1, <1>4
       DEF HandlerActs, HeartbeatArrives, HandlerGets, HandlerPatches, HandlerConflicts,
           HandlerUpdatesLabels, HandlerSetsGauge, HandlerDone, Goes
  <2>2. CASE cached.life # "gone" /\ Reads(h)
    BY <1>1, <2>1, <2>2, ReadsLocked
  <2>3. CASE HandlerPatches(h)
    BY <2>3, StoresLocked DEF HandlerPatches
  <2>4. CASE UNCHANGED access
    BY <1>2, <2>1, <2>4
  <2>5. QED
    BY <1>4, <2>2, <2>3, <2>4
       DEF HandlerActs, HeartbeatArrives, HandlerGets, HandlerConflicts, HandlerUpdatesLabels,
           HandlerSetsGauge
<1>5. CASE ReconcilerAdopts \/ ReconcilerRemovesNode
  <2>1. /\ Reads("reconciler") /\ cached.life # "gone"
        /\ pc'["reconciler"] = "adopt" => cached.life = "live"
    BY <1>1, <1>5 DEF ReconcilerAdopts, ReconcilerRemovesNode, Goes
  <2>2. QED
    BY <1>1, <2>1, ReadsLocked
<1>6. CASE ReconcilerUpdates \/ (\E c \in Chip : PersistChip(c)) \/ DeleteNode
  BY <1>6, StoresLocked DEF ReconcilerUpdates, PersistChip, DeleteNode
<1>7. CASE ReconcilerConflicts
  BY <1>1, <1>2, <1>7 DEF ReconcilerConflicts, Goes
<1>8. CASE SyncNode
  BY <1>8 DEF SyncNode, Locked
<1>9. CASE Crash
  BY <1>9 DEF Crash, Locked
<1>10. QED
  BY <1>3, <1>4, <1>5, <1>6, <1>7, <1>8, <1>9 DEF Next, ReconcilerActs

(***************************************************************************)
(* The gauges and prevLabels                                               *)
(***************************************************************************)
\* An update that did not run beside another one.
LEMMA Alone ==
    ASSUME NEW h \in Handler, HandlerUpdatesLabels(h), ~raced'
    PROVE  ~raced /\ \A k \in Handler \ {h} : ~Updates(k)
BY DEF HandlerUpdatesLabels

\* RemoveNode, when no update is under way.
LEMMA RemovedAlone ==
    ASSUME RemoveNode, ~raced' PROVE ~raced /\ \A h \in Handler : ~Updates(h)
BY DEF RemoveNode

\* Where the other handlers are, only their own steps change.
LEMMA OwnStep ==
    ASSUME Typed, NEW h \in Handler, HandlerActs(h)
    PROVE  \A k \in Handler \ {h} : pc'[k] = pc[k] /\ labels'[k] = labels[k]
BY DEF Typed, TypeOK, Writer, HandlerActs, HeartbeatArrives, HandlerGets, HandlerPatches,
       HandlerConflicts, HandlerUpdatesLabels, HandlerSetsGauge, HandlerDone, Goes

\* Steps of the reconciler leave the handlers where they are.
LEMMA ReconcilerStep ==
    ASSUME Typed, ReconcilerActs
    PROVE  \A h \in Handler : pc'[h] = pc[h] /\ labels'[h] = labels[h]
BY HandlerAssumption
   DEF Typed, TypeOK, Writer, ReconcilerActs, ReconcilerAdopts, ReconcilerRemovesNode,
       ReconcilerUpdates, ReconcilerConflicts, Goes, requests

\* Every step keeps the series under the labels of prevLabels.
LEMMA TrackedStep == Typed /\ Tracked /\ [Next]_vars => Tracked'
<1> SUFFICES ASSUME Typed, Tracked, [Next]_vars PROVE Tracked'
  OBVIOUS
<1>1. ASSUME UNCHANGED gauges,
             \A h \in Handler : pc'[h] = "gauges" => pc[h] = "gauges" /\ labels'[h] = labels[h]
      PROVE  Tracked'
  BY <1>1 DEF gauges, Tracked, Of
<1>2. CASE UNCHANGED vars
  BY <1>1, <1>2 DEF vars, requests
<1>3. ASSUME NEW h \in Handler, HandlerActs(h) PROVE Tracked'
  <2>1. /\ \A k \in Handler \ {h} : pc'[k] = pc[k] /\ labels'[k] = labels[k]
        /\ h \in Writer
        /\ pc \in [Writer -> {"idle", "get", "patch", "labels", "gauges", "adopt", "release"}]
        /\ labels \in [Handler -> Labels \cup {NoLabels}]
    BY <1>3, OwnStep DEF Typed, TypeOK, Writer
  <2>2. CASE \/ \E r \in Report : HeartbeatArrives(h, r)
             \/ HandlerGets(h) \/ HandlerPatches(h) \/ HandlerConflicts(h)
    <3>1. pc'[h] # "gauges" /\ UNCHANGED gauges
      BY <2>1, <2>2
         DEF HeartbeatArrives, HandlerGets, HandlerPatches, HandlerConflicts, HandlerDone, Goes
    <3>2. QED
      BY <1>1, <2>1, <3>1
  <2>3. CASE HandlerUpdatesLabels(h)
    <3> SUFFICES ASSUME ~raced' PROVE Tracked'
      BY DEF Tracked
    <3>1. ~raced /\ \A k \in Handler \ {h} : ~Updates(k)
      BY <2>3, Alone
    <3>2. labels[h] \in Labels /\ prev' = labels[h] /\ labels' = labels
      BY <2>3 DEF HandlerUpdatesLabels, Typed, InHand
    <3>3. prev' # NoLabels
      BY <3>2, NoLabelsAssumption
    <3>4. series' \subseteq Of(prev')
      <4>1. CASE prev = NoLabels
        BY <2>3, <3>1, <4>1 DEF HandlerUpdatesLabels, Tracked, Outdated
      <4>2. CASE prev # NoLabels /\ prev = labels[h]
        BY <2>3, <3>1, <3>2, <4>2 DEF HandlerUpdatesLabels, Tracked, Outdated
      <4>3. CASE prev # NoLabels /\ prev # labels[h]
        <5>1. series \subseteq Of(prev) /\ series' = series \ Of(prev)
          BY <2>3, <3>1, <4>3 DEF HandlerUpdatesLabels, Tracked, Outdated
        <5>2. QED
          BY <5>1
      <4>4. QED
        BY <4>1, <4>2, <4>3
    <3>5. \A k \in Handler : pc'[k] = "gauges" => labels'[k] = prev'
      BY <2>1, <3>1, <3>2 DEF Updates
    <3>6. QED
      BY <3>3, <3>4, <3>5 DEF Tracked, Of
  <2>4. CASE HandlerSetsGauge(h)
    <3> SUFFICES ASSUME ~raced' PROVE Tracked'
      BY DEF Tracked
    <3>1. /\ pc[h] = "gauges" /\ ~raced /\ prev' = prev
          /\ series' = series \cup {<<Head(todo[h]), labels[h]>>}
      BY <2>4 DEF HandlerSetsGauge
    <3>2. labels[h] = prev /\ labels[h] \in Labels /\ Head(todo[h]) \in Gauge
      BY <3>1, RestOfGauges DEF Tracked, Typed, TypeOK, InHand
    <3>3. prev # NoLabels /\ series \subseteq Of(prev)
      BY <3>1, <3>2, NoLabelsAssumption DEF Tracked
    <3>4. <<Head(todo[h]), labels[h]>> \in Of(prev)
      BY <3>2 DEF Of
    <3>5. series' \subseteq Of(prev')
      BY <3>1, <3>3, <3>4
    <3>6. pc'[h] = "gauges" => labels'[h] = labels[h]
      BY <2>1, <2>4, <3>1 DEF HandlerSetsGauge, HandlerDone, Goes
    <3>7. \A k \in Handler : pc'[k] = "gauges" => labels'[k] = prev'
      BY <2>1, <3>1, <3>2, <3>6 DEF Tracked
    <3>8. QED
      BY <3>1, <3>3, <3>5, <3>7 DEF Tracked, Of
  <2>5. QED
    BY <1>3, <2>2, <2>3, <2>4 DEF HandlerActs
<1>4. CASE ReconcilerAdopts \/ ReconcilerUpdates \/ ReconcilerConflicts
  <2>1. ReconcilerActs /\ UNCHANGED gauges
    BY <1>4 DEF ReconcilerActs, ReconcilerAdopts, ReconcilerUpdates, ReconcilerConflicts
  <2>2. QED
    BY <1>1, <2>1, ReconcilerStep
<1>5. CASE ReconcilerRemovesNode
  <2> SUFFICES ASSUME ~raced' PROVE Tracked'
    BY DEF Tracked
  <2>1. RemoveNode /\ ReconcilerActs
    BY <1>5 DEF ReconcilerActs, ReconcilerRemovesNode
  <2>2. ~raced /\ \A h \in Handler : ~Updates(h)
    BY <2>1, RemovedAlone
  <2>3. prev' = NoLabels /\ series' = {}
    BY <2>1, <2>2 DEF RemoveNode, Tracked
  <2>4. \A h \in Handler : pc'[h] # "gauges"
    BY <2>1, <2>2, ReconcilerStep DEF Updates
  <2>5. QED
    BY <2>3, <2>4 DEF Tracked
<1>6. CASE (\E c \in Chip : PersistChip(c)) \/ DeleteNode \/ SyncNode
  BY <1>1, <1>6 DEF PersistChip, DeleteNode, SyncNode, requests
<1>7. CASE Crash
  <2>1. prev' = NoLabels /\ series' = {} /\ \A h \in Handler : pc'[h] = "idle"
    BY <1>7 DEF Crash, Writer
  <2>2. QED
    BY <2>1 DEF Tracked
<1>8. QED
  BY <1>2, <1>3, <1>4, <1>5, <1>6, <1>7 DEF Next, ReconcilerActs

(***************************************************************************)
(* The workload of the status                                              *)
(***************************************************************************)
\* What Followed reads stays: the place of the handlers, prevLabels, and the
\* workload of a node that does not come back.
LEMMA FollowedStays ==
    ASSUME Followed, UNCHANGED <<prev, raced>>, node'.workload = node.workload,
           node'.life # "gone" => node.life # "gone",
           \A h \in Handler :
               /\ pc'[h] = "labels" <=> pc[h] = "labels"
               /\ pc[h] = "labels" => labels'[h] = labels[h]
    PROVE  Followed'
BY DEF Followed

\* Every step keeps the workload of the status that of the last patch.
LEMMA FollowedStep == Typed /\ Followed /\ [Next]_vars => Followed'
<1> SUFFICES ASSUME Typed, Followed, [Next]_vars PROVE Followed'
  OBVIOUS
<1>1. CASE UNCHANGED vars
  BY <1>1, FollowedStays DEF vars, access, requests, gauges
<1>2. ASSUME NEW h \in Handler, HandlerActs(h) PROVE Followed'
  <2>1. /\ \A k \in Handler \ {h} : pc'[k] = pc[k] /\ labels'[k] = labels[k]
        /\ h \in Writer
        /\ pc \in [Writer -> {"idle", "get", "patch", "labels", "gauges", "adopt", "release"}]
        /\ labels \in [Handler -> Labels \cup {NoLabels}]
        /\ node \in McuNode
    BY <1>2, OwnStep DEF Typed, TypeOK, Writer
  <2>2. CASE \/ \E r \in Report : HeartbeatArrives(h, r)
             \/ HandlerGets(h) \/ HandlerConflicts(h) \/ HandlerSetsGauge(h)
    <3>1. /\ pc[h] # "labels" /\ pc'[h] # "labels" /\ node' = node
          /\ UNCHANGED <<prev, raced>>
      BY <2>1, <2>2
         DEF HeartbeatArrives, HandlerGets, HandlerConflicts, HandlerSetsGauge, HandlerDone,
             Goes, Reads, access, gauges
    <3>2. QED
      BY <2>1, <3>1, FollowedStays
  <2>3. CASE HandlerPatches(h)
    <3>1. /\ pc'[h] = "labels" /\ UNCHANGED <<prev, raced>>
          /\ labels'[h] = LabelsOf(report[h])
          /\ node' = [node EXCEPT !.workload = report[h].workload]
      BY <2>1, <2>3 DEF HandlerPatches, Stores, Goes, gauges
    <3>2. labels'[h].workload = node'.workload
      BY <2>1, <3>1 DEF LabelsOf, McuNode
    <3>3. \A k \in Handler \ {h} : ~(\A g \in Handler \ {k} : pc'[g] # "labels")
      BY <3>1
    <3>4. QED
      BY <3>1, <3>2, <3>3 DEF Followed
  <2>4. CASE HandlerUpdatesLabels(h)
    <3> SUFFICES ASSUME ~raced' PROVE Followed'
      BY DEF Followed
    <3>1. ~raced /\ \A k \in Handler \ {h} : ~Updates(k)
      BY <2>4, Alone
    <3>2. /\ pc[h] = "labels" /\ pc'[h] = "gauges" /\ prev' = labels[h]
          /\ node' = node
      BY <2>1, <2>4 DEF HandlerUpdatesLabels, Goes, access
    <3>3. prev'.workload = node'.workload
      BY <3>1, <3>2 DEF Followed, Updates
    <3>4. \A k \in Handler : pc'[k] # "labels"
      BY <2>1, <3>1, <3>2 DEF Updates
    <3>5. QED
      BY <3>3, <3>4 DEF Followed
  <2>5. QED
    BY <1>2, <2>2, <2>3, <2>4 DEF HandlerActs
<1>3. CASE ReconcilerAdopts \/ ReconcilerUpdates \/ ReconcilerConflicts
  <2>1. /\ node'.workload = node.workload /\ UNCHANGED <<prev, raced>>
        /\ node'.life # "gone" => node.life # "gone"
        /\ ReconcilerActs
    BY <1>3
       DEF ReconcilerActs, ReconcilerAdopts, ReconcilerUpdates, ReconcilerConflicts, Reads, Stores,
           Updated, access, gauges, Typed, TypeOK, McuNode
  <2>2. QED
    BY <2>1, ReconcilerStep, FollowedStays
<1>4. CASE ReconcilerRemovesNode
  <2> SUFFICES ASSUME ~raced' PROVE Followed'
    BY DEF Followed
  <2>1. RemoveNode /\ ReconcilerActs
    BY <1>4 DEF ReconcilerActs, ReconcilerRemovesNode
  <2>2. prev' = NoLabels /\ \A h \in Handler : pc'[h] # "labels"
    BY <2>1, RemovedAlone, ReconcilerStep DEF RemoveNode, Updates
  <2>3. QED
    BY <2>2 DEF Followed
<1>5. CASE (\E c \in Chip : PersistChip(c)) \/ DeleteNode \/ SyncNode
  <2>1. /\ node'.workload = node.workload /\ UNCHANGED <<prev, raced, pc, labels>>
        /\ node'.life # "gone" => node.life # "gone"
    BY <1>5
       DEF PersistChip, DeleteNode, SyncNode, Stores, requests, gauges, Typed, TypeOK, McuNode
  <2>2. QED
    BY <2>1, FollowedStays
<1>6. CASE Crash
  <2>1. prev' = NoLabels /\ \A h \in Handler : pc'[h] = "idle"
    BY <1>6 DEF Crash, Writer
  <2>2. QED
    BY <2>1 DEF Followed
<1>7. QED
  BY <1>1, <1>2, <1>3, <1>4, <1>5, <1>6 DEF Next, ReconcilerActs

(***************************************************************************)
(* RemoveNode                                                              *)
(***************************************************************************)
\* What Removed reads stays, or the reconciler has lost its version.
LEMMA RemovedStays ==
    ASSUME Removed, UNCHANGED <<prev, raced>>,
           \A h \in Handler : Updates(h)' => Updates(h),
           node'.life = "gone" /\ node'.finalizer => node.life = "gone" /\ node.finalizer,
           "reconciler" \in holders' /\ pc'["reconciler"] = "release" =>
               "reconciler" \in holders /\ pc["reconciler"] = "release"
    PROVE  Removed'
BY DEF Removed

\* Every step keeps what RemoveNode has achieved.
LEMMA RemovedStep == Typed /\ Locked /\ Removed /\ [Next]_vars => Removed'
<1> SUFFICES ASSUME Typed, Locked, Removed, [Next]_vars PROVE Removed'
  OBVIOUS
<1>1. /\ "reconciler" \in Writer /\ Handler \subseteq Writer
      /\ pc \in [Writer -> {"idle", "get", "patch", "labels", "gauges", "adopt", "release"}]
      /\ \A h \in Handler : h # "reconciler"
      /\ node \in McuNode
  BY HandlerAssumption DEF Typed, TypeOK, Writer
<1>2. CASE UNCHANGED vars
  BY <1>2, RemovedStays DEF vars, access, gauges, Updates
<1>3. ASSUME NEW h \in Handler, HandlerActs(h) PROVE Removed'
  <2>1. /\ \A k \in Handler \ {h} : pc'[k] = pc[k]
        /\ pc'["reconciler"] = pc["reconciler"]
    BY <1>1, <1>3, OwnStep
       DEF HandlerActs, HeartbeatArrives, HandlerGets, HandlerPatches, HandlerConflicts,
           HandlerUpdatesLabels, HandlerSetsGauge, HandlerDone, Goes
  <2>2. CASE \/ \E r \in Report : HeartbeatArrives(h, r)
             \/ HandlerGets(h) \/ HandlerConflicts(h) \/ HandlerSetsGauge(h)
    <3>1. /\ node' = node /\ UNCHANGED <<prev, raced>>
          /\ "reconciler" \in holders' => "reconciler" \in holders
      BY <1>1, <2>2
         DEF HeartbeatArrives, HandlerGets, HandlerConflicts, HandlerSetsGauge, Reads, access, gauges
    <3>2. pc'[h] \in {"labels", "gauges"} => pc[h] \in {"labels", "gauges"}
      BY <1>1, <2>2
         DEF HeartbeatArrives, HandlerGets, HandlerConflicts, HandlerSetsGauge, HandlerDone, Goes
    <3>3. \A k \in Handler : Updates(k)' => Updates(k)
      BY <2>1, <3>2 DEF Updates
    <3>4. QED
      BY <2>1, <3>1, <3>3, RemovedStays
  <2>3. CASE HandlerPatches(h)
    <3>1. holders' = {} /\ node'.life = node.life /\ node.life # "gone"
      BY <1>1, <2>3 DEF HandlerPatches, Stores, Locked, McuNode
    <3>2. QED
      BY <3>1 DEF Removed
  <2>4. CASE HandlerUpdatesLabels(h)
    <3> SUFFICES ASSUME ~raced' PROVE Removed'
      BY DEF Removed
    <3>1. ~raced /\ Updates(h) /\ UNCHANGED access
      BY <2>4, Alone DEF HandlerUpdatesLabels, Updates
    <3>2. ~("reconciler" \in holders' /\ pc'["reconciler"] = "release")
      BY <2>1, <3>1 DEF Removed, access
    <3>3. ~(node'.life = "gone" /\ node'.finalizer)
      BY <3>1 DEF Removed, access
    <3>4. QED
      BY <3>2, <3>3 DEF Removed
  <2>5. QED
    BY <1>3, <2>2, <2>3, <2>4 DEF HandlerActs
<1>4. CASE ReconcilerAdopts \/ ReconcilerConflicts
  <2>1. /\ node' = node /\ UNCHANGED <<prev, raced>> /\ pc'["reconciler"] # "release"
        /\ ReconcilerActs
    BY <1>1, <1>4 DEF ReconcilerActs, ReconcilerAdopts, ReconcilerConflicts, Reads, Goes, access, gauges
  <2>2. \A h \in Handler : Updates(h)' => Updates(h)
    BY <2>1, ReconcilerStep DEF Updates
  <2>3. QED
    BY <2>1, <2>2, RemovedStays
<1>5. CASE ReconcilerRemovesNode
  <2> SUFFICES ASSUME ~raced' PROVE Removed'
    BY DEF Removed
  <2>1. RemoveNode /\ ReconcilerActs
    BY <1>5 DEF ReconcilerActs, ReconcilerRemovesNode
  <2>2. prev' = NoLabels /\ \A h \in Handler : ~Updates(h)'
    BY <2>1, RemovedAlone, ReconcilerStep DEF RemoveNode, Updates
  <2>3. QED
    BY <2>2 DEF Removed
<1>6. CASE ReconcilerUpdates
  <2>1. /\ holders' = {} /\ UNCHANGED <<prev, raced>> /\ "reconciler" \in holders
        /\ pc["reconciler"] \in {"adopt", "release"} /\ ReconcilerActs
        /\ node' = Updated(pc["reconciler"])
    BY <1>6 DEF ReconcilerActs, ReconcilerUpdates, Stores, gauges
  <2>2. \A h \in Handler : Updates(h)' => Updates(h)
    BY <2>1, ReconcilerStep DEF Updates
  <2>3. CASE pc["reconciler"] = "adopt"
    <3>1. node'.life # "gone"
      BY <1>1, <2>1, <2>3 DEF Updated, Locked, McuNode
    <3>2. QED
      BY <2>1, <3>1 DEF Removed
  <2>4. CASE pc["reconciler"] = "release"
    BY <2>1, <2>2, <2>4 DEF Removed
  <2>5. QED
    BY <2>1, <2>3, <2>4
<1>7. CASE (\E c \in Chip : PersistChip(c)) \/ DeleteNode
  <2>1. holders' = {} /\ ~(node'.life = "gone" /\ node'.finalizer)
    BY <1>1, <1>7 DEF PersistChip, DeleteNode, Stores, McuNode
  <2>2. QED
    BY <2>1 DEF Removed
<1>8. CASE SyncNode
  BY <1>8, RemovedStays DEF SyncNode, gauges, Updates
<1>9. CASE Crash
  <2>1. holders' = {} /\ prev' = NoLabels /\ \A h \in Handler : ~Updates(h)'
    BY <1>9 DEF Crash, Writer, Updates
  <2>2. QED
    BY <2>1 DEF Removed
<1>10. QED
  BY <1>2, <1>3, <1>4, <1>5, <1>6, <1>7, <1>8, <1>9 DEF Next, ReconcilerActs

(***************************************************************************)
(* Theorems                                                                *)
(***************************************************************************)
\* The inductive invariant, in every behaviour.
LEMMA Invariant == Spec => []Inv
<1>1. Inv /\ [Next]_vars => Inv'
  BY TypedStep, LockedStep, TrackedStep, FollowedStep, RemovedStep DEF Inv
<1>2. QED
  BY <1>1, InitInv, PTL DEF Spec

\* Types are kept, for any handlers and any workloads.
THEOREM TypeCorrect == Spec => []TypeOK
<1>1. Inv => TypeOK
  BY DEF Inv, Typed
<1>2. QED
  BY <1>1, Invariant, PTL

\* Updates that do not overlap leave one label set on /metrics, whatever
\* changes between two heartbeats and whatever crashes.
THEOREM OneLabelSetOnly == Spec => []OneLabelSet
<1>1. Inv => OneLabelSet
  BY DEF Inv, Tracked, OneLabelSet
<1>2. QED
  BY <1>1, Invariant, PTL

\* Between two updates the series and the status name the same workload.
THEOREM SeriesAlwaysAgree == Spec => []SeriesAgree
<1>1. Inv => SeriesAgree
  BY DEF Inv, Followed, SeriesAgree, Updates
<1>2. QED
  BY <1>1, Invariant, PTL

\* The finalizer keeps its promise: a node that is gone has no series, if no
\* update was under way when RemoveNode ran.
THEOREM NothingLeftBehind == Spec => []NoOrphans
<1>1. Inv => NoOrphans
  BY DEF Inv, Tracked, Removed, NoOrphans
<1>2. QED
  BY <1>1, Invariant, PTL
=============================================================================
