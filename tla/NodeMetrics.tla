---------------------------- MODULE NodeMetrics ----------------------------
(***************************************************************************)
(* The Prometheus series of one node_id (src/internal/metrics/metrics.go), *)
(* and the McuNode they are about: the handlers of the heartbeat server    *)
(* set them after they patched the status, and the McuNode reconciler      *)
(* removes them before it lets a deleted McuNode go (the finalizer         *)
(* embewi.io/metrics-cleanup).                                             *)
(*                                                                         *)
(*  - A series is a gauge and its labels; its value is left out.           *)
(*    prevLabels, under labelsMu, remembers the labels of the last update; *)
(*    the gauges are set after the mutex is released, one at a time.       *)
(*  - Handlers and reconciler read the object in the informer cache.  The  *)
(*    status patch and r.Update both carry the resourceVersion that was    *)
(*    read: they are accepted from the writers in holders, who read the    *)
(*    version that is still on the API server.                             *)
(*  - Series, prevLabels and handlers live in the process: a crash loses   *)
(*    all of them.  The rest of the status is in NodeStatus.               *)
(***************************************************************************)
EXTENDS Naturals, Sequences

CONSTANTS Handler,   \* concurrent requests to the heartbeat server
          Workload,  \* the deployment ids heartbeats carry
          Chip,      \* what GET /info says of the hardware
          NoWorkload,\* status.deploymentID before the first heartbeat
          NoChip,    \* status.chip before the first GET /info
          NoLabels,  \* no entry in prevLabels
          MaxBeats   \* bound: number of heartbeats of a behaviour

Labels == [workload : Workload, chip : Chip \cup {NoChip}]

ASSUME HandlerAssumption    == "reconciler" \notin Handler
ASSUME NoWorkloadAssumption == NoWorkload \notin Workload
ASSUME NoChipAssumption     == NoChip \notin Chip
ASSUME NoLabelsAssumption   == NoLabels \notin Labels
ASSUME MaxBeatsAssumption   == MaxBeats \in Nat

VARIABLES node,    \* API server: the McuNode
          cached,  \* the informer's copy of it
          current, \* whether that copy is the version on the API server
          holders, \* the writers that read the version on the API server
          pc,      \* what each writer does next
          report,  \* the heartbeat in each handler
          labels,  \* the labels each handler sets its gauges with
          todo,    \* the gauges each handler has still to set
          prev,    \* prevLabels[node_id]
          series,  \* what /metrics shows for this node_id
          beats,   \* heartbeats so far
          raced    \* history: an update ran beside another, or beside RemoveNode

access   == <<node, cached, current, holders>>
requests == <<report, labels, todo>>
gauges   == <<prev, series, raced>>
vars     == <<access, pc, requests, gauges, beats>>

(***************************************************************************)
(* Objects                                                                 *)
(***************************************************************************)
\* finalizer: the object carries nodeMetricsFinalizer; a gone object carried it.
McuNode == [life : {"live", "deleting", "gone"}, finalizer : BOOLEAN,
            workload : Workload \cup {NoWorkload}, chip : Chip \cup {NoChip}]

NewNode == [life |-> "live", finalizer |-> FALSE,
            workload |-> NoWorkload, chip |-> NoChip]

\* One gauge stands for the six that every update sets, one for the two that it
\* leaves alone when the heartbeat has no value for them (the temperature; the
\* timestamp of a device whose clock is not set).
Gauges == <<"heap_free_bytes", "temperature_celsius">>

Gauge == {Gauges[i] : i \in DOMAIN Gauges}

\* temperature: temp_celsius is not the sentinel.
Report == [workload : Workload, temperature : BOOLEAN]

NoReport == [workload |-> NoWorkload, temperature |-> FALSE]

Writer == Handler \cup {"reconciler"}

(***************************************************************************)
(* Reads and writes of the object                                          *)
(***************************************************************************)
Goes(w, step) == pc' = [pc EXCEPT ![w] = step]

\* A write moves the version, even one that leaves the fields kept here as they
\* are: nobody holds the new one yet, but in its answer.
Stores(new) == node' = new /\ holders' = {} /\ current' = FALSE /\ UNCHANGED cached

Reads(w) ==
    /\ holders' = IF current THEN holders \cup {w} ELSE holders \ {w}
    /\ UNCHANGED <<node, cached, current>>

(***************************************************************************)
(* The heartbeat server                                                    *)
(***************************************************************************)
HandlerDone(h) ==
    /\ Goes(h, "idle")
    /\ report' = [report EXCEPT ![h] = NoReport]
    /\ labels' = [labels EXCEPT ![h] = NoLabels]

\* handleHeartbeat: findNode sees the node, the request is authenticated.
HeartbeatArrives(h, r) ==
    /\ pc[h] = "idle"
    /\ cached.life # "gone"
    /\ beats < MaxBeats
    /\ beats' = beats + 1
    /\ report' = [report EXCEPT ![h] = r]
    /\ Goes(h, "get")
    /\ UNCHANGED <<access, labels, todo, gauges>>

\* Each attempt of RetryOnConflict starts from a new read; NotFound ends it.
HandlerGets(h) ==
    /\ pc[h] = "get"
    /\ \/ cached.life # "gone" /\ Reads(h) /\ Goes(h, "patch") /\ UNCHANGED <<report, labels>>
       \/ cached.life = "gone" /\ HandlerDone(h) /\ UNCHANGED access
    /\ UNCHANGED <<todo, gauges, beats>>

\* Mutated form: the two label values are swapped.
LabelsSwapped(r) == [workload |-> node.chip, chip |-> r.workload]

\* The labels of UpdateFromHeartbeat: the deployment id of the heartbeat, and
\* the chip of the object the patch returns.
LabelsOf(r) == [workload |-> r.workload, chip |-> node.chip]

HandlerPatches(h) ==
    /\ pc[h] = "patch"
    /\ h \in holders
    /\ Stores([node EXCEPT !.workload = report[h].workload])
    /\ labels' = [labels EXCEPT ![h] = LabelsOf(report[h])]
    /\ Goes(h, "labels")
    /\ UNCHANGED <<report, todo, gauges, beats>>

\* Mutated form: a failed patch does not end the handler.
HandlerConflictsAndGoesOn(h) ==
    /\ pc[h] = "patch"
    /\ h \notin holders
    /\ \/ Goes(h, "get") /\ UNCHANGED labels
       \/ Goes(h, "labels") /\ labels' = [labels EXCEPT ![h] = LabelsOf(report[h])]
    /\ UNCHANGED <<access, report, todo, gauges, beats>>

\* A conflict is retried, a few times; then the heartbeat is dropped, and leaves
\* the gauges as they are.
HandlerConflicts(h) ==
    /\ pc[h] = "patch"
    /\ h \notin holders
    /\ \/ Goes(h, "get") /\ UNCHANGED <<report, labels>>
       \/ HandlerDone(h)
    /\ UNCHANGED <<access, todo, gauges, beats>>

\* The handler is between its patch and its last gauge.
Updates(h) == pc[h] \in {"labels", "gauges"}

\* The series deleteLabels deletes.
Of(l) == Gauge \X {l}

\* Mutated form: a change of the chip alone leaves the old series.
OutdatedByWorkload(l) == prev # NoLabels /\ prev.workload # l.workload

\* The labels of the last update are not these.
Outdated(l) == prev # NoLabels /\ prev # l

\* The gauges that an update with this heartbeat sets.
Written(r) == IF r.temperature THEN Gauges ELSE <<Gauges[1]>>

\* UpdateFromHeartbeat, under labelsMu: the series of labels that changed go.
HandlerUpdatesLabels(h) ==
    /\ pc[h] = "labels"
    /\ series' = IF Outdated(labels[h]) THEN series \ Of(prev) ELSE series
    /\ prev' = labels[h]
    /\ raced' = (raced \/ \E k \in Handler \ {h} : Updates(k))
    /\ todo' = [todo EXCEPT ![h] = Written(report[h])]
    /\ Goes(h, "gauges")
    /\ UNCHANGED <<access, report, labels, beats>>

\* UpdateFromHeartbeat, after labelsMu is released.
HandlerSetsGauge(h) ==
    /\ pc[h] = "gauges"
    /\ series' = series \cup {<<Head(todo[h]), labels[h]>>}
    /\ todo' = [todo EXCEPT ![h] = Tail(@)]
    /\ IF Len(todo[h]) = 1 THEN HandlerDone(h) ELSE UNCHANGED <<pc, report, labels>>
    /\ UNCHANGED <<access, prev, raced, beats>>

(***************************************************************************)
(* The McuNode reconciler                                                  *)
(***************************************************************************)
\* AddFinalizer on what it read; r.Update follows.
ReconcilerAdopts ==
    /\ pc["reconciler"] = "idle"
    /\ cached.life = "live" /\ ~cached.finalizer
    /\ Reads("reconciler")
    /\ Goes("reconciler", "adopt")
    /\ UNCHANGED <<requests, gauges, beats>>

\* RemoveNode, under labelsMu.
RemoveNode ==
    /\ series' = IF prev = NoLabels THEN series ELSE series \ Of(prev)
    /\ prev' = NoLabels
    /\ raced' = (raced \/ \E h \in Handler : Updates(h))

\* The informer shows a node that is being deleted: RemoveNode, RemoveFinalizer;
\* r.Update follows.
ReconcilerRemovesNode ==
    /\ pc["reconciler"] = "idle"
    /\ cached.life = "deleting"
    /\ Reads("reconciler")
    /\ RemoveNode
    /\ Goes("reconciler", "release")
    /\ UNCHANGED <<requests, beats>>

\* Mutated form: the finalizer is not taken off the object.
UpdatedWithFinalizer(step) == [node EXCEPT !.finalizer = TRUE]

\* The object with the finalizer, or gone without it.
Updated(step) == IF step = "adopt" THEN [node EXCEPT !.finalizer = TRUE]
                                   ELSE [node EXCEPT !.life = "gone"]

\* Mutated form: the object is updated whatever happened to it since the read.
ReconcilerUpdatesAnyVersion ==
    /\ pc["reconciler"] \in {"adopt", "release"}
    /\ Stores(Updated(pc["reconciler"]))
    /\ Goes("reconciler", "idle")
    /\ UNCHANGED <<requests, gauges, beats>>

ReconcilerUpdates ==
    /\ pc["reconciler"] \in {"adopt", "release"}
    /\ "reconciler" \in holders
    /\ Stores(Updated(pc["reconciler"]))
    /\ Goes("reconciler", "idle")
    /\ UNCHANGED <<requests, gauges, beats>>

\* r.Update is refused: the error puts the node back in the queue.
ReconcilerConflicts ==
    /\ pc["reconciler"] \in {"adopt", "release"}
    /\ "reconciler" \notin holders
    /\ Goes("reconciler", "idle")
    /\ UNCHANGED <<access, requests, gauges, beats>>

(***************************************************************************)
(* The environment                                                         *)
(***************************************************************************)
\* The McuDeployment reconciler persists what GET /info says, under no lock.
PersistChip(c) ==
    /\ node.life # "gone" /\ node.chip = NoChip
    /\ Stores([node EXCEPT !.chip = c])
    /\ UNCHANGED <<pc, requests, gauges, beats>>

\* The operator deletes the McuNode; an object without finalizer goes at once.
DeleteNode ==
    /\ node.life = "live"
    /\ Stores([node EXCEPT !.life = IF node.finalizer THEN "deleting" ELSE "gone"])
    /\ UNCHANGED <<pc, requests, gauges, beats>>

SyncNode ==
    /\ ~current
    /\ cached' = node /\ current' = TRUE
    /\ UNCHANGED <<node, holders, pc, requests, gauges, beats>>

\* The process dies, and starts again with a fresh list of the nodes and no
\* series; every request in progress is lost.
Crash ==
    /\ cached' = node /\ current' = TRUE /\ holders' = {}
    /\ pc' = [w \in Writer |-> "idle"]
    /\ report' = [h \in Handler |-> NoReport]
    /\ labels' = [h \in Handler |-> NoLabels]
    /\ todo' = [h \in Handler |-> <<>>]
    /\ prev' = NoLabels
    /\ series' = {}
    /\ raced' = FALSE
    /\ UNCHANGED <<node, beats>>

(***************************************************************************)
(* Specification                                                           *)
(***************************************************************************)
Init ==
    /\ node = NewNode
    /\ cached = NewNode /\ current = TRUE /\ holders = {}
    /\ pc = [w \in Writer |-> "idle"]
    /\ report = [h \in Handler |-> NoReport]
    /\ labels = [h \in Handler |-> NoLabels]
    /\ todo = [h \in Handler |-> <<>>]
    /\ prev = NoLabels
    /\ series = {}
    /\ beats = 0
    /\ raced = FALSE

HandlerActs(h) ==
    \/ \E r \in Report : HeartbeatArrives(h, r)
    \/ HandlerGets(h) \/ HandlerPatches(h) \/ HandlerConflicts(h)
    \/ HandlerUpdatesLabels(h) \/ HandlerSetsGauge(h)

ReconcilerActs ==
    \/ ReconcilerAdopts \/ ReconcilerRemovesNode
    \/ ReconcilerUpdates \/ ReconcilerConflicts

Next ==
    \/ \E h \in Handler : HandlerActs(h)
    \/ ReconcilerActs
    \/ \E c \in Chip : PersistChip(c)
    \/ DeleteNode \/ SyncNode \/ Crash

Spec == Init /\ [][Next]_vars

\* The reconciler runs again after every event and every 10 s, the informer
\* delivers, and a process that crashes is started again and then stays up long
\* enough for a reconcile.  Nothing is assumed of the handlers.
FairSpec == /\ Spec
            /\ SF_vars(ReconcilerRemovesNode) /\ SF_vars(ReconcilerUpdates)
            /\ WF_vars(ReconcilerConflicts) /\ WF_vars(SyncNode)

(***************************************************************************)
(* Properties                                                              *)
(***************************************************************************)
\* Every variable keeps its type, and the labels of a series are a workload and
\* a chip of this node.
TypeOK ==
    /\ node \in McuNode
    /\ cached \in McuNode /\ current \in BOOLEAN /\ holders \subseteq Writer
    /\ pc \in [Writer -> {"idle", "get", "patch", "labels", "gauges", "adopt", "release"}]
    /\ report \in [Handler -> Report \cup {NoReport}]
    /\ labels \in [Handler -> Labels \cup {NoLabels}]
    /\ todo \in [Handler -> Seq(Gauge)]
    /\ prev \in Labels \cup {NoLabels}
    /\ series \subseteq Gauge \X Labels
    /\ beats \in 0 .. MaxBeats /\ raced \in BOOLEAN

\* As long as the updates of a node do not overlap, /metrics never shows two
\* label sets of it ("previent la fuite de cardinalite"): whatever a series says
\* can be found again by prevLabels, whose mutex does not cover the gauges.
OneLabelSet == ~raced /\ prev # NoLabels => series \subseteq Of(prev)

\* ... and between two updates the workload of the series is the deployment id
\* of the status: a patch that fails leaves the gauges alone ("evite la
\* divergence K8s/Prometheus").
SeriesAgree ==
    ~raced /\ prev # NoLabels /\ node.life # "gone" /\ (\A h \in Handler : ~Updates(h))
        => prev.workload = node.workload

\* A node that went through the finalizer leaves no series behind, unless an
\* update was under way when RemoveNode ran: a heartbeat accepted later makes
\* the removal of the finalizer conflict, and RemoveNode run again.
NoOrphans == node.life = "gone" /\ node.finalizer /\ ~raced => series = {}

\* The finalizer is always taken off in the end, over conflicts and crashes: a
\* deleted McuNode does not stay in the API server.
DeletionEnds == node.life = "deleting" ~> node.life = "gone"
=============================================================================
