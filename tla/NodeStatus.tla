----------------------------- MODULE NodeStatus -----------------------------
(***************************************************************************)
(* The status of one McuNode and its two concurrent writers: the handlers  *)
(* of the heartbeat server (src/internal/heartbeat/server.go) and the      *)
(* McuNode reconciler (src/internal/controller/mcunode_controller.go),     *)
(* which also publishes Status.Ready in the EndpointSlice of the node.     *)
(*                                                                         *)
(*  - Both read the object in the informer cache, and patch it under an    *)
(*    optimistic lock: the patch is refused when the object has changed    *)
(*    since the version that was read.  A copy keeps its resourceVersion   *)
(*    as the boolean current, "still the version on the API server".       *)
(*  - Heartbeats are numbered in the order in which handlers timestamp     *)
(*    them; 0 stands for no heartbeat.  The heartbeats up to horizon are   *)
(*    older than HeartbeatTimeout.                                         *)
(*  - A heartbeat with an unknown or duplicate node_id, a bad token or a   *)
(*    state outside the enumeration of the CRD changes nothing.  Only the  *)
(*    last of these can appear in Report, as the state "unknown".          *)
(*  - The IP is left out beyond being known, as are the metrics, the       *)
(*    Service (same life as the slice, no status in it) and the deletion   *)
(*    of the node.                                                         *)
(***************************************************************************)
EXTENDS Naturals

CONSTANTS Handler,   \* concurrent requests to the heartbeat server
          Report,    \* what heartbeats say: state, validated, unsynced
          MaxBeats   \* bound: number of heartbeats of a behaviour

\* The enumeration of the CRD (validNodeStates).  The handler takes "offline" from
\* a device as well: its node is offline, but not silent.
ReportedState == {"booting", "pending_verify", "running", "degraded", "rollback",
                  "failed", "offline"}

ASSUME HandlerAssumption == Handler \cap {"reconciler", "informer"} = {}
ASSUME ReportAssumption ==
    Report \subseteq [state : ReportedState \cup {"unknown"}, validated : BOOLEAN,
                      unsynced : BOOLEAN]
ASSUME MaxBeatsAssumption == MaxBeats \in Nat

VARIABLES node,     \* API server: the status of the McuNode
          copy,     \* the copies of it that the informer and the writers hold
          pc,       \* what each writer does next
          report,   \* the heartbeat in each handler
          want,     \* the status the reconciler will patch
          beats,    \* heartbeats timestamped so far
          horizon,  \* the last of them older than HeartbeatTimeout
          slice,    \* API server: the EndpointSlice
          sliceSeen \* the informer's copy of it

vars == <<node, copy, pc, report, want, beats, horizon, slice, sliceSeen>>

(***************************************************************************)
(* Objects                                                                 *)
(***************************************************************************)
Beat == 0 .. MaxBeats

\* The reason of the Ready condition.
Cond == {"", "NotProvisioned", "HeartbeatOK", "ClockUnsynced", "DeviceNotReady",
         "HeartbeatTimeout"}

\* unsynced is not in the status: it remembers the reason of the last heartbeat.
Status == [beat : Beat, state : ReportedState \cup {""}, validated : BOOLEAN,
           ready : BOOLEAN, cond : Cond, unsynced : BOOLEAN]

NewStatus == [beat |-> 0, state |-> "", validated |-> FALSE, ready |-> FALSE,
              cond |-> "", unsynced |-> FALSE]

Copy == [obj : Status, current : BOOLEAN]

\* ready |-> FALSE, exists |-> FALSE is no slice.
Slice == [exists : BOOLEAN, ready : BOOLEAN]

NoSlice == [exists |-> FALSE, ready |-> FALSE]

NoReport == [beat |-> 0, state |-> "", validated |-> FALSE, unsynced |-> FALSE]

HeartbeatInHand == [beat : Beat, state : ReportedState, validated : BOOLEAN,
                    unsynced : BOOLEAN] \cup {NoReport}

Writer == Handler \cup {"reconciler"}
Reader == Writer \cup {"informer"}

(***************************************************************************)
(* Patches                                                                 *)
(***************************************************************************)
\* Merge patch: the fields of new that differ from base.
Merged(stored, base, new) ==
    [f \in DOMAIN stored |-> IF new[f] # base[f] THEN new[f] ELSE stored[f]]

\* The object is now new; w holds the answer, the other copies are old unless
\* nothing changed.
Stores(w, new) ==
    /\ node' = new
    /\ copy' = [r \in Reader |->
                  IF r = w THEN [obj |-> new, current |-> TRUE]
                  ELSE [copy[r] EXCEPT !.current = @ /\ new = node]]

Reads(w) == copy' = [copy EXCEPT ![w] = copy["informer"]]

\* Mutated form: the patch carries no resourceVersion.
PatchesUnlocked(w, new) == Stores(w, Merged(node, copy[w].obj, new))

\* Status().Patch with MergeFromWithOptimisticLock.
Patches(w, new) ==
    /\ copy[w].current
    /\ Stores(w, Merged(node, copy[w].obj, new))

(***************************************************************************)
(* The heartbeat server                                                    *)
(***************************************************************************)
Goes(w, step) == pc' = [pc EXCEPT ![w] = step]

\* Mutated form: no test of the state.
AcceptsAny(r) == TRUE

\* validNodeStates.
Accepts(r) == r.state \in ReportedState

\* handleHeartbeat: the request is authenticated and timestamped.
HeartbeatArrives(h, r) ==
    /\ pc[h] = "idle"
    /\ Accepts(r)
    /\ beats < MaxBeats
    /\ beats' = beats + 1
    /\ report' = [report EXCEPT ![h] = [beat |-> beats + 1, state |-> r.state,
                                        validated |-> r.validated, unsynced |-> r.unsynced]]
    /\ Goes(h, "get")
    /\ UNCHANGED <<node, copy, want, horizon, slice, sliceSeen>>

\* Each attempt of RetryOnConflict starts from a new read.
HandlerGets(h) ==
    /\ pc[h] = "get"
    /\ Reads(h)
    /\ Goes(h, "patch")
    /\ UNCHANGED <<node, report, want, beats, horizon, slice, sliceSeen>>

\* The status a heartbeat leads to.
Reported(r) ==
    LET ready == r.state = "running" /\ r.validated /\ ~r.unsynced IN
    [beat |-> r.beat, state |-> r.state, validated |-> r.validated, ready |-> ready,
     cond |-> IF ready THEN "HeartbeatOK"
              ELSE IF r.unsynced THEN "ClockUnsynced" ELSE "DeviceNotReady",
     unsynced |-> r.unsynced]

HandlerDone(h) == Goes(h, "idle") /\ report' = [report EXCEPT ![h] = NoReport]

HandlerPatches(h) ==
    /\ pc[h] = "patch"
    /\ Patches(h, Reported(report[h]))
    /\ HandlerDone(h)
    /\ UNCHANGED <<want, beats, horizon, slice, sliceSeen>>

\* A conflict is retried, a few times; then the heartbeat is dropped with a 200.
HandlerConflicts(h) ==
    /\ pc[h] = "patch"
    /\ ~copy[h].current
    /\ \/ Goes(h, "get") /\ UNCHANGED report
       \/ HandlerDone(h)
    /\ UNCHANGED <<node, copy, want, beats, horizon, slice, sliceSeen>>

(***************************************************************************)
(* The McuNode reconciler: on every event of the node and every 10 s       *)
(***************************************************************************)
Expired(o) == o.beat <= horizon

\* Mutated form: Ready does not depend on the age of the heartbeat.
DecidedIgnoringAge(o) ==
    LET alive == o.state = "running" /\ o.validated IN
    IF o.beat = 0 THEN [o EXCEPT !.ready = alive, !.cond = "NotProvisioned"]
    ELSE IF Expired(o) THEN [o EXCEPT !.ready = alive, !.cond = "HeartbeatTimeout"]
    ELSE [o EXCEPT !.ready = alive]

\* wantReady, wantState and the conditions, at the time of the read.
Decided(o) ==
    LET alive == ~Expired(o) /\ o.state = "running" /\ o.validated IN
    IF o.beat = 0 THEN [o EXCEPT !.ready = alive, !.cond = "NotProvisioned"]
    ELSE IF Expired(o) THEN [o EXCEPT !.ready = alive, !.state = "offline",
                                      !.cond = "HeartbeatTimeout"]
    ELSE [o EXCEPT !.ready = alive]

ReconcilerReads ==
    /\ pc["reconciler"] = "idle"
    /\ Reads("reconciler")
    /\ want' = Decided(copy["informer"].obj)
    /\ Goes("reconciler", "patch")
    /\ UNCHANGED <<node, report, beats, horizon, slice, sliceSeen>>

\* Without an IP (no heartbeat yet) there is no Service and no slice.
ReconcilerPatches ==
    /\ pc["reconciler"] = "patch"
    /\ Patches("reconciler", want)
    /\ Goes("reconciler", IF want.beat = 0 THEN "idle" ELSE "slice")
    /\ UNCHANGED <<report, want, beats, horizon, slice, sliceSeen>>

\* The error puts the node back in the queue.
ReconcilerConflicts ==
    /\ pc["reconciler"] = "patch"
    /\ ~copy["reconciler"].current
    /\ Goes("reconciler", "idle")
    /\ UNCHANGED <<node, copy, report, want, beats, horizon, slice, sliceSeen>>

\* Mutated form: an existing slice is left as it is.
PublishedOnce(stored, seen, ready) ==
    IF seen.exists THEN stored ELSE [exists |-> TRUE, ready |-> ready]

\* Create, or a merge patch computed against the informer's copy of the slice.
\* Create answers AlreadyExists when that copy is behind.
Published(stored, seen, ready) ==
    IF ~seen.exists
    THEN IF stored.exists THEN stored ELSE [exists |-> TRUE, ready |-> ready]
    ELSE IF seen.ready # ready THEN [stored EXCEPT !.ready = ready] ELSE stored

ReconcilerPublishes ==
    /\ pc["reconciler"] = "slice"
    /\ slice' = Published(slice, sliceSeen, copy["reconciler"].obj.ready)
    /\ Goes("reconciler", "idle")
    /\ UNCHANGED <<node, copy, report, want, beats, horizon, sliceSeen>>

(***************************************************************************)
(* The environment                                                         *)
(***************************************************************************)
SyncNode ==
    /\ ~copy["informer"].current
    /\ copy' = [copy EXCEPT !["informer"] = [obj |-> node, current |-> TRUE]]
    /\ UNCHANGED <<node, pc, report, want, beats, horizon, slice, sliceSeen>>

SyncSlice ==
    /\ sliceSeen # slice
    /\ sliceSeen' = slice
    /\ UNCHANGED <<node, copy, pc, report, want, beats, horizon, slice>>

\* HeartbeatTimeout has elapsed since one more heartbeat.
TimePasses ==
    /\ horizon < beats
    /\ horizon' = horizon + 1
    /\ UNCHANGED <<node, copy, pc, report, want, beats, slice, sliceSeen>>

\* The controller dies and starts again from a fresh list; every request in
\* progress is lost.
Crash ==
    /\ pc' = [w \in Writer |-> "idle"]
    /\ report' = [h \in Handler |-> NoReport]
    /\ copy' = [r \in Reader |-> [obj |-> node, current |-> TRUE]]
    /\ sliceSeen' = slice
    /\ UNCHANGED <<node, want, beats, horizon, slice>>

(***************************************************************************)
(* Specification                                                           *)
(***************************************************************************)
Init ==
    /\ node = NewStatus
    /\ copy = [r \in Reader |-> [obj |-> NewStatus, current |-> TRUE]]
    /\ pc = [w \in Writer |-> "idle"]
    /\ report = [h \in Handler |-> NoReport]
    /\ want = NewStatus
    /\ beats = 0
    /\ horizon = 0
    /\ slice = NoSlice
    /\ sliceSeen = NoSlice

HandlerActs(h) ==
    \/ \E r \in Report : HeartbeatArrives(h, r)
    \/ HandlerGets(h) \/ HandlerPatches(h) \/ HandlerConflicts(h)

ReconcilerActs ==
    ReconcilerReads \/ ReconcilerPatches \/ ReconcilerConflicts \/ ReconcilerPublishes

Next ==
    \/ \E h \in Handler : HandlerActs(h)
    \/ ReconcilerActs
    \/ SyncNode \/ SyncSlice \/ TimePasses \/ Crash

Spec == Init /\ [][Next]_vars

\* The reconciler runs again after every event and every 10 s, the informers
\* deliver what they watch, and a controller that crashes is started again and
\* then stays up long enough for a reconcile.  Nothing is assumed of devices,
\* and nothing of the time a handler takes.
FairSpec == /\ Spec
            /\ SF_vars(ReconcilerReads) /\ SF_vars(ReconcilerPatches)
            /\ SF_vars(ReconcilerPublishes)
            /\ WF_vars(ReconcilerConflicts) /\ WF_vars(SyncNode) /\ WF_vars(SyncSlice)

(***************************************************************************)
(* Properties                                                              *)
(***************************************************************************)
\* Every variable keeps its type, over all the interleavings of the writers.
TypeOK ==
    /\ node \in Status
    /\ copy \in [Reader -> Copy]
    /\ pc \in [Writer -> {"idle", "get", "patch", "slice"}]
    /\ report \in [Handler -> HeartbeatInHand]
    /\ want \in Status
    /\ beats \in Beat /\ horizon \in 0 .. beats
    /\ slice \in Slice /\ sliceSeen \in Slice

\* Ready is never a mixture of two writers: the same object says that the
\* device runs a validated image ("true ssi state==running && ota_validated").
ReadyAgrees == node.ready => node.state = "running" /\ node.validated

\* The reconciler found the last heartbeat too old.
DeclaredSilent(o) == o.cond = "HeartbeatTimeout"

\* An offline node says why, and is not Ready: the state, the condition and
\* Ready of a silence land, and go, together; where the device itself reported
\* "offline", the condition is one that a heartbeat gives.
OfflineExplained ==
    /\ DeclaredSilent(node) => node.state = "offline"
    /\ node.state = "offline" =>
           /\ ~node.ready
           /\ DeclaredSilent(node) \/ node.cond \in {"DeviceNotReady", "ClockUnsynced"}

\* A heartbeat is never erased by a decision taken before it: a node is declared
\* silent only when the heartbeat in the status is too old ("peut ecraser un
\* heartbeat tout juste arrive", which the optimistic lock prevents).
OfflineOnlyIfSilent ==
    [][~DeclaredSilent(node) /\ DeclaredSilent(node)' => Expired(node)]_vars

\* A device that falls silent leaves the EndpointSlice, or speaks again, even
\* when the slice is patched against a copy that is behind.
SilenceUnpublished ==
    (node.beat > 0 /\ Expired(node)) ~> (~slice.ready \/ ~Expired(node))

\* What the status settles on is what the slice settles on.
SliceFollowsStatus ==
    \A v \in BOOLEAN :
        <>[](node.beat > 0 /\ node.ready = v) => <>[](slice = [exists |-> TRUE, ready |-> v])

\* A heartbeat that says clock_unsynced is a diagnosis and never makes its node
\* Ready (handleHeartbeat: "jamais promu en Ready=True").
UnsyncedNeverReady == node.unsynced => ~node.ready

(***************************************************************************)
(* The two writers implement StatusRegister: the optimistic lock makes     *)
(* each read, decision and patch one step on the status.                   *)
(***************************************************************************)
Fit(o) == o.state = "running" /\ o.validated

ModeOf(o) == IF o.beat = 0 THEN "unheard"
             ELSE IF DeclaredSilent(o) THEN "silent"
             ELSE IF o.ready THEN "ready" ELSE "live"

AsHeartbeat(r) == [number |-> r.beat, fit |-> Fit(r), synced |-> ~r.unsynced]

\* The heartbeats that handlers hold.
InFlight == {AsHeartbeat(r) : r \in {report[h] : h \in Handler} \ {NoReport}}

R == INSTANCE StatusRegister WITH
        mode <- ModeOf(node), heard <- node.beat, fit <- Fit(node),
        pending <- InFlight, arrived <- beats, horizon <- horizon

\* Every status is the one before it after one whole heartbeat, or one decision of
\* the reconciler that is right about it, however old the copy the writer read.
ImplementsRegister == R!RegisterSpec
=============================================================================
