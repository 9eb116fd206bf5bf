--------------------------- MODULE TokenRotation ---------------------------
(***************************************************************************)
(* The rotation of the Bearer token of one device.  The operator writes    *)
(* the new token and the previous one in the Secret; the McuNode           *)
(* reconciler (src/internal/controller/mcunode_controller.go) sends        *)
(* POST /token until a heartbeat authenticated with the new token makes    *)
(* the heartbeat server (src/internal/heartbeat/server.go) remove          *)
(* previousToken.                                                          *)
(*                                                                         *)
(*  - Tokens are numbered in the order in which the operator issues them.  *)
(*  - The Secret is read in the informer cache; previousToken is removed   *)
(*    by a merge patch without resourceVersion, whatever is stored then.   *)
(*  - A request may take any time to arrive, or be lost; the answer to     *)
(*    POST /token leads to an event and nothing else, so it is left out.   *)
(*  - The node has a tokenRef: without one there is no rotation.           *)
(***************************************************************************)
EXTENDS Naturals

CONSTANTS Handler,      \* concurrent heartbeat requests
          NoToken,      \* an absent key of the Secret
          MaxRotations, \* bound: rotations of a behaviour
          Patient       \* the operator lets the informer and the handlers
                        \* catch up before the next rotation

ASSUME NoTokenAssumption == NoToken \notin Nat
ASSUME MaxRotationsAssumption == MaxRotations \in Nat
ASSUME PatientAssumption == Patient \in BOOLEAN

VARIABLES secret,  \* API server: the Secret
          cache,   \* the informer's copy of it
          has,     \* the token in the flash of the device
          posts,   \* POST /token requests on their way to the device
          request  \* heartbeat requests: what each handler holds

vars == <<secret, cache, has, posts, request>>

Token == 0 .. MaxRotations

Secret == [token : Token, previous : Token \cup {NoToken}]

Post == [bearer : Token, new : Token]

\* A handler has nothing to do, a request to authenticate, or previousToken to
\* remove.
Request == [step : {"none", "sent", "clear"}, bearer : Token]

NoRequest == [step |-> "none", bearer |-> 0]

Rotating(s) == s.previous # NoToken

(***************************************************************************)
(* The operator                                                            *)
(***************************************************************************)
Settled == /\ cache = secret
           /\ \A h \in Handler : request[h].step # "clear"

\* One write of both keys, once the previous rotation shows as confirmed.
Rotate ==
    /\ secret.token < MaxRotations
    /\ ~Rotating(secret)
    /\ Patient => Settled
    /\ secret' = [token |-> secret.token + 1, previous |-> secret.token]
    /\ UNCHANGED <<cache, has, posts, request>>

(***************************************************************************)
(* reconcileTokenRotation                                                  *)
(***************************************************************************)
\* Mutated form: authenticates with the new token.
PostAsNew(s) == [bearer |-> s.token, new |-> s.token]

\* agent.New(ip, previous).RotateToken(newToken)
PostFor(s) == [bearer |-> s.previous, new |-> s.token]

ReconcileTokenRotation ==
    /\ Rotating(cache)
    /\ posts' = posts \cup {PostFor(cache)}
    /\ UNCHANGED <<secret, cache, has, request>>

(***************************************************************************)
(* The heartbeat server                                                    *)
(***************************************************************************)
\* Mutated form: previousToken is not looked at.
MatchCurrent(s, bearer) == IF bearer = s.token THEN "current" ELSE "none"

\* validateToken
Match(s, bearer) ==
    IF bearer = s.token THEN "current"
    ELSE IF Rotating(s) /\ bearer = s.previous THEN "previous" ELSE "none"

\* Mutated form: any accepted heartbeat ends the rotation.
ConfirmsAny(s, bearer) == Match(s, bearer) # "none" /\ Rotating(s)

\* The first heartbeat with the new token confirms the rotation.
Confirms(s, bearer) == Match(s, bearer) = "current" /\ Rotating(s)

HandlerValidates(h) ==
    /\ request[h].step = "sent"
    /\ request' = [request EXCEPT ![h] =
                     IF Confirms(cache, request[h].bearer)
                     THEN [step |-> "clear", bearer |-> request[h].bearer]
                     ELSE NoRequest]
    /\ UNCHANGED <<secret, cache, has, posts>>

\* Mutated form: the patch removes the other key.
TokenCleared(s) == [s EXCEPT !.token = NoToken]

\* The merge patch {data: {previousToken: null}}.
Cleared(s) == [s EXCEPT !.previous = NoToken]

ClearPreviousToken(h) ==
    /\ request[h].step = "clear"
    /\ secret' = Cleared(secret)
    /\ request' = [request EXCEPT ![h] = NoRequest]
    /\ UNCHANGED <<cache, has, posts>>

\* The request is lost before it is read, or the patch fails, which is logged.
HandlerFails(h) ==
    /\ request[h].step # "none"
    /\ request' = [request EXCEPT ![h] = NoRequest]
    /\ UNCHANGED <<secret, cache, has, posts>>

(***************************************************************************)
(* The device (external) and the environment                               *)
(***************************************************************************)
\* The device commits the token before it answers; another bearer is a 401.
PostArrives(p) ==
    /\ p \in posts
    /\ posts' = posts \ {p}
    /\ has' = IF p.bearer = has THEN p.new ELSE has
    /\ UNCHANGED <<secret, cache, request>>

PostLost(p) ==
    /\ p \in posts
    /\ posts' = posts \ {p}
    /\ UNCHANGED <<secret, cache, has, request>>

SendHeartbeat(h) ==
    /\ request[h].step = "none"
    /\ request' = [request EXCEPT ![h] = [step |-> "sent", bearer |-> has]]
    /\ UNCHANGED <<secret, cache, has, posts>>

SyncCache ==
    /\ cache # secret
    /\ cache' = secret
    /\ UNCHANGED <<secret, has, posts, request>>

\* The controller dies and starts again from a fresh list.
Crash ==
    /\ cache' = secret
    /\ request' = [h \in Handler |-> NoRequest]
    /\ UNCHANGED <<secret, has, posts>>

(***************************************************************************)
(* Specification                                                           *)
(***************************************************************************)
\* An enrolled device.
Init ==
    /\ secret = [token |-> 0, previous |-> NoToken]
    /\ cache = secret
    /\ has = 0
    /\ posts = {}
    /\ request = [h \in Handler |-> NoRequest]

HandlerActs(h) ==
    HandlerValidates(h) \/ ClearPreviousToken(h) \/ HandlerFails(h) \/ SendHeartbeat(h)

Next ==
    \/ Rotate
    \/ ReconcileTokenRotation
    \/ \E h \in Handler : HandlerActs(h)
    \/ \E p \in Post : PostArrives(p) \/ PostLost(p)
    \/ SyncCache \/ Crash

Spec == Init /\ [][Next]_vars

\* The reconciler runs every 10 s, the device sends a heartbeat every 5 s, and
\* a message that is sent for ever arrives; the controller stays up for a
\* request from time to time.  Nothing makes the operator rotate.
FairSpec ==
    /\ Spec
    /\ WF_vars(ReconcileTokenRotation)
    /\ WF_vars(SyncCache)
    /\ SF_vars(\E p \in Post : PostArrives(p))
    /\ WF_vars(\E h \in Handler : SendHeartbeat(h))
    /\ SF_vars(\E h \in Handler : HandlerValidates(h))
    /\ SF_vars(\E h \in Handler : ClearPreviousToken(h))

(***************************************************************************)
(* Properties                                                              *)
(***************************************************************************)
\* Every variable keeps its type: the Secret always holds a token.
TypeOK ==
    /\ secret \in Secret
    /\ cache \in Secret
    /\ has \in Token
    /\ posts \subseteq Post
    /\ request \in [Handler -> Request]

\* The Core always holds a token that the device accepts, whatever is lost,
\* late or stale: otherwise only the captive portal brings the device back
\* ("rotation sans coupure").  The operator is patient in the run.
NotLockedOut == has \in {secret.token, secret.previous}

\* What the device sends now would be accepted with the Secret of the cache,
\* which is behind the stored one by a rotation or a confirmation.
HeartbeatAccepted == Match(cache, has) # "none"

\* A rotation ends, whatever requests are lost or late: previousToken is removed.
RotationCompletes == Rotating(secret) ~> ~Rotating(secret)

\* previousToken is removed only when the device has the new token (comment of
\* clearPreviousToken: "une fois la rotation confirmee par un heartbeat
\* authentifie avec le nouveau token").
ClearedOnceConfirmed ==
    [][Rotating(secret) /\ ~Rotating(secret') => has = secret.token]_vars

(***************************************************************************)
(* With a patient operator the rotation implements Handover.               *)
(***************************************************************************)
H == INSTANCE Handover WITH
        issued <- secret.token, both <- Rotating(secret), held <- has

\* One token at a time is issued, adopted and retired, whatever is lost, late,
\* repeated or read from a copy that is behind.
ImplementsHandover == H!HandoverSpec
=============================================================================
