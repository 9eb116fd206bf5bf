------------------------ MODULE TokenRotationProofs ------------------------
(***************************************************************************)
(* For any handlers and any number of rotations: types are kept, and with  *)
(* a patient operator the Core is never locked out of the device.          *)
(***************************************************************************)
EXTENDS TokenRotation, TLAPS

(***************************************************************************)
(* The inductive invariant.  NotLockedOut alone is not inductive: it takes *)
(* that a POST in flight comes from a Secret the informer has seen, that   *)
(* the informer is at most one write behind, and that whoever is about to  *)
(* remove previousToken has seen the token of the device.                  *)
(***************************************************************************)
PreviousIsLast == Rotating(secret) => secret.previous + 1 = secret.token

PostsSeen == \A p \in posts : p.new = p.bearer + 1 /\ p.new <= cache.token

OneWriteBehind ==
    \/ cache = secret
    \/ /\ Rotating(secret)
       /\ cache = [token |-> secret.previous, previous |-> NoToken]
    \/ /\ ~Rotating(secret)
       /\ cache.token = secret.token
       /\ Rotating(cache)
       /\ cache.previous + 1 = cache.token

DeviceSeen == has <= cache.token

BearersKnown ==
    \A h \in Handler :
        /\ request[h].bearer <= has
        /\ request[h].step = "clear" => has = secret.token /\ cache.token = secret.token

Inv == /\ TypeOK /\ NotLockedOut
       /\ PreviousIsLast /\ PostsSeen /\ OneWriteBehind /\ DeviceSeen /\ BearersKnown

\* Every variable keeps its type, in every step of Next.
LEMMA TypeStep == TypeOK /\ [Next]_vars => TypeOK'
<1> SUFFICES ASSUME TypeOK, [Next]_vars PROVE TypeOK'
  OBVIOUS
<1> USE NoTokenAssumption, MaxRotationsAssumption
<1>1. CASE Rotate
  BY <1>1 DEF Rotate, TypeOK, Secret, Token, Rotating
<1>2. CASE ReconcileTokenRotation
  BY <1>2 DEF ReconcileTokenRotation, PostFor, TypeOK, Secret, Token, Rotating, Post
<1>3. CASE \E h \in Handler : HandlerActs(h)
  <2>1. PICK h \in Handler : HandlerActs(h)
    BY <1>3
  <2>2. CASE HandlerValidates(h)
    BY <2>2 DEF HandlerValidates, TypeOK, Request, NoRequest, Token
  <2>3. CASE ClearPreviousToken(h)
    BY <2>3 DEF ClearPreviousToken, Cleared, TypeOK, Secret, Request, NoRequest, Token
  <2>4. CASE HandlerFails(h)
    BY <2>4 DEF HandlerFails, TypeOK, Request, NoRequest, Token
  <2>5. CASE SendHeartbeat(h)
    BY <2>5 DEF SendHeartbeat, TypeOK, Request
  <2>6. QED
    BY <2>1, <2>2, <2>3, <2>4, <2>5 DEF HandlerActs
<1>4. CASE \E p \in Post : PostArrives(p) \/ PostLost(p)
  BY <1>4 DEF PostArrives, PostLost, TypeOK, Post
<1>5. CASE SyncCache
  BY <1>5 DEF SyncCache, TypeOK
<1>6. CASE Crash
  BY <1>6 DEF Crash, TypeOK, Request, NoRequest, Token
<1>7. CASE UNCHANGED vars
  BY <1>7 DEF vars, TypeOK
<1>8. QED
  BY <1>1, <1>2, <1>3, <1>4, <1>5, <1>6, <1>7 DEF Next

\* The inductive invariant holds of an enrolled device.
LEMMA InitInv == Init => Inv
BY NoTokenAssumption, MaxRotationsAssumption
   DEF Init, Inv, TypeOK, NotLockedOut, PreviousIsLast, PostsSeen, OneWriteBehind,
       DeviceSeen, BearersKnown, Secret, Token, Post, Request, NoRequest, Rotating

\* A patient operator rotates when nobody is about to remove previousToken.
LEMMA RotateStep == ASSUME Patient, Inv, Rotate PROVE Inv'
<1> USE NoTokenAssumption, MaxRotationsAssumption
<1>1. TypeOK'
  BY TypeStep DEF Inv, Next
<1>2. cache = secret /\ secret.token \in Nat /\ secret.previous = NoToken /\ has = secret.token
  BY DEF Rotate, Settled, Rotating, Inv, TypeOK, Secret, Token, NotLockedOut
<1>3. NotLockedOut' /\ PreviousIsLast' /\ OneWriteBehind'
  BY <1>2 DEF Rotate, NotLockedOut, PreviousIsLast, OneWriteBehind, Rotating, Inv, TypeOK,
              Secret
<1>4. BearersKnown'
  BY DEF Rotate, Settled, Inv, BearersKnown
<1>5. PostsSeen' /\ DeviceSeen'
  BY DEF Rotate, Inv, PostsSeen, DeviceSeen
<1>6. QED
  BY <1>1, <1>3, <1>4, <1>5 DEF Inv

\* The reconciler posts what the informer has seen.
LEMMA ReconcileStep == ASSUME Inv, ReconcileTokenRotation PROVE Inv'
<1> USE NoTokenAssumption, MaxRotationsAssumption
<1>1. TypeOK'
  BY TypeStep DEF Inv, Next
<1>2. cache.previous + 1 = cache.token /\ cache.token \in Nat
  BY DEF ReconcileTokenRotation, Rotating, Inv, TypeOK, Secret, Token, OneWriteBehind,
         PreviousIsLast
<1>3. PostsSeen'
  BY <1>2 DEF ReconcileTokenRotation, PostFor, Inv, PostsSeen
<1>4. QED
  BY <1>1, <1>3 DEF ReconcileTokenRotation, Inv, NotLockedOut, PreviousIsLast,
                    OneWriteBehind, DeviceSeen, BearersKnown

\* Handlers remove previousToken only when the device has the new token.
LEMMA HandlerStep == ASSUME Inv, NEW h \in Handler, HandlerActs(h) PROVE Inv'
<1> USE NoTokenAssumption, MaxRotationsAssumption
<1>1. TypeOK'
  BY TypeStep DEF Inv, Next
<1>2. CASE HandlerValidates(h)
  <2>1. ASSUME Confirms(cache, request[h].bearer)
        PROVE  has = secret.token /\ cache.token = secret.token
    BY <2>1 DEF Confirms, Match, Rotating, Inv, TypeOK, Secret, Token, Request,
                NotLockedOut, OneWriteBehind, PreviousIsLast, BearersKnown
  <2>2. BearersKnown'
    BY <1>2, <2>1 DEF HandlerValidates, NoRequest, Inv, TypeOK, Request, Token, BearersKnown
  <2>3. QED
    BY <1>1, <1>2, <2>2 DEF HandlerValidates, Inv, NotLockedOut, PreviousIsLast, PostsSeen,
                            OneWriteBehind, DeviceSeen
<1>3. CASE ClearPreviousToken(h)
  <2>1. has = secret.token /\ cache.token = secret.token /\ secret.token \in Nat
    BY <1>3 DEF ClearPreviousToken, Inv, BearersKnown, TypeOK, Secret, Token
  <2>2. secret'.token = secret.token /\ secret'.previous = NoToken
    BY <1>3 DEF ClearPreviousToken, Cleared, Inv, TypeOK, Secret
  <2>3. OneWriteBehind'
    <3>1. CASE Rotating(secret)
      BY <1>3, <2>1, <2>2, <3>1 DEF ClearPreviousToken, OneWriteBehind, PreviousIsLast, Inv,
                                    Rotating
    <3>2. CASE ~Rotating(secret)
      BY <1>3, <3>2 DEF ClearPreviousToken, Cleared, OneWriteBehind, Inv, TypeOK, Secret,
                        Rotating
    <3>3. QED
      BY <3>1, <3>2
  <2>4. BearersKnown'
    BY <1>3, <2>1, <2>2 DEF ClearPreviousToken, NoRequest, Inv, TypeOK, Token, BearersKnown
  <2>5. QED
    BY <1>1, <1>3, <2>1, <2>2, <2>3, <2>4
       DEF ClearPreviousToken, Inv, NotLockedOut, PreviousIsLast, PostsSeen, DeviceSeen, Rotating
<1>4. CASE HandlerFails(h)
  BY <1>1, <1>4 DEF HandlerFails, NoRequest, Inv, TypeOK, Token, NotLockedOut, PreviousIsLast,
                    PostsSeen, OneWriteBehind, DeviceSeen, BearersKnown
<1>5. CASE SendHeartbeat(h)
  BY <1>1, <1>5 DEF SendHeartbeat, Inv, TypeOK, Request, Token, NotLockedOut, PreviousIsLast,
                    PostsSeen, OneWriteBehind, DeviceSeen, BearersKnown
<1>6. QED
  BY <1>2, <1>3, <1>4, <1>5 DEF HandlerActs

\* A POST that the device accepts is the one of the rotation in progress.
LEMMA PostStep == ASSUME Inv, NEW p \in Post, PostArrives(p) \/ PostLost(p) PROVE Inv'
<1> USE NoTokenAssumption, MaxRotationsAssumption
<1>1. TypeOK'
  BY TypeStep DEF Inv, Next
<1>2. CASE PostArrives(p) /\ p.bearer = has
  <2>1. /\ p.new = has + 1 /\ p.new <= cache.token /\ has' = p.new
        /\ has \in Nat /\ cache.token \in Nat /\ secret.token \in Nat
    BY <1>2 DEF PostArrives, Inv, PostsSeen, TypeOK, Secret, Token
  <2>2. cache.token <= secret.token
    BY DEF Inv, OneWriteBehind, PreviousIsLast, Rotating, TypeOK, Secret, Token
  <2>3. Rotating(secret) /\ has = secret.previous /\ p.new = secret.token
    BY <2>1, <2>2 DEF Inv, NotLockedOut, PreviousIsLast, Rotating, TypeOK, Secret, Token
  <2>4. BearersKnown'
    BY <1>2, <2>1, <2>2, <2>3 DEF PostArrives, Inv, BearersKnown, TypeOK, Request, Token
  <2>5. QED
    BY <1>1, <1>2, <2>1, <2>3, <2>4
       DEF PostArrives, Inv, NotLockedOut, PreviousIsLast, PostsSeen, OneWriteBehind, DeviceSeen
<1>3. CASE PostArrives(p) /\ p.bearer # has
  BY <1>1, <1>3 DEF PostArrives, Inv, NotLockedOut, PreviousIsLast, PostsSeen, OneWriteBehind,
                    DeviceSeen, BearersKnown
<1>4. CASE PostLost(p)
  BY <1>1, <1>4 DEF PostLost, Inv, NotLockedOut, PreviousIsLast, PostsSeen, OneWriteBehind,
                    DeviceSeen, BearersKnown
<1>5. QED
  BY <1>2, <1>3, <1>4

\* The informer only moves forward.
LEMMA InformerStep == ASSUME Inv, SyncCache \/ Crash PROVE Inv'
<1> USE NoTokenAssumption, MaxRotationsAssumption
<1>1. TypeOK'
  BY TypeStep DEF Inv, Next
<1>2. /\ cache' = secret /\ secret' = secret /\ has' = has /\ posts' = posts
      /\ cache.token <= secret.token
      /\ has \in Nat /\ cache.token \in Nat /\ secret.token \in Nat
  BY DEF SyncCache, Crash, Inv, OneWriteBehind, PreviousIsLast, Rotating, TypeOK, Secret, Token
<1>3. PostsSeen'
  BY <1>2 DEF Inv, PostsSeen, TypeOK, Post, Token
<1>4. BearersKnown'
  BY <1>2 DEF SyncCache, Crash, NoRequest, Inv, BearersKnown
<1>5. QED
  BY <1>1, <1>2, <1>3, <1>4
     DEF Inv, NotLockedOut, PreviousIsLast, OneWriteBehind, DeviceSeen

\* Inv is inductive when the operator is patient.
LEMMA InvStep == ASSUME Patient, Inv, [Next]_vars PROVE Inv'
<1>1. CASE UNCHANGED vars
  BY <1>1 DEF vars, Inv, TypeOK, NotLockedOut, PreviousIsLast, PostsSeen, OneWriteBehind,
              DeviceSeen, BearersKnown
<1>2. QED
  BY <1>1, RotateStep, ReconcileStep, HandlerStep, PostStep, InformerStep DEF Next

\* Types are kept, whoever the operator is: the Secret always holds a token.
THEOREM TypeCorrect == Spec => []TypeOK
<1>1. Init => TypeOK
  BY InitInv DEF Inv
<1>2. QED
  BY <1>1, TypeStep, PTL DEF Spec

\* The invariant of every behaviour of a patient operator.
LEMMA Invariant == ASSUME Patient PROVE Spec => []Inv
<1>1. Inv /\ [Next]_vars => Inv'
  BY InvStep
<1>2. QED
  BY <1>1, InitInv, PTL DEF Spec

\* With a patient operator the Core always holds a token that the device
\* accepts, whatever is lost, late or stale.
THEOREM NeverLockedOut == ASSUME Patient PROVE Spec => []NotLockedOut
<1>1. Inv => NotLockedOut
  BY DEF Inv
<1>2. QED
  BY <1>1, Invariant, PTL

\* With a patient operator no heartbeat of the device is refused because the
\* informer is behind.
THEOREM AlwaysAccepted == ASSUME Patient PROVE Spec => []HeartbeatAccepted
<1>1. Inv => HeartbeatAccepted
  BY NoTokenAssumption, MaxRotationsAssumption
     DEF Inv, TypeOK, Secret, Token, NotLockedOut, PreviousIsLast, OneWriteBehind, DeviceSeen,
         HeartbeatAccepted, Match, Rotating
<1>2. QED
  BY <1>1, Invariant, PTL

\* With a patient operator previousToken is removed only when the device has
\* the new token, which is what the comment of clearPreviousToken says.
THEOREM ClearedInTime == ASSUME Patient PROVE Spec => ClearedOnceConfirmed
<1>1. Inv /\ [Next]_vars => [Rotating(secret) /\ ~Rotating(secret') => has = secret.token]_vars
  <2> SUFFICES ASSUME Inv, [Next]_vars, Rotating(secret), ~Rotating(secret')
               PROVE  has = secret.token
    OBVIOUS
  <2>1. PICK h \in Handler : ClearPreviousToken(h)
    BY DEF Next, HandlerActs, Rotate, ReconcileTokenRotation, HandlerValidates, HandlerFails,
           SendHeartbeat, PostArrives, PostLost, SyncCache, Crash, vars, Rotating
  <2>2. QED
    BY <2>1 DEF ClearPreviousToken, Inv, BearersKnown
<1>2. QED
  BY <1>1, Invariant, PTL DEF Spec, ClearedOnceConfirmed

\* A POST that changes the token of the device is the adoption of the token of the
\* rotation in progress.
LEMMA AdoptsOnce ==
    ASSUME Inv, NEW p \in Post, PostArrives(p), has' # has
    PROVE  H!Adopt
<1> USE NoTokenAssumption, MaxRotationsAssumption
<1>1. /\ p \in posts /\ p.bearer = has /\ has' = p.new /\ UNCHANGED secret
  BY DEF PostArrives
<1>2. /\ p.new = has + 1 /\ p.new <= cache.token
      /\ has \in Nat /\ cache.token \in Nat /\ secret.token \in Nat
  BY <1>1 DEF Inv, PostsSeen, TypeOK, Secret, Token
<1>3. cache.token <= secret.token
  BY DEF Inv, OneWriteBehind, PreviousIsLast, Rotating, TypeOK, Secret, Token
<1>4. Rotating(secret) /\ has + 1 = secret.token
  BY <1>2, <1>3 DEF Inv, NotLockedOut, PreviousIsLast, Rotating, TypeOK, Secret, Token
<1> QED BY <1>1, <1>2, <1>4 DEF H!Adopt, Rotating

\* Every step of a rotation with a patient operator is a step of the handover, or none.
LEMMA HandoverMaps ==
    ASSUME Patient, Inv, [Next]_vars
    PROVE  [H!HandoverNext]_H!handoverVars
<1> USE NoTokenAssumption, MaxRotationsAssumption
<1>1. CASE Rotate
  <2>1. has = secret.token /\ ~Rotating(secret)
    BY <1>1 DEF Rotate, Inv, NotLockedOut, Rotating, TypeOK, Token
  <2>2. secret'.token = secret.token + 1 /\ secret'.previous = secret.token /\ UNCHANGED has
    BY <1>1 DEF Rotate
  <2>3. Rotating(secret)'
    BY <2>2 DEF Rotating, Inv, TypeOK, Secret, Token
  <2> QED BY <2>1, <2>2, <2>3 DEF H!Issue, H!HandoverNext, Rotating
<1>2. ASSUME NEW h \in Handler, ClearPreviousToken(h) PROVE [H!HandoverNext]_H!handoverVars
  <2>1. has = secret.token
    BY <1>2 DEF ClearPreviousToken, Inv, BearersKnown
  <2>2. secret'.token = secret.token /\ secret'.previous = NoToken /\ UNCHANGED has
    BY <1>2 DEF ClearPreviousToken, Cleared, Inv, TypeOK, Secret
  <2>3. CASE Rotating(secret)
    BY <2>1, <2>2, <2>3 DEF H!Retire, H!HandoverNext, Rotating
  <2>4. CASE ~Rotating(secret)
    BY <2>2, <2>4 DEF H!handoverVars, Rotating
  <2> QED BY <2>3, <2>4
<1>3. ASSUME NEW p \in Post, PostArrives(p) PROVE [H!HandoverNext]_H!handoverVars
  <2>1. CASE has' # has
    BY <1>3, <2>1, AdoptsOnce DEF H!HandoverNext
  <2>2. CASE has' = has
    BY <1>3, <2>2 DEF PostArrives, H!handoverVars, Rotating
  <2> QED BY <2>1, <2>2
<1>4. CASE UNCHANGED <<secret, has>>
  BY <1>4 DEF H!handoverVars, Rotating
<1> QED BY <1>1, <1>2, <1>3, <1>4
       DEF Next, HandlerActs, ReconcileTokenRotation, HandlerValidates, HandlerFails,
           SendHeartbeat, PostLost, SyncCache, Crash, vars

\* The Secret with its two keys, the retried POST and the heartbeat that confirms
\* make one handover, if the operator is patient: a token is issued only when the
\* device has the one before, adopted once, and the old one retired after that.
THEOREM RotationIsAHandover == ASSUME Patient PROVE Spec => ImplementsHandover
<1>1. Init => H!HandoverInit
  BY DEF Init, H!HandoverInit, Rotating
<1>2. Inv /\ [Next]_vars => [H!HandoverNext]_H!handoverVars
  BY HandoverMaps
<1> QED BY <1>1, <1>2, Invariant, PTL DEF Spec, ImplementsHandover, H!HandoverSpec
=============================================================================
