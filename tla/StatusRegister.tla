--------------------------- MODULE StatusRegister ---------------------------
(***************************************************************************)
(* What the two writers of a McuNode promise together, without copies,     *)
(* versions, patches or retries: the status is one register, every write   *)
(* is one step that starts from what is in it, and a heartbeat is stored   *)
(* at most once.                                                           *)
(***************************************************************************)
EXTENDS Naturals

VARIABLES mode,     \* "unheard", "live", "ready" or "silent"
          heard,    \* the number of the heartbeat that is stored
          fit,      \* the status shows a validated image that runs
          pending,  \* heartbeats that arrived and are not stored
          arrived,  \* how many arrived so far
          horizon   \* the last of them that is too old

registerVars == <<mode, heard, fit, pending, arrived, horizon>>

Heartbeat(number, ok, synced) == [number |-> number, fit |-> ok, synced |-> synced]

RegisterInit ==
    /\ mode = "unheard" /\ heard = 0 /\ fit = FALSE
    /\ pending = {} /\ arrived = 0 /\ horizon = 0

Arrive(ok, synced) ==
    /\ arrived' = arrived + 1
    /\ pending' = pending \cup {Heartbeat(arrived + 1, ok, synced)}
    /\ UNCHANGED <<mode, heard, fit, horizon>>

\* A heartbeat is stored, in any order; it is Ready on the word of the device
\* when the clock of the device is set.
Hear(p) ==
    /\ p \in pending
    /\ mode' = IF p.fit /\ p.synced THEN "ready" ELSE "live"
    /\ heard' = p.number /\ fit' = p.fit
    /\ pending' = pending \ {p}
    /\ UNCHANGED <<arrived, horizon>>

\* Requests are given up: too many conflicts, or a crash.
GiveUp(lost) ==
    /\ pending' = pending \ lost
    /\ UNCHANGED <<mode, heard, fit, arrived, horizon>>

\* The reconciler derives Ready from what the status shows.
Promote ==
    /\ mode = "live" /\ fit
    /\ mode' = "ready"
    /\ UNCHANGED <<heard, fit, pending, arrived, horizon>>

\* The heartbeat that is stored is too old.
Lapse ==
    /\ mode \in {"live", "ready"} /\ heard <= horizon
    /\ mode' = "silent" /\ fit' = FALSE
    /\ UNCHANGED <<heard, pending, arrived, horizon>>

Tick ==
    /\ horizon < arrived
    /\ horizon' = horizon + 1
    /\ UNCHANGED <<mode, heard, fit, pending, arrived>>

RegisterNext ==
    \/ \E ok, synced \in BOOLEAN : Arrive(ok, synced)
    \/ \E p \in pending : Hear(p)
    \/ \E lost \in SUBSET pending : GiveUp(lost)
    \/ Promote \/ Lapse \/ Tick

RegisterSpec == RegisterInit /\ [][RegisterNext]_registerVars
=============================================================================
