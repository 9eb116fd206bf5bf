---------------------------- MODULE MCNodeStatus ----------------------------
(***************************************************************************)
(* Instances of NodeStatus for TLC.                                        *)
(***************************************************************************)
EXTENDS NodeStatus

CONSTANTS h1, h2

Says(state, validated, unsynced) ==
    [state |-> state, validated |-> validated, unsynced |-> unsynced]

\* A boot with its self-check, an image that runs validated, a degraded device.
SyncedReports == {Says("pending_verify", FALSE, FALSE), Says("running", TRUE, FALSE),
                  Says("degraded", TRUE, FALSE)}

\* The same, a device whose clock is not set, one that calls itself offline, and
\* one whose state is not in the enumeration.
AllReports == SyncedReports \cup {Says("running", TRUE, TRUE), Says("offline", TRUE, FALSE),
                                 Says("unknown", TRUE, FALSE)}
=============================================================================
