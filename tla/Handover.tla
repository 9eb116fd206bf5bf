------------------------------ MODULE Handover ------------------------------
(***************************************************************************)
(* What a token rotation promises, without Secrets, caches, requests or    *)
(* retries: a handover in three steps that follow one another.  The Core   *)
(* issues a token and accepts the two of them, the device adopts the new   *)
(* one, the Core retires the old one.                                      *)
(***************************************************************************)
EXTENDS Naturals

VARIABLES issued, \* the number of the last token
          both,   \* the token before it is accepted too
          held    \* the token of the device

handoverVars == <<issued, both, held>>

HandoverInit == issued = 0 /\ both = FALSE /\ held = 0

Issue ==
    /\ ~both /\ held = issued
    /\ issued' = issued + 1 /\ both' = TRUE
    /\ UNCHANGED held

Adopt ==
    /\ both /\ held + 1 = issued
    /\ held' = issued
    /\ UNCHANGED <<issued, both>>

Retire ==
    /\ both /\ held = issued
    /\ both' = FALSE
    /\ UNCHANGED <<issued, held>>

HandoverNext == Issue \/ Adopt \/ Retire

HandoverSpec == HandoverInit /\ [][HandoverNext]_handoverVars
=============================================================================
