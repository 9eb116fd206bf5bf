-------------------------- MODULE MCTokenRotation --------------------------
(***************************************************************************)
(* Instances of TokenRotation for TLC.                                     *)
(***************************************************************************)
EXTENDS TokenRotation

CONSTANTS h1, h2

TwoHandlers == {h1, h2}
=============================================================================
