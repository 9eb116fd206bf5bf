--------------------------- MODULE MCNodeMetrics ---------------------------
(***************************************************************************)
(* Instance of NodeMetrics for TLC.                                        *)
(***************************************************************************)
EXTENDS NodeMetrics

CONSTANTS h1, h2, w1, w2, c1
=============================================================================
