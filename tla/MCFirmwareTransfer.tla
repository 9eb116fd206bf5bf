------------------------ MODULE MCFirmwareTransfer ------------------------
(***************************************************************************)
(* Instances of FirmwareTransfer for TLC.                                  *)
(***************************************************************************)
EXTENDS FirmwareTransfer

CONSTANTS w1, w2

OneWriter == {w1}
TwoWriters == {w1, w2}
=============================================================================
