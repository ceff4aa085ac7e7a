-------------------------- MODULE MCDebugFirmware ---------------------------
(* DebugFirmware with two bus values and a short serial buffer.             *)
EXTENDS DebugFirmware
CONSTANTS b1, b2
TwoBuses == {b1, b2}
=============================================================================
