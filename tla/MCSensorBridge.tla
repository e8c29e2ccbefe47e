--------------------------- MODULE MCSensorBridge ---------------------------
(***************************************************************************)
(* Instances of SensorBridge for TLC.  Source 1 is the sensor; sub id 9    *)
(* names no configured device and 0 stands for a message that does not     *)
(* parse.                                                                  *)
(***************************************************************************)
EXTENDS SensorBridge

MCStrangers == {1, 9, 0}
=============================================================================
