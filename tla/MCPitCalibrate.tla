---------------------------- MODULE MCPitCalibrate ----------------------------
(***************************************************************************)
(* Instances of PitCalibrate: a PIT whose upper byte has six values and    *)
(* changes every eight ticks.                                              *)
(***************************************************************************)
EXTENDS PitCalibrate
=============================================================================
