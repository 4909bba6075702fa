-------------------------- MODULE MCHeightCalibration --------------------------
(* HeightCalibration with a wearer who sits, stands or holds the headset too *)
(* high for any plausible offset.                                            *)
EXTENDS HeightCalibration

SmallOffsets == -2 .. 2
=============================================================================
