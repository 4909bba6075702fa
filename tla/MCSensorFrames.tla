--------------------------- MODULE MCSensorFrames ---------------------------
(* SensorFrames on its real sizes and on smaller ones. *)
EXTENDS SensorFrames, TLC

\* Buffers and observations are interchangeable.
Symmetry == Permutations(Buffers) \cup Permutations(Obs)
=============================================================================
