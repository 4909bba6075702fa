---------------------------- MODULE MCPoseUpdate ----------------------------
(* Small instances of PoseUpdate: the device is at place 0, facing ahead.  *)
EXTENDS PoseUpdate

MCTruth == [turn |-> 0, place |-> 0]

\* Without a camera the place gets lost before the turn.
MCDoubts == {{}, {"place"}, {"turn", "place"}}
=============================================================================
