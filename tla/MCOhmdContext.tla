---------------------------- MODULE MCOhmdContext ----------------------------
(* OhmdContext with a Rift: the HMD (0) and its two controllers (1, 2). *)
EXTENDS OhmdContext

OneHeadset == [d \in {0, 1, 2} |-> 0]
=============================================================================
