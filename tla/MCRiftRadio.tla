---------------------------- MODULE MCRiftRadio ----------------------------
(* RiftRadio as it is: its constants are numbers. *)
EXTENDS RiftRadio
=============================================================================
