----------------------------- MODULE MCHidReader -----------------------------
(* HidReader with a queue of two reports: its constants are small. *)
EXTENDS HidReader
=============================================================================
