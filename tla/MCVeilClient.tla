---------------------------- MODULE MCVeilClient ----------------------------
(* Small instances of VeilClient: their sets and bounds are in the cfg files. *)
EXTENDS VeilClient
=============================================================================
