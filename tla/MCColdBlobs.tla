---------------------------- MODULE MCColdBlobs ----------------------------
(* A small and a large blob. *)
EXTENDS ColdBlobs, TLC
=============================================================================
