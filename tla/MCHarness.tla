------------------------------ MODULE MCHarness ------------------------------
(* Small instances of the agent loop. *)
EXTENDS Harness
=============================================================================
