---------------------------- MODULE MCProjection ----------------------------
(***************************************************************************)
(* Model-checking instance of Projection.                                  *)
(***************************************************************************)
EXTENDS Projection

TwoEach == [d \in Device |-> 2]
=============================================================================
