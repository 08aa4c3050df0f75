---------------------------- MODULE MCHeartSync ----------------------------
(***************************************************************************)
(* Model-checking instances of HeartSync: how many device sequence numbers *)
(* each replica may reserve (a commit and a redaction take one each), which*)
(* replicas exchange deltas, and the symmetry of threads.                  *)
(***************************************************************************)
EXTENDS HeartSync, TLC

TwoAndOne == [r \in Replica |-> IF r = 1 THEN 2 ELSE 1]
OneAndNone == [r \in Replica |-> IF r = 1 THEN 1 ELSE 0]
TwoAndNone == [r \in Replica |-> IF r = 1 THEN 2 ELSE 0]

BothWays == {<<1, 2>>, <<2, 1>>}
OneWay == {<<1, 2>>}
OtherWay == {<<2, 1>>}
Chain == {<<1, 2>>, <<2, 3>>}

\* Threads of a process are interchangeable.
ThreadSymmetry == Permutations(Thread)
=============================================================================
