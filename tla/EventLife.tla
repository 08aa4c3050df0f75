----------------------------- MODULE EventLife -----------------------------
(***************************************************************************)
(* What the store of a heart promises about one event at one place         *)
(* (spine-heart: put_event, put_tombstone, crypto_shred).  An event is     *)
(* learnt at most once, it leaves only through a redaction, and a redacted *)
(* event never comes back, however often deltas offer it again:            *)
(*                                                                         *)
(*     unknown ----> readable ----> condemned ----> forgotten              *)
(*        |                                            ^                   *)
(*        +--------------------------------------------+                   *)
(*                                                                         *)
(* "condemned" is the window between the two transactions of put_tombstone.*)
(***************************************************************************)
CONSTANTS Place, Item

VARIABLE status   \* place -> item -> its stage of life there

Stage == {"unknown", "readable", "condemned", "forgotten"}

Become(p, i, from, to) ==
  /\ status[p][i] = from /\ status'[p][i] = to
  /\ status' = [status EXCEPT ![p][i] = to]

Learn(p, i) == Become(p, i, "unknown", "readable")
Condemn(p, i) == Become(p, i, "readable", "condemned")
Forget(p, i) == Become(p, i, "condemned", "forgotten")
\* A tombstone that arrives before the event it is about.
Preclude(p, i) == Become(p, i, "unknown", "forgotten")

Init == status = [p \in Place |-> [i \in Item |-> "unknown"]]

Next == \E p \in Place, i \in Item :
          Learn(p, i) \/ Condemn(p, i) \/ Forget(p, i) \/ Preclude(p, i)

Spec == Init /\ [][Next]_status
=============================================================================
