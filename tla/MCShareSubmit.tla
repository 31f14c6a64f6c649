--------------------------- MODULE MCShareSubmit ---------------------------
(* Instances of ShareSubmit for TLC.  The templates' blue scores are up to   *)
(* four apart, more than the window; n1 meets the network target, except on  *)
(* j3.                                                                       *)
EXTENDS ShareSubmit

CONSTANTS j1, j2, j3, n1, n2

MCHashOf == [j \in Job |-> NoHash]
MCHits == [j \in Job |-> IF j = j3 THEN {} ELSE {n1}]
MCScore == [j \in Job |-> CASE j = j1 -> 1 [] j = j2 -> 2 [] j = j3 -> 5]
=============================================================================
