----------------------------- MODULE MCSessions -----------------------------
(* Instances of Sessions for TLC. *)
EXTENDS Sessions

CONSTANTS a1, w1, n1
=============================================================================
