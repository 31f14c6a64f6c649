----------------------------- MODULE MCGbtCache -----------------------------
(* Instances of GbtCache for TLC. *)
EXTENDS GbtCache

CONSTANTS w1, w2, Bridge
=============================================================================
