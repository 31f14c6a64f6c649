----------------------------- MODULE MCVarDiff -----------------------------
(* Instances of VarDiff for TLC, with the windows and tolerances of           *)
(* startVardiffThread.                                                        *)
EXTENDS VarDiff

MCwindows == <<1, 3, 10, 30, 60, 240, 0>>
MCtolerances == <<100, 50, 25, 15, 10, 5, 5>>
=============================================================================
