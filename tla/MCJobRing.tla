------------------------------ MODULE MCJobRing ------------------------------
(* Instances of JobRing for TLC: three templates, two of which share a hash  *)
(* (the same template handed out twice), and one without VerboseData.        *)
EXTENDS JobRing

CONSTANTS j1, j2, j3, h1

MCHashOf == [j \in Job |-> IF j = j3 THEN NoHash ELSE h1]
=============================================================================
