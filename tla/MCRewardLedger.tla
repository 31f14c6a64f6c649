--------------------------- MODULE MCRewardLedger ---------------------------
(* Instances of RewardLedger for TLC: three blocks of one wallet, of which   *)
(* a1 merges two as blue and a2 one as red; p1 is a share of a pool that     *)
(* was recorded but never submitted.                                         *)
EXTENDS RewardLedger

CONSTANTS b1, b2, b3, p1, a1, a2, a3, w1, w2

MCPayee == [b \in Blocks |-> IF b = p1 THEN w2 ELSE w1]
MCBlues == [a \in Accepting |-> CASE a = a1 -> {b1, b2} \cap Known
                                  [] a = a2 -> {}
                                  [] a = a3 -> {b2, b3} \cap Known]
MCReds == [a \in Accepting |-> IF a = a2 THEN {b3} \cap Known ELSE {}]
MCPaid == [a \in Accepting |-> [w \in Wallets |-> IF w = w1 /\ a # a2 THEN 5 ELSE 0]]

(* One chain that grows, and a competing one that merges b2 elsewhere. *)
MCChain == {<<>>, <<a2>>, <<a2, a1>>}
MCForks == MCChain \union {<<a3>>}
=============================================================================
