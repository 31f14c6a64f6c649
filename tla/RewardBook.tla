----------------------------- MODULE RewardBook -----------------------------
(***************************************************************************)
(* What the block_rewards table promises those who read it (the web pages   *)
(* and the rewards API): a block is recorded as pending, may be linked to   *)
(* the chain block that pays for it, and is settled once.  RewardLedger is  *)
(* shown to implement it; the goroutines, the node's chain and the restarts *)
(* are hidden.                                                              *)
(***************************************************************************)
EXTENDS Naturals

CONSTANTS Blocks, Payee, Accepting, NoHash, Blues, Paid

VARIABLE table

Absent == [status |-> "absent", reward |-> 0, accepting |-> NoHash]

Recorded == [status |-> "pending", reward |-> 0, accepting |-> NoHash]

Init == table = [b \in Blocks |-> Absent]

Record(b) ==
    /\ table[b] = Absent
    /\ table' = [table EXCEPT ![b] = Recorded]

(* The payment of a chain block is claimed by one row of the wallet. *)
Link(b, a) ==
    /\ table[b] = Recorded
    /\ b \in Blues[a] /\ Paid[a][Payee[b]] > 0
    /\ \A c \in Blocks \ {b} : Payee[c] = Payee[b] => table[c].accepting # a
    /\ table' = [table EXCEPT ![b] = [Recorded EXCEPT !.accepting = a]]

(* Another row of the wallet has claimed a payment that b is part of. *)
Claimed(b) ==
    \E c \in Blocks \ {b}, a \in Accepting :
        Payee[c] = Payee[b] /\ {b, c} \subseteq Blues[a] /\ table[c].accepting = a

Settled(b, status, reward) ==
    table' = [table EXCEPT ![b] = [status |-> status, reward |-> reward,
                                   accepting |-> table[b].accepting]]

(* A linked row gets the payment it is linked to.  Any other one is red,     *)
(* gets the payment of a chain block that merged it, or leaves it to the row *)
(* that claimed it.                                                          *)
Settle(b) ==
    /\ table[b].status = "pending"
    /\ \/ table[b].accepting = NoHash /\ Settled(b, "red", 0)
       \/ \E a \in Accepting :
            /\ b \in Blues[a] /\ table[b].accepting \in {NoHash, a}
            /\ Settled(b, "blue", Paid[a][Payee[b]])
       \/ table[b].accepting = NoHash /\ Claimed(b) /\ Settled(b, "merge_duplicate", 0)

Next == \E b \in Blocks :
            Record(b) \/ (\E a \in Accepting : Link(b, a)) \/ Settle(b)

Safety == Init /\ [][Next]_table

(* A recorded block is settled in the end. *)
Spec == Safety /\ \A b \in Blocks : WF_table(Settle(b))
=============================================================================
