---------------------------- MODULE MinerRewards ----------------------------
(***************************************************************************)
(* GET /miner/rewards (miner_rewards.go): the chain blocks since the        *)
(* caller's cursor, and for each that pays the caller the blocks it was     *)
(* paid for, with their share of the payment.                               *)
(*                                                                          *)
(* A client polls, with the newest paying block it was told of as its       *)
(* cursor, while the node's chain grows and is reorganised.  Blocks are     *)
(* numbered in the order they appear; their order as hashes is that of      *)
(* their numbers; 0 is no block.  A block has one parent, so that is its    *)
(* merge set.  A poll the node refuses altogether changes nothing.          *)
(***************************************************************************)
EXTENDS Naturals, Sequences, FiniteSets, SequencesExt

CONSTANTS
    MaxBlocks, \* bound on the blocks of the node
    Limits,    \* the limits of a poll: 400 unless the caller asks for less or more
    MaxFailing, \* bound on the blocks the node or the database fails on in a poll
    Rigs,      \* names of workers
    NoRig,     \* no worker filter; not in the database
    Atoms      \* bound on the payments checked

ASSUME RewardsAssumption ==
    /\ MaxBlocks \in Nat \ {0} /\ Limits \subseteq Nat \ {0} /\ MaxFailing \in Nat
    /\ NoRig \notin Rigs /\ Atoms \in Nat

VARIABLES
    chain,   \* the selected parent chain of each block, newest first; external
    virtual, \* the virtual's selected parent; external
    db,      \* the worker of each block in block_rewards, NoRig if it is not there
    cursor,  \* the client's startHash, 0 if it has none
    told,    \* history: the paying blocks the client was told of
    missed,  \* history: those it asked for and was not told of, because they lie beyond
             \* its limit or the node or the database failed on one
    fresh    \* history: the last poll covered the selected chain, which has not grown

rewardVars == <<chain, virtual, db, cursor, told, missed, fresh>>

Blocks == DOMAIN chain

(* The blocks of the chain of b, itself included; none for no block *)
Chain(b) == IF b = 0 THEN {} ELSE ToSet(chain[b])

Tips == {b \in Blocks : \A c \in Blocks : b \in Chain(c) => b = c}

(* The chain from b down to the first block of stop, that one excluded. *)
Above(b, stop) ==
    LET ends == {i \in DOMAIN chain[b] : chain[b][i] \in stop}
    IN  IF ends = {} THEN chain[b] ELSE SubSeq(chain[b], 1, Min(ends) - 1)

(* AddedChainBlockHashes of GetVirtualSelectedParentChainFromBlock, oldest    *)
(* first; external.                                                           *)
AddedChainBlockHashes(start) == Reverse(Above(virtual, Chain(start)))

(* The walk from TipHashes[0] along the selected parents, until the limit, a  *)
(* block to stop at or the first block: fetchRecentChainBlocks, and the       *)
(* fallback of fetchAddedChainBlocksFrom.                                     *)
Walk(tip, stop, limit) ==
    LET hashes == Above(tip, stop)
    IN  IF Len(hashes) > limit THEN SubSeq(hashes, 1, limit) ELSE hashes

(* Mutant of Capped: the first ones. *)
CappedMutant(hashes, limit) ==
    IF Len(hashes) > limit THEN SubSeq(hashes, 1, limit) ELSE hashes

(* The most recent `limit` hashes *)
Capped(hashes, limit) ==
    IF Len(hashes) > limit THEN SubSeq(hashes, Len(hashes) - limit + 1, Len(hashes)) ELSE hashes

(* Mutant of FetchAdded: the loop over the node's list ends before index 0. *)
FetchAddedMutant(vspc, tip, start, limit, lost) ==
    LET added == IF vspc /\ start # 0 THEN AddedChainBlockHashes(start) ELSE <<>>
    IN  IF added # <<>> THEN Reverse(Tail(Capped(added, limit)))
        ELSE Walk(tip, {start} \union lost, limit)

(* The hashes fetchAddedChainBlocksFrom, or without a cursor                  *)
(* fetchRecentChainBlocks, gets blocks for.  vspc: the node answers the query *)
(* for the chain.  lost: the blocks it fails to give, which end the walk; of  *)
(* the node's own list they are skipped one by one, in Poll.                  *)
FetchAdded(vspc, tip, start, limit, lost) ==
    LET added == IF vspc /\ start # 0 THEN AddedChainBlockHashes(start) ELSE <<>>
    IN  IF added # <<>> THEN Reverse(Capped(added, limit))
        ELSE Walk(tip, {start} \union lost, limit)

(* findMinedBluesFromMergeSet with a database: the blocks it knows, without   *)
(* those the query fails for.                                                 *)
FindMinedBlues(hashes, errs) == {h \in ToSet(hashes) \ errs : db[h] # NoRig}

(* Mutant of FirstRow: in the node's order. *)
FirstRowMutant(hashes, included) ==
    hashes[Min({i \in DOMAIN hashes : hashes[i] \in included})]

(* The mined blues are sorted by hash, so the first row is that of the least  *)
(* hash.                                                                      *)
FirstRow(hashes, included) == Min(included)

(* processPayingBlock: one row per mined blue of the worker asked for, equal  *)
(* portions, the remainder to the first row; none for a block off the chain.  *)
ProcessPayingBlock(b, amount, hashes, want, errs) ==
    LET mined == IF b \in Chain(virtual) /\ amount # 0 THEN FindMinedBlues(hashes, errs) ELSE {}
        included == {h \in mined : want \in {NoRig, db[h]}}
        portion == amount \div Cardinality(mined)
        remainder == amount % Cardinality(mined)
    IN  [h \in included |->
            portion + (IF h = FirstRow(hashes, included) THEN remainder ELSE 0)]

(* MergeSetBluesHashes of b; external. *)
MergeSet(b) == IF Len(chain[b]) > 1 THEN <<chain[b][2]>> ELSE <<>>

(* The coinbase of b pays for a block of ours. *)
Pays(b) == \E h \in ToSet(MergeSet(b)) : db[h] # NoRig

Failing == {f \in SUBSET Blocks : Cardinality(f) <= MaxFailing}

-----------------------------------------------------------------------------
RewardsInit ==
    /\ chain = <<<<1>>>> /\ virtual = 1
    /\ \E rig \in Rigs \union {NoRig} : db = <<rig>>
    /\ cursor = 0 /\ told = {} /\ missed = {} /\ fresh = FALSE

(* A block on top of p, ours or not; the virtual follows it or not. *)
AddBlock(p, rig) ==
    /\ Len(chain) < MaxBlocks
    /\ chain' = Append(chain, <<Len(chain) + 1>> \o chain[p])
    /\ db' = Append(db, rig)
    /\ virtual' \in {virtual, Len(chain) + 1} \ {p}
    /\ fresh' = FALSE
    /\ UNCHANGED <<cursor, told, missed>>

(* The handler answers with the rows of the blocks it got; the client keeps   *)
(* the newest paidByBlockHash, on one chain that of the greatest number.      *)
Poll(vspc, tip, limit, lost, errs) ==
    LET got == ToSet(FetchAdded(vspc, tip, cursor, limit, lost)) \ lost
        paying == {b \in got : DOMAIN ProcessPayingBlock(b, 1, MergeSet(b), NoRig, errs) # {}}
        asked == ToSet(FetchAdded(vspc, tip, cursor, MaxBlocks, {}))
    IN
    /\ told' = told \union paying
    /\ missed' = (missed \union {b \in asked \intersect Chain(virtual) : Pays(b)}) \ told'
    /\ cursor' = IF paying = {} THEN cursor ELSE Max(paying)
    /\ fresh' = (tip = virtual \/ (vspc /\ cursor # 0 /\ virtual \notin Chain(cursor)))
    /\ UNCHANGED <<chain, virtual, db>>

RewardsNext ==
    \/ \E p \in Blocks, rig \in Rigs \union {NoRig} : AddBlock(p, rig)
    \/ \E vspc \in BOOLEAN, tip \in Tips, limit \in Limits, lost, errs \in Failing :
         lost \union errs \in Failing /\ Poll(vspc, tip, limit, lost, errs)

RewardsSpec == RewardsInit /\ [][RewardsNext]_rewardVars

-----------------------------------------------------------------------------
(* Properties                                                               *)

(* Of the chain blocks that pay it the client has been told, by the last      *)
(* answer or an earlier one, but for those that answers left out by their     *)
(* limit or by a fault: none is passed over by a reorganisation, by polls     *)
(* sent to a side chain because the first of several tips was not the         *)
(* selected one, or by a cursor that has left the chain.  It needs a poll     *)
(* since the chain grew, to a first tip that is the selected one or with an   *)
(* answer to the query for the chain that has news in it.                     *)
PollCatchesUp == fresh => \A b \in Chain(virtual) : Pays(b) => b \in told \union missed

(* With the cursor on the chain and no fault, the query for the chain and a   *)
(* walk from the virtual's selected parent get the same blocks for the same   *)
(* limit, also when the limit cuts them short.  (The code walks from          *)
(* TipHashes[0], which may be another tip: see PollCatchesUp.)                *)
WaysAgree ==
    cursor \in Chain(virtual) =>
        \A limit \in Blocks : FetchAdded(TRUE, virtual, cursor, limit, {})
                                = FetchAdded(FALSE, virtual, cursor, limit, {})

Orders == {s \in [Blocks -> Blocks] : ToSet(s) = Blocks}

(* The rows of a paying block add up to its payment, to the atom, unless      *)
(* none of its blues is known or the database fails for all that are; the     *)
(* rows of one worker never to more; and in whichever order the node lists    *)
(* the merge set, a caller is given the same rows.                            *)
SplitExact ==
    LET InOrder == [h \in Blocks |-> h] IN
    /\ \A amount \in 0..Atoms, want \in Rigs \union {NoRig}, errs \in Failing :
          LET sum == SumFunction(ProcessPayingBlock(virtual, amount, InOrder, want, errs)) IN
          /\ sum <= amount
          /\ want = NoRig /\ (\E h \in Blocks \ errs : db[h] # NoRig) => sum = amount
    /\ \A order \in Orders, want \in Rigs \union {NoRig}, errs \in Failing :
          ProcessPayingBlock(virtual, Atoms, order, want, errs)
            = ProcessPayingBlock(virtual, Atoms, InOrder, want, errs)

=============================================================================
