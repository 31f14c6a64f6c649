---------------------------- MODULE RewardLedger ----------------------------
(***************************************************************************)
(* The mined-block ledger of the bridge: the block_rewards table of         *)
(* mining.db (src/htnstratum/db.go), the goroutines that look for the       *)
(* reward of each recorded block (fetchAndUpdateReward in                   *)
(* share_handler.go), and the recovery of pending rows at start-up          *)
(* (ListenAndServe in stratum_server.go).                                   *)
(*                                                                          *)
(* In GHOSTDAG a mined block is not paid by itself but by the chain block   *)
(* that merges it as blue.  Several blocks of one wallet may be merged by   *)
(* the same chain block, which pays them together; the ledger must book     *)
(* that payment once.  The steps a goroutine takes between two database     *)
(* calls are separate actions, because the database mutex is held for one   *)
(* statement at a time.                                                     *)
(*                                                                          *)
(* Times (30 s before the first attempt, 60 s between attempts) are left    *)
(* out: an attempt may start at any moment.                                 *)
(***************************************************************************)
EXTENDS Naturals, Sequences, FiniteSets

CONSTANTS
    Blocks,      \* hashes the bridge may record
    Known,       \* those of them that were accepted by the node; the others
                 \* are shares of a pool, recorded but never submitted
    Wallets,
    Payee,       \* the wallet named in the coinbase payload of each block
    Accepting,   \* hashes of chain blocks
    NoHash,      \* the empty accepting_block_hash
    Blues, Reds, \* merge sets of each chain block
    Paid,        \* what its coinbase pays to each wallet (coinbaseSumToAddress)
    Forks,       \* the selected parent chains the node may report
    Workers,     \* names for the goroutines running fetchAndUpdateReward
    MaxAttempts, \* maxAttempts
    MaxCrashes,  \* bound on the restarts explored
    WebUI,       \* web_port and stratum_port are configured
    NodeErrors,  \* calls to the node may fail
    DbErrors,    \* calls to the database may fail (other than by the index)
    MayReorg     \* the selected parent chain may be reorganised

ASSUME LedgerAssumption ==
    /\ Known \subseteq Blocks
    /\ Payee \in [Blocks -> Wallets]
    /\ NoHash \notin Accepting \union Blocks
    /\ Blues \in [Accepting -> SUBSET Known]
    /\ Reds \in [Accepting -> SUBSET Known]
    /\ Paid \in [Accepting -> [Wallets -> Nat]]
    /\ Forks \subseteq Seq(Accepting)
    /\ <<>> \in Forks
    /\ MaxAttempts \in Nat \ {0}
    /\ MaxCrashes \in Nat
    /\ WebUI \in BOOLEAN
    /\ NodeErrors \in BOOLEAN
    /\ DbErrors \in BOOLEAN
    /\ MayReorg \in BOOLEAN

(* A block is merged, as blue or as red, at most once along a chain.        *)
ASSUME MergedOnce ==
    \A c \in Forks : \A i, j \in 1..Len(c) : \A b \in Blocks :
        /\ b \in Blues[c[i]] \union Reds[c[i]]
        /\ b \in Blues[c[j]] \union Reds[c[j]]
        => i = j

ASSUME BlueOrRed == \A a \in Accepting : Blues[a] \cap Reds[a] = {}

VARIABLES
    rows,      \* the block_rewards table, one row per block hash
    work,      \* the goroutines
    chain,     \* the node's virtual selected parent chain
    toRecover, \* pending rows the start-up loop has not reached yet
    crashes    \* restarts so far

vars == <<rows, work, chain, toRecover, crashes>>

-----------------------------------------------------------------------------
(* State                                                                    *)

Status == {"absent", "pending", "blue", "red", "merge_duplicate"}

Row == [status : Status, reward : Nat, accepting : Accepting \union {NoHash}]

NoRow == [status |-> "absent", reward |-> 0, accepting |-> NoHash]

NewRow == [status |-> "pending", reward |-> 0, accepting |-> NoHash]

Worker == [pc      : {"idle", "attempt", "walk", "book", "final"},
           blk     : Blocks \union {NoHash},
           attempt : Nat,
           seen    : Seq(Accepting),
           pos     : Nat \ {0},
           status  : Status,
           reward  : Nat]

(* The locals of a goroutine that fetchAndUpdateReward(b) has just started. *)
Fresh(b) == [pc |-> "attempt", blk |-> b, attempt |-> 0, seen |-> <<>>,
             pos |-> 1, status |-> "red", reward |-> 0]

Idle == [pc |-> "idle", blk |-> NoHash, attempt |-> 0, seen |-> <<>>,
         pos |-> 1, status |-> "red", reward |-> 0]

Settled(b) == rows[b].status \in {"blue", "red", "merge_duplicate"}

Pending(b) == rows[b].status = "pending"

-----------------------------------------------------------------------------
(* db.go                                                                    *)

(* Mutant of PendingRows: the start-up query without its WHERE clause. *)
PendingRowsMutant == {b \in Blocks : rows[b].status # "absent"}

(* SELECT ... FROM block_rewards WHERE status == 'pending', when the web UI *)
(* is on; nothing is recovered without it.                                  *)
PendingRows == IF WebUI THEN {b \in Blocks : Pending(b)} ELSE {}

(* Mutant of AlreadyBooked: the query without block_hash != ?. *)
AlreadyBookedMutant(b, a) ==
    \E c \in Blocks : Payee[c] = Payee[b] /\ rows[c].accepting = a

(* HasAcceptingBlockForWalletExcluding(Payee[b], a, b) *)
AlreadyBooked(b, a) ==
    \E c \in Blocks \ {b} : Payee[c] = Payee[b] /\ rows[c].accepting = a

(* The partial unique index uniq_wallet_accepting lets b take a. *)
IndexAllows(b, a) ==
    \A c \in Blocks \ {b} : Payee[c] = Payee[b] => rows[c].accepting # a

(* SetAcceptingBlockHash(b, a): refused by the index, or by an error. *)
SetAcceptingBlockHash(b, a) ==
    \/ /\ IndexAllows(b, a)
       /\ rows' = [rows EXCEPT ![b].accepting = a]
    \/ /\ ~IndexAllows(b, a) \/ DbErrors
       /\ UNCHANGED rows

(* UpdateReward(b, reward, status) *)
UpdateReward(b, reward, status) ==
    \/ /\ rows[b].status # "absent"
       /\ rows' = [rows EXCEPT ![b] = [status |-> status, reward |-> reward,
                                       accepting |-> rows[b].accepting]]
    \/ /\ rows[b].status = "absent" \/ DbErrors
       /\ UNCHANGED rows

(* RecordBlock: INSERT OR IGNORE, so a known hash is left alone and no error *)
(* is reported.                                                              *)
RecordBlock(b) ==
    rows' = IF rows[b].status = "absent" THEN [rows EXCEPT ![b] = NewRow]
            ELSE rows

-----------------------------------------------------------------------------
(* fetchAndUpdateReward                                                     *)

Spawn(w, b) ==
    /\ work[w].pc = "idle"
    /\ work' = [work EXCEPT ![w] = Fresh(b)]

(* Mutants of NextAttempt: one attempt too many; an uncounted attempt. *)
NextAttemptMutant(p) ==
    IF p.attempt < MaxAttempts
    THEN [p EXCEPT !.pc = "attempt", !.attempt = p.attempt + 1]
    ELSE [p EXCEPT !.pc = "final"]
NextAttemptForever(p) == [p EXCEPT !.pc = "attempt"]

(* The end of one attempt without an answer: another one, or the final      *)
(* update with the status the goroutine started with.                       *)
NextAttempt(p) ==
    IF p.attempt + 1 < MaxAttempts
    THEN [p EXCEPT !.pc = "attempt", !.attempt = p.attempt + 1]
    ELSE [p EXCEPT !.pc = "final"]

(* The next accepting block of the walk, or the end of the attempt. *)
KeepWalking(p) ==
    IF p.pos < Len(p.seen) THEN [p EXCEPT !.pos = p.pos + 1] ELSE NextAttempt(p)

StartWalk(p) == [p EXCEPT !.pc = "walk", !.seen = chain, !.pos = 1]

Conclude(p, status, reward) ==
    [p EXCEPT !.pc = "final", !.status = status, !.reward = reward]

(* Steps 1 to 3: is the block known, what is the chain above it, and where  *)
(* is its record.                                                           *)
Attempt(w) ==
    LET p == work[w] IN
    /\ p.pc = "attempt"
    /\ \/ /\ \/ NodeErrors
             \/ DbErrors
             \/ p.blk \notin Known
             \/ chain = <<>>
             \/ rows[p.blk].status = "absent"
          /\ work' = [work EXCEPT ![w] = NextAttempt(p)]
       \/ /\ p.blk \in Known
          /\ chain # <<>>
          /\ rows[p.blk].status # "absent"
          /\ work' = [work EXCEPT ![w] = StartWalk(p)]
    /\ UNCHANGED <<rows, chain, toRecover, crashes>>

(* Mutant of Inspect: any chain block that pays the wallet is taken for the  *)
(* one that merged the block.                                                *)
InspectMutant(p, a) ==
    IF Paid[a][Payee[p.blk]] = 0 THEN KeepWalking(p)
    ELSE IF AlreadyBooked(p.blk, a) THEN Conclude(p, "merge_duplicate", 0)
    ELSE [p EXCEPT !.pc = "book"]

(* One accepting block of step 4: the read of the booked payments, then the  *)
(* look at the merge sets and the coinbase.                                  *)
Inspect(p, a) ==
    IF p.blk \in Reds[a] \ Blues[a] THEN Conclude(p, "red", 0)
    ELSE IF p.blk \notin Blues[a] THEN KeepWalking(p)
    ELSE IF Paid[a][Payee[p.blk]] = 0 THEN Conclude(p, "blue", 0)
    ELSE IF AlreadyBooked(p.blk, a) THEN Conclude(p, "merge_duplicate", 0)
    ELSE [p EXCEPT !.pc = "book"]

Walk(w) ==
    LET p == work[w] IN
    /\ p.pc = "walk"
    /\ \/ work' = [work EXCEPT ![w] = Inspect(p, p.seen[p.pos])]
       \/ /\ NodeErrors \/ DbErrors
          /\ work' = [work EXCEPT ![w] = KeepWalking(p)]
    /\ UNCHANGED <<rows, chain, toRecover, crashes>>

(* Step 4 D: the link to the accepting block.  An error is only logged, and  *)
(* the reward is booked whatever the database said.                          *)
Book(w) ==
    LET p == work[w]
        a == p.seen[p.pos]
    IN  /\ p.pc = "book"
        /\ SetAcceptingBlockHash(p.blk, a)
        /\ work' = [work EXCEPT ![w] = Conclude(p, "blue", Paid[a][Payee[p.blk]])]
        /\ UNCHANGED <<chain, toRecover, crashes>>

(* Step 5: the final update, after which the goroutine ends. *)
Final(w) ==
    LET p == work[w] IN
    /\ p.pc = "final"
    /\ UpdateReward(p.blk, p.reward, p.status)
    /\ work' = [work EXCEPT ![w] = Idle]
    /\ UNCHANGED <<chain, toRecover, crashes>>

-----------------------------------------------------------------------------
(* The callers                                                              *)

(* The end of HandleSubmit: the block is recorded and a goroutine started.   *)
(* The node refuses a second submission of a block it knows, so only a share *)
(* that was never submitted can be recorded again.  The listener starts      *)
(* after the recovery loop.                                                  *)
Record(w, b) ==
    /\ toRecover = {}
    /\ rows[b].status = "absent" \/ b \notin Known
    /\ RecordBlock(b)
    /\ Spawn(w, b)
    /\ UNCHANGED <<chain, toRecover, crashes>>

(* Mutant of Recover: the loop does not advance. *)
RecoverMutant(w, b) ==
    /\ b \in toRecover
    /\ Spawn(w, b)
    /\ UNCHANGED <<rows, chain, toRecover, crashes>>

(* One turn of the start-up loop of ListenAndServe. *)
Recover(w, b) ==
    /\ b \in toRecover
    /\ Spawn(w, b)
    /\ toRecover' = toRecover \ {b}
    /\ UNCHANGED <<rows, chain, crashes>>

(* The process dies and is started again: the goroutines are lost, the      *)
(* table is not.                                                            *)
Restart ==
    /\ crashes < MaxCrashes
    /\ crashes' = crashes + 1
    /\ work' = [w \in Workers |-> Idle]
    /\ toRecover' = PendingRows
    /\ UNCHANGED <<rows, chain>>

(* The node: the selected parent chain grows, or is reorganised. *)
Extends(c, d) == Len(c) <= Len(d) /\ \A i \in 1..Len(c) : c[i] = d[i]

ChainMove ==
    /\ \E c \in Forks \ {chain} : (MayReorg \/ Extends(chain, c)) /\ chain' = c
    /\ UNCHANGED <<rows, work, toRecover, crashes>>

-----------------------------------------------------------------------------
Init ==
    /\ rows = [b \in Blocks |-> NoRow]
    /\ work = [w \in Workers |-> Idle]
    /\ chain = <<>>
    /\ toRecover = {}
    /\ crashes = 0

Fetch(w) == Attempt(w) \/ Walk(w) \/ Book(w) \/ Final(w)

Next ==
    \/ \E w \in Workers : Fetch(w)
    \/ \E w \in Workers, b \in Blocks : Record(w, b) \/ Recover(w, b)
    \/ Restart
    \/ ChainMove

(* A goroutine that is not blocked runs, and the start-up loop goes on.      *)
(* Nothing makes a miner find a block, the process die or the chain move.    *)
Fairness ==
    /\ \A w \in Workers : WF_vars(Fetch(w))
    /\ WF_vars(\E w \in Workers, b \in Blocks : Recover(w, b))

Spec == Init /\ [][Next]_vars /\ Fairness

-----------------------------------------------------------------------------
(* Properties                                                               *)

WorkerOK(p) ==
    /\ p.pc # "idle" => p.blk \in Blocks /\ p.attempt < MaxAttempts
    /\ p.pc \in {"walk", "book"} => /\ p.seen \in Forks
                                    /\ p.pos \in 1..Len(p.seen)
                                    /\ p.blk \in Known

(* The state keeps its shape; a running goroutine works on a block, within   *)
(* its number of attempts and, while it walks, within the chain it was       *)
(* given.                                                                    *)
TypeOK ==
    /\ rows \in [Blocks -> Row]
    /\ work \in [Workers -> Worker]
    /\ \A w \in Workers : WorkerOK(work[w])
    /\ chain \in Forks
    /\ toRecover \in SUBSET Blocks
    /\ crashes \in 0..MaxCrashes

(* An accepted block has at most one goroutine looking for its reward, and   *)
(* only while its row is pending, across restarts: the submission path, the  *)
(* start-up loop and the goroutines themselves never start a second one.     *)
OneFetcher ==
    /\ \A v, w \in Workers :
        /\ work[v].pc # "idle" /\ work[w].pc # "idle"
        /\ work[v].blk = work[w].blk /\ work[v].blk \in Known
        => v = w
    /\ \A w \in Workers :
        work[w].pc # "idle" /\ work[w].blk \in Known
        => Pending(work[w].blk) /\ work[w].blk \notin toRecover

(* What the table says of a block happened in the DAG: atoms are booked only *)
(* on a blue row, they are what some chain block that merged the block as    *)
(* blue pays to the wallet, and the link names such a block.  A share that   *)
(* was never submitted gets neither.                                         *)
RewardIsReal ==
    \A b \in Blocks :
        /\ rows[b].reward > 0 =>
              /\ rows[b].status = "blue"
              /\ \E a \in Accepting : b \in Blues[a] /\ rows[b].reward = Paid[a][Payee[b]]
        /\ rows[b].accepting # NoHash =>
              b \in Blues[rows[b].accepting] /\ Paid[rows[b].accepting][Payee[b]] > 0

(* The owner of the payment of accepting block a to the wallet of b: another *)
(* row of the wallet, linked to a, that is paid or still being looked up.    *)
OwnsPayment(c, b, a) ==
    /\ c # b
    /\ Payee[c] = Payee[b]
    /\ b \in Blues[a] /\ c \in Blues[a]
    /\ rows[c].accepting = a
    /\ \/ Pending(c)
       \/ rows[c].status = "blue" /\ rows[c].reward = Paid[a][Payee[c]]

(* A block marked merge_duplicate gave its payment up to a row that has it,  *)
(* or still will: marking the rest as duplicates never loses the payment.    *)
DuplicateHasOwner ==
    \A b \in Blocks : rows[b].status = "merge_duplicate" =>
        \E c \in Blocks, a \in Accepting : OwnsPayment(c, b, a)

(* "we book the reward only once": at most one row of a wallet carries the   *)
(* payment of an accepting block (share_handler.go, fetchAndUpdateReward).   *)
BookedOnce ==
    \A b, c \in Blocks : \A a \in Accepting :
        /\ b # c /\ Payee[b] = Payee[c]
        /\ b \in Blues[a] /\ c \in Blues[a]
        => ~(rows[b].reward > 0 /\ rows[c].reward > 0)

(* A settled row never changes again, whatever goroutines, restarts and      *)
(* repeated records do.                                                      *)
SettledIsFinal ==
    [][\A b \in Blocks : Settled(b) => rows'[b] = rows[b]]_vars

(* Every recorded block is settled in the end. *)
EveryBlockSettles == \A b \in Blocks : Pending(b) ~> Settled(b)

TableBook == INSTANCE RewardBook WITH table <- rows

(* To its readers the table is a RewardBook, as long as calls succeed and    *)
(* the chain only grows: through every interleaving of the goroutines and    *)
(* every restart a row goes from pending to settled once, takes no link of   *)
(* another, is a duplicate only next to the row that claimed the payment,    *)
(* keeps the promise of its link, and is settled in the end.                 *)
ImplementsBook == TableBook!Spec

=============================================================================
