---------------------------- MODULE ShareSubmit ----------------------------
(***************************************************************************)
(* Share submission: HandleSubmit, validateSubmit, checkStales and submit   *)
(* of share_handler.go, for several connections at once.  Each connection   *)
(* has one reader goroutine, so one submission of it is handled at a time;  *)
(* the handlers of different connections interleave, share tipBlueScore     *)
(* without a lock and queue for submitLock.  Jobs are pushed to a           *)
(* connection while its handler runs.                                       *)
(*                                                                          *)
(* A proof of work is abstracted to the pair of the template it was mined   *)
(* on and its nonce: the submitted hash matches the recalculated one exactly *)
(* when the template found in the job ring is the one that was mined.  The  *)
(* network target is met by the nonces in Hits; below it, the connection's  *)
(* own difficulty, which vardiff moves at any time, makes a share or a weak *)
(* share.  Of a job number only the slot of the ring it stands for is kept. *)
(***************************************************************************)
EXTENDS MiningState, FiniteSets, FiniteSetsExt

CONSTANTS
    Clients,
    Nonces,
    Hits,       \* the nonces of each template that meet the network target
    Score,      \* blue score of each template
    workWindow, \* how far below the tip a job may be
    Faults,     \* how SubmitBlock may fail besides a duplicate, and whether
                \* the database may
    MaxSubmits, \* bound on the submissions, of all connections
    Free        \* submitLock has no owner

ASSUME SubmitAssumption ==
    /\ IsFiniteSet(Clients)
    /\ Hits \in [Job -> SUBSET Nonces]
    /\ Score \in [Job -> Nat]
    /\ workWindow \in Nat
    /\ Faults \subseteq {"refused", "invalidpow", "lost", "database"}
    /\ MaxSubmits \in Nat
    /\ Free \notin Clients

VARIABLES
    tip,      \* tipBlueScore
    ring,     \* the MiningState of each connection
    sub,      \* the submission its handler works on
    lock,     \* submitLock
    accepted, \* solutions the node took
    rows,     \* solutions recorded in the mining database
    stats,    \* SharesFound, StaleShares, InvalidShares, BlocksFound
    overall,  \* the same for the bridge
    credits,  \* history: how often each solution was credited
    failed    \* history: solutions whose answer or row was lost

vars == <<tip, ring, sub, lock, accepted, rows, stats, overall, credits, failed>>

Solutions == Job \X Nonces

Solution(s) == <<s.block, s.nonce>>

Counters == {"shares", "stale", "invalid", "blocks"}

(* What a handler works on.  In "tally", owes names the bridge's counter     *)
(* that it is about to raise.                                                *)
Submission ==
    [pc    : {"idle", "check", "raise", "pow", "lock", "sync", "rpc", "share", "block",
              "record", "tally"},
     id    : Slots,
     block : Job \union {NoJob},
     mined : Job \union {NoJob},
     nonce : Nonces,
     owes  : Counters,
     count : Nat]

Stats == [shares : Nat, stale : Nat, invalid : Nat, blocks : Nat]

NoStats == [shares |-> 0, stale |-> 0, invalid |-> 0, blocks |-> 0]

(* The handler of c goes on at pc, or has answered. *)
Goto(c, pc) == sub' = [sub EXCEPT ![c].pc = pc]

Answer(c) ==
    sub' = [sub EXCEPT ![c] = [@ EXCEPT !.pc = "idle", !.id = 0, !.block = NoJob,
                                        !.mined = NoJob, !.owes = "shares"]]

(* A counter of the connection is raised; the bridge's is another Add, and   *)
(* another step.                                                             *)
Count(c, mine, all) ==
    /\ stats' = [stats EXCEPT ![c][mine] = @ + 1]
    /\ sub' = [sub EXCEPT ![c] = [@ EXCEPT !.pc = "tally", !.owes = all]]

Drop(c) == ring' = [ring EXCEPT ![c] = RemoveJob(@, sub[c].id)]

-----------------------------------------------------------------------------
(* A job reaches the connection (NewBlockAvailable).  Pushers draw numbers   *)
(* without a lock and file them in any order (JobRing), so it may be any     *)
(* slot's turn.                                                              *)
Push(c, idx, job) ==
    /\ ring' = [ring EXCEPT ![c] = AddJob(@, idx, job, FALSE)]
    /\ UNCHANGED <<tip, sub, lock, accepted, rows, stats, overall, credits, failed>>

(* validateSubmit: the job is looked up under JobLock.  A miner may send any *)
(* number, of a job of its own or not; it leads to a slot of the ring or, if *)
(* negative, mostly to none.  A submission whose slot is empty is answered   *)
(* as stale and a malformed one as incorrect; one whose nonce does not parse *)
(* gets no answer.  None of them is counted.                                 *)
Submit(c, id, mined, nonce) ==
    /\ sub[c].pc = "idle"
    /\ MapThenSumSet(LAMBDA d : sub[d].count, Clients) < MaxSubmits
    /\ LET block == GetJob(ring[c], id) IN
       \/ sub' = [sub EXCEPT ![c].count = @ + 1]
       \/ /\ block # NoJob
          /\ sub' = [sub EXCEPT ![c] =
                        [pc |-> "check", id |-> id, block |-> block, mined |-> mined,
                         nonce |-> nonce, owes |-> @.owes, count |-> @.count + 1]]
    /\ UNCHANGED <<tip, ring, lock, accepted, rows, stats, overall, credits, failed>>

(* checkStales reads tipBlueScore once ... *)
CheckStales(c) ==
    LET score == Score[sub[c].block] IN
    /\ sub[c].pc = "check"
    /\ \/ /\ score > tip
          /\ Goto(c, "raise")
          /\ UNCHANGED <<ring, stats>>
       \/ /\ tip - score > workWindow
          /\ Drop(c)
          /\ Count(c, "stale", "stale")
       \/ /\ score <= tip
          /\ tip - score <= workWindow
          /\ Goto(c, "pow")
          /\ UNCHANGED <<ring, stats>>
    /\ UNCHANGED <<tip, lock, accepted, rows, overall, credits, failed>>

(* ... and stores the job's score in another step. *)
RaiseTip(c) ==
    LET score == Score[sub[c].block] IN
    /\ sub[c].pc = "raise"
    /\ tip' = score
    /\ Goto(c, "pow")
    /\ UNCHANGED <<ring, lock, accepted, rows, stats, overall, credits, failed>>

(* The proof of work is recalculated on the job's template; a template that  *)
(* does not convert is answered without being counted.                       *)
CheckPow(c) ==
    LET s == sub[c]
        genuine == s.block = s.mined
    IN
    /\ s.pc = "pow"
    /\ \/ /\ genuine /\ s.nonce \in Hits[s.block]
          /\ Goto(c, "lock")
          /\ UNCHANGED stats
       \/ /\ genuine /\ s.nonce \notin Hits[s.block]
          /\ Goto(c, "share")
          /\ UNCHANGED stats
       \/ /\ ~genuine \/ s.nonce \notin Hits[s.block]
          /\ Count(c, "invalid", "invalid")
       \/ /\ Answer(c)
          /\ UNCHANGED stats
    /\ UNCHANGED <<tip, ring, lock, accepted, rows, overall, credits, failed>>

-----------------------------------------------------------------------------
(* submit                                                                    *)

(* Mutant of Acquire: submit does not wait for the lock. *)
AcquireMutant(c) ==
    /\ sub[c].pc = "lock"
    /\ lock' = c
    /\ Goto(c, "sync")
    /\ UNCHANGED <<tip, ring, accepted, rows, stats, overall, credits, failed>>

Acquire(c) ==
    /\ sub[c].pc = "lock"
    /\ lock = Free
    /\ lock' = c
    /\ Goto(c, "sync")
    /\ UNCHANGED <<tip, ring, accepted, rows, stats, overall, credits, failed>>

(* Mutant of GetInfo: the early return keeps the lock. *)
GetInfoMutant(c) ==
    /\ sub[c].pc = "sync"
    /\ \/ Goto(c, "rpc") /\ UNCHANGED <<lock, stats>>
       \/ Count(c, "invalid", "invalid") /\ UNCHANGED lock
    /\ UNCHANGED <<tip, ring, accepted, rows, overall, credits, failed>>

(* GetInfo: a block found while the node is not synced is refused and its    *)
(* job stays.                                                                *)
GetInfo(c) ==
    /\ sub[c].pc = "sync"
    /\ \/ /\ Goto(c, "rpc")
          /\ UNCHANGED <<lock, stats>>
       \/ /\ lock' = Free
          /\ Count(c, "invalid", "invalid")
    /\ UNCHANGED <<tip, ring, accepted, rows, overall, credits, failed>>

(* Mutant of SubmitBlock: a duplicate is taken for a success. *)
SubmitBlockMutant(c) ==
    /\ sub[c].pc = "rpc"
    /\ accepted' = accepted \union {Solution(sub[c])}
    /\ Goto(c, "share")
    /\ lock' = Free
    /\ Drop(c)
    /\ UNCHANGED <<tip, rows, stats, overall, credits, failed>>

(* SubmitBlock: the node takes a solution once.  With "lost" the answer of a *)
(* submission it took does not arrive.  The job is dropped and the lock      *)
(* released whatever the answer.                                             *)
SubmitBlock(c) ==
    LET new == Solution(sub[c]) \notin accepted IN
    /\ sub[c].pc = "rpc"
    /\ \/ /\ new
          /\ accepted' = accepted \union {Solution(sub[c])}
          /\ Goto(c, "share")
          /\ UNCHANGED <<stats, failed>>
       \/ /\ ~new
          /\ Count(c, "stale", "stale")
          /\ UNCHANGED <<accepted, failed>>
       \/ /\ "invalidpow" \in Faults
          /\ Count(c, "stale", "invalid")
          /\ UNCHANGED <<accepted, failed>>
       \/ /\ "refused" \in Faults
          /\ Count(c, "invalid", "invalid")
          /\ UNCHANGED <<accepted, failed>>
       \/ /\ "lost" \in Faults /\ new
          /\ accepted' = accepted \union {Solution(sub[c])}
          /\ failed' = failed \union {Solution(sub[c])}
          /\ Count(c, "invalid", "invalid")
    /\ lock' = Free
    /\ Drop(c)
    /\ UNCHANGED <<tip, rows, overall, credits>>

-----------------------------------------------------------------------------
(* The end of HandleSubmit, for shares and blocks alike: counted as a share  *)
(* and as a block ...                                                        *)
CountShare(c) ==
    /\ sub[c].pc = "share"
    /\ Count(c, "shares", "shares")
    /\ UNCHANGED <<tip, ring, lock, accepted, rows, overall, credits, failed>>

CountBlock(c) ==
    /\ sub[c].pc = "block"
    /\ Count(c, "blocks", "blocks")
    /\ UNCHANGED <<tip, ring, lock, accepted, rows, overall, credits, failed>>

(* Mutant of Tally: the bridge's counter is forgotten for refused blocks. *)
TallyMutant(c) ==
    /\ sub[c].pc = "tally"
    /\ overall' = IF sub[c].owes = "invalid" THEN overall
                  ELSE [overall EXCEPT ![sub[c].owes] = @ + 1]
    /\ \/ sub[c].owes = "shares" /\ Goto(c, "block")
       \/ sub[c].owes = "blocks" /\ Goto(c, "record")
       \/ sub[c].owes \in {"stale", "invalid"} /\ Answer(c)
    /\ UNCHANGED <<tip, ring, lock, accepted, rows, stats, credits, failed>>

(* The bridge's counter follows the connection's; after a refusal the miner  *)
(* is answered.                                                              *)
Tally(c) ==
    /\ sub[c].pc = "tally"
    /\ overall' = [overall EXCEPT ![sub[c].owes] = @ + 1]
    /\ \/ sub[c].owes = "shares" /\ Goto(c, "block")
       \/ sub[c].owes = "blocks" /\ Goto(c, "record")
       \/ sub[c].owes \in {"stale", "invalid"} /\ Answer(c)
    /\ UNCHANGED <<tip, ring, lock, accepted, rows, stats, credits, failed>>

(* Mutant of Record: the block is answered but not recorded. *)
RecordMutant(c) ==
    /\ sub[c].pc = "record"
    /\ Answer(c)
    /\ UNCHANGED <<tip, ring, lock, accepted, rows, stats, overall, credits, failed>>

(* ... and recorded in the database.  An error of the database is only       *)
(* logged.                                                                   *)
Record(c) ==
    /\ sub[c].pc = "record"
    /\ \/ rows' = rows \union {Solution(sub[c])} /\ UNCHANGED failed
       \/ /\ "database" \in Faults
          /\ failed' = failed \union {Solution(sub[c])}
          /\ UNCHANGED rows
    /\ credits' = [credits EXCEPT ![Solution(sub[c])] = @ + 1]
    /\ Answer(c)
    /\ UNCHANGED <<tip, ring, lock, accepted, stats, overall>>

-----------------------------------------------------------------------------
Init ==
    /\ tip = 0
    /\ ring = [c \in Clients |-> NewState]
    /\ \E n \in Nonces :
         sub = [c \in Clients |-> [pc |-> "idle", id |-> 0, block |-> NoJob,
                                   mined |-> NoJob, nonce |-> n, owes |-> "shares",
                                   count |-> 0]]
    /\ lock = Free
    /\ accepted = {}
    /\ rows = {}
    /\ stats = [c \in Clients |-> NoStats]
    /\ overall = NoStats
    /\ credits = [s \in Solutions |-> 0]
    /\ failed = {}

Handle(c) ==
    \/ CheckStales(c) \/ RaiseTip(c) \/ CheckPow(c)
    \/ GetInfo(c) \/ SubmitBlock(c)
    \/ CountShare(c) \/ CountBlock(c) \/ Tally(c) \/ Record(c)

Next == \E c \in Clients :
    \/ \E idx \in Slots, job \in Job : Push(c, idx, job)
    \/ \E id \in Slots, mined \in Job, nonce \in Nonces : Submit(c, id, mined, nonce)
    \/ Acquire(c)
    \/ Handle(c)

(* A handler runs on, calls to the node return, and a waiter that finds the  *)
(* lock free again and again gets it (Go's mutexes do not starve waiters).   *)
Fairness == \A c \in Clients : WF_vars(Handle(c)) /\ SF_vars(Acquire(c))

Spec == Init /\ [][Next]_vars /\ Fairness

-----------------------------------------------------------------------------
(* Properties                                                               *)

(* The state keeps its shape, and submitLock is held by the connection that  *)
(* talks to the node and by no other.                                        *)
TypeOK ==
    /\ tip \in Nat
    /\ ring \in [Clients -> State]
    /\ sub \in [Clients -> Submission]
    /\ \A c \in Clients : sub[c].pc # "idle" => sub[c].block \in Job
    /\ lock \in Clients \union {Free}
    /\ \A c \in Clients : lock = c <=> sub[c].pc \in {"sync", "rpc"}
    /\ accepted \in SUBSET Solutions
    /\ rows \in SUBSET Solutions /\ failed \in SUBSET Solutions
    /\ stats \in [Clients -> Stats] /\ overall \in Stats
    /\ credits \in [Solutions -> Nat]

(* A solved block is credited once, however many connections submit it, in   *)
(* whatever order, and however often a miner retries after a refusal         *)
(* (HandleSubmit).                                                           *)
CreditedOnce ==
    \A s \in Solutions : s[2] \in Hits[s[1]] => credits[s] <= 1

(* From the node's answer to the row a block is in its handler's hands. *)
Crediting(c) ==
    \/ sub[c].pc \in {"share", "block", "record"}
    \/ sub[c].pc = "tally" /\ sub[c].owes \in {"shares", "blocks"}

(* No block is lost between the node and the ledger: one the node took is in *)
(* the database, or its handler is about to put it there, unless the node's  *)
(* answer or the database failed (HandleSubmit, submit).                     *)
NoBlockForgotten ==
    \A s \in accepted \ failed :
        s \in rows \/ \E c \in Clients : Crediting(c) /\ Solution(sub[c]) = s

Total(counts, what) == SumFunction([c \in Clients |-> counts[c][what]])

(* The handlers that have raised their connection's counter and not yet the  *)
(* bridge's *)
Owing(what) == {c \in Clients : sub[c].pc = "tally" /\ sub[c].owes \in what}

(* The bridge's totals lag behind the sums of the connections' by the        *)
(* handlers that are between their two Adds and by no more, however they     *)
(* interleave (HandleSubmit): when all are idle the totals agree.  A         *)
(* submission the node calls invalid is stale for the connection and invalid *)
(* for the bridge, so only these two together agree.                         *)
TotalsAgree ==
    /\ overall.shares + Cardinality(Owing({"shares"})) = Total(stats, "shares")
    /\ overall.blocks + Cardinality(Owing({"blocks"})) = Total(stats, "blocks")
    /\ overall.stale + overall.invalid + Cardinality(Owing({"stale", "invalid"}))
         = Total(stats, "stale") + Total(stats, "invalid")

(* A row of the database is a mined block: the node took it. *)
RowsAreBlocks == rows \subseteq accepted

(* Every submission whose nonce parses is answered, though all queue for     *)
(* submitLock and the node may refuse.  (HandleSubmit returns an unparsable  *)
(* nonce as an error and answers nothing; that is over within Submit.)       *)
EverySubmissionAnswered == \A c \in Clients : sub[c].pc # "idle" ~> sub[c].pc = "idle"

=============================================================================
