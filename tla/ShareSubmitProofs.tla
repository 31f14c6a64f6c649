------------------------- MODULE ShareSubmitProofs -------------------------
(* Proofs about share submission, for any number of connections, jobs and     *)
(* submissions and under all faults.                                          *)
EXTENDS ShareSubmit, SumTheorems, TLAPS

Places == {"idle", "check", "raise", "pow", "lock", "sync", "rpc", "share", "block", "record"}

SubOK ==
    /\ sub \in [Clients -> Submission]
    /\ \A c \in Clients : sub[c].pc # "idle" => sub[c].block \in Job

RingOK == ring \in [Clients -> State]

LedgerOK ==
    /\ accepted \in SUBSET Solutions /\ rows \in SUBSET Solutions /\ failed \in SUBSET Solutions
    /\ credits \in [Solutions -> Nat]

IsHit(s) == s[2] \in Hits[s[1]]

Owes(c, s) == Crediting(c) /\ Solution(sub[c]) = s

(* A block that is about to be credited was taken by the node, has not been   *)
(* credited, and one handler has it.                                          *)
Owed ==
    \A c \in Clients, s \in Solutions : Owes(c, s) /\ IsHit(s) =>
        /\ s \in accepted
        /\ credits[s] = 0
        /\ \A d \in Clients : Owes(d, s) => d = c

(* One that was credited was taken, and credited once. *)
Paid ==
    \A s \in Solutions : IsHit(s) => credits[s] <= 1 /\ (credits[s] # 0 => s \in accepted)

(* submitLock is held by the connection that talks to the node. *)
LockHeld ==
    /\ lock \in Clients \union {Free}
    /\ \A c \in Clients : lock = c <=> sub[c].pc \in {"sync", "rpc"}

IInv == SubOK /\ RingOK /\ LedgerOK /\ Owed /\ Paid /\ NoBlockForgotten /\ LockHeld

-----------------------------------------------------------------------------
LEMMA SlotType == ASSUME NEW id \in Nat PROVE Slot(id) \in Slots
BY MiningStateAssumption DEF Slot, Slots

LEMMA FeeKeyType == ASSUME NEW job \in Job \union {NoJob} PROVE FeeKey(job) \in SUBSET Hash
BY MiningStateAssumption DEF FeeKey

(* The job ring keeps its type; its operations are those of MiningState. *)
LEMMA AddJobType ==
    ASSUME NEW st \in State, NEW idx \in Nat, NEW job \in Job
    PROVE  AddJob(st, idx, job, FALSE) \in State
<1>1. Slot(idx) \in Slots
  BY SlotType
<1>2. st.jobs \in [Slots -> Job \union {NoJob}] /\ st.feeJobs \in SUBSET Hash
  BY DEF State
<1>3. [st.jobs EXCEPT ![Slot(idx)] = job] \in [Slots -> Job \union {NoJob}]
  BY <1>1, <1>2
<1>4. st.feeJobs \ FeeKey(st.jobs[Slot(idx)]) \in SUBSET Hash
  BY <1>2
<1> QED BY <1>3, <1>4 DEF AddJob, State

LEMMA RemoveJobType ==
    ASSUME NEW st \in State, NEW id \in Nat
    PROVE  RemoveJob(st, id) \in State
<1>1. Slot(id) \in Slots
  BY SlotType
<1>2. st.jobs \in [Slots -> Job \union {NoJob}] /\ st.feeJobs \in SUBSET Hash
  BY DEF State
<1>3. [st.jobs EXCEPT ![Slot(id)] = NoJob] \in [Slots -> Job \union {NoJob}]
  BY <1>1, <1>2
<1>4. st.feeJobs \ FeeKey(GetJob(st, id)) \in SUBSET Hash
  BY <1>2
<1> QED BY <1>3, <1>4 DEF RemoveJob, State

LEMMA DropOK ==
    ASSUME SubOK, RingOK, NEW c \in Clients, Drop(c)
    PROVE  RingOK'
<1>1. sub[c].id \in Nat
  BY MiningStateAssumption DEF SubOK, Submission, Slots
<1> QED BY <1>1, RemoveJobType DEF RingOK, Drop

(* What the two ways for a handler to go on leave of the submissions. *)
LEMMA GotoFacts ==
    ASSUME SubOK, NEW c \in Clients, NEW pc \in Places, Goto(c, pc), sub[c].pc # "idle"
    PROVE  /\ SubOK'
           /\ sub'[c].pc = pc /\ sub'[c].block = sub[c].block /\ sub'[c].nonce = sub[c].nonce
           /\ sub'[c].owes = sub[c].owes
           /\ \A d \in Clients : d # c => sub'[d] = sub[d]
<1>1. sub[c] \in Submission /\ sub[c].block \in Job
  BY DEF SubOK
<1>2. [sub[c] EXCEPT !.pc = pc] \in Submission
  BY <1>1 DEF Submission, Places
<1>3. sub' = [sub EXCEPT ![c] = [sub[c] EXCEPT !.pc = pc]]
  BY DEF Goto, SubOK
<1>4. sub'[c] = [sub[c] EXCEPT !.pc = pc] /\ \A d \in Clients : d # c => sub'[d] = sub[d]
  BY <1>3 DEF SubOK
<1>5. /\ sub'[c].pc = pc /\ sub'[c].block = sub[c].block /\ sub'[c].nonce = sub[c].nonce
      /\ sub'[c].owes = sub[c].owes
  BY <1>1, <1>4 DEF Submission
<1>6. SubOK'
  BY <1>1, <1>2, <1>3, <1>4, <1>5 DEF SubOK
<1> QED BY <1>4, <1>5, <1>6

LEMMA SlotZero == 0 \in Slots
BY MiningStateAssumption DEF Slots

LEMMA CountFacts ==
    ASSUME SubOK, NEW c \in Clients, NEW mine, NEW all \in Counters, Count(c, mine, all),
           sub[c].pc # "idle"
    PROVE  /\ SubOK'
           /\ sub'[c].pc = "tally" /\ sub'[c].owes = all
           /\ sub'[c].block = sub[c].block /\ sub'[c].nonce = sub[c].nonce
           /\ \A d \in Clients : d # c => sub'[d] = sub[d]
<1>1. sub[c] \in Submission /\ sub[c].block \in Job
  BY DEF SubOK
<1>2. PICK new : new = [sub[c] EXCEPT !.pc = "tally", !.owes = all]
  OBVIOUS
<1>3. /\ new \in Submission /\ new.pc = "tally" /\ new.owes = all
      /\ new.block = sub[c].block /\ new.nonce = sub[c].nonce
  BY <1>1, <1>2 DEF Submission
<1>4. sub' = [sub EXCEPT ![c] = new]
  BY <1>2 DEF Count, SubOK
<1>5. sub'[c] = new /\ \A d \in Clients : d # c => sub'[d] = sub[d]
  BY <1>4 DEF SubOK
<1> QED BY <1>1, <1>3, <1>4, <1>5 DEF SubOK

LEMMA AnswerFacts ==
    ASSUME SubOK, NEW c \in Clients, Answer(c)
    PROVE  /\ SubOK'
           /\ sub'[c].pc = "idle"
           /\ \A d \in Clients : d # c => sub'[d] = sub[d]
<1> DEFINE new == [sub[c] EXCEPT !.pc = "idle", !.id = 0, !.block = NoJob, !.mined = NoJob,
                          !.owes = "shares"]
<1>1. sub[c] \in Submission
  BY DEF SubOK
<1>2. new \in Submission /\ new.pc = "idle"
  BY <1>1, SlotZero DEF Submission, Counters
<1>3. sub' = [sub EXCEPT ![c] = new]
  BY DEF Answer, SubOK
<1> HIDE DEF new
<1>4. sub'[c] = new /\ \A d \in Clients : d # c => sub'[d] = sub[d]
  BY <1>3 DEF SubOK
<1> QED BY <1>2, <1>3, <1>4 DEF SubOK

(* A step of c that leaves the block it is crediting, if any, alone, and      *)
(* takes up at most a share that is no block, keeps the ledger's invariants.  *)
LEMMA QuietStep ==
    ASSUME IInv, SubOK', NEW c \in Clients,
           UNCHANGED <<accepted, rows, credits>>,
           failed' = failed,
           \A d \in Clients : d # c => sub'[d] = sub[d],
           Crediting(c) => Crediting(c)' /\ Solution(sub'[c]) = Solution(sub[c]),
           Crediting(c)' => \/ Crediting(c)
                            \/ sub'[c].nonce \notin Hits[sub'[c].block]
    PROVE  LedgerOK' /\ Owed' /\ Paid' /\ NoBlockForgotten'
<1>1. LedgerOK' /\ Paid'
  BY DEF IInv, LedgerOK, Paid
<1>0. \A d \in Clients : d # c => (Crediting(d)' <=> Crediting(d))
  BY DEF Crediting
<1>2. Owed'
  <2> SUFFICES ASSUME NEW b \in Clients, NEW s \in Solutions, Owes(b, s)', IsHit(s)
               PROVE  /\ s \in accepted /\ credits[s] = 0
                      /\ \A d \in Clients : Owes(d, s)' => d = b
    BY DEF Owed, IsHit
  <2>1. ASSUME NEW d \in Clients, Owes(d, s)' PROVE Owes(d, s)
    <3>1. CASE d = c
      <4>1. Crediting(c)' /\ s = <<sub'[c].block, sub'[c].nonce>>
        BY <2>1, <3>1 DEF Owes, Solution
      <4>2. Crediting(c)
        BY <4>1 DEF IsHit
      <4> QED BY <2>1, <3>1, <4>2 DEF Owes
    <3>2. CASE d # c
      BY <1>0, <2>1, <3>2 DEF Owes
    <3> QED BY <3>1, <3>2
  <2> QED BY <2>1 DEF IInv, Owed
<1>3. NoBlockForgotten'
  <2> SUFFICES ASSUME NEW s \in accepted \ failed, s \notin rows
               PROVE  \E d \in Clients : Crediting(d)' /\ Solution(sub'[d]) = s
    BY DEF NoBlockForgotten
  <2>1. PICK d \in Clients : Crediting(d) /\ Solution(sub[d]) = s
    BY DEF IInv, NoBlockForgotten
  <2> QED BY <1>0, <2>1
<1> QED BY <1>1, <1>2, <1>3

(* The lock, when c neither takes nor has it. *)
LEMMA LockKept ==
    ASSUME IInv, NEW c \in Clients, lock' = lock,
           \A d \in Clients : d # c => sub'[d] = sub[d],
           sub[c].pc \in {"sync", "rpc"} <=> sub'[c].pc \in {"sync", "rpc"}
    PROVE  LockHeld'
BY DEF IInv, LockHeld

(* The lock, when c gives it back. *)
LEMMA LockFreed ==
    ASSUME IInv, NEW c \in Clients, lock' = Free,
           \A d \in Clients : d # c => sub'[d] = sub[d],
           sub[c].pc \in {"sync", "rpc"}, sub'[c].pc \notin {"sync", "rpc"}
    PROVE  LockHeld'
BY SubmitAssumption DEF IInv, LockHeld

-----------------------------------------------------------------------------
LEMMA InitInv == Init => IInv
<1> SUFFICES ASSUME Init PROVE IInv
  OBVIOUS
<1>0. PICK n \in Nonces : sub = [c \in Clients |-> [pc |-> "idle", id |-> 0, block |-> NoJob,
                                                   mined |-> NoJob, nonce |-> n,
                                                   owes |-> "shares", count |-> 0]]
  BY DEF Init
<1>1. SubOK
  BY <1>0, SlotZero DEF SubOK, Submission, Counters
<1>2. RingOK
  BY DEF Init, RingOK, NewState, State
<1>3. LedgerOK
  BY DEF Init, LedgerOK
<1>4. \A c \in Clients : sub[c].pc = "idle"
  BY <1>0
<1>5. Owed /\ Paid /\ NoBlockForgotten
  BY <1>4 DEF Init, Owed, Owes, Crediting, Paid, NoBlockForgotten
<1>6. LockHeld
  BY <1>4, SubmitAssumption DEF Init, LockHeld
<1> QED BY <1>1, <1>2, <1>3, <1>5, <1>6 DEF IInv

LEMMA PushInv ==
    ASSUME IInv, NEW c \in Clients, NEW idx \in Slots, NEW job \in Job, Push(c, idx, job)
    PROVE  IInv'
<1>1. UNCHANGED <<sub, lock, accepted, rows, credits, failed>>
  BY DEF Push
<1>2. ring[c] \in State /\ idx \in Nat
  BY MiningStateAssumption DEF IInv, RingOK, Slots
<1>3. AddJob(ring[c], idx, job, FALSE) \in State
  BY <1>2, AddJobType
<1>4. RingOK'
  BY <1>3 DEF IInv, RingOK, Push
<1> QED BY <1>1, <1>4 DEF IInv, SubOK, LedgerOK, Owed, Owes, Crediting, Paid, NoBlockForgotten,
                          LockHeld

LEMMA SubmitInv ==
    ASSUME IInv, NEW c \in Clients, NEW id \in Slots, NEW mined \in Job,
           NEW nonce \in Nonces, Submit(c, id, mined, nonce)
    PROVE  IInv'
<1> DEFINE block == GetJob(ring[c], id)
<1>1. sub \in [Clients -> Submission] /\ sub[c] \in Submission /\ sub[c].pc = "idle"
  BY DEF IInv, SubOK, Submit
<1>2. id \in Nat /\ block \in Job \union {NoJob}
  <2>1. id \in Nat
    BY MiningStateAssumption DEF Slots
  <2>2. Slot(id) \in Slots /\ ring[c] \in State
    BY <2>1, SlotType DEF IInv, RingOK
  <2> QED BY <2>1, <2>2 DEF GetJob, State
<1>3. UNCHANGED <<ring, lock, accepted, rows, credits, failed>>
  BY DEF Submit
<1>4. RingOK'
  BY <1>3 DEF IInv, RingOK
<1>5. /\ SubOK'
      /\ sub'[c].pc \in {"idle", "check"}
      /\ \A d \in Clients : d # c => sub'[d] = sub[d]
  <2>1. CASE sub' = [sub EXCEPT ![c].count = @ + 1]
    <3> DEFINE new == [sub[c] EXCEPT !.count = @ + 1]
    <3>1. new \in Submission /\ new.pc = "idle"
      BY <1>1 DEF Submission
    <3>2. sub' = [sub EXCEPT ![c] = new]
      BY <1>1, <2>1
    <3> HIDE DEF new
    <3>3. sub'[c] = new /\ \A d \in Clients : d # c => sub'[d] = sub[d]
      BY <1>1, <3>2
    <3> QED BY <1>1, <3>1, <3>2, <3>3 DEF IInv, SubOK
  <2>2. CASE /\ block # NoJob
             /\ sub' = [sub EXCEPT ![c] =
                           [pc |-> "check", id |-> id, block |-> block, mined |-> mined,
                            nonce |-> nonce, owes |-> @.owes, count |-> @.count + 1]]
    <3> DEFINE new == [pc |-> "check", id |-> id, block |-> block, mined |-> mined,
                       nonce |-> nonce, owes |-> sub[c].owes, count |-> sub[c].count + 1]
    <3>1. new \in Submission /\ new.pc = "check" /\ new.block \in Job
      BY <1>1, <1>2, <2>2 DEF Submission, Places
    <3>2. sub' = [sub EXCEPT ![c] = new]
      BY <1>1, <2>2
    <3> HIDE DEF new
    <3>3. sub'[c] = new /\ \A d \in Clients : d # c => sub'[d] = sub[d]
      BY <1>1, <3>2
    <3> QED BY <1>1, <3>1, <3>2, <3>3 DEF IInv, SubOK
  <2> QED BY <2>1, <2>2 DEF Submit
<1>6. LedgerOK' /\ Owed' /\ Paid' /\ NoBlockForgotten'
  <2>1. ~Crediting(c) /\ ~Crediting(c)'
    BY <1>1, <1>5 DEF Crediting
  <2> QED BY <1>1, <1>3, <1>5, <2>1, QuietStep
<1>7. LockHeld'
  BY <1>1, <1>3, <1>5, LockKept
<1> QED BY <1>4, <1>5, <1>6, <1>7 DEF IInv

(* The steps of a handler up to the node's answer, but for the lock. *)
LEMMA CheckInv ==
    ASSUME IInv, NEW c \in Clients, CheckStales(c) \/ RaiseTip(c) \/ CheckPow(c)
    PROVE  IInv'
<1>0. SubOK /\ sub[c].pc \in {"check", "raise", "pow"} /\ sub[c].pc # "idle"
  BY DEF IInv, CheckStales, RaiseTip, CheckPow
<1>1. UNCHANGED <<lock, accepted, rows, credits, failed>>
  BY DEF CheckStales, RaiseTip, CheckPow
<1>2. /\ SubOK'
      /\ sub'[c].pc \in {"idle", "raise", "pow", "lock", "share", "tally"}
      /\ \A d \in Clients : d # c => sub'[d] = sub[d]
      /\ Crediting(c)' => sub'[c].nonce \notin Hits[sub'[c].block]
  <2>1. CASE Goto(c, "raise") \/ Goto(c, "pow") \/ Goto(c, "lock")
    BY <1>0, <2>1, GotoFacts DEF Places, Crediting
  <2>2. CASE Goto(c, "share") /\ sub[c].nonce \notin Hits[sub[c].block]
    BY <1>0, <2>2, GotoFacts DEF Places
  <2>3. CASE Answer(c)
    BY <1>0, <2>3, AnswerFacts DEF Crediting
  <2>4. CASE Count(c, "stale", "stale") \/ Count(c, "invalid", "invalid")
    BY <1>0, <2>4, CountFacts DEF Crediting, Counters
  <2> QED BY <2>1, <2>2, <2>3, <2>4 DEF CheckStales, RaiseTip, CheckPow
<1>3. RingOK'
  <2>1. CASE Drop(c)
    BY <1>0, <1>1, <2>1, DropOK DEF IInv
  <2>2. CASE UNCHANGED ring
    BY <1>1, <2>2 DEF IInv, RingOK
  <2> QED BY <2>1, <2>2 DEF CheckStales, RaiseTip, CheckPow
<1>4. LedgerOK' /\ Owed' /\ Paid' /\ NoBlockForgotten'
  <2>1. ~Crediting(c)
    BY <1>0 DEF Crediting
  <2> QED BY <1>1, <1>2, <2>1, QuietStep
<1>5. LockHeld'
  BY <1>0, <1>1, <1>2, LockKept
<1> QED BY <1>2, <1>3, <1>4, <1>5 DEF IInv

LEMMA AcquireInv == ASSUME IInv, NEW c \in Clients, Acquire(c) PROVE IInv'
<1>0. SubOK /\ sub[c].pc = "lock"
  BY DEF IInv, Acquire
<1>1. UNCHANGED <<ring, accepted, rows, credits, failed>>
  BY DEF Acquire
<1>2. SubOK' /\ sub'[c].pc = "sync" /\ \A d \in Clients : d # c => sub'[d] = sub[d]
  BY <1>0, GotoFacts DEF Acquire, Places
<1>3. LedgerOK' /\ Owed' /\ Paid' /\ NoBlockForgotten'
  <2>1. ~Crediting(c) /\ ~Crediting(c)'
    BY <1>0, <1>2 DEF Crediting
  <2> QED BY <1>1, <1>2, <2>1, QuietStep
<1>4. LockHeld'
  BY <1>2, SubmitAssumption DEF Acquire, IInv, LockHeld
<1>5. RingOK'
  BY <1>1 DEF IInv, RingOK
<1> QED BY <1>2, <1>3, <1>4, <1>5 DEF IInv

LEMMA GetInfoInv == ASSUME IInv, NEW c \in Clients, GetInfo(c) PROVE IInv'
<1>0. SubOK /\ sub[c].pc = "sync" /\ ~Crediting(c)
  BY DEF IInv, GetInfo, Crediting
<1>1. UNCHANGED <<ring, accepted, rows, credits, failed>>
  BY DEF GetInfo
<1>2. RingOK'
  BY <1>1 DEF IInv, RingOK
<1>3. CASE Goto(c, "rpc") /\ UNCHANGED lock
  <2>1. SubOK' /\ sub'[c].pc = "rpc" /\ \A d \in Clients : d # c => sub'[d] = sub[d]
    BY <1>0, <1>3, GotoFacts DEF Places
  <2>2. LedgerOK' /\ Owed' /\ Paid' /\ NoBlockForgotten'
    <3>1. ~Crediting(c)'
      BY <2>1 DEF Crediting
    <3> QED BY <1>0, <1>1, <2>1, <3>1, QuietStep
  <2>3. LockHeld'
    BY <1>0, <1>3, <2>1, LockKept
  <2> QED BY <1>2, <2>1, <2>2, <2>3 DEF IInv
<1>4. CASE Count(c, "invalid", "invalid") /\ lock' = Free
  <2>1. /\ SubOK' /\ sub'[c].pc = "tally" /\ sub'[c].owes = "invalid"
        /\ \A d \in Clients : d # c => sub'[d] = sub[d]
    BY <1>0, <1>4, CountFacts DEF Counters
  <2>2. LedgerOK' /\ Owed' /\ Paid' /\ NoBlockForgotten'
    <3>1. ~Crediting(c)'
      BY <2>1 DEF Crediting
    <3> QED BY <1>0, <1>1, <2>1, <3>1, QuietStep
  <2>3. LockHeld'
    BY <1>0, <1>4, <2>1, LockFreed
  <2> QED BY <1>2, <2>1, <2>2, <2>3 DEF IInv
<1> QED BY <1>3, <1>4 DEF GetInfo

LEMMA SolutionType ==
    ASSUME SubOK, NEW c \in Clients, sub[c].pc # "idle"
    PROVE  Solution(sub[c]) \in Solutions
<1>1. sub[c].block \in Job /\ sub[c].nonce \in Nonces
  BY DEF SubOK, Submission
<1> QED BY <1>1 DEF Solution, Solutions

(* The node's answer.  A solution it takes was not taken before, so nobody    *)
(* has been credited with it or is about to be.                               *)
LEMMA SubmitBlockInv == ASSUME IInv, NEW c \in Clients, SubmitBlock(c) PROVE IInv'
<1> DEFINE s == Solution(sub[c])
<1>0. SubOK /\ sub[c].pc = "rpc" /\ s \in Solutions /\ ~Crediting(c)
  BY SolutionType DEF IInv, SubmitBlock, Crediting
<1>1. UNCHANGED <<rows, credits>> /\ lock' = Free /\ Drop(c)
  BY DEF SubmitBlock
<1>2. RingOK'
  BY <1>0, <1>1, DropOK DEF IInv
<1>3. CASE /\ \/ Count(c, "stale", "stale") \/ Count(c, "stale", "invalid")
              \/ Count(c, "invalid", "invalid")
           /\ UNCHANGED <<accepted, failed>>
  <2>1. /\ SubOK' /\ sub'[c].pc = "tally" /\ ~Crediting(c)'
        /\ \A d \in Clients : d # c => sub'[d] = sub[d]
    BY <1>0, <1>3, CountFacts DEF Counters, Crediting
  <2>2. LedgerOK' /\ Owed' /\ Paid' /\ NoBlockForgotten'
    BY <1>0, <1>1, <1>3, <2>1, QuietStep
  <2>3. LockHeld'
    BY <1>0, <1>1, <2>1, LockFreed
  <2> QED BY <1>2, <2>1, <2>2, <2>3 DEF IInv
<1>4. CASE s \notin accepted /\ accepted' = accepted \union {s} /\ Goto(c, "share") /\ failed' = failed
  <2>1. /\ SubOK' /\ sub'[c].pc = "share"
        /\ sub'[c].block = sub[c].block /\ sub'[c].nonce = sub[c].nonce
        /\ \A d \in Clients : d # c => sub'[d] = sub[d]
    BY <1>0, <1>4, GotoFacts DEF Places
  <2>2. LockHeld'
    BY <1>0, <1>1, <2>1, LockFreed
  <2>3. LedgerOK' /\ Paid'
    BY <1>0, <1>1, <1>4 DEF IInv, LedgerOK, Paid
  <2>4. /\ Solution(sub'[c]) = s /\ Crediting(c)'
        /\ \A d \in Clients : d # c => (Crediting(d)' <=> Crediting(d))
    BY <2>1 DEF Solution, Crediting
  <2>5. Owed'
    <3> SUFFICES ASSUME NEW b \in Clients, NEW t \in Solutions, Owes(b, t)', IsHit(t)
                 PROVE  /\ t \in accepted' /\ credits[t] = 0
                        /\ \A d \in Clients : Owes(d, t)' => d = b
      BY <1>1 DEF Owed, IsHit
    <3>1. CASE b = c
      <4>1. t = s
        BY <2>4, <3>1 DEF Owes
      <4>2. credits[s] = 0
        BY <1>0, <1>4, <4>1 DEF IInv, Paid
      <4>3. ASSUME NEW d \in Clients, d # c, Owes(d, t)' PROVE FALSE
        <5>1. Owes(d, s)
          BY <2>1, <2>4, <4>1, <4>3 DEF Owes
        <5> QED BY <1>0, <1>4, <4>1, <5>1 DEF IInv, Owed
      <4> QED BY <1>4, <3>1, <4>1, <4>2, <4>3
    <3>2. CASE b # c
      <4>1. Owes(b, t)
        BY <2>1, <2>4, <3>2 DEF Owes
      <4>2. t \in accepted /\ credits[t] = 0 /\ \A d \in Clients : Owes(d, t) => d = b
        BY <4>1 DEF IInv, Owed
      <4>3. t # s
        BY <1>4, <4>2
      <4>4. ASSUME NEW d \in Clients, Owes(d, t)' PROVE d = b
        <5>1. d # c
          BY <2>4, <4>3, <4>4 DEF Owes
        <5>2. Owes(d, t)
          BY <2>1, <2>4, <4>4, <5>1 DEF Owes
        <5> QED BY <4>2, <5>2
      <4> QED BY <1>4, <4>2, <4>4
    <3> QED BY <3>1, <3>2
  <2>6. NoBlockForgotten'
    <3> SUFFICES ASSUME NEW t \in accepted' \ failed, t \notin rows
                 PROVE  \E d \in Clients : Crediting(d)' /\ Solution(sub'[d]) = t
      BY <1>1, <1>4 DEF NoBlockForgotten
    <3>1. CASE t = s
      BY <2>4, <3>1
    <3>2. CASE t # s
      <4>1. t \in accepted
        BY <1>4, <3>2
      <4>2. PICK d \in Clients : Crediting(d) /\ Solution(sub[d]) = t
        BY <4>1 DEF IInv, NoBlockForgotten
      <4>3. d # c
        BY <1>0, <4>2
      <4> QED BY <2>1, <2>4, <4>2, <4>3
    <3> QED BY <3>1, <3>2
  <2> QED BY <1>2, <2>1, <2>2, <2>3, <2>5, <2>6 DEF IInv
<1>5. CASE /\ accepted' = accepted \union {s} /\ failed' = failed \union {s}
           /\ Count(c, "invalid", "invalid")
  <2>1. /\ SubOK' /\ sub'[c].pc = "tally" /\ ~Crediting(c)'
        /\ \A d \in Clients : d # c => sub'[d] = sub[d]
    BY <1>0, <1>5, CountFacts DEF Counters, Crediting
  <2>0. \A d \in Clients : d # c => (Crediting(d)' <=> Crediting(d))
    BY <2>1 DEF Crediting
  <2>2. LockHeld'
    BY <1>0, <1>1, <2>1, LockFreed
  <2>3. LedgerOK' /\ Paid'
    BY <1>0, <1>1, <1>5 DEF IInv, LedgerOK, Paid
  <2>4. ASSUME NEW d \in Clients, NEW t \in Solutions, Owes(d, t)' PROVE Owes(d, t)
    BY <2>0, <2>1, <2>4 DEF Owes
  <2>5. Owed'
    <3> SUFFICES ASSUME NEW b \in Clients, NEW t \in Solutions, Owes(b, t)', IsHit(t)
                 PROVE  /\ t \in accepted' /\ credits[t] = 0
                        /\ \A d \in Clients : Owes(d, t)' => d = b
      BY <1>1 DEF Owed, IsHit
    <3> QED BY <1>5, <2>4 DEF IInv, Owed
  <2>6. NoBlockForgotten'
    <3> SUFFICES ASSUME NEW t \in accepted' \ failed', t \notin rows
                 PROVE  \E d \in Clients : Crediting(d)' /\ Solution(sub'[d]) = t
      BY <1>1 DEF NoBlockForgotten
    <3>1. t \in accepted \ failed
      BY <1>5
    <3>2. PICK d \in Clients : Crediting(d) /\ Solution(sub[d]) = t
      BY <3>1 DEF IInv, NoBlockForgotten
    <3>3. d # c
      BY <1>0, <3>2
    <3> QED BY <2>0, <2>1, <3>2, <3>3
  <2> QED BY <1>2, <2>1, <2>2, <2>3, <2>5, <2>6 DEF IInv
<1> QED BY <1>3, <1>4, <1>5 DEF SubmitBlock

(* The counting of a share, a block or a refusal. *)
LEMMA CountingInv ==
    ASSUME IInv, NEW c \in Clients, CountShare(c) \/ CountBlock(c) \/ Tally(c)
    PROVE  IInv'
<1>0. SubOK /\ sub[c].pc \in {"share", "block", "tally"} /\ sub[c].pc # "idle"
  BY DEF IInv, CountShare, CountBlock, Tally
<1>1. UNCHANGED <<ring, lock, accepted, rows, credits, failed>>
  BY DEF CountShare, CountBlock, Tally
<1>2. /\ SubOK' /\ sub'[c].pc \in {"idle", "block", "record", "tally"}
      /\ \A d \in Clients : d # c => sub'[d] = sub[d]
      /\ Crediting(c)' <=> Crediting(c)
      /\ Crediting(c) => Solution(sub'[c]) = Solution(sub[c])
  <2>1. CASE CountShare(c) \/ CountBlock(c)
    <3>1. PICK all \in {"shares", "blocks"} : Count(c, all, all)
      BY <2>1 DEF CountShare, CountBlock
    <3>2. Crediting(c)
      BY <2>1 DEF CountShare, CountBlock, Crediting
    <3> QED BY <1>0, <3>1, <3>2, CountFacts DEF Counters, Crediting, Solution
  <2>2. CASE sub[c].pc = "tally" /\ sub[c].owes = "shares" /\ Goto(c, "block")
    BY <1>0, <2>2, GotoFacts DEF Places, Crediting, Solution
  <2>3. CASE sub[c].pc = "tally" /\ sub[c].owes = "blocks" /\ Goto(c, "record")
    BY <1>0, <2>3, GotoFacts DEF Places, Crediting, Solution
  <2>4. CASE sub[c].pc = "tally" /\ sub[c].owes \in {"stale", "invalid"} /\ Answer(c)
    BY <1>0, <2>4, AnswerFacts DEF Crediting
  <2> QED BY <2>1, <2>2, <2>3, <2>4 DEF Tally
<1>3. LedgerOK' /\ Owed' /\ Paid' /\ NoBlockForgotten'
  BY <1>1, <1>2, QuietStep
<1>4. LockHeld'
  BY <1>0, <1>1, <1>2, LockKept
<1>5. RingOK'
  BY <1>1 DEF IInv, RingOK
<1> QED BY <1>2, <1>3, <1>4, <1>5 DEF IInv

(* The row. *)
LEMMA RecordInv == ASSUME IInv, NEW c \in Clients, Record(c) PROVE IInv'
<1> DEFINE s == Solution(sub[c])
<1>0. SubOK /\ sub[c].pc = "record" /\ s \in Solutions
  BY SolutionType DEF IInv, Record
<1>1. UNCHANGED <<ring, lock, accepted>> /\ Answer(c)
  BY DEF Record
<1>2. credits' = [credits EXCEPT ![s] = @ + 1] /\ credits \in [Solutions -> Nat]
  BY DEF Record, IInv, LedgerOK
<1>3. \/ rows' = rows \union {s} /\ failed' = failed
      \/ failed' = failed \union {s} /\ rows' = rows
  BY DEF Record
<1>4. SubOK' /\ sub'[c].pc = "idle" /\ \A d \in Clients : d # c => sub'[d] = sub[d]
  BY <1>0, <1>1, AnswerFacts
<1>13. ~Crediting(c)' /\ \A d \in Clients : d # c => (Crediting(d)' <=> Crediting(d))
  BY <1>4 DEF Crediting
<1>5. RingOK'
  BY <1>1 DEF IInv, RingOK
<1>6. LockHeld'
  BY <1>0, <1>1, <1>4, LockKept
<1>7. LedgerOK'
  BY <1>0, <1>1, <1>2, <1>3 DEF IInv, LedgerOK
<1>8. credits'[s] = credits[s] + 1 /\ \A t \in Solutions : t # s => credits'[t] = credits[t]
  BY <1>0, <1>2
<1>9. Owes(c, s)
  BY <1>0 DEF Owes, Crediting
<1>10. Paid'
  <2> SUFFICES ASSUME NEW t \in Solutions, IsHit(t)
               PROVE  credits'[t] <= 1 /\ (credits'[t] # 0 => t \in accepted)
    BY <1>1 DEF Paid, IsHit
  <2>1. CASE t = s
    BY <1>8, <1>9, <2>1 DEF IInv, Owed
  <2>2. CASE t # s
    BY <1>8, <2>2 DEF IInv, Paid
  <2> QED BY <2>1, <2>2
<1>11. Owed'
  <2> SUFFICES ASSUME NEW b \in Clients, NEW t \in Solutions, Owes(b, t)', IsHit(t)
               PROVE  /\ t \in accepted /\ credits'[t] = 0
                      /\ \A d \in Clients : Owes(d, t)' => d = b
    BY <1>1 DEF Owed, IsHit
  <2>1. ASSUME NEW d \in Clients, Owes(d, t)' PROVE d # c /\ Owes(d, t)
    BY <1>4, <1>13, <2>1 DEF Owes
  <2>2. t # s
    BY <1>9, <2>1 DEF IInv, Owed
  <2> QED BY <1>8, <2>1, <2>2 DEF IInv, Owed
<1>12. NoBlockForgotten'
  <2> SUFFICES ASSUME NEW t \in accepted \ failed', t \notin rows'
               PROVE  \E d \in Clients : Crediting(d)' /\ Solution(sub'[d]) = t
    BY <1>1 DEF NoBlockForgotten
  <2>1. t \in accepted \ failed /\ t \notin rows /\ t # s
    BY <1>3
  <2>2. PICK d \in Clients : Crediting(d) /\ Solution(sub[d]) = t
    BY <2>1 DEF IInv, NoBlockForgotten
  <2>3. d # c
    BY <2>1, <2>2
  <2> QED BY <1>4, <1>13, <2>2, <2>3
<1> QED BY <1>4, <1>5, <1>6, <1>7, <1>10, <1>11, <1>12 DEF IInv

LEMMA NextInv == IInv /\ [Next]_vars => IInv'
<1> SUFFICES ASSUME IInv, [Next]_vars PROVE IInv'
  OBVIOUS
<1>1. ASSUME NEW c \in Clients, Handle(c) PROVE IInv'
  BY <1>1, CheckInv, GetInfoInv, SubmitBlockInv, CountingInv, RecordInv DEF Handle
<1>2. CASE UNCHANGED vars
  BY <1>2 DEF vars, IInv, SubOK, RingOK, LedgerOK, Owed, Owes, Crediting, Paid,
                   NoBlockForgotten, LockHeld
<1> QED BY <1>1, <1>2, PushInv, SubmitInv, AcquireInv DEF Next

LEMMA InvImplies == IInv => CreditedOnce /\ NoBlockForgotten
BY DEF IInv, Paid, IsHit, CreditedOnce

(* Each solved block is credited once, for any number of connections that     *)
(* submit it in any interleaving, refusals, lost answers and database errors  *)
(* included (HandleSubmit, submit).                                           *)
THEOREM CreditedOnceAlways == Spec => []CreditedOnce
BY InitInv, NextInv, InvImplies, PTL DEF Spec

(* A block the node took is in the database, or its handler is about to put   *)
(* it there, or its answer or its row was lost (HandleSubmit, submit).        *)
THEOREM NoBlockForgottenAlways == Spec => []NoBlockForgotten
BY InitInv, NextInv, InvImplies, PTL DEF Spec

(* submitLock excludes: it is held by the one connection that talks to the    *)
(* node, and by nobody else (submit).                                         *)
THEOREM LockHeldAlways == Spec => []LockHeld
<1>1. IInv => LockHeld
  BY DEF IInv
<1> QED BY <1>1, InitInv, NextInv, PTL DEF Spec

-----------------------------------------------------------------------------
(* Type correctness                                                           *)

CountsOK == tip \in Nat /\ stats \in [Clients -> Stats] /\ overall \in Stats

Raised(s, what) == [s EXCEPT ![what] = @ + 1]

LEMMA RaiseFacts ==
    ASSUME NEW s \in Stats, NEW what \in Counters
    PROVE  /\ Raised(s, what) \in Stats /\ Raised(s, what)[what] = s[what] + 1
           /\ \A other \in Counters : other # what => Raised(s, what)[other] = s[other]
<1>1. CASE what = "shares"
  BY <1>1 DEF Stats, Counters, Raised
<1>2. CASE what = "stale"
  BY <1>2 DEF Stats, Counters, Raised
<1>3. CASE what = "invalid"
  BY <1>3 DEF Stats, Counters, Raised
<1>4. CASE what = "blocks"
  BY <1>4 DEF Stats, Counters, Raised
<1> QED BY <1>1, <1>2, <1>3, <1>4 DEF Counters

(* The first of two Adds touches the connection's counters, the second the    *)
(* bridge's.                                                                  *)
LEMMA CountStats ==
    ASSUME CountsOK, NEW c \in Clients, NEW mine \in Counters, NEW all, Count(c, mine, all)
    PROVE  /\ stats' \in [Clients -> Stats]
           /\ stats'[c][mine] = stats[c][mine] + 1
           /\ \A other \in Counters : other # mine => stats'[c][other] = stats[c][other]
           /\ \A d \in Clients : d # c => stats'[d] = stats[d]
<1>1. PICK r : r = Raised(stats[c], mine)
  OBVIOUS
<1>2. stats \in [Clients -> Stats] /\ stats[c] \in Stats
  BY DEF CountsOK
<1>3. stats' = [stats EXCEPT ![c] = r]
  BY <1>1, <1>2 DEF Count, Raised
<1>4. /\ r \in Stats /\ r[mine] = stats[c][mine] + 1
      /\ \A other \in Counters : other # mine => r[other] = stats[c][other]
  BY <1>1, <1>2, RaiseFacts
<1>5. stats'[c] = r /\ \A d \in Clients : d # c => stats'[d] = stats[d]
  BY <1>2, <1>3
<1> QED BY <1>2, <1>3, <1>4, <1>5

LEMMA TallyStats ==
    ASSUME SubOK, CountsOK, NEW c \in Clients, Tally(c)
    PROVE  /\ stats' = stats /\ overall' \in Stats /\ sub[c].owes \in Counters
           /\ overall'[sub[c].owes] = overall[sub[c].owes] + 1
           /\ \A other \in Counters : other # sub[c].owes => overall'[other] = overall[other]
<1>1. PICK o : o = sub[c].owes
  OBVIOUS
<1>2. o \in Counters /\ overall \in Stats
  BY <1>1 DEF SubOK, Submission, CountsOK
<1>3. overall' = Raised(overall, o) /\ stats' = stats
  BY <1>1 DEF Tally, Raised
<1> QED BY <1>1, <1>2, <1>3, RaiseFacts

(* Which steps count, and what *)
Pairs == {<<"shares", "shares">>, <<"blocks", "blocks">>, <<"stale", "stale">>,
          <<"stale", "invalid">>, <<"invalid", "invalid">>}

Counting(c) == \E pair \in Pairs : Count(c, pair[1], pair[2])

LEMMA StepCounts ==
    ASSUME IInv, [Next]_vars
    PROVE  \/ UNCHANGED <<stats, overall>> /\ \A W \in SUBSET Counters : Owing(W)' = Owing(W)
           \/ \E c \in Clients : sub[c].pc \notin {"idle", "tally"} /\ overall' = overall
                                  /\ Counting(c)
           \/ \E c \in Clients : Tally(c)
<1>1. ASSUME UNCHANGED sub PROVE \A W \in SUBSET Counters : Owing(W)' = Owing(W)
  BY <1>1 DEF Owing
<1>2. ASSUME NEW c \in Clients, sub[c].pc # "tally", sub'[c].pc # "tally",
             \A d \in Clients : d # c => sub'[d] = sub[d]
      PROVE  \A W \in SUBSET Counters : Owing(W)' = Owing(W)
  BY <1>2 DEF Owing
<1>3. CASE UNCHANGED vars
  BY <1>1, <1>3 DEF vars
<1>4. ASSUME NEW c \in Clients, NEW idx \in Slots, NEW job \in Job, Push(c, idx, job)
      PROVE  UNCHANGED <<stats, overall>> /\ \A W \in SUBSET Counters : Owing(W)' = Owing(W)
  BY <1>1, <1>4 DEF Push
<1>5. ASSUME NEW c \in Clients, NEW id \in Slots, NEW mined \in Job, NEW nonce \in Nonces,
             Submit(c, id, mined, nonce)
      PROVE  UNCHANGED <<stats, overall>> /\ \A W \in SUBSET Counters : Owing(W)' = Owing(W)
  <2>1. /\ sub[c].pc = "idle" /\ sub'[c].pc # "tally" /\ UNCHANGED <<stats, overall>>
        /\ \A d \in Clients : d # c => sub'[d] = sub[d]
    <3>1. sub \in [Clients -> Submission] /\ sub[c] \in Submission
      BY DEF IInv, SubOK
    <3> QED BY <1>5, <3>1 DEF Submit, Submission
  <2> QED BY <1>2, <2>1
<1>6. ASSUME NEW c \in Clients, Acquire(c) \/ Handle(c), ~Tally(c)
      PROVE  \/ UNCHANGED <<stats, overall>> /\ \A W \in SUBSET Counters : Owing(W)' = Owing(W)
             \/ sub[c].pc \notin {"idle", "tally"} /\ overall' = overall /\ Counting(c)
  <2>1. sub[c].pc \notin {"idle", "tally"} /\ overall' = overall /\ SubOK
    BY <1>6 DEF IInv, Acquire, Handle, CheckStales, RaiseTip, CheckPow, GetInfo, SubmitBlock,
                CountShare, CountBlock, Record
  <2>2. \/ stats' = stats /\ (Answer(c) \/ \E pc \in Places : Goto(c, pc))
        \/ Count(c, "shares", "shares") \/ Count(c, "blocks", "blocks")
        \/ Count(c, "stale", "stale") \/ Count(c, "stale", "invalid")
        \/ Count(c, "invalid", "invalid")
    BY <1>6 DEF Acquire, Handle, CheckStales, RaiseTip, CheckPow, GetInfo, SubmitBlock,
                CountShare, CountBlock, Record, Places
  <2>3. CASE stats' = stats /\ (Answer(c) \/ \E pc \in Places : Goto(c, pc))
    <3>1. sub'[c].pc # "tally" /\ \A d \in Clients : d # c => sub'[d] = sub[d]
      BY <2>1, <2>3, AnswerFacts, GotoFacts DEF Places
    <3> QED BY <1>2, <2>1, <2>3, <3>1
  <2>4. CASE \/ Count(c, "shares", "shares") \/ Count(c, "blocks", "blocks")
             \/ Count(c, "stale", "stale") \/ Count(c, "stale", "invalid")
             \/ Count(c, "invalid", "invalid")
    BY <2>1, <2>4 DEF Counting, Pairs
  <2> QED BY <2>2, <2>3, <2>4
<1> QED BY <1>3, <1>4, <1>5, <1>6 DEF Next

LEMMA CountsNext == IInv /\ CountsOK /\ [Next]_vars => CountsOK'
<1> SUFFICES ASSUME IInv, CountsOK, [Next]_vars PROVE CountsOK'
  OBVIOUS
<1>1. tip' \in Nat
  <2>1. ASSUME NEW c \in Clients, RaiseTip(c) PROVE tip' \in Nat
    <3>1. sub[c].block \in Job
      BY <2>1 DEF IInv, SubOK, RaiseTip
    <3> QED BY <2>1, <3>1, SubmitAssumption DEF RaiseTip
  <2>2. tip' = tip \/ \E c \in Clients : RaiseTip(c)
    BY DEF vars, Next, Handle, Push, Submit, Acquire, CheckStales, CheckPow, GetInfo, SubmitBlock,
           CountShare, CountBlock, Tally, Record
  <2> QED BY <2>1, <2>2 DEF CountsOK
<1>2. CASE UNCHANGED <<stats, overall>>
  BY <1>1, <1>2 DEF CountsOK
<1>3. ASSUME NEW c \in Clients, overall' = overall, Counting(c) PROVE CountsOK'
  <2>1. PICK mine \in Counters, all \in Counters : Count(c, mine, all)
    BY <1>3 DEF Counting, Pairs, Counters
  <2> QED BY <1>1, <1>3, <2>1, CountStats DEF CountsOK
<1>4. ASSUME NEW c \in Clients, Tally(c) PROVE CountsOK'
  BY <1>1, <1>4, TallyStats DEF CountsOK, IInv
<1> QED BY <1>2, <1>3, <1>4, StepCounts

(* The state keeps its shape, and submitLock is held by the connection that   *)
(* talks to the node and by no other (HandleSubmit, submit).                  *)
THEOREM TypeCorrect == Spec => []TypeOK
<1>1. Init => CountsOK
  BY DEF Init, CountsOK, Stats, NoStats
<1>2. IInv /\ CountsOK => TypeOK
  BY DEF IInv, SubOK, RingOK, LedgerOK, LockHeld, CountsOK, TypeOK
<1> QED BY <1>1, <1>2, InitInv, NextInv, CountsNext, PTL DEF Spec

-----------------------------------------------------------------------------
(* The totals                                                                 *)

(* One of the counters of all connections, as a function to be summed *)
Counts(counts, what) == [c \in Clients |-> counts[c][what]]

LEMMA TotalIsSum ==
    ASSUME NEW counts, NEW what
    PROVE  Total(counts, what) = SumFunctionOnSet(Counts(counts, what), Clients)
BY DEF Total, SumFunction, Counts

(* A total of counters is a number, stays as it is when they do, and grows by *)
(* one when one of them does.                                                 *)
LEMMA TotalType ==
    ASSUME NEW counts \in [Clients -> Stats], NEW what \in DOMAIN NoStats
    PROVE  Total(counts, what) \in Nat
<1>1. \A c \in Clients : Counts(counts, what)[c] \in Nat
  BY DEF Counts, Stats, NoStats
<1> QED BY <1>1, TotalIsSum, SumType, SubmitAssumption

LEMMA TotalSame ==
    ASSUME NEW before, NEW after, NEW what, \A c \in Clients : after[c][what] = before[c][what]
    PROVE  Total(after, what) = Total(before, what)
<1>1. Counts(after, what) = Counts(before, what)
  BY DEF Counts
<1> QED BY <1>1, TotalIsSum

LEMMA TotalGrows ==
    ASSUME NEW before \in [Clients -> Stats], NEW after, NEW what \in DOMAIN NoStats,
           NEW c \in Clients, after[c][what] = before[c][what] + 1,
           \A d \in Clients : d # c => after[d][what] = before[d][what]
    PROVE  Total(after, what) = Total(before, what) + 1
<1> DEFINE g == Counts(before, what)
           h == Counts(after, what)
<1>1. \A d \in Clients : g[d] \in Nat
  BY DEF Counts, Stats, NoStats
<1>2. h[c] = g[c] + 1 /\ \A d \in Clients : d # c => h[d] = g[d]
  BY DEF Counts
<1> HIDE DEF g, h
<1>3. SumFunctionOnSet(h, Clients) = SumFunctionOnSet(g, Clients) + 1
  <2>1. IsFiniteSet(Clients)
    BY SubmitAssumption
  <2>2. PICK k \in Nat : k = 1
    OBVIOUS
  <2>3. h[c] = g[c] + k
    BY <1>2, <2>2
  <2>4. \A d \in Clients : d # c => h[d] = g[d]
    BY <1>2
  <2>5. SumFunctionOnSet(h, Clients) = SumFunctionOnSet(g, Clients) + k
    BY <1>1, <2>1, <2>3, <2>4, SumRaise
  <2> QED BY <2>2, <2>5
<1> QED BY <1>3, TotalIsSum DEF g, h

LEMMA CardType == ASSUME NEW S \in SUBSET Clients PROVE Cardinality(S) \in Nat
BY SubmitAssumption, FS_Subset, FS_CardinalityType

LEMMA CardAdd ==
    ASSUME NEW S \in SUBSET Clients, NEW c \in Clients, c \notin S
    PROVE  Cardinality(S \union {c}) = Cardinality(S) + 1
BY SubmitAssumption, FS_Subset, FS_AddElement

LEMMA CardDrop ==
    ASSUME NEW S \in SUBSET Clients, NEW c \in S
    PROVE  Cardinality(S) = Cardinality(S \ {c}) + 1
<1>1. S = (S \ {c}) \union {c}
  OBVIOUS
<1> QED BY <1>1, CardAdd

(* The first Add: the connection's counter is one more, and so are the        *)
(* handlers that owe the bridge's.                                            *)
LEMMA CountTotals ==
    ASSUME SubOK, CountsOK, TotalsAgree, NEW c \in Clients,
           sub[c].pc \notin {"idle", "tally"}, overall' = overall, Counting(c)
    PROVE  TotalsAgree'
<1>1. PICK mine \in Counters, all \in Counters :
          <<mine, all>> \in Pairs /\ Count(c, mine, all)
  BY DEF Counting, Pairs, Counters
<1>2. stats \in [Clients -> Stats]
  BY DEF CountsOK
<1>3. PICK after : after = stats'
  OBVIOUS
<1>4. /\ Total(after, mine) = Total(stats, mine) + 1
      /\ \A what \in Counters : what # mine => Total(after, what) = Total(stats, what)
  <2>1. /\ after[c][mine] = stats[c][mine] + 1
        /\ \A other \in Counters : other # mine => after[c][other] = stats[c][other]
        /\ \A d \in Clients : d # c => after[d] = stats[d]
    BY <1>1, <1>3, CountStats
  <2>2. Total(after, mine) = Total(stats, mine) + 1
    BY <1>1, <1>2, <2>1, TotalGrows DEF NoStats, Counters
  <2>3. ASSUME NEW what \in Counters, what # mine PROVE Total(after, what) = Total(stats, what)
    <3>1. \A d \in Clients : after[d][what] = stats[d][what]
      BY <2>1, <2>3
    <3> QED BY <3>1, TotalSame
  <2> QED BY <2>2, <2>3
<1>5. ASSUME NEW W \in SUBSET Counters
      PROVE  /\ all \in W => Cardinality(Owing(W)') = Cardinality(Owing(W)) + 1
             /\ all \notin W => Cardinality(Owing(W)') = Cardinality(Owing(W))
             /\ Cardinality(Owing(W)) \in Nat
  <2>1. /\ sub'[c].pc = "tally" /\ sub'[c].owes = all
        /\ \A d \in Clients : d # c => sub'[d] = sub[d]
    BY <1>1, CountFacts
  <2>2. c \notin Owing(W) /\ Owing(W) \in SUBSET Clients
    BY DEF Owing
  <2>3. all \in W => Owing(W)' = Owing(W) \union {c}
    BY <2>1 DEF Owing
  <2>4. all \notin W => Owing(W)' = Owing(W)
    BY <2>1, <2>2 DEF Owing
  <2> QED BY <2>2, <2>3, <2>4, CardAdd, CardType
<1>6. \A what \in Counters : Total(stats, what) \in Nat /\ overall[what] \in Nat
  BY <1>2, TotalType DEF NoStats, Counters, CountsOK, Stats
<1>7. /\ Cardinality(Owing({"shares"})) \in Nat /\ Cardinality(Owing({"blocks"})) \in Nat
      /\ Cardinality(Owing({"stale", "invalid"})) \in Nat
      /\ Cardinality(Owing({"shares"})') = Cardinality(Owing({"shares"})) + IF all = "shares" THEN 1 ELSE 0
      /\ Cardinality(Owing({"blocks"})') = Cardinality(Owing({"blocks"})) + IF all = "blocks" THEN 1 ELSE 0
      /\ Cardinality(Owing({"stale", "invalid"})')
           = Cardinality(Owing({"stale", "invalid"})) + IF all \in {"stale", "invalid"} THEN 1 ELSE 0
  BY <1>5 DEF Counters
<1>8. TotalsAgree' = (
        /\ overall.shares + Cardinality(Owing({"shares"})') = Total(after, "shares")
        /\ overall.blocks + Cardinality(Owing({"blocks"})') = Total(after, "blocks")
        /\ overall.stale + overall.invalid + Cardinality(Owing({"stale", "invalid"})')
             = Total(after, "stale") + Total(after, "invalid"))
  BY <1>3 DEF TotalsAgree
<1>9. CASE mine = "shares" /\ all = "shares"
  <2>1. /\ Cardinality(Owing({"shares"})') = Cardinality(Owing({"shares"})) + 1
        /\ Cardinality(Owing({"blocks"})') = Cardinality(Owing({"blocks"})) + 0
        /\ Cardinality(Owing({"stale", "invalid"})') = Cardinality(Owing({"stale", "invalid"}))
    BY <1>7, <1>9
  <2>2. /\ Total(after, "shares") = Total(stats, "shares") + 1
        /\ Total(after, "blocks") = Total(stats, "blocks") + 0
        /\ Total(after, "stale") = Total(stats, "stale")
        /\ Total(after, "invalid") = Total(stats, "invalid")
    BY <1>4, <1>6, <1>9 DEF Counters
  <2>3. overall.shares \in Nat /\ overall.blocks \in Nat
    BY <1>6 DEF Counters
  <2> QED BY <1>6, <1>7, <1>8, <2>1, <2>2, <2>3 DEF TotalsAgree, Counters
<1>10. CASE mine = "blocks" /\ all = "blocks"
  <2>1. /\ Cardinality(Owing({"shares"})') = Cardinality(Owing({"shares"})) + 0
        /\ Cardinality(Owing({"blocks"})') = Cardinality(Owing({"blocks"})) + 1
        /\ Cardinality(Owing({"stale", "invalid"})') = Cardinality(Owing({"stale", "invalid"}))
    BY <1>7, <1>10
  <2>2. /\ Total(after, "shares") = Total(stats, "shares") + 0
        /\ Total(after, "blocks") = Total(stats, "blocks") + 1
        /\ Total(after, "stale") = Total(stats, "stale")
        /\ Total(after, "invalid") = Total(stats, "invalid")
    BY <1>4, <1>6, <1>10 DEF Counters
  <2>3. overall.shares \in Nat /\ overall.blocks \in Nat
    BY <1>6 DEF Counters
  <2> QED BY <1>6, <1>7, <1>8, <2>1, <2>2, <2>3 DEF TotalsAgree, Counters
<1>11. CASE mine = "stale" /\ all \in {"stale", "invalid"}
  BY <1>4, <1>6, <1>7, <1>8, <1>11 DEF TotalsAgree, Counters
<1>12. CASE mine = "invalid" /\ all = "invalid"
  BY <1>4, <1>6, <1>7, <1>8, <1>12 DEF TotalsAgree, Counters
<1> QED BY <1>1, <1>9, <1>10, <1>11, <1>12 DEF Pairs

(* The second Add pays what the handler owed. *)
LEMMA TallyTotals ==
    ASSUME SubOK, CountsOK, TotalsAgree, NEW c \in Clients, Tally(c)
    PROVE  TotalsAgree'
<1>1. PICK o \in Counters : o = sub[c].owes
  BY DEF SubOK, Submission
<1>2. /\ stats' = stats /\ overall'[o] = overall[o] + 1
      /\ \A other \in Counters : other # o => overall'[other] = overall[other]
  BY <1>1, TallyStats
<1>3. sub[c].pc = "tally" /\ sub'[c].pc # "tally" /\ \A d \in Clients : d # c => sub'[d] = sub[d]
  <2>1. sub[c].pc = "tally" /\ (Answer(c) \/ Goto(c, "block") \/ Goto(c, "record"))
    BY DEF Tally
  <2> QED BY <2>1, AnswerFacts, GotoFacts DEF Places
<1>4. ASSUME NEW W \in SUBSET Counters
      PROVE  /\ o \in W => Cardinality(Owing(W)) = Cardinality(Owing(W)') + 1
             /\ o \notin W => Cardinality(Owing(W)') = Cardinality(Owing(W))
             /\ Cardinality(Owing(W)') \in Nat
  <2>1. PICK new : new = Owing(W)'
    OBVIOUS
  <2>2. Owing(W) \in SUBSET Clients /\ new \in SUBSET Clients
    BY <2>1 DEF Owing
  <2>3. o \in W => c \in Owing(W) /\ new = Owing(W) \ {c}
    BY <1>1, <1>3, <2>1 DEF Owing
  <2>4. o \notin W => new = Owing(W)
    BY <1>1, <1>3, <2>1 DEF Owing
  <2> QED BY <2>1, <2>2, <2>3, <2>4, CardDrop, CardType
<1>5. \A what \in Counters : overall[what] \in Nat
  BY DEF Counters, CountsOK, Stats
<1>6. /\ Cardinality(Owing({"shares"})') \in Nat /\ Cardinality(Owing({"blocks"})') \in Nat
      /\ Cardinality(Owing({"stale", "invalid"})') \in Nat
      /\ Cardinality(Owing({"shares"})) = Cardinality(Owing({"shares"})') + IF o = "shares" THEN 1 ELSE 0
      /\ Cardinality(Owing({"blocks"})) = Cardinality(Owing({"blocks"})') + IF o = "blocks" THEN 1 ELSE 0
      /\ Cardinality(Owing({"stale", "invalid"}))
           = Cardinality(Owing({"stale", "invalid"})') + IF o \in {"stale", "invalid"} THEN 1 ELSE 0
  BY <1>4 DEF Counters
<1>7. TotalsAgree' = (
        /\ overall'.shares + Cardinality(Owing({"shares"})') = Total(stats, "shares")
        /\ overall'.blocks + Cardinality(Owing({"blocks"})') = Total(stats, "blocks")
        /\ overall'.stale + overall'.invalid + Cardinality(Owing({"stale", "invalid"})')
             = Total(stats, "stale") + Total(stats, "invalid"))
  BY <1>2 DEF TotalsAgree
<1>8. CASE o = "shares"
  <2>1. /\ Cardinality(Owing({"shares"})) = Cardinality(Owing({"shares"})') + 1
        /\ Cardinality(Owing({"blocks"})) = Cardinality(Owing({"blocks"})') + 0
        /\ Cardinality(Owing({"stale", "invalid"})) = Cardinality(Owing({"stale", "invalid"})')
    BY <1>6, <1>8
  <2>2. /\ overall'.shares = overall.shares + 1 /\ overall'.blocks = overall.blocks + 0
        /\ overall'.stale = overall.stale /\ overall'.invalid = overall.invalid
        /\ overall.shares \in Nat /\ overall.blocks \in Nat
    BY <1>2, <1>5, <1>8 DEF Counters
  <2> QED BY <1>5, <1>6, <1>7, <2>1, <2>2 DEF TotalsAgree, Counters
<1>9. CASE o = "blocks"
  <2>1. /\ Cardinality(Owing({"shares"})) = Cardinality(Owing({"shares"})') + 0
        /\ Cardinality(Owing({"blocks"})) = Cardinality(Owing({"blocks"})') + 1
        /\ Cardinality(Owing({"stale", "invalid"})) = Cardinality(Owing({"stale", "invalid"})')
    BY <1>6, <1>9
  <2>2. /\ overall'.shares = overall.shares + 0 /\ overall'.blocks = overall.blocks + 1
        /\ overall'.stale = overall.stale /\ overall'.invalid = overall.invalid
        /\ overall.shares \in Nat /\ overall.blocks \in Nat
    BY <1>2, <1>5, <1>9 DEF Counters
  <2> QED BY <1>5, <1>6, <1>7, <2>1, <2>2 DEF TotalsAgree, Counters
<1>10. CASE o = "stale"
  BY <1>2, <1>5, <1>6, <1>7, <1>10 DEF TotalsAgree, Counters
<1>11. CASE o = "invalid"
  BY <1>2, <1>5, <1>6, <1>7, <1>11 DEF TotalsAgree, Counters
<1> QED BY <1>8, <1>9, <1>10, <1>11 DEF Counters

(* However the handlers' Adds interleave, the bridge's totals lag behind the  *)
(* sums of the connections' by the handlers between their two Adds and by no  *)
(* more, for any number of connections (HandleSubmit, submit).                *)
THEOREM TotalsAgreeAlways == Spec => []TotalsAgree
<1>1. Init => CountsOK
  BY DEF Init, CountsOK, Stats, NoStats
<1>2. Init => TotalsAgree
  <2> SUFFICES ASSUME Init PROVE TotalsAgree
    OBVIOUS
  <2>1. \A what \in DOMAIN NoStats : Total(stats, what) = 0
    <3> SUFFICES ASSUME NEW what \in DOMAIN NoStats PROVE Total(stats, what) = 0
      OBVIOUS
    <3>1. \A c \in Clients : Counts(stats, what)[c] = 0
      BY DEF Counts, Init, NoStats
    <3> QED BY <3>1, TotalIsSum, SumZero, SubmitAssumption
  <2>2. ASSUME NEW W PROVE Cardinality(Owing(W)) = 0
    <3>1. Owing(W) = {}
      BY DEF Init, Owing
    <3> QED BY <3>1, FS_EmptySet
  <2> QED BY <2>1, <2>2 DEF Init, NoStats, TotalsAgree
<1>3. IInv /\ CountsOK /\ TotalsAgree /\ [Next]_vars => TotalsAgree'
  <2> SUFFICES ASSUME IInv, CountsOK, TotalsAgree, [Next]_vars PROVE TotalsAgree'
    OBVIOUS
  <2>1. CASE UNCHANGED <<stats, overall>> /\ \A W \in SUBSET Counters : Owing(W)' = Owing(W)
    <3>1. /\ Owing({"shares"})' = Owing({"shares"}) /\ Owing({"blocks"})' = Owing({"blocks"})
          /\ Owing({"stale", "invalid"})' = Owing({"stale", "invalid"})
      BY <2>1 DEF Counters
    <3> QED BY <2>1, <3>1 DEF TotalsAgree
  <2> QED BY <2>1, StepCounts, CountTotals, TallyTotals DEF IInv
<1> QED BY <1>1, <1>2, <1>3, InitInv, NextInv, CountsNext, PTL DEF Spec

=============================================================================
