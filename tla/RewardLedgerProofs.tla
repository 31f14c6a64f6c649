------------------------- MODULE RewardLedgerProofs -------------------------
(* Proofs about RewardLedger, for every set of blocks, wallets and chains,   *)
(* every number of goroutines and every bound.                               *)
EXTENDS RewardLedger, TLAPS

-----------------------------------------------------------------------------
(* Type correctness                                                          *)

LEMMA EmptySeq == <<>> \in Seq(Accepting)
  OBVIOUS

LEMMA IdleType == Idle \in Worker /\ Idle.pc = "idle" /\ Idle.blk = NoHash
  BY EmptySeq DEF Idle, Worker, Status

LEMMA FreshType ==
    ASSUME NEW b \in Blocks
    PROVE  /\ Fresh(b) \in Worker
           /\ Fresh(b).pc = "attempt"
           /\ Fresh(b).blk = b
           /\ Fresh(b).attempt = 0
           /\ Fresh(b).status = "red"
           /\ Fresh(b).reward = 0
  BY EmptySeq DEF Fresh, Worker, Status

(* What the steps inside fetchAndUpdateReward do to a goroutine's locals.    *)
LEMMA NextAttemptType ==
    ASSUME NEW p \in Worker, p.attempt < MaxAttempts
    PROVE  /\ NextAttempt(p) \in Worker
           /\ NextAttempt(p).pc \in {"attempt", "final"}
           /\ NextAttempt(p).blk = p.blk
           /\ NextAttempt(p).attempt < MaxAttempts
           /\ NextAttempt(p).status = p.status
           /\ NextAttempt(p).reward = p.reward
  <1>0. MaxAttempts \in Nat /\ p.attempt \in Nat
    BY LedgerAssumption DEF Worker
  <1>1. CASE p.attempt + 1 < MaxAttempts
    <2> DEFINE q == [p EXCEPT !.pc = "attempt", !.attempt = p.attempt + 1]
    <2>1. NextAttempt(p) = q
      BY <1>1 DEF NextAttempt
    <2>2. q \in Worker
      <3> DEFINE r == [p EXCEPT !.pc = "attempt"]
      <3>1. r \in Worker
        BY DEF Worker
      <3>2. q = [r EXCEPT !.attempt = p.attempt + 1]
        OBVIOUS
      <3>3. p.attempt + 1 \in Nat
        BY <1>0
      <3> HIDE DEF r, q
      <3> QED BY <3>1, <3>2, <3>3 DEF Worker
    <2>3. q.pc = "attempt" /\ q.attempt = p.attempt + 1
      BY DEF Worker
    <2>4. q.blk = p.blk /\ q.status = p.status /\ q.reward = p.reward
      BY DEF Worker
    <2> HIDE DEF q
    <2> QED BY <1>1, <2>1, <2>2, <2>3, <2>4
  <1>2. CASE ~(p.attempt + 1 < MaxAttempts)
    BY <1>0, <1>2 DEF NextAttempt, Worker
  <1> QED BY <1>1, <1>2

LEMMA KeepWalkingType ==
    ASSUME NEW p \in Worker, p.pc = "walk", p.attempt < MaxAttempts,
           p.pos \in 1..Len(p.seen)
    PROVE  /\ KeepWalking(p) \in Worker
           /\ KeepWalking(p).pc \in {"attempt", "walk", "final"}
           /\ KeepWalking(p).blk = p.blk
           /\ KeepWalking(p).attempt < MaxAttempts
           /\ KeepWalking(p).status = p.status
           /\ KeepWalking(p).reward = p.reward
           /\ KeepWalking(p).pc = "walk" =>
                /\ KeepWalking(p).seen = p.seen
                /\ KeepWalking(p).pos = p.pos + 1
                /\ KeepWalking(p).pos \in 1..Len(p.seen)
  <1>1. CASE p.pos < Len(p.seen)
    <2>1. Len(p.seen) \in Nat /\ p.pos \in Nat \ {0}
      BY DEF Worker
    <2> QED BY <1>1, <2>1 DEF KeepWalking, Worker
  <1>2. CASE ~(p.pos < Len(p.seen))
    BY <1>2, NextAttemptType DEF KeepWalking
  <1> QED BY <1>1, <1>2

LEMMA ConcludeType ==
    ASSUME NEW p \in Worker, NEW status \in Status, NEW reward \in Nat
    PROVE  /\ Conclude(p, status, reward) \in Worker
           /\ Conclude(p, status, reward).pc = "final"
           /\ Conclude(p, status, reward).blk = p.blk
           /\ Conclude(p, status, reward).attempt = p.attempt
           /\ Conclude(p, status, reward).status = status
           /\ Conclude(p, status, reward).reward = reward
  BY DEF Conclude, Worker

LEMMA StartWalkType ==
    ASSUME TypeOK, NEW p \in Worker
    PROVE  /\ StartWalk(p) \in Worker
           /\ StartWalk(p).pc = "walk"
           /\ StartWalk(p).blk = p.blk
           /\ StartWalk(p).attempt = p.attempt
           /\ StartWalk(p).seen = chain
           /\ StartWalk(p).pos = 1
           /\ StartWalk(p).status = p.status
           /\ StartWalk(p).reward = p.reward
  <1> DEFINE q == [p EXCEPT !.pc = "walk"]
             r == [q EXCEPT !.seen = chain]
             s == [r EXCEPT !.pos = 1]
  <1>1. q \in Worker /\ q.pc = "walk" /\ q.blk = p.blk /\ q.attempt = p.attempt
        /\ q.status = p.status /\ q.reward = p.reward
    BY DEF Worker
  <1>2. chain \in Seq(Accepting)
    BY LedgerAssumption DEF TypeOK
  <1> HIDE DEF q
  <1>3. r \in Worker /\ r.pc = "walk" /\ r.blk = p.blk /\ r.attempt = p.attempt
        /\ r.status = p.status /\ r.reward = p.reward /\ r.seen = chain
    BY <1>1, <1>2 DEF Worker
  <1> HIDE DEF r
  <1>6. 1 \in Nat \ {0}
    OBVIOUS
  <1>4. s \in Worker /\ s.pc = "walk" /\ s.blk = p.blk /\ s.attempt = p.attempt
        /\ s.status = p.status /\ s.reward = p.reward /\ s.seen = chain /\ s.pos = 1
    BY <1>3, <1>6 DEF Worker
  <1>5. StartWalk(p) = s
    BY DEF StartWalk, s, r, q
  <1> QED BY <1>4, <1>5

(* What one turn of the walk decides, case by case. *)
LEMMA InspectCases ==
    ASSUME TypeOK, NEW p \in Worker, p.pc = "walk", WorkerOK(p), NEW a \in Accepting
    PROVE  /\ Paid[a][Payee[p.blk]] \in Nat
           /\ \/ p.blk \in Reds[a] \ Blues[a] /\ Inspect(p, a) = Conclude(p, "red", 0)
              \/ p.blk \notin Reds[a] \union Blues[a] /\ Inspect(p, a) = KeepWalking(p)
              \/ p.blk \in Blues[a] /\ Inspect(p, a) = Conclude(p, "blue", 0)
                 /\ Paid[a][Payee[p.blk]] = 0
              \/ p.blk \in Blues[a] /\ Inspect(p, a) = Conclude(p, "merge_duplicate", 0)
                 /\ Paid[a][Payee[p.blk]] > 0 /\ AlreadyBooked(p.blk, a)
              \/ p.blk \in Blues[a] /\ Inspect(p, a) = [p EXCEPT !.pc = "book"]
                 /\ Paid[a][Payee[p.blk]] > 0 /\ ~AlreadyBooked(p.blk, a)
  <1>1. p.blk \in Blocks
    BY DEF WorkerOK
  <1>2. Paid[a][Payee[p.blk]] \in Nat
    BY <1>1, LedgerAssumption
  <1> QED BY <1>2 DEF Inspect

LEMMA BookType ==
    ASSUME NEW p \in Worker
    PROVE  /\ [p EXCEPT !.pc = "book"] \in Worker
           /\ [p EXCEPT !.pc = "book"].pc = "book"
           /\ [p EXCEPT !.pc = "book"].blk = p.blk
           /\ [p EXCEPT !.pc = "book"].attempt = p.attempt
           /\ [p EXCEPT !.pc = "book"].seen = p.seen
           /\ [p EXCEPT !.pc = "book"].pos = p.pos
           /\ [p EXCEPT !.pc = "book"].status = p.status
           /\ [p EXCEPT !.pc = "book"].reward = p.reward
  BY DEF Worker

(* A step of one goroutine that leaves it well formed. *)
LEMMA WorkStep ==
    ASSUME TypeOK, NEW w \in Workers, NEW q \in Worker, WorkerOK(q),
           work' = [work EXCEPT ![w] = q]
    PROVE  /\ work' \in [Workers -> Worker]
           /\ \A v \in Workers : WorkerOK(work[v])'
           /\ work'[w] = q
           /\ \A v \in Workers : v # w => work'[v] = work[v]
  BY DEF TypeOK, WorkerOK

LEMMA KeepWalkingOK ==
    ASSUME NEW p \in Worker, p.pc = "walk", WorkerOK(p)
    PROVE  WorkerOK(KeepWalking(p))
  BY KeepWalkingType DEF WorkerOK

LEMMA ConcludeOK ==
    ASSUME NEW p \in Worker, p.pc # "idle", WorkerOK(p),
           NEW status \in Status, NEW reward \in Nat
    PROVE  WorkerOK(Conclude(p, status, reward))
  BY ConcludeType DEF WorkerOK

LEMMA InspectOK ==
    ASSUME TypeOK, NEW p \in Worker, p.pc = "walk", WorkerOK(p), NEW a \in Accepting
    PROVE  /\ Inspect(p, a) \in Worker
           /\ WorkerOK(Inspect(p, a))
           /\ Inspect(p, a).blk = p.blk
           /\ Inspect(p, a).pc # "idle"
  <1>1. p.attempt < MaxAttempts /\ p.pos \in 1..Len(p.seen)
    BY DEF WorkerOK
  <1>2. CASE Inspect(p, a) = KeepWalking(p)
    BY <1>1, <1>2, KeepWalkingType, KeepWalkingOK
  <1>3. CASE Inspect(p, a) = [p EXCEPT !.pc = "book"]
    BY <1>3, BookType DEF WorkerOK
  <1>4. ASSUME NEW status \in Status, Inspect(p, a) = Conclude(p, status, 0)
        PROVE  /\ Inspect(p, a) \in Worker
               /\ WorkerOK(Inspect(p, a))
               /\ Inspect(p, a).blk = p.blk
               /\ Inspect(p, a).pc # "idle"
    BY <1>4, ConcludeType, ConcludeOK
  <1>5. "red" \in Status /\ "blue" \in Status /\ "merge_duplicate" \in Status
    BY DEF Status
  <1> QED BY <1>2, <1>3, <1>4, <1>5, InspectCases

(* The accepting block a goroutine is looking at. *)
LEMMA SeenType ==
    ASSUME TypeOK, NEW w \in Workers, work[w].pc \in {"walk", "book"}
    PROVE  /\ work[w] \in Worker
           /\ WorkerOK(work[w])
           /\ work[w].blk \in Known
           /\ work[w].seen[work[w].pos] \in Accepting
           /\ Paid[work[w].seen[work[w].pos]][Payee[work[w].blk]] \in Nat
  <1>1. work[w] \in Worker /\ WorkerOK(work[w])
    BY DEF TypeOK
  <1>2. work[w].blk \in Known /\ work[w].pos \in 1..Len(work[w].seen)
        /\ work[w].seen \in Seq(Accepting)
    BY <1>1 DEF WorkerOK, Worker
  <1>3. work[w].seen[work[w].pos] \in Accepting
    BY <1>2
  <1> QED BY <1>1, <1>2, <1>3, LedgerAssumption

LEMMA RowTypes == NoRow \in Row /\ NewRow \in Row
  BY DEF NoRow, NewRow, Row, Status

LEMMA TypeInit == Init => TypeOK
  <1> SUFFICES ASSUME Init PROVE TypeOK
    OBVIOUS
  <1>1. rows \in [Blocks -> Row]
    BY RowTypes DEF Init
  <1>2. work \in [Workers -> Worker] /\ \A w \in Workers : WorkerOK(work[w])
    BY IdleType DEF Init, WorkerOK
  <1>3. chain \in Forks /\ toRecover \in SUBSET Blocks /\ crashes \in 0..MaxCrashes
    BY LedgerAssumption DEF Init
  <1> QED BY <1>1, <1>2, <1>3 DEF TypeOK

LEMMA TypeNext == TypeOK /\ [Next]_vars => TypeOK'
  <1> SUFFICES ASSUME TypeOK, [Next]_vars PROVE TypeOK'
    OBVIOUS
  <1> USE DEF TypeOK
  <1>1. ASSUME NEW w \in Workers, Attempt(w) PROVE TypeOK'
    <2>1. work[w] \in Worker /\ WorkerOK(work[w]) /\ work[w].pc = "attempt"
      BY <1>1 DEF Attempt
    <2>2. work[w].blk \in Blocks /\ work[w].attempt < MaxAttempts
      BY <2>1 DEF WorkerOK
    <2>3. UNCHANGED <<rows, chain, toRecover, crashes>>
      BY <1>1 DEF Attempt
    <2>4. CASE work' = [work EXCEPT ![w] = NextAttempt(work[w])]
      <3>1. NextAttempt(work[w]) \in Worker /\ WorkerOK(NextAttempt(work[w]))
        BY <2>1, <2>2, NextAttemptType DEF WorkerOK
      <3> QED BY <2>3, <2>4, <3>1, WorkStep
    <2>5. CASE /\ work[w].blk \in Known /\ chain # <<>>
               /\ work' = [work EXCEPT ![w] = StartWalk(work[w])]
      <3>1. chain \in Seq(Accepting)
        BY LedgerAssumption
      <3>2. 1 \in 1..Len(chain)
        BY <2>5, <3>1
      <3>3. StartWalk(work[w]) \in Worker /\ WorkerOK(StartWalk(work[w]))
        BY <2>1, <2>2, <2>5, <3>2, StartWalkType DEF WorkerOK
      <3> QED BY <2>3, <2>5, <3>3, WorkStep
    <2> QED BY <1>1, <2>4, <2>5 DEF Attempt
  <1>2. ASSUME NEW w \in Workers, Walk(w) PROVE TypeOK'
    <2>1. work[w].pc = "walk" /\ UNCHANGED <<rows, chain, toRecover, crashes>>
      BY <1>2 DEF Walk
    <2>2. work[w] \in Worker /\ WorkerOK(work[w]) /\ work[w].seen[work[w].pos] \in Accepting
      BY <2>1, SeenType
    <2>3. CASE work' = [work EXCEPT ![w] = Inspect(work[w], work[w].seen[work[w].pos])]
      BY <2>1, <2>2, <2>3, InspectOK, WorkStep
    <2>4. CASE work' = [work EXCEPT ![w] = KeepWalking(work[w])]
      <3>1. KeepWalking(work[w]) \in Worker /\ WorkerOK(KeepWalking(work[w]))
        BY <2>1, <2>2, KeepWalkingType, KeepWalkingOK DEF WorkerOK
      <3> QED BY <2>1, <2>4, <3>1, WorkStep
    <2> QED BY <1>2, <2>3, <2>4 DEF Walk
  <1>3. ASSUME NEW w \in Workers, Book(w) PROVE TypeOK'
    <2> DEFINE a == work[w].seen[work[w].pos]
    <2>1. /\ work[w].pc = "book" /\ SetAcceptingBlockHash(work[w].blk, a)
          /\ UNCHANGED <<chain, toRecover, crashes>>
          /\ work' = [work EXCEPT ![w] = Conclude(work[w], "blue", Paid[a][Payee[work[w].blk]])]
      BY <1>3 DEF Book
    <2>2. /\ work[w] \in Worker /\ WorkerOK(work[w]) /\ work[w].blk \in Blocks
          /\ a \in Accepting /\ Paid[a][Payee[work[w].blk]] \in Nat
      BY <2>1, SeenType, LedgerAssumption
    <2>3. rows' \in [Blocks -> Row]
      BY <2>1, <2>2 DEF SetAcceptingBlockHash, Row
    <2>4. "blue" \in Status
      BY DEF Status
    <2> HIDE DEF a
    <2> QED BY <2>1, <2>2, <2>3, <2>4, ConcludeType, ConcludeOK, WorkStep
  <1>4. ASSUME NEW w \in Workers, Final(w) PROVE TypeOK'
    <2>1. /\ work[w].pc = "final" /\ UNCHANGED <<chain, toRecover, crashes>>
          /\ UpdateReward(work[w].blk, work[w].reward, work[w].status)
          /\ work' = [work EXCEPT ![w] = Idle]
      BY <1>4 DEF Final
    <2>2. work[w].blk \in Blocks /\ work[w].reward \in Nat /\ work[w].status \in Status
      BY <2>1 DEF WorkerOK, Worker
    <2>3. rows' \in [Blocks -> Row]
      BY <2>1, <2>2 DEF UpdateReward, Row
    <2>4. WorkerOK(Idle)
      BY IdleType DEF WorkerOK
    <2> QED BY <2>1, <2>3, <2>4, IdleType, WorkStep
  <1>5. ASSUME NEW w \in Workers, NEW b \in Blocks, Spawn(w, b)
        PROVE  work' \in [Workers -> Worker] /\ \A v \in Workers : WorkerOK(work[v])'
    <2>1. Fresh(b) \in Worker /\ WorkerOK(Fresh(b))
      BY FreshType, LedgerAssumption DEF WorkerOK
    <2> QED BY <1>5, <2>1, WorkStep DEF Spawn
  <1>6. ASSUME NEW w \in Workers, NEW b \in Blocks, Record(w, b) PROVE TypeOK'
    <2>1. rows' \in [Blocks -> Row]
      BY <1>6, RowTypes DEF Record, RecordBlock
    <2> QED BY <1>5, <1>6, <2>1 DEF Record
  <1>7. ASSUME NEW w \in Workers, NEW b \in Blocks, Recover(w, b) PROVE TypeOK'
    BY <1>5, <1>7 DEF Recover
  <1>8. CASE Restart
    <2>1. work' \in [Workers -> Worker] /\ \A v \in Workers : WorkerOK(work[v])'
      BY <1>8, IdleType DEF Restart, WorkerOK
    <2>2. crashes' \in 0..MaxCrashes /\ toRecover' \in SUBSET Blocks
      BY <1>8, LedgerAssumption DEF Restart, PendingRows
    <2>3. rows' = rows /\ chain' = chain
      BY <1>8 DEF Restart
    <2> QED BY <2>1, <2>2, <2>3
  <1>9. CASE ChainMove
    BY <1>9 DEF ChainMove, WorkerOK
  <1>10. CASE UNCHANGED vars
    BY <1>10 DEF vars, WorkerOK
  <1> QED BY <1>1, <1>2, <1>3, <1>4, <1>6, <1>7, <1>8, <1>9, <1>10 DEF Next, Fetch

(* The ledger's state keeps its shape in every behaviour: a goroutine stays  *)
(* within its attempts, and its walk within the chain the node returned.     *)
THEOREM TypeCorrect == Spec => []TypeOK
  BY TypeInit, TypeNext, PTL DEF Spec

-----------------------------------------------------------------------------
(* One goroutine per accepted block, and only real rewards                   *)

(* What a running goroutine knows: nothing until it concludes; then nothing  *)
(* but what a chain block says.  One that works on a share the node never    *)
(* saw concludes red.                                                        *)
LocalOK(p) ==
    p.pc # "idle" =>
      /\ p.status \in {"blue", "red", "merge_duplicate"}
      /\ p.pc # "final" => p.status = "red" /\ p.reward = 0
      /\ p.reward > 0 =>
            /\ p.status = "blue"
            /\ \E a \in Accepting : p.blk \in Blues[a] /\ p.reward = Paid[a][Payee[p.blk]]
      /\ p.pc = "book" => /\ p.blk \in Blues[p.seen[p.pos]]
                          /\ Paid[p.seen[p.pos]][Payee[p.blk]] > 0
      /\ p.blk \notin Known => p.status = "red"

(* The rows of such shares, and the rows left to the start-up loop. *)
RowsOK ==
    /\ \A b \in Blocks : b \notin Known => rows[b].status \in {"absent", "pending", "red"}
    /\ \A b \in toRecover : Pending(b)
    /\ \A w \in Workers : work[w].pc # "idle" => work[w].blk \notin toRecover

LedgerInv ==
    /\ TypeOK
    /\ OneFetcher
    /\ RewardIsReal
    /\ RowsOK
    /\ \A w \in Workers : LocalOK(work[w])

LEMMA LedgerInit == Init => LedgerInv
  <1> SUFFICES ASSUME Init PROVE LedgerInv
    OBVIOUS
  <1>1. TypeOK
    BY TypeInit
  <1>2. \A w \in Workers : work[w].pc = "idle"
    BY IdleType DEF Init
  <1>3. OneFetcher /\ \A w \in Workers : LocalOK(work[w])
    BY <1>2 DEF OneFetcher, LocalOK
  <1>4. RewardIsReal /\ RowsOK
    BY <1>2 DEF Init, NoRow, RewardIsReal, RowsOK
  <1> QED BY <1>1, <1>3, <1>4 DEF LedgerInv

(* A goroutine that goes on with its block, while the rows keep their status. *)
LEMMA FetcherGoesOn ==
    ASSUME TypeOK, OneFetcher, NEW w \in Workers, work[w].pc # "idle",
           NEW q \in Worker, q.blk = work[w].blk,
           work' = [work EXCEPT ![w] = q],
           toRecover' = toRecover,
           \A b \in Blocks : rows'[b].status = rows[b].status
    PROVE  OneFetcher'
  <1>1. work'[w] = q /\ \A v \in Workers : v # w => work'[v] = work[v]
    BY DEF TypeOK
  <1>2. \A v \in Workers : work'[v].blk = work[v].blk
    BY <1>1
  <1>3. \A v \in Workers : work'[v].pc # "idle" => work[v].pc # "idle"
    BY <1>1
  <1>4. \A v \in Workers : work[v].pc # "idle" => work[v].blk \in Blocks
    BY DEF TypeOK, WorkerOK
  <1> QED BY <1>2, <1>3, <1>4 DEF OneFetcher, Pending

(* The walk's conclusions satisfy LocalOK. *)
LEMMA InspectLocal ==
    ASSUME TypeOK, NEW p \in Worker, p.pc = "walk", WorkerOK(p), LocalOK(p)
    PROVE  LocalOK(Inspect(p, p.seen[p.pos])) /\ LocalOK(KeepWalking(p))
  <1> DEFINE a == p.seen[p.pos]
  <1>1. p.attempt < MaxAttempts /\ p.pos \in 1..Len(p.seen) /\ p.blk \in Known
        /\ p.seen \in Seq(Accepting)
    BY DEF WorkerOK, Worker
  <1>2. a \in Accepting
    BY <1>1
  <1>3. p.status = "red" /\ p.reward = 0
    BY DEF LocalOK
  <1>4. LocalOK(KeepWalking(p))
    BY <1>1, <1>3, KeepWalkingType DEF LocalOK
  <1>5. ASSUME NEW status \in {"blue", "red", "merge_duplicate"}
        PROVE  LocalOK(Conclude(p, status, 0))
    <2>1. status \in Status
      BY DEF Status
    <2> QED BY <1>1, <2>1, ConcludeType DEF LocalOK
  <1>6. ASSUME p.blk \in Blues[a], Paid[a][Payee[p.blk]] > 0
        PROVE  LocalOK([p EXCEPT !.pc = "book"])
    BY <1>1, <1>3, <1>6, BookType DEF LocalOK
  <1> QED BY <1>2, <1>4, <1>5, <1>6, InspectCases

LEMMA LedgerNext == LedgerInv /\ [Next]_vars => LedgerInv'
  <1> SUFFICES ASSUME LedgerInv, [Next]_vars PROVE LedgerInv'
    OBVIOUS
  <1>0. TypeOK /\ TypeOK' /\ OneFetcher /\ RewardIsReal /\ RowsOK
        /\ \A w \in Workers : LocalOK(work[w])
    BY TypeNext DEF LedgerInv
  <1>a. ASSUME NEW w \in Workers, NEW q, work' = [work EXCEPT ![w] = q], LocalOK(q)
        PROVE  \A v \in Workers : LocalOK(work[v])'
    BY <1>0, <1>a DEF TypeOK, LocalOK
  <1>1. ASSUME NEW w \in Workers, Attempt(w) PROVE LedgerInv'
    <2>1. /\ work[w] \in Worker /\ WorkerOK(work[w]) /\ work[w].pc = "attempt"
          /\ UNCHANGED <<rows, chain, toRecover, crashes>>
      BY <1>0, <1>1 DEF Attempt, TypeOK
    <2>2. work[w].attempt < MaxAttempts /\ work[w].status = "red" /\ work[w].reward = 0
      BY <1>0, <2>1 DEF WorkerOK, LocalOK
    <2>3. PICK q : /\ work' = [work EXCEPT ![w] = q] /\ q \in Worker
                   /\ q.blk = work[w].blk /\ LocalOK(q)
      <3>1. CASE work' = [work EXCEPT ![w] = NextAttempt(work[w])]
        <4>1. NextAttempt(work[w]) \in Worker /\ NextAttempt(work[w]).blk = work[w].blk
          BY <2>1, <2>2, NextAttemptType
        <4>2. LocalOK(NextAttempt(work[w]))
          BY <2>1, <2>2, NextAttemptType DEF LocalOK
        <4> QED BY <3>1, <4>1, <4>2
      <3>2. CASE work' = [work EXCEPT ![w] = StartWalk(work[w])]
        <4>1. StartWalk(work[w]) \in Worker /\ StartWalk(work[w]).blk = work[w].blk
          BY <1>0, <2>1, StartWalkType
        <4>2. LocalOK(StartWalk(work[w]))
          BY <1>0, <2>1, <2>2, StartWalkType DEF LocalOK
        <4> QED BY <3>2, <4>1, <4>2
      <3> QED BY <1>1, <3>1, <3>2 DEF Attempt
    <2>4. OneFetcher'
      BY <1>0, <2>1, <2>3, FetcherGoesOn
    <2>5. RewardIsReal' /\ RowsOK'
      <3>1. \A v \in Workers : work'[v].blk = work[v].blk
        BY <1>0, <2>3 DEF TypeOK
      <3>2. \A v \in Workers : v # w => work'[v].pc = work[v].pc
        BY <1>0, <2>3 DEF TypeOK
      <3> QED BY <1>0, <2>1, <3>1, <3>2 DEF RewardIsReal, RowsOK, Pending
    <2> QED BY <1>0, <1>a, <2>3, <2>4, <2>5 DEF LedgerInv
  <1>2. ASSUME NEW w \in Workers, Walk(w) PROVE LedgerInv'
    <2>1. work[w].pc = "walk" /\ UNCHANGED <<rows, chain, toRecover, crashes>>
      BY <1>2 DEF Walk
    <2>2. work[w] \in Worker /\ WorkerOK(work[w]) /\ work[w].seen[work[w].pos] \in Accepting
      BY <1>0, <2>1, SeenType
    <2>3. PICK q : /\ work' = [work EXCEPT ![w] = q] /\ q \in Worker
                   /\ q.blk = work[w].blk /\ LocalOK(q)
      <3>1. CASE work' = [work EXCEPT ![w] = Inspect(work[w], work[w].seen[work[w].pos])]
        BY <1>0, <2>1, <2>2, <3>1, InspectOK, InspectLocal
      <3>2. CASE work' = [work EXCEPT ![w] = KeepWalking(work[w])]
        <4>1. work[w].attempt < MaxAttempts /\ work[w].pos \in 1..Len(work[w].seen)
          BY <2>1, <2>2 DEF WorkerOK
        <4> QED BY <1>0, <2>1, <2>2, <3>2, <4>1, KeepWalkingType, InspectLocal
      <3> QED BY <1>2, <3>1, <3>2 DEF Walk
    <2>4. OneFetcher'
      BY <1>0, <2>1, <2>3, FetcherGoesOn
    <2>5. RewardIsReal' /\ RowsOK'
      <3>1. \A v \in Workers : work'[v].blk = work[v].blk
        BY <1>0, <2>3 DEF TypeOK
      <3>2. \A v \in Workers : v # w => work'[v].pc = work[v].pc
        BY <1>0, <2>3 DEF TypeOK
      <3> QED BY <1>0, <2>1, <3>1, <3>2 DEF RewardIsReal, RowsOK, Pending
    <2> QED BY <1>0, <1>a, <2>3, <2>4, <2>5 DEF LedgerInv
  <1>3. ASSUME NEW w \in Workers, Book(w) PROVE LedgerInv'
    <2> DEFINE a == work[w].seen[work[w].pos]
               b == work[w].blk
               q == Conclude(work[w], "blue", Paid[a][Payee[b]])
    <2>1. /\ work[w].pc = "book" /\ SetAcceptingBlockHash(b, a)
          /\ UNCHANGED <<chain, toRecover, crashes>>
          /\ work' = [work EXCEPT ![w] = q]
      BY <1>3 DEF Book
    <2>2. /\ work[w] \in Worker /\ b \in Known /\ b \in Blocks /\ a \in Accepting
          /\ Paid[a][Payee[b]] \in Nat /\ "blue" \in Status
      BY <1>0, <2>1, SeenType, LedgerAssumption DEF Status
    <2>3. b \in Blues[a] /\ Paid[a][Payee[b]] > 0
      BY <1>0, <2>1 DEF LocalOK
    <2> HIDE DEF a
    <2>4. q \in Worker /\ q.blk = b /\ LocalOK(q)
      <3>1. /\ q \in Worker /\ q.blk = b /\ q.pc = "final" /\ q.status = "blue"
            /\ q.reward = Paid[a][Payee[b]]
        BY <2>2, ConcludeType
      <3> HIDE DEF q, b
      <3> QED BY <2>2, <2>3, <3>1 DEF LocalOK
    <2> HIDE DEF q, b
    <2>5. /\ \A c \in Blocks : rows'[c].status = rows[c].status /\ rows'[c].reward = rows[c].reward
          /\ \A c \in Blocks : \/ rows'[c].accepting = rows[c].accepting
                                \/ (c = b /\ rows'[c].accepting = a)
      <3>1. rows \in [Blocks -> Row]
        BY <1>0 DEF TypeOK
      <3>2. CASE rows' = rows
        BY <3>2, Zenon
      <3>3. CASE rows' = [rows EXCEPT ![b].accepting = a]
        <4>1. /\ rows'[b] = [rows[b] EXCEPT !.accepting = a] /\ rows[b] \in Row
              /\ \A c \in Blocks : c # b => rows'[c] = rows[c]
          BY <2>2, <3>1, <3>3
        <4>2. /\ rows'[b].status = rows[b].status /\ rows'[b].reward = rows[b].reward
              /\ rows'[b].accepting = a
          BY <4>1 DEF Row
        <4> QED BY <4>1, <4>2
      <3> QED BY <2>1, <3>2, <3>3 DEF SetAcceptingBlockHash
    <2>6. OneFetcher'
      <3>1. work[w].pc # "idle" /\ toRecover' = toRecover /\ q.blk = work[w].blk
        BY <2>1, <2>4 DEF b
      <3> QED BY <1>0, <2>1, <2>4, <2>5, <3>1, FetcherGoesOn
    <2>7. RewardIsReal'
      BY <1>0, <2>3, <2>5 DEF RewardIsReal
    <2>8. RowsOK'
      <3>1. \A v \in Workers : work'[v].blk = work[v].blk
        BY <1>0, <2>1, <2>4 DEF TypeOK, b
      <3>2. \A v \in Workers : v # w => work'[v].pc = work[v].pc
        BY <1>0, <2>1 DEF TypeOK
      <3> QED BY <1>0, <2>1, <2>5, <3>1, <3>2 DEF RowsOK, Pending, TypeOK
    <2> QED BY <1>0, <1>a, <2>1, <2>4, <2>6, <2>7, <2>8 DEF LedgerInv
  <1>4. ASSUME NEW w \in Workers, Final(w) PROVE LedgerInv'
    <2> DEFINE b == work[w].blk
    <2>1. /\ work[w].pc = "final" /\ UNCHANGED <<chain, toRecover, crashes>>
          /\ UpdateReward(b, work[w].reward, work[w].status)
          /\ work' = [work EXCEPT ![w] = Idle]
      BY <1>4 DEF Final
    <2>2. b \in Blocks /\ work[w].reward \in Nat /\ work[w].status \in Status
      BY <1>0, <2>1 DEF TypeOK, WorkerOK, Worker
    <2>3. /\ \A c \in Blocks : c # b => rows'[c] = rows[c]
          /\ rows'[b].accepting = rows[b].accepting
          /\ \/ rows'[b] = rows[b]
             \/ rows'[b].status = work[w].status /\ rows'[b].reward = work[w].reward
      BY <1>0, <2>1, <2>2 DEF UpdateReward, TypeOK, Row
    <2>4. work'[w].pc = "idle" /\ \A v \in Workers : v # w => work'[v] = work[v]
      BY <1>0, <2>1, IdleType DEF TypeOK
    <2>5. \A v \in Workers : LocalOK(work[v])'
      BY <1>a, <2>1, IdleType DEF LocalOK
    <2>6. OneFetcher'
      <3>1. \A v \in Workers : work'[v].pc # "idle" /\ work'[v].blk \in Known
                               => v # w /\ work[v].blk # b
        BY <1>0, <2>1, <2>4 DEF OneFetcher
      <3>2. \A v \in Workers : v # w /\ work[v].pc # "idle" => work[v].blk \in Blocks
        BY <1>0 DEF TypeOK, WorkerOK
      <3> QED BY <1>0, <2>1, <2>3, <2>4, <3>1, <3>2 DEF OneFetcher, Pending
    <2>7. RewardIsReal'
      BY <1>0, <2>1, <2>2, <2>3 DEF RewardIsReal, LocalOK
    <2>8. RowsOK'
      <3>1. b \notin Known => rows'[b].status \in {"absent", "pending", "red"}
        BY <1>0, <2>1, <2>2, <2>3 DEF RowsOK, LocalOK
      <3>2. ASSUME NEW c \in toRecover PROVE rows'[c].status = "pending"
        <4>1. c # b /\ c \in Blocks
          BY <1>0, <2>1 DEF RowsOK, TypeOK
        <4> QED BY <1>0, <2>3, <4>1 DEF RowsOK, Pending
      <3> QED BY <1>0, <2>1, <2>3, <2>4, <3>1, <3>2 DEF RowsOK, Pending
    <2> QED BY <1>0, <2>5, <2>6, <2>7, <2>8 DEF LedgerInv
  <1>b. ASSUME NEW w \in Workers, NEW b \in Blocks, Spawn(w, b)
        PROVE  /\ \A v \in Workers : LocalOK(work[v])'
               /\ work[w].pc = "idle" /\ work'[w].blk = b
               /\ \A v \in Workers : v # w => work'[v] = work[v]
    <2>1. LocalOK(Fresh(b))
      BY FreshType DEF LocalOK
    <2> QED BY <1>0, <1>a, <1>b, <2>1, FreshType DEF Spawn, TypeOK
  <1>5. ASSUME NEW w \in Workers, NEW b \in Blocks, Record(w, b) PROVE LedgerInv'
    <2>1. /\ toRecover = {} /\ toRecover' = {} /\ Spawn(w, b)
          /\ rows[b].status = "absent" \/ b \notin Known
      BY <1>5 DEF Record
    <2>2. /\ \A c \in Blocks : c # b => rows'[c] = rows[c]
          /\ rows[b].status = "absent" =>
                rows'[b].status = "pending" /\ rows'[b].reward = 0 /\ rows'[b].accepting = NoHash
          /\ rows[b].status # "absent" => rows'[b] = rows[b]
      BY <1>0, <1>5 DEF Record, RecordBlock, NewRow, TypeOK
    <2>3. OneFetcher'
      <3>1. b \in Known => \A v \in Workers : work[v].pc # "idle" => work[v].blk # b
        BY <1>0, <2>1 DEF OneFetcher, Pending
      <3>2. \A v \in Workers : work[v].pc # "idle" => work[v].blk \in Blocks
        BY <1>0 DEF TypeOK, WorkerOK
      <3> QED BY <1>0, <1>b, <2>1, <2>2, <3>1, <3>2 DEF OneFetcher, Pending
    <2>4. RewardIsReal'
      BY <1>0, <2>2 DEF RewardIsReal
    <2>5. RowsOK'
      BY <1>0, <2>1, <2>2 DEF RowsOK
    <2> QED BY <1>0, <1>b, <2>1, <2>3, <2>4, <2>5 DEF LedgerInv
  <1>6. ASSUME NEW w \in Workers, NEW b \in Blocks, Recover(w, b) PROVE LedgerInv'
    <2>1. b \in toRecover /\ toRecover' = toRecover \ {b} /\ Spawn(w, b) /\ rows' = rows
      BY <1>6 DEF Recover
    <2>2. \A v \in Workers : work[v].pc # "idle" => work[v].blk # b
      BY <1>0, <2>1 DEF RowsOK
    <2>3. rows[b].status = "pending"
      BY <1>0, <2>1 DEF RowsOK, Pending
    <2>4. OneFetcher'
      BY <1>0, <1>b, <2>1, <2>2, <2>3 DEF OneFetcher, Pending
    <2>5. RowsOK'
      BY <1>0, <1>b, <2>1, <2>2 DEF RowsOK, Pending
    <2>6. RewardIsReal'
      BY <1>0, <2>1 DEF RewardIsReal
    <2> QED BY <1>0, <1>b, <2>1, <2>4, <2>5, <2>6 DEF LedgerInv
  <1>7. CASE Restart
    <2>1. rows' = rows /\ toRecover' = PendingRows
      BY <1>7 DEF Restart
    <2>2. \A v \in Workers : work'[v].pc = "idle"
      BY <1>7, IdleType DEF Restart
    <2>3. OneFetcher' /\ \A v \in Workers : LocalOK(work[v])'
      BY <2>2 DEF OneFetcher, LocalOK
    <2>4. RowsOK'
      BY <1>0, <2>1, <2>2 DEF RowsOK, PendingRows, Pending
    <2>5. RewardIsReal'
      BY <1>0, <2>1 DEF RewardIsReal
    <2> QED BY <1>0, <2>3, <2>4, <2>5 DEF LedgerInv
  <1>8. CASE ChainMove \/ UNCHANGED vars
    <2>1. rows' = rows /\ work' = work /\ toRecover' = toRecover
      BY <1>8 DEF ChainMove, vars
    <2>2. OneFetcher' /\ RewardIsReal' /\ RowsOK'
      BY <1>0, <2>1 DEF OneFetcher, RewardIsReal, RowsOK, Pending
    <2>3. \A v \in Workers : LocalOK(work[v])'
      BY <1>0, <2>1 DEF LocalOK
    <2> QED BY <1>0, <2>2, <2>3 DEF LedgerInv
  <1> QED BY <1>1, <1>2, <1>3, <1>4, <1>5, <1>6, <1>7, <1>8 DEF Next, Fetch

LEMMA LedgerInvariant == Spec => []LedgerInv
  BY LedgerInit, LedgerNext, PTL DEF Spec

(* At most one goroutine looks for the reward of an accepted block, and only *)
(* while the row is pending, whatever fails and however often the bridge is  *)
(* restarted.                                                                *)
THEOREM OneFetcherAlways == Spec => []OneFetcher
  BY LedgerInvariant, PTL DEF LedgerInv

(* Atoms are booked and links are set only as the chain says, whatever fails *)
(* and however the chain is reorganised.                                     *)
THEOREM RewardIsRealAlways == Spec => []RewardIsReal
  BY LedgerInvariant, PTL DEF LedgerInv

-----------------------------------------------------------------------------
(* Settled rows                                                              *)

LEMMA SettledStep ==
    ASSUME LedgerInv, [Next]_vars, NEW b \in Blocks, Settled(b)
    PROVE  rows'[b] = rows[b]
  <1>0. TypeOK /\ OneFetcher /\ RewardIsReal /\ RowsOK
        /\ \A w \in Workers : LocalOK(work[w])
    BY DEF LedgerInv
  <1>1. rows \in [Blocks -> Row] /\ rows[b].status \notin {"absent", "pending"}
    BY <1>0 DEF TypeOK, Settled
  (* No goroutine works on an accepted block that is settled. *)
  <1>2. ASSUME NEW w \in Workers, work[w].pc # "idle", work[w].blk = b
        PROVE  b \notin Known
    BY <1>0, <1>1, <1>2 DEF OneFetcher, Pending
  <1>3. ASSUME NEW w \in Workers, Book(w) PROVE rows'[b] = rows[b]
    <2>1. work[w].pc = "book" /\ work[w].blk \in Known
      BY <1>0, <1>3, SeenType DEF Book
    <2>2. work[w].blk # b
      BY <1>2, <2>1
    <2> QED BY <1>1, <1>3, <2>2 DEF Book, SetAcceptingBlockHash
  <1>4. ASSUME NEW w \in Workers, Final(w) PROVE rows'[b] = rows[b]
    <2>1. work[w].pc = "final" /\ UpdateReward(work[w].blk, work[w].reward, work[w].status)
      BY <1>4 DEF Final
    <2>2. CASE work[w].blk # b
      BY <1>1, <2>1, <2>2 DEF UpdateReward
    <2>3. CASE work[w].blk = b
      <3>1. b \notin Known
        BY <1>2, <2>1, <2>3
      <3>2. work[w].status = "red" /\ work[w].reward = 0
        BY <1>0, <2>1, <2>3, <3>1 DEF LocalOK, TypeOK, Worker
      <3>3. rows[b].status = "red" /\ rows[b].reward = 0 /\ rows[b] \in Row
        BY <1>0, <1>1, <3>1 DEF RowsOK, RewardIsReal, Row
      <3>4. rows[b] = [status |-> "red", reward |-> 0, accepting |-> rows[b].accepting]
        BY <3>3 DEF Row
      <3> QED BY <1>1, <2>1, <2>3, <3>2, <3>4 DEF UpdateReward
    <2> QED BY <2>2, <2>3
  <1>5. ASSUME NEW w \in Workers, NEW c \in Blocks, Record(w, c) PROVE rows'[b] = rows[b]
    BY <1>1, <1>5 DEF Record, RecordBlock
  <1>6. ASSUME rows' = rows PROVE rows'[b] = rows[b]
    BY <1>6
  <1> QED BY <1>3, <1>4, <1>5, <1>6 DEF Next, Fetch, Attempt, Walk, Recover, Restart, ChainMove, vars

(* A settled row never changes: not by its own goroutine, not by one started *)
(* after a restart, not by a share that is recorded again.                   *)
THEOREM SettledIsFinalAlways == Spec => SettledIsFinal
  <1>1. LedgerInv /\ [Next]_vars
        => [\A b \in Blocks : Settled(b) => rows'[b] = rows[b]]_vars
    BY SettledStep
  <1> QED BY <1>1, LedgerInvariant, PTL DEF Spec, SettledIsFinal

-----------------------------------------------------------------------------
(* Payments are not lost, as long as calls to the node and the database do   *)
(* not fail and the chain only grows                                         *)

Reliable == ~NodeErrors /\ ~DbErrors /\ ~MayReorg

In(c, a) == \E i \in 1..Len(c) : c[i] = a

(* The index: a payment is linked to one row of its wallet. *)
UniqueLink ==
    \A b, c \in Blocks :
        b # c /\ Payee[b] = Payee[c] /\ rows[b].accepting = rows[c].accepting
        => rows[b].accepting = NoHash

(* A linked row is paid, or will be: it has not been given up. *)
LinkedRow(b) ==
    rows[b].accepting # NoHash =>
        /\ In(chain, rows[b].accepting)
        /\ \/ Pending(b)
           \/ /\ rows[b].status = "blue"
              /\ rows[b].reward = Paid[rows[b].accepting][Payee[b]]

(* The goroutine of a linked row, one started after a restart, comes to the  *)
(* linked block again.                                                       *)
LinkedWorker(p) ==
    p.pc # "idle" /\ rows[p.blk].accepting # NoHash =>
        /\ p.pc = "walk" =>
              \E i \in 1..Len(p.seen) : p.pos <= i /\ p.seen[i] = rows[p.blk].accepting
        /\ p.pc = "final" =>
              /\ p.status = "blue"
              /\ p.reward = Paid[rows[p.blk].accepting][Payee[p.blk]]

HasOwner(b) == \E c \in Blocks, a \in Accepting : OwnsPayment(c, b, a)

DuplicateWorker(p) ==
    p.pc = "final" /\ p.status = "merge_duplicate" => HasOwner(p.blk)

SeenIsPrefix(p) == p.pc \in {"walk", "book"} => Extends(p.seen, chain)

LinkInv ==
    /\ UniqueLink
    /\ \A b \in Blocks : LinkedRow(b)
    /\ \A w \in Workers : /\ LinkedWorker(work[w])
                           /\ DuplicateWorker(work[w])
                           /\ SeenIsPrefix(work[w])
    /\ DuplicateHasOwner

LEMMA LinkInit == Init => LinkInv
  <1> SUFFICES ASSUME Init PROVE LinkInv
    OBVIOUS
  <1>1. \A w \in Workers : work[w].pc = "idle"
    BY IdleType DEF Init
  <1>2. \A b \in Blocks : rows[b].accepting = NoHash /\ rows[b].status = "absent"
    BY DEF Init, NoRow
  <1> QED BY <1>1, <1>2 DEF LinkInv, UniqueLink, LinkedRow, LinkedWorker, DuplicateWorker,
                            SeenIsPrefix, DuplicateHasOwner

(* Along the chain one accepting block merges a block. *)
LEMMA SameAcceptor ==
    ASSUME TypeOK, NEW b \in Blocks, NEW a, NEW d, In(chain, a), In(chain, d),
           b \in Blues[a], b \in Blues[d]
    PROVE  a = d
  <1>1. PICK i \in 1..Len(chain) : chain[i] = a
    BY DEF In
  <1>2. PICK j \in 1..Len(chain) : chain[j] = d
    BY DEF In
  <1>3. chain \in Forks
    BY DEF TypeOK
  <1>4. i = j
    BY <1>1, <1>2, <1>3, MergedOnce
  <1> QED BY <1>1, <1>2, <1>4

(* What a goroutine reads from its copy of the chain is on the chain. *)
LEMMA SeenOnChain ==
    ASSUME TypeOK, LinkInv, NEW w \in Workers, work[w].pc \in {"walk", "book"},
           NEW i \in 1..Len(work[w].seen)
    PROVE  In(chain, work[w].seen[i]) /\ work[w].seen[i] = chain[i] /\ i \in 1..Len(chain)
  <1>1. Extends(work[w].seen, chain)
    BY DEF LinkInv, SeenIsPrefix
  <1>2. work[w].seen \in Seq(Accepting) /\ chain \in Seq(Accepting)
    BY LedgerAssumption DEF TypeOK, Worker
  <1>3. i \in 1..Len(chain) /\ chain[i] = work[w].seen[i]
    BY <1>1, <1>2 DEF Extends
  <1> QED BY <1>3 DEF In

(* The changes a step can make to the row of a block. *)
LEMMA RowStep ==
    ASSUME LedgerInv, Reliable, [Next]_vars, NEW b \in Blocks
    PROVE  \/ rows'[b] = rows[b]
           \/ \E w \in Workers :
                /\ Book(w) /\ work[w].blk = b /\ IndexAllows(b, work[w].seen[work[w].pos])
                /\ rows'[b].status = rows[b].status /\ rows'[b].reward = rows[b].reward
                /\ rows'[b].accepting = work[w].seen[work[w].pos]
           \/ \E w \in Workers :
                /\ Final(w) /\ work[w].blk = b
                /\ rows'[b].status = work[w].status /\ rows'[b].reward = work[w].reward
                /\ rows'[b].accepting = rows[b].accepting
           \/ /\ rows[b].status = "absent" /\ rows'[b].status = "pending"
              /\ rows'[b].accepting = NoHash
  <1>1. rows \in [Blocks -> Row] /\ TypeOK
    BY DEF LedgerInv, TypeOK
  <1>2. ASSUME NEW w \in Workers, Book(w), rows'[b] # rows[b]
        PROVE  /\ work[w].blk = b /\ IndexAllows(b, work[w].seen[work[w].pos])
               /\ rows'[b].status = rows[b].status /\ rows'[b].reward = rows[b].reward
               /\ rows'[b].accepting = work[w].seen[work[w].pos]
    <2> DEFINE a == work[w].seen[work[w].pos]
    <2>1. SetAcceptingBlockHash(work[w].blk, a) /\ work[w].blk \in Blocks
      BY <1>1, <1>2, SeenType, LedgerAssumption DEF Book
    <2>2. IndexAllows(work[w].blk, a) /\ rows' = [rows EXCEPT ![work[w].blk].accepting = a]
      BY <1>2, <2>1 DEF SetAcceptingBlockHash
    <2>3. work[w].blk = b /\ rows[b] \in Row /\ rows'[b] = [rows[b] EXCEPT !.accepting = a]
      BY <1>1, <1>2, <2>1, <2>2
    <2> HIDE DEF a
    <2>4. /\ rows'[b].status = rows[b].status /\ rows'[b].reward = rows[b].reward
          /\ rows'[b].accepting = a
      BY <2>3 DEF Row
    <2> QED BY <2>2, <2>3, <2>4 DEF a
  <1>3. ASSUME NEW w \in Workers, Final(w), rows'[b] # rows[b]
        PROVE  /\ work[w].blk = b
               /\ rows'[b].status = work[w].status /\ rows'[b].reward = work[w].reward
               /\ rows'[b].accepting = rows[b].accepting
    BY <1>1, <1>3 DEF Final, UpdateReward
  <1>4. ASSUME NEW w \in Workers, NEW c \in Blocks, Record(w, c), rows'[b] # rows[b]
        PROVE  /\ rows[b].status = "absent" /\ rows'[b].status = "pending"
               /\ rows'[b].accepting = NoHash
    BY <1>1, <1>4 DEF Record, RecordBlock, NewRow
  <1>5. rows' = rows \/ (\E w \in Workers : Book(w) \/ Final(w))
        \/ (\E w \in Workers, c \in Blocks : Record(w, c))
    BY DEF Next, Fetch, Attempt, Walk, Recover, Restart, ChainMove, vars
  <1> QED BY <1>2, <1>3, <1>4, <1>5

LEMMA BookFacts ==
    ASSUME LedgerInv, LinkInv, NEW w \in Workers, Book(w), NEW b, NEW a,
           b = work[w].blk, a = work[w].seen[work[w].pos]
    PROVE  /\ b \in Blocks /\ b \in Known /\ a \in Accepting /\ a # NoHash
           /\ b \in Blues[a] /\ In(chain, a) /\ Pending(b)
           /\ rows[b].accepting # NoHash => rows[b].accepting = a
  <1>0. TypeOK /\ OneFetcher /\ RewardIsReal /\ LocalOK(work[w]) /\ work[w].pc = "book"
    BY DEF LedgerInv, Book
  <1>1. b \in Known /\ a \in Accepting /\ WorkerOK(work[w])
    BY <1>0, SeenType
  <1>2. b \in Blocks /\ a # NoHash
    BY <1>1, LedgerAssumption
  <1>3. b \in Blues[a]
    BY <1>0 DEF LocalOK
  <1>4. In(chain, a)
    BY <1>0, <1>1, SeenOnChain DEF WorkerOK
  <1>5. Pending(b)
    BY <1>0, <1>1 DEF OneFetcher
  <1>6. ASSUME rows[b].accepting # NoHash PROVE rows[b].accepting = a
    <2>1. b \in Blues[rows[b].accepting] /\ In(chain, rows[b].accepting)
      BY <1>0, <1>2, <1>6 DEF RewardIsReal, LinkInv, LinkedRow
    <2> QED BY <1>0, <1>2, <1>3, <1>4, <2>1, SameAcceptor
  <1> QED BY <1>1, <1>2, <1>3, <1>4, <1>5, <1>6

(* A link, once set, stays. *)
LEMMA LinkStays ==
    ASSUME LedgerInv, LinkInv, Reliable, [Next]_vars, NEW b \in Blocks,
           rows[b].accepting # NoHash
    PROVE  rows'[b].accepting = rows[b].accepting
  <1>1. rows[b].status # "absent"
    BY DEF LinkInv, LinkedRow, Pending
  <1> QED BY <1>1, RowStep, BookFacts

(* The owner of a payment keeps it. *)
LEMMA OwnerStays ==
    ASSUME LedgerInv, LinkInv, Reliable, [Next]_vars, NEW b \in Blocks, HasOwner(b)
    PROVE  HasOwner(b)'
  <1>1. PICK c \in Blocks, a \in Accepting : OwnsPayment(c, b, a)
    BY DEF HasOwner
  <1>2. /\ rows[c].accepting = a /\ a # NoHash /\ c \in Blues[a] /\ rows[c].status # "absent"
        /\ \/ rows[c].status = "pending"
           \/ rows[c].status = "blue" /\ rows[c].reward = Paid[a][Payee[c]]
    BY <1>1, LedgerAssumption DEF OwnsPayment, Pending
  <1>3. rows'[c].accepting = a
    BY <1>2, LinkStays
  <1>4. \/ rows'[c].status = "pending"
        \/ rows'[c].status = "blue" /\ rows'[c].reward = Paid[a][Payee[c]]
    <2>1. ASSUME NEW w \in Workers, Final(w), work[w].blk = c
          PROVE  work[w].status = "blue" /\ work[w].reward = Paid[a][Payee[c]]
      BY <1>2, <2>1 DEF Final, LinkInv, LinkedWorker
    <2> QED BY <1>2, <2>1, RowStep
  <1>5. OwnsPayment(c, b, a)'
    BY <1>1, <1>3, <1>4 DEF OwnsPayment, Pending
  <1> QED BY <1>5 DEF HasOwner

LEMMA OnChainStays ==
    ASSUME TypeOK, Reliable, [Next]_vars, NEW a, In(chain, a)
    PROVE  In(chain', a)
  <1>1. chain' = chain \/ (chain' \in Forks /\ Extends(chain, chain'))
    BY DEF Next, Fetch, Attempt, Walk, Book, Final, Record, Recover, Restart, ChainMove,
           vars, Reliable
  <1>2. chain \in Seq(Accepting) /\ (chain' \in Forks => chain' \in Seq(Accepting))
    BY LedgerAssumption DEF TypeOK
  <1> QED BY <1>1, <1>2 DEF In, Extends

(* The rows' part of the invariant. *)
LEMMA LinkRowsNext ==
    ASSUME LedgerInv, LinkInv, Reliable, [Next]_vars
    PROVE  UniqueLink' /\ (\A b \in Blocks : LinkedRow(b))' /\ DuplicateHasOwner'
  <1>0. TypeOK
    BY DEF LedgerInv
  <1>1. ASSUME NEW b \in Blocks, rows'[b].accepting # NoHash
        PROVE  \/ rows'[b].accepting = rows[b].accepting
               \/ /\ rows[b].accepting = NoHash /\ IndexAllows(b, rows'[b].accepting)
                  /\ In(chain, rows'[b].accepting) /\ rows'[b].status = "pending"
                  /\ \E w \in Workers : Book(w) /\ work[w].blk = b
    <2>1. CASE rows[b].accepting # NoHash
      BY <2>1, LinkStays
    <2>2. CASE rows[b].accepting = NoHash
      BY <1>1, <2>2, RowStep, BookFacts DEF Pending
    <2> QED BY <2>1, <2>2
  <1>2. ASSUME NEW b \in Blocks PROVE LinkedRow(b)'
    <2>0. SUFFICES ASSUME rows'[b].accepting # NoHash
                   PROVE  /\ In(chain', rows'[b].accepting)
                          /\ \/ rows'[b].status = "pending"
                             \/ /\ rows'[b].status = "blue"
                                /\ rows'[b].reward = Paid[rows'[b].accepting][Payee[b]]
      BY DEF LinkedRow, Pending
    <2>1. CASE rows'[b].accepting = rows[b].accepting
      <3>1. In(chain', rows[b].accepting)
        BY <1>0, <2>0, <2>1, OnChainStays DEF LinkInv, LinkedRow
      <3>2. ASSUME NEW w \in Workers, Final(w), work[w].blk = b
            PROVE  work[w].status = "blue" /\ work[w].reward = Paid[rows[b].accepting][Payee[b]]
        BY <2>0, <2>1, <3>2 DEF Final, LinkInv, LinkedWorker
      <3>3. \/ rows[b].status = "pending"
            \/ rows[b].status = "blue" /\ rows[b].reward = Paid[rows[b].accepting][Payee[b]]
        BY <2>0, <2>1 DEF LinkInv, LinkedRow, Pending
      <3>4. \/ rows'[b].status = "pending"
            \/ rows'[b].status = "blue" /\ rows'[b].reward = Paid[rows[b].accepting][Payee[b]]
        BY <3>2, <3>3, RowStep
      <3> QED BY <2>1, <3>1, <3>4
    <2>2. CASE In(chain, rows'[b].accepting) /\ rows'[b].status = "pending"
      BY <1>0, <2>2, OnChainStays
    <2> QED BY <1>1, <2>0, <2>1, <2>2
  <1>3. UniqueLink'
    <2> SUFFICES ASSUME NEW b \in Blocks, NEW c \in Blocks, b # c, Payee[b] = Payee[c],
                        rows'[b].accepting = rows'[c].accepting, rows'[b].accepting # NoHash
                 PROVE  FALSE
      BY DEF UniqueLink
    <2>1. CASE rows'[b].accepting = rows[b].accepting /\ rows'[c].accepting = rows[c].accepting
      BY <2>1 DEF LinkInv, UniqueLink
    (* Two rows cannot be linked in the same step, and the index keeps a new  *)
    (* link away from an old one.                                             *)
    <2>2. CASE rows'[b].accepting # rows[b].accepting
      <3>1. PICK w \in Workers : Book(w) /\ work[w].blk = b
        BY <1>1, <2>2
      <3>2. IndexAllows(b, rows'[b].accepting)
        BY <1>1, <2>2
      <3>3. rows'[c] = rows[c]
        BY <1>0, <3>1 DEF Book, SetAcceptingBlockHash, TypeOK
      <3> QED BY <3>2, <3>3 DEF IndexAllows
    <2>3. CASE rows'[c].accepting # rows[c].accepting
      <3>1. PICK w \in Workers : Book(w) /\ work[w].blk = c
        BY <1>1, <2>3
      <3>2. IndexAllows(c, rows'[c].accepting)
        BY <1>1, <2>3
      <3>3. rows'[b] = rows[b]
        BY <1>0, <3>1 DEF Book, SetAcceptingBlockHash, TypeOK
      <3> QED BY <3>2, <3>3 DEF IndexAllows
    <2> QED BY <2>1, <2>2, <2>3
  <1>4. DuplicateHasOwner'
    <2> SUFFICES ASSUME NEW b \in Blocks, rows'[b].status = "merge_duplicate"
                 PROVE  HasOwner(b)'
      BY DEF DuplicateHasOwner, HasOwner
    <2>1. CASE rows[b].status = "merge_duplicate"
      BY <2>1, OwnerStays DEF LinkInv, DuplicateHasOwner, HasOwner
    <2>2. CASE rows[b].status # "merge_duplicate"
      <3>1. PICK w \in Workers : Final(w) /\ work[w].blk = b /\ work[w].status = "merge_duplicate"
        BY <2>2, RowStep
      <3>2. HasOwner(b)
        BY <3>1 DEF Final, LinkInv, DuplicateWorker
      <3> QED BY <3>2, OwnerStays
    <2> QED BY <2>1, <2>2
  <1> QED BY <1>2, <1>3, <1>4

(* A goroutine that a step does not touch keeps its part, if the link of its *)
(* row is not touched either.                                                *)
LEMMA LinkOthersNext ==
    ASSUME LedgerInv, LinkInv, Reliable, [Next]_vars, NEW v \in Workers,
           work'[v] = work[v],
           work[v].pc # "idle" => rows'[work[v].blk].accepting = rows[work[v].blk].accepting
    PROVE  /\ LinkedWorker(work[v])'
           /\ DuplicateWorker(work[v])'
           /\ SeenIsPrefix(work[v])'
  <1>0. TypeOK
    BY DEF LedgerInv
  <1>1. LinkedWorker(work[v])'
    BY DEF LinkInv, LinkedWorker
  <1>2. DuplicateWorker(work[v])'
    <2> SUFFICES ASSUME work[v].pc = "final", work[v].status = "merge_duplicate"
                 PROVE  HasOwner(work[v].blk)'
      BY DEF DuplicateWorker, HasOwner, OwnsPayment, Pending
    <2>1. HasOwner(work[v].blk) /\ work[v].blk \in Blocks
      BY <1>0 DEF LinkInv, DuplicateWorker, TypeOK, WorkerOK
    <2>2. \A b \in Blocks : HasOwner(b) => HasOwner(b)'
      BY OwnerStays
    <2> QED BY <2>1, <2>2 DEF HasOwner, OwnsPayment, Pending
  <1>3. SeenIsPrefix(work[v])'
    <2> SUFFICES ASSUME work[v].pc \in {"walk", "book"}
                 PROVE  Extends(work[v].seen, chain')
      BY DEF SeenIsPrefix
    <2>1. chain' = chain \/ (chain' \in Forks /\ Extends(chain, chain'))
      BY DEF Next, Fetch, Attempt, Walk, Book, Final, Record, Recover, Restart, ChainMove,
             vars, Reliable
    <2>2. Extends(work[v].seen, chain)
      BY DEF LinkInv, SeenIsPrefix
    <2>3. /\ chain \in Seq(Accepting) /\ work[v].seen \in Seq(Accepting)
          /\ chain' \in Forks => chain' \in Seq(Accepting)
      BY <1>0, LedgerAssumption DEF TypeOK, Worker
    <2>4. Len(chain) \in Nat /\ Len(work[v].seen) \in Nat
          /\ (chain' \in Forks => Len(chain') \in Nat)
      BY <2>3
    <2> QED BY <2>1, <2>2, <2>4 DEF Extends
  <1> QED BY <1>1, <1>2, <1>3

(* One turn of the walk keeps a goroutine on its way to the linked block. *)
LEMMA LinkWalk ==
    ASSUME LedgerInv, LinkInv, Reliable, NEW w \in Workers, Walk(w)
    PROVE  /\ LinkedWorker(work[w])'
           /\ DuplicateWorker(work[w])'
           /\ SeenIsPrefix(work[w])'
  <1> DEFINE p == work[w]
             b == p.blk
             a == p.seen[p.pos]
  <1>0. TypeOK /\ RewardIsReal /\ p.pc = "walk"
    BY DEF LedgerInv, Walk
  <1>1. /\ p \in Worker /\ WorkerOK(p) /\ b \in Known /\ b \in Blocks /\ a \in Accepting
        /\ p.attempt < MaxAttempts /\ p.pos \in 1..Len(p.seen) /\ p.seen \in Seq(Accepting)
        /\ p.seen \in Forks
    BY <1>0, SeenType, LedgerAssumption DEF WorkerOK, Worker
  <1>2. /\ work' = [work EXCEPT ![w] = Inspect(p, a)]
        /\ UNCHANGED <<rows, chain, toRecover, crashes>>
    BY DEF Walk, Reliable
  <1>3. work'[w] = Inspect(p, a)
    BY <1>0, <1>2 DEF TypeOK
  <1>4. Extends(p.seen, chain)
    BY <1>0 DEF LinkInv, SeenIsPrefix
  <1> DEFINE k == rows[b].accepting
  (* For a linked row, the linked block is still ahead. *)
  <1>5. ASSUME k # NoHash
        PROVE  /\ b \in Blues[k]
               /\ \E i \in 1..Len(p.seen) : p.pos <= i /\ p.seen[i] = k
    BY <1>0, <1>1, <1>5 DEF RewardIsReal, LinkInv, LinkedWorker
  <1>6. ASSUME k # NoHash, b \in Blues[a] \union Reds[a]
        PROVE  a = k
    <2>1. PICK i \in 1..Len(p.seen) : p.pos <= i /\ p.seen[i] = k
      BY <1>5, <1>6
    <2>2. i = p.pos
      BY <1>1, <1>5, <1>6, <2>1, MergedOnce
    <2> QED BY <2>1, <2>2
  <1> HIDE DEF p, b, a, k
  <1>7. ASSUME NEW q, work'[w] = q, q.blk = b,
               q.pc \in {"walk", "book"} => q.seen = p.seen,
               q.pc = "final" /\ k # NoHash => q.status = "blue" /\ q.reward = Paid[k][Payee[b]],
               q.pc = "walk" /\ k # NoHash =>
                    \E i \in 1..Len(p.seen) : q.pos <= i /\ p.seen[i] = k,
               q.pc = "final" /\ q.status = "merge_duplicate" => HasOwner(b)
        PROVE  /\ LinkedWorker(work[w])'
               /\ DuplicateWorker(work[w])'
               /\ SeenIsPrefix(work[w])'
    <2>1. rows' = rows /\ chain' = chain
      BY <1>2
    <2>2. LinkedWorker(work[w])'
      BY <1>7, <2>1 DEF LinkedWorker, k
    <2>3. DuplicateWorker(work[w])'
      BY <1>7, <2>1 DEF DuplicateWorker, HasOwner, OwnsPayment, Pending
    <2>4. SeenIsPrefix(work[w])'
      BY <1>4, <1>7, <2>1 DEF SeenIsPrefix
    <2> QED BY <2>2, <2>3, <2>4
  <1>8. CASE b \in Reds[a] \ Blues[a] /\ Inspect(p, a) = Conclude(p, "red", 0)
    <2>1. k = NoHash
      BY <1>5, <1>6, <1>8
    <2>2. "red" \in Status /\ 0 \in Nat
      BY DEF Status
    <2> QED BY <1>1, <1>3, <1>7, <1>8, <2>1, <2>2, ConcludeType DEF b
  <1>9. CASE b \notin Reds[a] \union Blues[a] /\ Inspect(p, a) = KeepWalking(p)
    <2> DEFINE q == KeepWalking(p)
    <2>1. /\ q.blk = b /\ q.pc \in {"attempt", "walk", "final"} /\ q.status = "red"
          /\ q.pc = "walk" => q.seen = p.seen /\ q.pos = p.pos + 1
      <3>1. p.status = "red"
        BY <1>0 DEF LedgerInv, LocalOK, p
      <3> QED BY <1>0, <1>1, <3>1, KeepWalkingType DEF b
    <2>2. ASSUME k # NoHash
          PROVE  /\ q.pc = "walk"
                 /\ \E i \in 1..Len(p.seen) : q.pos <= i /\ p.seen[i] = k
      <3>1. PICK i \in 1..Len(p.seen) : p.pos <= i /\ p.seen[i] = k
        BY <1>5, <2>2
      <3>2. p.pos # i
        BY <1>5, <1>9, <2>2, <3>1 DEF a
      <3>3. p.pos + 1 <= i /\ p.pos < Len(p.seen)
        BY <1>1, <3>1, <3>2
      <3>4. q = [p EXCEPT !.pos = p.pos + 1]
        BY <3>3 DEF KeepWalking
      <3>5. q.pc = "walk"
        BY <1>0, <1>1, <3>4 DEF Worker
      <3> QED BY <2>1, <3>1, <3>3, <3>5
    <2>3. work'[w] = q
      BY <1>3, <1>9
    <2> HIDE DEF q
    <2> QED BY <1>7, <2>1, <2>2, <2>3
  <1>10. CASE b \in Blues[a] /\ Inspect(p, a) = Conclude(p, "blue", 0) /\ Paid[a][Payee[b]] = 0
    <2>1. k # NoHash => Paid[k][Payee[b]] = 0
      BY <1>6, <1>10
    <2>2. "blue" \in Status /\ 0 \in Nat
      BY DEF Status
    <2> QED BY <1>1, <1>3, <1>7, <1>10, <2>1, <2>2, ConcludeType DEF b
  <1>11. CASE /\ b \in Blues[a] /\ Inspect(p, a) = Conclude(p, "merge_duplicate", 0)
              /\ AlreadyBooked(b, a)
    <2>1. PICK c \in Blocks \ {b} : Payee[c] = Payee[b] /\ rows[c].accepting = a
      BY <1>11 DEF AlreadyBooked
    <2>2. a # NoHash
      BY <1>1, LedgerAssumption
    <2>3. k = NoHash
      <3> SUFFICES ASSUME k # NoHash PROVE FALSE
        OBVIOUS
      <3>1. k = a
        BY <1>6, <1>11
      <3> QED BY <1>1, <2>1, <2>2, <3>1 DEF LinkInv, UniqueLink, k
    <2>4. OwnsPayment(c, b, a)
      <3>1. c \in Blues[a]
        BY <1>0, <2>1, <2>2 DEF RewardIsReal
      <3> QED BY <1>11, <2>1, <2>2, <3>1 DEF LinkInv, LinkedRow, OwnsPayment
    <2>5. HasOwner(b)
      BY <1>1, <2>1, <2>4 DEF HasOwner
    <2>6. "merge_duplicate" \in Status /\ 0 \in Nat
      BY DEF Status
    <2> QED BY <1>1, <1>3, <1>7, <1>11, <2>3, <2>5, <2>6, ConcludeType DEF b
  <1>12. CASE Inspect(p, a) = [p EXCEPT !.pc = "book"]
    BY <1>1, <1>3, <1>7, <1>12, BookType DEF b
  <1> QED BY <1>0, <1>1, <1>8, <1>9, <1>10, <1>11, <1>12, InspectCases DEF b, p

LEMMA LinkNext == Reliable /\ LedgerInv /\ LinkInv /\ [Next]_vars => LinkInv'
  <1> SUFFICES ASSUME Reliable, LedgerInv, LinkInv, [Next]_vars PROVE LinkInv'
    OBVIOUS
  <1> DEFINE Good(v) == /\ LinkedWorker(work[v])
                        /\ DuplicateWorker(work[v])
                        /\ SeenIsPrefix(work[v])
  <1>0. TypeOK /\ OneFetcher /\ RewardIsReal /\ RowsOK
        /\ \A w \in Workers : LocalOK(work[w])
    BY DEF LedgerInv
  <1>1. SUFFICES \A v \in Workers : Good(v)'
    BY LinkRowsNext DEF LinkInv
  <1>2. ASSUME NEW v \in Workers, work'[v].pc \in {"idle", "attempt"} PROVE Good(v)'
    BY <1>2 DEF LinkedWorker, DuplicateWorker, SeenIsPrefix
  (* The goroutines a step does not touch. *)
  <1>3. ASSUME NEW v \in Workers, work'[v] = work[v] PROVE Good(v)'
    <2>1. CASE work[v].pc = "idle"
      BY <1>2, <1>3, <2>1
    <2>2. CASE work[v].pc # "idle"
      <3>1. work[v].blk \in Blocks
        BY <1>0, <2>2 DEF TypeOK, WorkerOK
      <3>2. rows'[work[v].blk].accepting = rows[work[v].blk].accepting
        <4>1. CASE rows[work[v].blk].accepting # NoHash
          BY <3>1, <4>1, LinkStays
        <4>2. CASE rows[work[v].blk].accepting = NoHash
          <5>1. ASSUME NEW w \in Workers, Book(w) PROVE work[w].blk # work[v].blk
            <6>1. work[w].pc # "idle" /\ work[w].blk \in Known
              BY <5>1, BookFacts DEF Book
            <6>2. work[w].pc = "book" /\ work'[w].pc = "final"
              BY <1>0, <5>1 DEF Book, Conclude, TypeOK, Worker
            <6> QED BY <1>0, <1>3, <2>2, <6>1, <6>2 DEF OneFetcher
          <5> QED BY <3>1, <4>2, <5>1, RowStep
        <4> QED BY <4>1, <4>2
      <3> QED BY <1>3, <3>2, LinkOthersNext
    <2> QED BY <2>1, <2>2
  (* The goroutine that takes the step. *)
  <1>4. ASSUME NEW w \in Workers, Attempt(w) PROVE Good(w)'
    <2>1. /\ work[w] \in Worker /\ WorkerOK(work[w]) /\ work[w].pc = "attempt"
          /\ rows' = rows /\ chain' = chain
      BY <1>0, <1>4 DEF Attempt, TypeOK
    <2>2. work[w].attempt < MaxAttempts /\ work[w].status = "red" /\ work[w].blk \in Blocks
      BY <1>0, <2>1 DEF WorkerOK, LocalOK
    <2>3. CASE work' = [work EXCEPT ![w] = StartWalk(work[w])]
      <3> DEFINE q == StartWalk(work[w])
      <3>1. /\ work'[w] = q /\ q.pc = "walk" /\ q.blk = work[w].blk
            /\ q.seen = chain /\ q.pos = 1
        BY <1>0, <2>1, <2>3, StartWalkType DEF TypeOK
      <3> HIDE DEF q
      <3>2. Extends(chain, chain)
        <4>1. Len(chain) \in Nat
          BY <1>0, LedgerAssumption DEF TypeOK
        <4> QED BY <4>1 DEF Extends
      <3>3. rows[work[w].blk].accepting # NoHash =>
                \E i \in 1..Len(chain) : 1 <= i /\ chain[i] = rows[work[w].blk].accepting
        BY <2>2 DEF LinkInv, LinkedRow, In
      <3> QED BY <2>1, <3>1, <3>2, <3>3 DEF LinkedWorker, DuplicateWorker, SeenIsPrefix
    <2>4. CASE work' = [work EXCEPT ![w] = NextAttempt(work[w])]
               /\ (work[w].blk \notin Known \/ chain = <<>> \/ rows[work[w].blk].status = "absent")
      <3> DEFINE q == NextAttempt(work[w])
      <3>1. /\ work'[w] = q /\ q.pc \in {"attempt", "final"} /\ q.blk = work[w].blk
            /\ q.status = "red"
        BY <1>0, <2>1, <2>2, <2>4, NextAttemptType DEF TypeOK
      <3> HIDE DEF q
      (* A linked row has a block the chain merged, so the attempt succeeds. *)
      <3>2. rows[work[w].blk].accepting = NoHash
        <4> SUFFICES ASSUME rows[work[w].blk].accepting # NoHash PROVE FALSE
          OBVIOUS
        <4>1. PICK i \in 1..Len(chain) : chain[i] = rows[work[w].blk].accepting
          BY <2>2 DEF LinkInv, LinkedRow, In
        <4>2. chain # <<>>
          BY <4>1
        <4>3. rows[work[w].blk].status # "absent"
          BY <2>2 DEF LinkInv, LinkedRow, Pending
        <4>4. rows[work[w].blk].accepting \in Accepting
          BY <1>0, <2>2 DEF TypeOK, Row
        <4>5. work[w].blk \in Known
          BY <1>0, <2>2, <4>4, LedgerAssumption DEF RewardIsReal
        <4> QED BY <2>4, <4>2, <4>3, <4>5
      <3> QED BY <2>1, <3>1, <3>2 DEF LinkedWorker, DuplicateWorker, SeenIsPrefix
    <2> QED BY <1>4, <2>3, <2>4 DEF Attempt, Reliable
  <1>5. ASSUME NEW w \in Workers, Book(w) PROVE Good(w)'
    <2> DEFINE a == work[w].seen[work[w].pos]
               b == work[w].blk
               q == Conclude(work[w], "blue", Paid[a][Payee[b]])
    <2>1. /\ work[w].pc = "book" /\ SetAcceptingBlockHash(b, a)
          /\ work' = [work EXCEPT ![w] = q]
      BY <1>5 DEF Book
    <2>2. /\ work[w] \in Worker /\ b \in Blocks /\ Paid[a][Payee[b]] \in Nat
          /\ "blue" \in Status
      BY <1>0, <2>1, SeenType, LedgerAssumption DEF Status
    <2>3. rows[b].accepting # NoHash => rows[b].accepting = a
      BY <1>5, BookFacts
    <2>4. rows'[b].accepting # NoHash => rows'[b].accepting = a
      <3>1. CASE rows[b].accepting # NoHash
        BY <2>2, <2>3, <3>1, LinkStays
      <3>2. CASE rows[b].accepting = NoHash
        <4>1. rows'[b].accepting \in {rows[b].accepting, a}
          BY <1>0, <2>1, <2>2 DEF SetAcceptingBlockHash, TypeOK, Row
        <4> QED BY <3>2, <4>1
      <3> QED BY <3>1, <3>2
    <2> HIDE DEF a
    <2>5. /\ work'[w] = q /\ q.pc = "final" /\ q.blk = b /\ q.status = "blue"
          /\ q.reward = Paid[a][Payee[b]]
      BY <1>0, <2>1, <2>2, ConcludeType DEF TypeOK
    <2> HIDE DEF b, q
    <2> QED BY <2>4, <2>5 DEF LinkedWorker, DuplicateWorker, SeenIsPrefix
  <1>6. ASSUME NEW w \in Workers, Fetch(w) PROVE Good(w)'
    <2>1. CASE Walk(w)
      BY <2>1, LinkWalk
    <2>2. CASE Final(w)
      <3>1. work'[w].pc = "idle"
        BY <1>0, <2>2, IdleType DEF Final, TypeOK
      <3> QED BY <1>2, <3>1
    <2> QED BY <1>4, <1>5, <1>6, <2>1, <2>2 DEF Fetch
  <1> TAKE v \in Workers
  <1>7. ASSUME NEW w \in Workers, Fetch(w) PROVE Good(v)'
    <2>1. CASE v = w
      BY <1>6, <1>7, <2>1
    <2>2. CASE v # w
      <3>1. work'[v] = work[v]
        BY <1>0, <1>7, <2>2 DEF Fetch, Attempt, Walk, Book, Final, TypeOK
      <3> QED BY <1>3, <3>1
    <2> QED BY <2>1, <2>2
  <1>8. ASSUME NEW w \in Workers, NEW b \in Blocks, Spawn(w, b) PROVE Good(v)'
    <2>1. v = w => work'[v].pc = "attempt"
      BY <1>0, <1>8, FreshType DEF Spawn, TypeOK
    <2>2. v # w => work'[v] = work[v]
      BY <1>0, <1>8 DEF Spawn, TypeOK
    <2> QED BY <1>2, <1>3, <2>1, <2>2
  <1>9. CASE Restart
    <2>1. work'[v].pc = "idle"
      BY <1>9, IdleType DEF Restart
    <2> QED BY <1>2, <2>1
  <1>10. CASE ChainMove \/ UNCHANGED vars
    BY <1>3, <1>10 DEF ChainMove, vars
  <1> HIDE DEF Good
  <1> QED BY <1>7, <1>8, <1>9, <1>10 DEF Next, Record, Recover

(* As long as calls do not fail and the chain only grows, a row is marked    *)
(* merge_duplicate only if another row of the wallet has, or will get, the   *)
(* payment it gave up: however the goroutines interleave and wherever the    *)
(* bridge is restarted, the payment is in the table.                         *)
THEOREM DuplicateHasOwnerAlways == Reliable => (Spec => []DuplicateHasOwner)
  <1> SUFFICES ASSUME Reliable PROVE Spec => []DuplicateHasOwner
    OBVIOUS
  <1>1. LedgerInv /\ LinkInv /\ [Next]_vars => LinkInv'
    BY LinkNext
  <1>2. LinkInv => DuplicateHasOwner
    BY DEF LinkInv
  <1> QED BY <1>1, <1>2, LinkInit, LedgerInvariant, PTL DEF Spec

-----------------------------------------------------------------------------
(* The refinement of RewardBook, as long as calls do not fail and the chain  *)
(* only grows: the table the ledger starts with is the book's, and each of   *)
(* its steps is a step of the book or leaves the table alone.  To the        *)
(* invariants above it adds what a goroutine that concluded blue knows.      *)

PaysFor(b, reward) == \E a \in Accepting : b \in Blues[a] /\ reward = Paid[a][Payee[b]]

BlueWorker(p) == p.pc = "final" /\ p.status = "blue" => PaysFor(p.blk, p.reward)

BlueInv == \A w \in Workers : BlueWorker(work[w])

LEMMA BlueInit == Init => BlueInv
  BY IdleType DEF Init, BlueInv, BlueWorker

(* A goroutine that goes on with its work has not concluded blue. *)
LEMMA GoesOnRed ==
    ASSUME NEW p \in Worker, p.status = "red", p.attempt < MaxAttempts
    PROVE  /\ BlueWorker(NextAttempt(p))
           /\ p.pc = "walk" /\ p.pos \in 1..Len(p.seen) => BlueWorker(KeepWalking(p))
  <1>1. NextAttempt(p).status = "red"
    BY NextAttemptType
  <1>2. ASSUME p.pc = "walk", p.pos \in 1..Len(p.seen)
        PROVE  KeepWalking(p).status = "red"
    BY <1>2, KeepWalkingType
  <1> QED BY <1>1, <1>2 DEF BlueWorker

(* One that concludes blue does so from a chain block that merged its block. *)
LEMMA ConcludesBlue ==
    ASSUME NEW p \in Worker, NEW a \in Accepting, p.blk \in Blocks, p.blk \in Blues[a],
           NEW reward, reward = Paid[a][Payee[p.blk]]
    PROVE  BlueWorker(Conclude(p, "blue", reward))
  <1>1. reward \in Nat /\ "blue" \in Status
    BY LedgerAssumption DEF Status
  <1>2. Conclude(p, "blue", reward).blk = p.blk /\ Conclude(p, "blue", reward).reward = reward
    BY <1>1, ConcludeType
  <1>3. PaysFor(p.blk, reward)
    BY DEF PaysFor
  <1> QED BY <1>2, <1>3 DEF BlueWorker

(* The goroutine that takes a step, and the others. *)
LEMMA BlueStep ==
    ASSUME BlueInv, TypeOK, NEW w \in Workers, NEW q,
           work' = [work EXCEPT ![w] = q], BlueWorker(q)
    PROVE  BlueInv'
  BY DEF BlueInv, BlueWorker, PaysFor, TypeOK

LEMMA BlueNext == LedgerInv /\ BlueInv /\ [Next]_vars => BlueInv'
  <1> SUFFICES ASSUME LedgerInv, BlueInv, [Next]_vars PROVE BlueInv'
    OBVIOUS
  <1>0. TypeOK /\ \A w \in Workers : /\ work[w] \in Worker
                                     /\ WorkerOK(work[w]) /\ LocalOK(work[w])
    BY DEF LedgerInv, TypeOK
  <1>1. ASSUME NEW w \in Workers, Attempt(w) PROVE BlueInv'
    <2>1. work[w].pc = "attempt" /\ work[w].status = "red" /\ work[w].attempt < MaxAttempts
      BY <1>0, <1>1 DEF Attempt, LocalOK, WorkerOK
    <2>2. BlueWorker(NextAttempt(work[w]))
      BY <1>0, <2>1, GoesOnRed
    <2>3. BlueWorker(StartWalk(work[w]))
      BY <1>0, StartWalkType DEF BlueWorker
    <2>4. work' = [work EXCEPT ![w] = NextAttempt(work[w])]
          \/ work' = [work EXCEPT ![w] = StartWalk(work[w])]
      BY <1>1 DEF Attempt
    <2> QED BY <1>0, <2>2, <2>3, <2>4, BlueStep
  <1>2. ASSUME NEW w \in Workers, Walk(w) PROVE BlueInv'
    <2> DEFINE p == work[w]
               a == p.seen[p.pos]
    <2>1. /\ p \in Worker /\ WorkerOK(p) /\ p.pc = "walk" /\ p.status = "red"
          /\ p.attempt < MaxAttempts /\ p.pos \in 1..Len(p.seen) /\ a \in Accepting
      BY <1>0, <1>2, SeenType DEF Walk, LocalOK, WorkerOK
    <2>2. BlueWorker(KeepWalking(p))
      BY <2>1, GoesOnRed
    <2>3. BlueWorker(Conclude(p, "red", 0)) /\ BlueWorker(Conclude(p, "merge_duplicate", 0))
      BY <2>1, ConcludeType DEF BlueWorker, Status
    <2>4. ASSUME p.blk \in Blues[a], Paid[a][Payee[p.blk]] = 0
          PROVE  BlueWorker(Conclude(p, "blue", 0))
      <3>1. p.blk \in Blocks
        BY <2>1 DEF WorkerOK
      <3> QED BY <2>1, <2>4, <3>1, ConcludesBlue
    <2>5. BlueWorker([p EXCEPT !.pc = "book"])
      BY <2>1, BookType DEF BlueWorker
    <2>6. BlueWorker(Inspect(p, a))
      BY <1>0, <2>1, <2>2, <2>3, <2>4, <2>5, InspectCases
    <2>7. work' = [work EXCEPT ![w] = Inspect(p, a)]
          \/ work' = [work EXCEPT ![w] = KeepWalking(p)]
      BY <1>2 DEF Walk
    <2> QED BY <1>0, <2>2, <2>6, <2>7, BlueStep
  <1>3. ASSUME NEW w \in Workers, Book(w) PROVE BlueInv'
    <2> DEFINE p == work[w]
               a == p.seen[p.pos]
               q == Conclude(p, "blue", Paid[a][Payee[p.blk]])
    <2>1. p \in Worker /\ p.pc = "book" /\ p.blk \in Blocks /\ a \in Accepting
      BY <1>0, <1>3, SeenType, LedgerAssumption DEF Book
    <2>2. p.blk \in Blues[a]
      BY <1>0, <2>1 DEF LocalOK
    <2>3. BlueWorker(q)
      BY <2>1, <2>2, ConcludesBlue
    <2>4. work' = [work EXCEPT ![w] = q]
      BY <1>3 DEF Book
    <2> QED BY <1>0, <2>3, <2>4, BlueStep
  <1>4. ASSUME NEW w \in Workers, Final(w) PROVE BlueInv'
    <2>1. BlueWorker(Idle)
      BY IdleType DEF BlueWorker
    <2> QED BY <1>0, <1>4, <2>1, BlueStep DEF Final
  <1>5. ASSUME NEW w \in Workers, NEW b \in Blocks, Record(w, b) \/ Recover(w, b)
        PROVE  BlueInv'
    <2>1. BlueWorker(Fresh(b))
      BY FreshType DEF BlueWorker
    <2>2. work' = [work EXCEPT ![w] = Fresh(b)]
      BY <1>5 DEF Record, Recover, Spawn
    <2> QED BY <1>0, <2>1, <2>2, BlueStep
  <1>6. ASSUME Restart PROVE BlueInv'
    BY <1>6, IdleType DEF Restart, BlueInv, BlueWorker
  <1>7. ASSUME work' = work PROVE BlueInv'
    BY <1>7 DEF BlueInv, BlueWorker, PaysFor
  <1> QED BY <1>1, <1>2, <1>3, <1>4, <1>5, <1>6, <1>7 DEF Next, Fetch, ChainMove, vars

-----------------------------------------------------------------------------
(* What a row that is not settled holds. *)
LEMMA OpenRow ==
    ASSUME LedgerInv, LinkInv, NEW b \in Blocks
    PROVE  /\ rows[b].status = "absent" => rows[b] = TableBook!Absent
           /\ Pending(b) /\ rows[b].accepting = NoHash => rows[b] = TableBook!Recorded
  <1>1. rows[b] \in Row
    BY DEF LedgerInv, TypeOK
  <1>2. rows[b].status # "blue" => rows[b].reward = 0
    BY <1>1 DEF LedgerInv, RewardIsReal, Row
  <1>3. rows[b].status = "absent" => rows[b].accepting = NoHash
    BY DEF LinkInv, LinkedRow, Pending
  <1> QED BY <1>1, <1>2, <1>3 DEF Row, Pending, TableBook!Absent, TableBook!Recorded

(* The three kinds of step that change the table. *)
LEMMA RecordIsBooks ==
    ASSUME LedgerInv, LinkInv, NEW w \in Workers, NEW b \in Blocks, Record(w, b)
    PROVE  [TableBook!Next]_rows
  <1>1. CASE rows[b].status # "absent"
    BY <1>1 DEF Record, RecordBlock
  <1>2. CASE rows[b].status = "absent"
    <2>1. rows[b] = TableBook!Absent
      BY <1>2, OpenRow
    <2>2. TableBook!Record(b)
      BY <1>2, <2>1 DEF Record, RecordBlock, NewRow, TableBook!Record, TableBook!Recorded
    <2> QED BY <2>2 DEF TableBook!Next
  <1> QED BY <1>1, <1>2

LEMMA BookIsBooks ==
    ASSUME LedgerInv, LinkInv, NEW w \in Workers, Book(w)
    PROVE  [TableBook!Next]_rows
  <1> DEFINE b == work[w].blk
             a == work[w].seen[work[w].pos]
  <1>1. /\ b \in Blocks /\ a \in Accepting /\ b \in Blues[a] /\ Pending(b)
        /\ rows[b].accepting # NoHash => rows[b].accepting = a
    BY BookFacts
  <1>2. Paid[a][Payee[b]] > 0
    BY DEF LedgerInv, LocalOK, Book
  <1>3. rows \in [Blocks -> Row]
    BY DEF LedgerInv, TypeOK
  <1>4. SetAcceptingBlockHash(b, a)
    BY DEF Book
  <1>5. CASE rows' = rows
    BY <1>5
  <1>6. CASE IndexAllows(b, a) /\ rows' = [rows EXCEPT ![b].accepting = a]
    <2>1. CASE rows[b].accepting = NoHash
      <3>1. rows[b] = TableBook!Recorded
        BY <1>1, <2>1, OpenRow
      <3>2. rows' = [rows EXCEPT ![b] = [TableBook!Recorded EXCEPT !.accepting = a]]
        BY <1>6, <3>1
      <3>3. TableBook!Link(b, a)
        BY <1>1, <1>2, <1>6, <3>1, <3>2 DEF IndexAllows, TableBook!Link
      <3> QED BY <1>1, <3>3 DEF TableBook!Next
    <2>2. CASE rows[b].accepting # NoHash
      <3>1. rows[b] \in Row /\ rows[b].accepting = a
        BY <1>1, <1>3, <2>2
      <3> HIDE DEF a, b
      <3>2. [rows[b] EXCEPT !.accepting = a] = rows[b]
        BY <3>1 DEF Row
      <3>3. rows' = rows
        BY <1>1, <1>3, <1>6, <3>2
      <3> QED BY <3>3
    <2> QED BY <2>1, <2>2
  <1> QED BY <1>4, <1>5, <1>6 DEF SetAcceptingBlockHash

LEMMA FinalIsBooks ==
    ASSUME LedgerInv, LinkInv, BlueInv, [Next]_vars, NEW w \in Workers, Final(w)
    PROVE  [TableBook!Next]_rows
  <1> DEFINE p == work[w]
             b == p.blk
  <1>1. p.pc = "final" /\ UpdateReward(b, p.reward, p.status)
    BY DEF Final
  <1>2. TypeOK /\ rows \in [Blocks -> Row] /\ p \in Worker /\ b \in Blocks
    BY <1>1 DEF LedgerInv, TypeOK, WorkerOK
  <1>3. CASE rows' = rows
    BY <1>3
  <1>4. CASE rows[b].status # "absent" /\ rows' # rows
    <2>1. rows' = [rows EXCEPT ![b] = [status |-> p.status, reward |-> p.reward,
                                       accepting |-> rows[b].accepting]]
      BY <1>1, <1>4 DEF UpdateReward
    <2>2. rows'[b] # rows[b]
      BY <1>2, <1>4, <2>1
    <2>3. Pending(b)
      <3>1. ~Settled(b)
        BY <1>2, <2>2, SettledStep
      <3> QED BY <1>2, <1>4, <3>1 DEF Settled, Pending, Row, Status
    <2>4. TableBook!Settled(b, p.status, p.reward)
      BY <2>1 DEF TableBook!Settled
    <2>5. /\ p.status \in {"blue", "red", "merge_duplicate"}
          /\ p.status # "blue" => p.reward = 0
      BY <1>1, <1>2 DEF LedgerInv, LocalOK, Worker
    <2>6. rows[b].accepting # NoHash =>
             p.status = "blue" /\ p.reward = Paid[rows[b].accepting][Payee[b]]
      BY <1>1 DEF LinkInv, LinkedWorker
    <2>7. CASE p.status = "red"
      BY <1>2, <2>3, <2>4, <2>5, <2>6, <2>7 DEF Pending, TableBook!Settle, TableBook!Next
    <2>8. CASE p.status = "merge_duplicate"
      <3>1. HasOwner(b)
        BY <1>1, <2>8 DEF LinkInv, DuplicateWorker
      <3>2. TableBook!Claimed(b)
        BY <3>1 DEF HasOwner, OwnsPayment, TableBook!Claimed
      <3> QED BY <1>2, <2>3, <2>4, <2>5, <2>6, <2>8, <3>2
              DEF Pending, TableBook!Settle, TableBook!Next
    <2>9. CASE p.status = "blue"
      <3>1. \E a \in Accepting : /\ b \in Blues[a] /\ rows[b].accepting \in {NoHash, a}
                                 /\ p.reward = Paid[a][Payee[b]]
        <4>1. CASE rows[b].accepting = NoHash
          BY <1>1, <2>9, <4>1 DEF BlueInv, BlueWorker, PaysFor
        <4>2. CASE rows[b].accepting # NoHash
          <5>1. rows[b].accepting \in Accepting
            BY <1>2, <4>2 DEF Row
          <5>2. b \in Blues[rows[b].accepting]
            BY <1>2, <4>2 DEF LedgerInv, RewardIsReal
          <5> QED BY <2>6, <4>2, <5>1, <5>2
        <4> QED BY <4>1, <4>2
      <3>2. PICK a \in Accepting : /\ b \in Blues[a] /\ rows[b].accepting \in {NoHash, a}
                                   /\ p.reward = Paid[a][Payee[b]]
        BY <3>1
      <3>3. TableBook!Settled(b, "blue", Paid[a][Payee[b]])
        BY <2>4, <2>9, <3>2
      <3> QED BY <1>2, <2>3, <3>2, <3>3 DEF Pending, TableBook!Settle, TableBook!Next
    <2> QED BY <2>5, <2>7, <2>8, <2>9
  <1> QED BY <1>1, <1>3, <1>4 DEF UpdateReward

(* To its readers the table is a RewardBook: whatever goroutines and         *)
(* restarts do, each change of block_rewards records a block, links it to a  *)
(* payment nobody claimed, or settles it once and for a reason (db.go,       *)
(* fetchAndUpdateReward), as long as calls succeed and the chain only grows. *)
THEOREM LedgerImplementsBook == Reliable => (Spec => TableBook!Safety)
  <1> SUFFICES ASSUME Reliable PROVE Spec => TableBook!Safety
    OBVIOUS
  <1>1. Init => TableBook!Init
    BY DEF Init, NoRow, TableBook!Init, TableBook!Absent
  <1>2. LedgerInv /\ LinkInv /\ BlueInv /\ [Next]_vars => [TableBook!Next]_rows
    <2> SUFFICES ASSUME LedgerInv, LinkInv, BlueInv, [Next]_vars
                 PROVE  [TableBook!Next]_rows
      OBVIOUS
    <2>1. \/ rows' = rows
          \/ \E w \in Workers : Book(w) \/ Final(w)
          \/ \E w \in Workers, b \in Blocks : Record(w, b)
      BY DEF Next, Fetch, Attempt, Walk, Recover, Restart, ChainMove, vars
    <2> QED BY <2>1, RecordIsBooks, BookIsBooks, FinalIsBooks
  <1>3. LedgerInv /\ LinkInv /\ [Next]_vars => LinkInv'
    BY LinkNext
  <1>4. LedgerInv /\ BlueInv /\ [Next]_vars => BlueInv'
    BY BlueNext
  <1> QED BY <1>1, <1>2, <1>3, <1>4, LinkInit, BlueInit, LedgerInvariant, PTL
          DEF Spec, TableBook!Safety

=============================================================================
